\* Two devices that differ in the domain only.
SPECIFICATION BackendsSpec
CONSTANTS
  p1 = p1
  p2 = p2
  b1 = b1
  b2 = b2
  Ptrs = {p1, p2}
  Bdfs = {b1, b2}
  Domains = {0, 1}
  Locs <- TwoDomains
  Regs = {0}
  Vals = {0, 1}
  Contents <- StripedContents
  Perms <- SomePerms
  Fds = {3, 4}
  Free = Free
  NULL = NULL
  NoFd = NoFd
  Closed = Closed
  Writeable = FALSE
  Glue = FALSE
  Fallible = {}
SYMMETRY ObjectSymmetry
INVARIANT OwnFile
