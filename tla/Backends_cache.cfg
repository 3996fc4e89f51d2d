\* Two objects and two devices of one domain, through the back-end pci_init()
\* has chosen; permissions, registers and memory change.
SPECIFICATION BackendsSpec
CONSTANTS
  p1 = p1
  p2 = p2
  b1 = b1
  b2 = b2
  Ptrs = {p1, p2}
  Bdfs = {b1, b2}
  Domains = {0}
  Locs <- OneDomain
  Regs = {0, 1}
  Vals = {0, 1}
  Contents <- StripedContents
  Perms <- SomePerms
  Fds = {3, 4}
  Free = Free
  NULL = NULL
  NoFd = NoFd
  Closed = Closed
  Writeable = FALSE
  Glue = TRUE
  Fallible = {1}
SYMMETRY ObjectSymmetry
INVARIANTS NoLeak CacheIsTrue
PROPERTIES BothRefine 
