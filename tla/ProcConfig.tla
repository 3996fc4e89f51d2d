----------------------------- MODULE ProcConfig -----------------------------
(***************************************************************************)
(* The descriptor cache of the back-end for /proc/bus/pci (lib/proc.c).    *)
(* Two things set it apart from SysfsConfig.  A device's file is looked up *)
(* first under a name without the PCI domain.  And proc_cleanup_dev()      *)
(* stands in the slot of init_dev() in pm_linux_proc, so that it runs when *)
(* an object is allocated and not when it is freed: cached_dev dangles     *)
(* until its address is used again.                                        *)
(***************************************************************************)
EXTENDS ConfigFiles

CONSTANTS
  Bdfs,     \* bus, device and function
  Domains   \* PCI domains, among them 0

ASSUME LocationAssumption == Locs \subseteq Domains \X Bdfs /\ 0 \in Domains

\* The kernel names a device of domain 0 bus/dev.fn and any other one
\* domain:bus/dev.fn; the names proc_setup() tries are the short one and then,
\* if that cannot be opened, the long one.
ShortName(l) == <<<<0, l[2]>>, "config">>
LongName(l) == <<l, "config">>
HasShort(l) == <<0, l[2]>> \in Locs
HasLong(l) == l[1] # 0

MayOpenShort(l, mode) == HasShort(l) /\ MayOpen(ShortName(l), mode)
MayOpenLong(l, mode) == HasLong(l) /\ MayOpen(LongName(l), mode)

\* The second part of proc_setup(): the cache is p's from now on, also when
\* neither name can be opened.
Reopened(p, rw, t, pos) ==
  LET mode == IF rw THEN "rw" ELSE "ro"
      new == [io EXCEPT !.rw = rw, !.cached = p, !.pos = pos]
      l == dev[p]
      file == IF MayOpenShort(l, mode) THEN ShortName(l) ELSE LongName(l)
  IN IF MayOpenShort(l, mode) \/ MayOpenLong(l, mode)
       THEN [table |-> OpenTable(t, file, mode),
             io |-> [new EXCEPT !.fd = OpenFd(t, file, mode)]]
       ELSE [table |-> t, io |-> [new EXCEPT !.fd = NoFd]]

\* cached_dev == d && fd_rw >= rw
Mine(p, rw) == io.cached = p /\ (rw => io.rw)

\* Faults of proc_setup(): the old descriptor is not closed; a descriptor for
\* reading will do for writing.
SetupLeaking(p, rw) ==
  IF Mine(p, rw) THEN State ELSE Reopened(p, Writeable \/ rw, table, 0)
SetupAnyMode(p, rw) ==
  IF io.cached = p THEN State
  ELSE Reopened(p, Writeable \/ rw, Close(table, io.fd), 0)

\* proc_setup(): a new descriptor for another device and for the first write
\* after an opening for reading.
Setup(p, rw) ==
  IF Mine(p, rw) THEN State
  ELSE Reopened(p, Writeable \/ rw, Close(table, io.fd), 0)

\* proc_read() and proc_write()
Read(p, x) ==
  LET s == Setup(p, FALSE)
  IN dev[p] # Free /\ FinishRead("read", p, x, s, s.io.fd)

Write(p, x, v) ==
  LET s == Setup(p, TRUE)
  IN dev[p] # Free /\ FinishWrite(p, x, v, s, s.io.fd)

\* pci_read_vpd(): the back-end has no method for it.
ReadVpd(p, x) ==
  /\ dev[p] # Free
  /\ out' = Raw!Failed("vpd", p, x)
  /\ UNCHANGED <<dev, reg, perm, table, io>>

\* A fault: an allocation leaves cached_dev alone.
GetDevOnly(p, l) ==
  /\ dev[p] = Free
  /\ dev' = [dev EXCEPT ![p] = l]
  /\ out' = [op |-> "get", ptr |-> p]
  /\ UNCHANGED <<reg, perm, table, io>>

\* pci_alloc_dev() calls proc_cleanup_dev() as init_dev().
GetDev(p, l) ==
  /\ dev[p] = Free
  /\ dev' = [dev EXCEPT ![p] = l]
  /\ io' = IF io.cached = p THEN [io EXCEPT !.cached = NULL] ELSE io
  /\ out' = [op |-> "get", ptr |-> p]
  /\ UNCHANGED <<reg, perm, table>>

\* pci_free_dev() finds no cleanup_dev().
FreeDev(p) ==
  /\ dev[p] # Free
  /\ dev' = [dev EXCEPT ![p] = Free]
  /\ out' = [op |-> "free", ptr |-> p]
  /\ UNCHANGED <<reg, perm, table, io>>

\* pci_cleanup() with proc_cleanup(); the client then starts afresh with a
\* cleared struct pci_access.
Cleanup ==
  /\ dev' = [p \in Ptrs |-> Free]
  /\ table' = Close(table, io.fd)
  /\ io' = [io EXCEPT !.fd = NoFd, !.rw = FALSE, !.cached = NULL, !.pos = 0]
  /\ out' = [op |-> "cleanup"]
  /\ UNCHANGED <<reg, perm>>

Next ==
  \/ \E p \in Ptrs, x \in Regs : Read(p, x)
  \/ \E p \in Ptrs, x \in Regs, v \in Vals : Write(p, x, v)
  \/ \E p \in Ptrs, x \in Regs : ReadVpd(p, x)
  \/ \E p \in Ptrs, l \in Locs : GetDev(p, l)
  \/ \E p \in Ptrs : FreeDev(p)
  \/ Cleanup
  \/ Kernel

Spec == FilesInit /\ [][Next]_cvars

----------------------------------------------------------------------------
\* Although cached_dev may dangle, a descriptor that the next access of a live
\* object would use without opening anything is one for its own device.
ReuseIsSafe ==
  \A p \in Ptrs :
    dev[p] # Free /\ io.cached = p /\ io.fd # NoFd =>
      /\ table[io.fd] # Closed
      /\ table[io.fd].file = <<dev[p], "config">>
      /\ table[io.fd].mode = IF io.rw THEN "rw" ELSE "ro"

\* A write succeeds whenever the file can be opened for writing and the last
\* attempt to do so was not refused.
WriteWorks ==
  \A p \in Ptrs, x \in Regs, v \in Vals :
    Write(p, x, v) /\ x \notin Fallible
      /\ MayOpen(<<dev[p], "config">>, "rw")
      /\ ~(io.cached = p /\ io.fd = NoFd)
    => out'.ok
WriteableIsWritten == [][WriteWorks]_cvars

\* A read succeeds whenever the file can be opened for reading, unless an
\* access of the same object has been refused before and no other object has
\* been accessed since.
ReadWorks ==
  \A p \in Ptrs, x \in Regs :
    Read(p, x) /\ ~Writeable /\ x \notin Fallible
      /\ MayOpen(<<dev[p], "config">>, "ro")
      /\ ~(io.cached = p /\ io.fd = NoFd)
    => out'.ok
ReadableIsRead == [][ReadWorks]_cvars

\* The descriptor the back-end holds is for the device cached_dev stands for,
\* as pci.h:96 promises "Raw access to specified device".
OwnFile ==
  io.fd # NoFd /\ io.cached # NULL /\ dev[io.cached] # Free =>
    table[io.fd].file = <<dev[io.cached], "config">>
============================================================================
