---------------------------- MODULE SysfsConfig ----------------------------
(***************************************************************************)
(* The sysfs back-end's descriptor cache (lib/sysfs.c): sysfs_setup() and  *)
(* the read, write and VPD methods, sysfs_cleanup_dev() and                *)
(* sysfs_cleanup().  Library calls are sequential, so each is one step.    *)
(***************************************************************************)
EXTENDS ConfigFiles

\* A fault of the flush: descriptors that are cleared to 0.
FlushedToZero(s) ==
  [table |-> Close(Close(s.table, s.io.fd), s.io.vpd),
   io |-> [s.io EXCEPT !.fd = 0, !.vpd = 0, !.cached = NULL]]

\* sysfs_flush_cache()
Flushed(s) ==
  [table |-> Close(Close(s.table, s.io.fd), s.io.vpd),
   io |-> [s.io EXCEPT !.fd = NoFd, !.vpd = NoFd, !.cached = NULL]]

\* A fault of the test: another device's descriptors are kept.
ClaimedByAll(p, intent) ==
  IF intent = "write" /\ ~io.rw
    THEN [Flushed(State) EXCEPT !.io.cached = p]
    ELSE [State EXCEPT !.io.cached = p]

\* The first part of sysfs_setup(): the cache is given up for another device
\* and for the first write after an opening for reading.
Claimed(p, intent) ==
  IF io.cached # p \/ (intent = "write" /\ ~io.rw)
    THEN [Flushed(State) EXCEPT !.io.cached = p]
    ELSE State

OpenVpd(s, p) ==
  LET file == <<dev[p], "vpd">>
  IN [table |-> OpenTable(s.table, file, "ro"),
      io |-> [s.io EXCEPT !.vpd = OpenFd(s.table, file, "ro")]]

\* A fault: the file is always opened for writing.
OpenConfigToWrite(s, p, rw) ==
  LET file == <<dev[p], "config">>
  IN [table |-> OpenTable(s.table, file, "rw"),
      io |-> [s.io EXCEPT !.rw = TRUE, !.pos = 0,
                          !.fd = OpenFd(s.table, file, "rw")]]
OpenConfig(s, p, rw) ==
  LET file == <<dev[p], "config">>
      mode == IF rw THEN "rw" ELSE "ro"
  IN [table |-> OpenTable(s.table, file, mode),
      io |-> [s.io EXCEPT !.rw = rw, !.pos = 0,
                          !.fd = OpenFd(s.table, file, mode)]]

\* sysfs_setup(): the state it leaves; the descriptor is in io.vpd or io.fd.
Setup(p, intent) ==
  LET s == Claimed(p, intent)
  IN IF intent = "vpd"
       THEN IF s.io.vpd = NoFd THEN OpenVpd(s, p) ELSE s
       ELSE IF s.io.fd = NoFd
              THEN OpenConfig(s, p, Writeable \/ intent = "write") ELSE s

\* sysfs_read(), sysfs_write() and sysfs_read_vpd(); the last one does nothing
\* in builds that need the glue.
Read(p, x) ==
  LET s == Setup(p, "read")
  IN dev[p] # Free /\ FinishRead("read", p, x, s, s.io.fd)

Write(p, x, v) ==
  LET s == Setup(p, "write")
  IN dev[p] # Free /\ FinishWrite(p, x, v, s, s.io.fd)

ReadVpd(p, x) ==
  LET s == Setup(p, "vpd")
  IN /\ dev[p] # Free
     /\ IF Glue
          THEN out' = Raw!Failed("vpd", p, x)
               /\ UNCHANGED <<dev, reg, perm, table, io>>
          ELSE FinishRead("vpd", p, x, s, s.io.vpd)

\* pci_get_dev(): sysfs has no init_dev().
GetDev(p, l) ==
  /\ dev[p] = Free
  /\ dev' = [dev EXCEPT ![p] = l]
  /\ out' = [op |-> "get", ptr |-> p]
  /\ UNCHANGED <<reg, perm, table, io>>

\* A fault: the cache outlives the object.
FreeDevOnly(p) ==
  /\ dev[p] # Free
  /\ dev' = [dev EXCEPT ![p] = Free]
  /\ out' = [op |-> "free", ptr |-> p]
  /\ UNCHANGED <<reg, perm, table, io>>

\* pci_free_dev() with sysfs_cleanup_dev(); malloc() may reuse the address.
FreeDev(p) ==
  /\ dev[p] # Free
  /\ Become(IF io.cached = p THEN Flushed(State) ELSE State)
  /\ dev' = [dev EXCEPT ![p] = Free]
  /\ out' = [op |-> "free", ptr |-> p]
  /\ UNCHANGED <<reg, perm>>

\* pci_cleanup() frees the devices and calls sysfs_cleanup(); the client then
\* starts afresh with a cleared struct pci_access.
Cleanup ==
  /\ dev' = [p \in Ptrs |-> Free]
  /\ Become([Flushed(State) EXCEPT !.io.rw = FALSE, !.io.pos = 0])
  /\ out' = [op |-> "cleanup"]
  /\ UNCHANGED <<reg, perm>>

Next ==
  \/ \E p \in Ptrs, x \in Regs : Read(p, x)
  \/ \E p \in Ptrs, x \in Regs, v \in Vals : Write(p, x, v)
  \/ \E p \in Ptrs, x \in Regs : ReadVpd(p, x)
  \/ \E p \in Ptrs, l \in Locs : GetDev(p, l)
  \/ \E p \in Ptrs : FreeDev(p)
  \/ Cleanup
  \/ Kernel

Spec == FilesInit /\ [][Next]_cvars

----------------------------------------------------------------------------
\* The cached descriptors belong to the device of cached_dev, which is alive,
\* and the configuration descriptor has the mode that fd_rw states.
CacheOK ==
  /\ io.fd # NoFd =>
       /\ io.cached # NULL
       /\ dev[io.cached] # Free
       /\ table[io.fd] # Closed
       /\ table[io.fd].file = <<dev[io.cached], "config">>
       /\ table[io.fd].mode = IF io.rw THEN "rw" ELSE "ro"
  /\ io.vpd # NoFd =>
       /\ io.cached # NULL
       /\ dev[io.cached] # Free
       /\ table[io.vpd] # Closed
       /\ table[io.vpd].file = <<dev[io.cached], "vpd">>
  /\ io.cached # NULL => dev[io.cached] # Free

\* A failed attempt to open a device for writing does not get in the way of
\* reading it: whenever the file can be opened for reading, a read succeeds.
ReadWorks ==
  \A p \in Ptrs, x \in Regs :
    Read(p, x) /\ ~Writeable /\ x \notin Fallible
      /\ MayOpen(<<dev[p], "config">>, "ro")
    => out'.ok
ReadableIsRead == [][ReadWorks]_cvars

\* Likewise, whenever the file can be opened for writing, a write succeeds,
\* also where the cached descriptor can only read.
WriteWorks ==
  \A p \in Ptrs, x \in Regs, v \in Vals :
    Write(p, x, v) /\ x \notin Fallible /\ MayOpen(<<dev[p], "config">>, "rw")
    => out'.ok
WriteableIsWritten == [][WriteWorks]_cvars
============================================================================
