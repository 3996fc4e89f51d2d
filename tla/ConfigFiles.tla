---------------------------- MODULE ConfigFiles ----------------------------
(***************************************************************************)
(* The ground the Linux back-ends of libpci stand on: device files in the  *)
(* kernel, the process's descriptor table, the descriptor cache in struct  *)
(* pci_access, and the read and write glue of lib/pread.h.  SysfsConfig    *)
(* and ProcConfig add the back-ends' own decisions.                        *)
(***************************************************************************)
EXTENDS Naturals, FiniteSets

CONSTANTS
  Ptrs,       \* addresses malloc() returns for struct pci_dev
  Locs,       \* devices
  Regs,       \* positions in a device file, from 0
  Vals,       \* register contents
  Contents,   \* what the files can hold when the client starts
  Perms,      \* what the kernel may let the process do with the files
  Fds,        \* file descriptors the process can have
  Free,       \* no object at this address
  NULL,       \* the null pointer
  NoFd,       \* -1
  Closed,     \* the descriptor is not open
  Writeable,  \* a->writeable
  Glue,       \* TRUE in builds without pread(): lib/pread.h, do_##op
  Fallible    \* positions at which an operation on an open descriptor may fail
              \* or fall short (the upper ones, without privileges)

Files == Locs \X {"config", "vpd"}
Modes == {"ro", "rw"}

ASSUME SwitchAssumption == {Writeable, Glue} \subseteq BOOLEAN
ASSUME ValueAssumption ==
  /\ NULL \notin Ptrs
  /\ NoFd \notin Fds \cup Nat
  /\ Free \notin Locs
  /\ Regs \subseteq Nat /\ 0 \in Regs /\ Fallible \subseteq Regs
  /\ Contents \subseteq [Files -> [Regs -> Vals]]
  /\ Perms \subseteq [Files -> {"none", "ro", "rw"}]
  /\ Closed \notin [file : Files, mode : Modes, off : Nat]

VARIABLES
  dev,    \* the device each struct pci_dev stands for
  reg,    \* contents of the device files
  perm,   \* what the kernel lets the process do with each file
  table,  \* the process's descriptor table
  io,     \* fd, fd_vpd, fd_rw, cached_dev and fd_pos of struct pci_access
  out     \* the last call and what came of it

cvars == <<dev, reg, perm, table, io, out>>

Position == Nat \cup {NoFd}   \* a->fd_pos, -1 after a failed operation

IoState == [fd : Fds \cup {NoFd}, vpd : Fds \cup {NoFd}, rw : BOOLEAN,
            cached : Ptrs \cup {NULL}, pos : Position]
Opened == [file : Files, mode : Modes, off : Nat]

Raw == INSTANCE RawAccess

FilesInit ==
  /\ dev = [p \in Ptrs |-> Free]
  /\ reg \in Contents
  /\ perm \in Perms
  /\ table = [f \in Fds |-> Closed]
  /\ io = [fd |-> NoFd, vpd |-> NoFd, rw |-> FALSE, cached |-> NULL,
           pos |-> 0]
  /\ out = [op |-> "none"]

----------------------------------------------------------------------------
(***************************************************************************)
(* The kernel.  A pair of the descriptor table and the cache is passed     *)
(* from one helper of the back-end to the next.                            *)
(***************************************************************************)
State == [table |-> table, io |-> io]

Close(t, f) == IF f \in Fds THEN [t EXCEPT ![f] = Closed] ELSE t

MayOpen(file, mode) == perm[file] = "rw" \/ (perm[file] = "ro" /\ mode = "ro")

\* open(): an unused descriptor at offset 0, or -1 if the process has no right
\* to the file or no descriptor left.
Unused(t) == {f \in Fds : t[f] = Closed}
OpenFd(t, file, mode) ==
  IF MayOpen(file, mode) /\ Unused(t) # {} THEN CHOOSE f \in Unused(t) : TRUE
  ELSE NoFd
OpenTable(t, file, mode) ==
  [f \in Fds |-> IF f = OpenFd(t, file, mode)
                   THEN [file |-> file, mode |-> mode, off |-> 0] ELSE t[f]]

\* The administrator changes permissions; devices come and go ("none").
SetPerm ==
  /\ perm' \in Perms
  /\ UNCHANGED <<dev, reg, table, io, out>>

\* The device changes one of its configuration registers.
SetReg(l, x, v) ==
  /\ reg' = [reg EXCEPT ![<<l, "config">>][x] = v]
  /\ out' = [op |-> "hardware"]
  /\ UNCHANGED <<dev, perm, table, io>>

Kernel ==
  \/ SetPerm
  \/ \E l \in Locs, x \in Regs, v \in Vals : SetReg(l, x, v)

----------------------------------------------------------------------------
(***************************************************************************)
(* One read or write of one position.  With pread() and pwrite() the       *)
(* position goes to the kernel; the glue seeks unless fd_pos says that the *)
(* offset is right, and tracks the offset.  An operation is full, short or *)
(* an error; a short one moves nothing and counts as failed.               *)
(***************************************************************************)
Outcomes(x) == IF x \in Fallible THEN {"full", "short", "error"} ELSE {"full"}

At(s, f, x) == IF Glue /\ s.io.pos = x THEN s.table[f].off ELSE x

\* A fault: a short operation is taken for a full one.
AfterOpTooFar(s, f, x, r) ==
  IF ~Glue THEN s
  ELSE [table |-> [s.table EXCEPT ![f].off =
                     IF r = "full" THEN At(s, f, x) + 1 ELSE At(s, f, x)],
        io |-> [s.io EXCEPT !.pos = IF r = "error" THEN NoFd ELSE x + 1]]

AfterOp(s, f, x, r) ==
  IF ~Glue THEN s
  ELSE [table |-> [s.table EXCEPT ![f].off =
                     IF r = "full" THEN At(s, f, x) + 1 ELSE At(s, f, x)],
        io |-> [s.io EXCEPT !.pos = IF r = "error" THEN NoFd
                                    ELSE IF r = "full" THEN x + 1 ELSE x]]

Become(s) == table' = s.table /\ io' = s.io

\* The tail of a read method, after setup left state s and descriptor f.
FinishRead(op, p, x, s, f) ==
  /\ IF f = NoFd
       THEN out' = Raw!Failed(op, p, x) /\ Become(s)
       ELSE \E r \in Outcomes(x) :
              /\ out' = IF r = "full" /\ At(s, f, x) \in Regs
                          THEN Raw!Done(op, p, x,
                                        reg[s.table[f].file][At(s, f, x)])
                          ELSE Raw!Failed(op, p, x)
              /\ Become(AfterOp(s, f, x, r))
  /\ UNCHANGED <<dev, reg, perm>>

\* The tail of a write method.  The kernel refuses a write through a
\* descriptor that was opened for reading only.
FinishWrite(p, x, v, s, f) ==
  /\ IF f = NoFd
       THEN out' = Raw!Failed("write", p, x) /\ Become(s) /\ UNCHANGED reg
       ELSE \E r \in IF s.table[f].mode = "rw" THEN Outcomes(x) ELSE {"error"} :
              /\ IF r = "full" /\ At(s, f, x) \in Regs
                   THEN /\ out' = Raw!Done("write", p, x, v)
                        /\ reg' = [reg EXCEPT
                                     ![s.table[f].file][At(s, f, x)] = v]
                   ELSE out' = Raw!Failed("write", p, x) /\ UNCHANGED reg
              /\ Become(AfterOp(s, f, x, r))
  /\ UNCHANGED <<dev, perm>>

----------------------------------------------------------------------------
\* The descriptors the process has open.
OpenFds == {f \in Fds : table[f] # Closed}

TypeOK ==
  /\ dev \in [Ptrs -> Locs \cup {Free}]
  /\ reg \in [Files -> [Regs -> Vals]]
  /\ perm \in Perms
  /\ table \in [Fds -> Opened \cup {Closed}]
  /\ io \in IoState

\* No descriptor leaks: what is open is what struct pci_access knows of.
NoLeak == OpenFds = {io.fd, io.vpd} \cap Fds

\* With the glue, fd_pos is the kernel's offset unless it is -1.
OffsetKnown ==
  Glue /\ io.fd # NoFd /\ io.pos # NoFd => io.pos = table[io.fd].off

\* Raw access to the specified device, for any interleaving of objects.
Refines == Raw!Spec
============================================================================
