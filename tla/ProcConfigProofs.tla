-------------------------- MODULE ProcConfigProofs --------------------------
(***************************************************************************)
(* For any number of devices, objects and descriptors: the back-end for    *)
(* /proc/bus/pci leaks no descriptor and knows its offset, and, within one *)
(* domain, implements RawAccess although cached_dev may dangle.            *)
(***************************************************************************)
EXTENDS ProcConfig, TLAPS

\* The machines whose devices have distinct short names.
OneDomain == Locs \subseteq {0} \X Bdfs

\* What the descriptor is for is only known while an object lives at cached_dev:
\* that object's file, which is where the short name leads in one domain.
OwnDescriptor(s, d) ==
  s.io.cached # NULL /\ d[s.io.cached] # Free =>
    /\ s.table[s.io.fd].mode = IF s.io.rw THEN "rw" ELSE "ro"
    /\ OneDomain => s.table[s.io.fd].file = <<d[s.io.cached], "config">>

\* The inductive invariant, for a state that a helper of the back-end passes on
\* while the objects are d.
Good(s, d) ==
  /\ s.table \in [Fds -> Opened \cup {Closed}]
  /\ s.io \in IoState
  /\ s.io.vpd = NoFd
  /\ \A f \in Fds : s.table[f] # Closed <=> f = s.io.fd
  /\ s.io.fd # NoFd =>
       /\ OwnDescriptor(s, d)
       /\ Glue /\ s.io.pos # NoFd => s.io.pos = s.table[s.io.fd].off

Inv ==
  /\ dev \in [Ptrs -> Locs \cup {Free}]
  /\ reg \in [Files -> [Regs -> Vals]]
  /\ perm \in Perms
  /\ Good(State, dev)

\* The invariant is what the properties of ProcConfig need.
LEMMA InvImplies == Inv => TypeOK /\ NoLeak /\ OffsetKnown /\ (OneDomain => ReuseIsSafe)
<1> SUFFICES ASSUME Inv PROVE TypeOK /\ NoLeak /\ OffsetKnown /\ (OneDomain => ReuseIsSafe)
  OBVIOUS
<1> USE DEF Inv, Good, State
<1>1. TypeOK
  BY DEF TypeOK
<1>2. NoLeak
  BY ValueAssumption DEF NoLeak, OpenFds, IoState
<1>3. OffsetKnown
  BY DEF OffsetKnown
<1>4. OneDomain => ReuseIsSafe
  BY ValueAssumption DEF ReuseIsSafe, OwnDescriptor, IoState
<1>5. QED
  BY <1>1, <1>2, <1>3, <1>4

\* close() of the descriptor, if there is one, leaves none open.
LEMMA ClosedAll ==
  ASSUME Inv
  PROVE  \A f \in Fds : Close(table, io.fd)[f] = Closed
BY ValueAssumption DEF Inv, Good, State, Close, IoState

\* The names proc_setup() opens are those of files, and in one domain the first
\* is that of the device.
LEMMA Names ==
  ASSUME NEW l \in Locs
  PROVE  /\ HasShort(l) => ShortName(l) \in Files
         /\ LongName(l) \in Files
         /\ OneDomain => ShortName(l) = <<l, "config">>
<1>1. LongName(l) \in Files
  BY DEF LongName, Files
<1>2. HasShort(l) => ShortName(l) \in Files
  BY DEF HasShort, ShortName, Files
<1>3. OneDomain => <<0, l[2]>> = l
  BY DEF OneDomain
<1>4. QED
  BY <1>1, <1>2, <1>3 DEF ShortName

\* proc_setup(), second part: the cache is p's, with a new descriptor or none.
LEMMA ReopenedGood ==
  ASSUME Inv, NEW p \in Ptrs, dev[p] # Free, NEW rw \in BOOLEAN
  PROVE  /\ Good(Reopened(p, rw, Close(table, io.fd), 0), dev)
         /\ Reopened(p, rw, Close(table, io.fd), 0).io.cached = p
<1> DEFINE t == Close(table, io.fd)
           s == Reopened(p, rw, t, 0)
           l == dev[p]
           mode == IF rw THEN "rw" ELSE "ro"
           file == IF MayOpenShort(l, mode) THEN ShortName(l) ELSE LongName(l)
           opens == MayOpenShort(l, mode) \/ MayOpenLong(l, mode)
           f == IF opens THEN OpenFd(t, file, mode) ELSE NoFd
           entry == [file |-> file, mode |-> mode, off |-> 0]
<1>1. l \in Locs
  BY DEF Inv
<1>2. /\ s.io = [io EXCEPT !.rw = rw, !.cached = p, !.pos = 0, !.fd = f]
      /\ s.table = IF opens THEN OpenTable(t, file, mode) ELSE t
  BY DEF Reopened
<1>3. /\ file \in Files
      /\ opens /\ OneDomain => file = <<l, "config">>
  BY <1>1, Names DEF MayOpenShort, MayOpenLong, LongName
<1>4. entry \in Opened /\ entry # Closed
  BY <1>3, ValueAssumption DEF Opened, Modes
<1>5. /\ \A g \in Fds : t[g] = Closed
      /\ t \in [Fds -> Opened \cup {Closed}]
  BY ClosedAll DEF Inv, Good, State, Close
<1>6. f \in Fds \cup {NoFd}
  BY DEF OpenFd, Unused
<1>7. \A g \in Fds : s.table[g] = IF g = f THEN entry ELSE Closed
  BY <1>2, <1>5, ValueAssumption DEF OpenTable
<1>8. s.table \in [Fds -> Opened \cup {Closed}]
  BY <1>2, <1>4, <1>5 DEF OpenTable
<1>9. s.io = [fd |-> f, vpd |-> NoFd, rw |-> rw, cached |-> p, pos |-> 0]
  BY <1>2 DEF Inv, Good, State, IoState
<1>10. f # NoFd => opens
  OBVIOUS
<1> HIDE DEF s, f, t, opens
<1>11. s.io \in IoState
  BY <1>6, <1>9 DEF IoState, Position
<1>12. ASSUME f # NoFd
       PROVE  OwnDescriptor(s, dev) /\ s.io.pos = s.table[s.io.fd].off
  <2>1. s.table[s.io.fd] = entry
    BY <1>6, <1>7, <1>9, <1>12
  <2>2. QED
    BY <1>3, <1>9, <1>10, <1>12, <2>1 DEF OwnDescriptor
<1>13. \A g \in Fds : s.table[g] # Closed <=> g = f
  BY <1>4, <1>7
<1>14. Good(s, dev)
  BY <1>8, <1>9, <1>11, <1>12, <1>13 DEF Good
<1>15. QED
  BY <1>9, <1>14 DEF s, t

\* proc_setup() leaves a good state, whose cache is p's.
LEMMA SetupGood ==
  ASSUME Inv, NEW p \in Ptrs, dev[p] # Free, NEW rw \in BOOLEAN
  PROVE  Good(Setup(p, rw), dev) /\ Setup(p, rw).io.cached = p
<1>1. CASE Mine(p, rw)
  BY <1>1 DEF Setup, Mine, Inv, State
<1>2. CASE ~Mine(p, rw)
  BY <1>2, ReopenedGood, SwitchAssumption DEF Setup
<1>3. QED
  BY <1>1, <1>2

\* A read or write at x works at x, and leaves fd_pos and the offset in step.
LEMMA AfterOpGood ==
  ASSUME NEW d, NEW s, Good(s, d), NEW x \in Regs, NEW r, s.io.fd # NoFd
  PROVE  /\ At(s, s.io.fd, x) = x
         /\ Good(AfterOp(s, s.io.fd, x, r), d)
<1> DEFINE f == s.io.fd
<1>1. x \in Nat /\ x # NoFd /\ f \in Fds
  BY ValueAssumption DEF Good, IoState
<1>2. At(s, f, x) = x
  BY <1>1 DEF At, Good
<1>3. CASE ~Glue
  BY <1>2, <1>3 DEF AfterOp
<1>4. CASE Glue
  <2> DEFINE u == AfterOp(s, f, x, r)
             off == IF r = "full" THEN x + 1 ELSE x
             pos == IF r = "error" THEN NoFd ELSE off
  <2>1. s.table[f] \in Opened
    BY <1>1 DEF Good
  <2>2. /\ u.table = [s.table EXCEPT ![f].off = off]
        /\ u.io = [s.io EXCEPT !.pos = pos]
    BY <1>2, <1>4 DEF AfterOp
  <2>3. off \in Nat /\ pos \in Position /\ (pos # NoFd => pos = off)
    BY <1>1 DEF Position
  <2> HIDE DEF off, pos, u
  <2>4. /\ u.io \in IoState /\ u.io.fd = f /\ u.io.vpd = NoFd
        /\ u.io.cached = s.io.cached /\ u.io.rw = s.io.rw /\ u.io.pos = pos
    BY <2>2, <2>3 DEF Good, IoState
  <2>5. /\ u.table \in [Fds -> Opened \cup {Closed}]
        /\ u.table[f] \in Opened
        /\ u.table[f].file = s.table[f].file
        /\ u.table[f].mode = s.table[f].mode
        /\ u.table[f].off = off
        /\ \A g \in Fds : g # f => u.table[g] = s.table[g]
    BY <1>1, <2>1, <2>2, <2>3 DEF Good, Opened
  <2>6. \A g \in Fds : u.table[g] # Closed <=> g = u.io.fd
    BY <2>4, <2>5, ValueAssumption DEF Good, Opened
  <2>7. OwnDescriptor(u, d)
    BY <2>4, <2>5 DEF Good, OwnDescriptor
  <2>8. Good(u, d)
    BY <2>3, <2>4, <2>5, <2>6, <2>7 DEF Good
  <2>9. QED
    BY <1>2, <2>8 DEF u
<1>5. QED
  BY <1>3, <1>4

\* Adopting a good state makes the next state good.
LEMMA BecomeGood ==
  ASSUME NEW s, Good(s, dev), Become(s), dev' = dev
  PROVE  Good(State, dev)'
BY DEF Become, Good, State, OwnDescriptor

\* Where an operation leaves the descriptor table and the cache.
LEMMA OperationGood ==
  ASSUME Inv, NEW p \in Ptrs, NEW x \in Regs, dev[p] # Free, NEW s, NEW r,
         Good(s, dev), s.io.cached = p, s.io.fd # NoFd
  PROVE  /\ At(s, s.io.fd, x) = x
         /\ Good(AfterOp(s, s.io.fd, x, r), dev)
         /\ OneDomain => s.table[s.io.fd].file = <<dev[p], "config">>
<1>1. s.io.cached # NULL
  BY ValueAssumption
<1>2. OneDomain => s.table[s.io.fd].file = <<dev[p], "config">>
  BY <1>1 DEF Good, OwnDescriptor
<1>3. QED
  BY <1>2, AfterOpGood

\* proc_read() keeps the invariant, and reads its own device in one domain.
LEMMA ReadStep ==
  ASSUME Inv, NEW p \in Ptrs, NEW x \in Regs, Read(p, x)
  PROVE  Inv' /\ (OneDomain => Raw!Read("read", "config", p, x))
<1> DEFINE s == Setup(p, FALSE)
           f == s.io.fd
<1>1. /\ Good(s, dev) /\ s.io.cached = p /\ dev[p] # Free
      /\ FinishRead("read", p, x, s, f)
  BY SetupGood DEF Read
<1> HIDE DEF s
<1>2. UNCHANGED <<dev, reg, perm>>
  BY <1>1 DEF FinishRead
<1>3. CASE f = NoFd
  <2>1. out' = Raw!Failed("read", p, x) /\ Become(s)
    BY <1>1, <1>3 DEF FinishRead
  <2>2. Good(State, dev)'
    BY <1>1, <1>2, <2>1, BecomeGood
  <2>3. QED
    BY <1>1, <1>2, <2>1, <2>2 DEF Inv, Raw!Read
<1>4. CASE f # NoFd
  <2>1. PICK r \in Outcomes(x) :
          /\ out' = IF r = "full" /\ At(s, f, x) \in Regs
                      THEN Raw!Done("read", p, x, reg[s.table[f].file][At(s, f, x)])
                      ELSE Raw!Failed("read", p, x)
          /\ Become(AfterOp(s, f, x, r))
    BY <1>1, <1>4 DEF FinishRead
  <2>2. /\ At(s, f, x) = x /\ Good(AfterOp(s, f, x, r), dev)
        /\ OneDomain => s.table[f].file = <<dev[p], "config">>
    BY <1>1, <1>4, OperationGood
  <2>3. Good(State, dev)'
    BY <1>2, <2>1, <2>2, BecomeGood
  <2>4. OneDomain => out' \in {Raw!Failed("read", p, x),
                               Raw!Done("read", p, x, reg[<<dev[p], "config">>][x])}
    BY <2>1, <2>2
  <2>5. QED
    BY <1>1, <1>2, <2>3, <2>4 DEF Inv, Raw!Read
<1>5. QED
  BY <1>3, <1>4

\* proc_write(), likewise.  In several domains it may write to another device's
\* file, but to a file.
LEMMA WriteStep ==
  ASSUME Inv, NEW p \in Ptrs, NEW x \in Regs, NEW v \in Vals, Write(p, x, v)
  PROVE  Inv' /\ (OneDomain => Raw!Write(p, x, v))
<1> DEFINE s == Setup(p, TRUE)
           f == s.io.fd
<1>1. /\ Good(s, dev) /\ s.io.cached = p /\ dev[p] # Free
      /\ FinishWrite(p, x, v, s, f)
  BY SetupGood DEF Write
<1> HIDE DEF s
<1>2. UNCHANGED <<dev, perm>> /\ reg \in [Files -> [Regs -> Vals]]
  BY <1>1 DEF FinishWrite, Inv
<1>3. CASE f = NoFd
  <2>1. out' = Raw!Failed("write", p, x) /\ reg' = reg /\ Become(s)
    BY <1>1, <1>3 DEF FinishWrite
  <2>2. Good(State, dev)'
    BY <1>1, <1>2, <2>1, BecomeGood
  <2>3. QED
    BY <1>1, <1>2, <2>1, <2>2 DEF Inv, Raw!Write
<1>4. CASE f # NoFd
  <2>1. PICK r :
          /\ IF r = "full" /\ At(s, f, x) \in Regs
               THEN /\ out' = Raw!Done("write", p, x, v)
                    /\ reg' = [reg EXCEPT ![s.table[f].file][At(s, f, x)] = v]
               ELSE out' = Raw!Failed("write", p, x) /\ UNCHANGED reg
          /\ Become(AfterOp(s, f, x, r))
    BY <1>1, <1>4 DEF FinishWrite
  <2>2. /\ At(s, f, x) = x /\ Good(AfterOp(s, f, x, r), dev)
        /\ OneDomain => s.table[f].file = <<dev[p], "config">>
    BY <1>1, <1>4, OperationGood
  <2>3. Good(State, dev)'
    BY <1>2, <2>1, <2>2, BecomeGood
  <2>4. PICK file : file = s.table[f].file
    OBVIOUS
  <2>5. \/ out' = Raw!Failed("write", p, x) /\ reg' = reg
        \/ out' = Raw!Done("write", p, x, v) /\ reg' = [reg EXCEPT ![file][x] = v]
    BY <2>1, <2>2, <2>4
  <2>6. reg' \in [Files -> [Regs -> Vals]]
    BY <1>2, <2>5
  <2>7. QED
    BY <1>1, <1>2, <2>2, <2>3, <2>4, <2>5, <2>6 DEF Inv, Raw!Write
<1>5. QED
  BY <1>3, <1>4

\* Allocation clears a dangling cached_dev, which release has left behind.
LEMMA GetDevStep ==
  ASSUME Inv, NEW p \in Ptrs, NEW l \in Locs, GetDev(p, l)
  PROVE  Inv' /\ Raw!GetDev(p, l)
<1>1. /\ dev' = [dev EXCEPT ![p] = l] /\ table' = table
      /\ dev \in [Ptrs -> Locs \cup {Free}] /\ Good(State, dev)
  BY DEF GetDev, Inv
<1>2. /\ io' \in IoState /\ io'.fd = io.fd /\ io'.vpd = io.vpd /\ io'.rw = io.rw
      /\ io'.pos = io.pos
      /\ io'.cached = IF io.cached = p THEN NULL ELSE io.cached
  BY <1>1 DEF GetDev, Good, State, IoState
<1>3. io'.cached # NULL => io'.cached = io.cached /\ dev'[io.cached] = dev[io.cached]
  BY <1>1, <1>2 DEF Good, State, IoState
<1>4. io.fd # NoFd => OwnDescriptor(State, dev)'
  BY <1>1, <1>2, <1>3 DEF Good, State, OwnDescriptor
<1>5. Good(State, dev)'
  BY <1>1, <1>2, <1>4 DEF Good, State
<1>6. QED
  BY <1>1, <1>5 DEF Inv, GetDev, Raw!GetDev

LEMMA FreeDevStep ==
  ASSUME Inv, NEW p \in Ptrs, FreeDev(p)
  PROVE  Inv' /\ Raw!FreeDev(p)
<1>1. /\ dev' = [dev EXCEPT ![p] = Free] /\ UNCHANGED <<table, io>>
      /\ dev \in [Ptrs -> Locs \cup {Free}] /\ Good(State, dev)
  BY DEF FreeDev, Inv
<1>2. \A q \in Ptrs : dev'[q] # Free => dev'[q] = dev[q]
  BY <1>1
<1>3. io.fd # NoFd => OwnDescriptor(State, dev)'
  BY <1>1, <1>2 DEF Good, State, OwnDescriptor, IoState
<1>4. Good(State, dev)'
  BY <1>1, <1>3 DEF Good, State
<1>5. QED
  BY <1>1, <1>4 DEF Inv, FreeDev, Raw!FreeDev

LEMMA CleanupStep ==
  ASSUME Inv, Cleanup
  PROVE  Inv' /\ Raw!Cleanup
<1>1. table' = Close(table, io.fd) /\ table' \in [Fds -> Opened \cup {Closed}]
  BY DEF Cleanup, Inv, Good, State, Close
<1>2. io' = [fd |-> NoFd, vpd |-> NoFd, rw |-> FALSE, cached |-> NULL, pos |-> 0]
  BY DEF Cleanup, Inv, Good, State, IoState
<1>3. io' \in IoState
  BY <1>2 DEF IoState, Position
<1>4. \A f \in Fds : table'[f] # Closed <=> f = NoFd
  BY <1>1, ClosedAll, ValueAssumption
<1>5. Good(State, dev)'
  BY <1>1, <1>2, <1>3, <1>4 DEF Good, State
<1>6. QED
  BY <1>5 DEF Inv, Cleanup, Raw!Cleanup

\* Steps that leave objects, descriptors and cache alone.
LEMMA GoodStays ==
  ASSUME Good(State, dev), UNCHANGED <<dev, table, io>>
  PROVE  Good(State, dev)'
BY DEF Good, State, OwnDescriptor

LEMMA ReadVpdStep ==
  ASSUME Inv, NEW p \in Ptrs, NEW x \in Regs, ReadVpd(p, x)
  PROVE  Inv' /\ Raw!Read("vpd", "vpd", p, x)
BY GoodStays DEF ReadVpd, Inv, Raw!Read

LEMMA KernelStep ==
  ASSUME Inv, Kernel
  PROVE  Inv' /\ [Raw!Hardware]_Raw!rvars
<1>1. CASE SetPerm
  BY <1>1, GoodStays DEF SetPerm, Inv, Raw!rvars
<1>2. ASSUME NEW l \in Locs, NEW x \in Regs, NEW v \in Vals, SetReg(l, x, v)
      PROVE  Inv' /\ Raw!Hardware
  BY <1>2, GoodStays DEF SetReg, Inv, Raw!Hardware
<1>3. QED
  BY <1>1, <1>2 DEF Kernel

LEMMA InitStep == FilesInit => Inv /\ Raw!Init
<1> SUFFICES ASSUME FilesInit PROVE Inv /\ Raw!Init
  OBVIOUS
<1>1. io \in IoState /\ table \in [Fds -> Opened \cup {Closed}]
  BY DEF FilesInit, IoState, Position
<1>2. Good(State, dev)
  BY <1>1, ValueAssumption DEF FilesInit, Good, State
<1>3. reg \in [Files -> [Regs -> Vals]]
  BY ValueAssumption DEF FilesInit
<1>4. QED
  BY <1>2, <1>3 DEF FilesInit, Inv, Raw!Init, Files, Raw!Files

LEMMA NextStep ==
  ASSUME Inv, [Next]_cvars
  PROVE  Inv' /\ (OneDomain => [Raw!Next]_Raw!rvars)
<1>1. CASE UNCHANGED cvars
  BY <1>1, GoodStays DEF cvars, Inv, Raw!rvars
<1>2. CASE Next
  BY <1>2, ReadStep, ReadVpdStep, WriteStep, GetDevStep, FreeDevStep,
     CleanupStep, KernelStep
  DEF Next, Raw!Next
<1>3. QED
  BY <1>1, <1>2

\* The invariant is one of the back-end.
LEMMA InvAlways == Spec => []Inv
<1>1. FilesInit => Inv
  BY InitStep
<1>2. Inv /\ [Next]_cvars => Inv'
  BY NextStep
<1>3. QED
  BY <1>1, <1>2, PTL DEF Spec

\* proc_setup() leaks no descriptor, on which its cleanup relies, although
\* cached_dev is cleared too late and a failed open() replaces a good descriptor.
THEOREM NothingLeaks == Spec => []NoLeak
<1>1. Inv => NoLeak
  BY InvImplies
<1>2. QED
  BY <1>1, InvAlways, PTL

\* Where all devices are in one domain, a descriptor that is used again is for the
\* device it is used for, although cached_dev may dangle, and fd_pos is where the
\* kernel is.
THEOREM ProcCacheIsSound ==
  ASSUME OneDomain PROVE Spec => [](TypeOK /\ ReuseIsSafe /\ OffsetKnown)
<1>1. Inv => TypeOK /\ ReuseIsSafe /\ OffsetKnown
  BY OneDomain, InvImplies
<1>2. QED
  BY <1>1, InvAlways, PTL

\* Where all devices are in one domain the back-end implements RawAccess: no
\* access reaches another device's registers, although cached_dev is compared
\* with addresses that malloc() has given to other objects since.
THEOREM ProcIsRawAccess == ASSUME OneDomain PROVE Spec => Refines
<1>1. FilesInit => Inv /\ Raw!Init
  BY InitStep
<1>2. Inv /\ [Next]_cvars => Inv' /\ [Raw!Next]_Raw!rvars
  BY OneDomain, NextStep
<1>3. QED
  BY <1>1, <1>2, PTL DEF Spec, Refines, Raw!Spec

\* The process can have a descriptor.
OneFd == Fds # {}

\* proc_setup() has a descriptor whenever the kernel allows one, unless it
\* remembers that there was none.
LEMMA SetupWorks ==
  ASSUME OneFd, Inv, NEW p \in Ptrs, dev[p] # Free, NEW rw \in BOOLEAN,
         MayOpen(<<dev[p], "config">>, IF Writeable \/ rw THEN "rw" ELSE "ro"),
         ~(io.cached = p /\ io.fd = NoFd)
  PROVE  /\ Setup(p, rw).io.fd # NoFd
         /\ rw => Setup(p, rw).table[Setup(p, rw).io.fd].mode = "rw"
<1> DEFINE u == Setup(p, rw)
           t == Close(table, io.fd)
           l == dev[p]
           mode == IF Writeable \/ rw THEN "rw" ELSE "ro"
<1>1. Good(u, dev) /\ u.io.cached = p
  BY SetupGood
<1>2. CASE Mine(p, rw)
  <2>1. u.io = io /\ u.table = table
    BY <1>2 DEF Setup, State
  <2>2. u.io.fd # NoFd /\ (rw => u.io.rw)
    BY <1>2, <2>1 DEF Mine
  <2> HIDE DEF u
  <2>3. QED
    BY <1>1, <2>2, ValueAssumption DEF Good, OwnDescriptor, u
<1>3. CASE ~Mine(p, rw)
  <2> DEFINE file == IF MayOpenShort(l, mode) THEN ShortName(l) ELSE LongName(l)
  <2>1. u = Reopened(p, Writeable \/ rw, t, 0)
    BY <1>3 DEF Setup
  <2>2. l \in Locs /\ l = <<l[1], l[2]>>
    BY LocationAssumption DEF Inv
  <2>3. MayOpenShort(l, mode) \/ MayOpenLong(l, mode)
    BY <2>2 DEF MayOpenShort, MayOpenLong, HasShort, HasLong, ShortName, LongName
  <2>4. MayOpen(file, mode)
    BY <2>3 DEF MayOpenShort, MayOpenLong
  <2>5. OpenFd(t, file, mode) \in Fds
    <3>1. Unused(t) # {}
      BY ClosedAll DEF OneFd, Unused
    <3>2. (CHOOSE f \in Unused(t) : TRUE) \in Unused(t)
      BY <3>1
    <3>3. QED
      BY <2>4, <3>1, <3>2 DEF OpenFd, Unused
  <2> HIDE DEF file, t
  <2>6. /\ u.io = [io EXCEPT !.rw = Writeable \/ rw, !.cached = p, !.pos = 0,
                            !.fd = OpenFd(t, file, mode)]
        /\ u.table = OpenTable(t, file, mode)
    BY <2>1, <2>3 DEF Reopened, file
  <2>7. io \in IoState
    BY DEF Inv, Good, State
  <2>8. u.io.fd = OpenFd(t, file, mode)
    BY <2>6, <2>7 DEF IoState
  <2>9. u.table[u.io.fd].mode = mode
    BY <2>5, <2>6, <2>8 DEF OpenTable
  <2>10. QED
    BY <2>5, <2>8, <2>9, ValueAssumption
<1>4. QED
  BY <1>2, <1>3

\* An operation at a position that does not fail goes through.
LEMMA ReadIsDone ==
  ASSUME OneFd, Inv, NEW p \in Ptrs, NEW x \in Regs, Read(p, x), ~Writeable,
         x \notin Fallible, MayOpen(<<dev[p], "config">>, "ro"),
         ~(io.cached = p /\ io.fd = NoFd)
  PROVE  out'.ok
<1> DEFINE s == Setup(p, FALSE)
           f == s.io.fd
<1>1. Good(s, dev) /\ f # NoFd
  BY SetupGood, SetupWorks DEF Read
<1>2. FinishRead("read", p, x, s, f)
  BY DEF Read
<1> HIDE DEF s
<1>3. At(s, f, x) = x
  BY <1>1, AfterOpGood
<1>4. out' = Raw!Done("read", p, x, reg[s.table[f].file][At(s, f, x)])
  BY <1>1, <1>2, <1>3 DEF FinishRead, Outcomes
<1>5. QED
  BY <1>4 DEF Raw!Done

LEMMA WriteIsDone ==
  ASSUME OneFd, Inv, NEW p \in Ptrs, NEW x \in Regs, NEW v \in Vals,
         Write(p, x, v), x \notin Fallible, MayOpen(<<dev[p], "config">>, "rw"),
         ~(io.cached = p /\ io.fd = NoFd)
  PROVE  out'.ok
<1> DEFINE s == Setup(p, TRUE)
           f == s.io.fd
<1>1. Good(s, dev) /\ f # NoFd /\ s.table[f].mode = "rw"
  BY SetupGood, SetupWorks DEF Write
<1>2. FinishWrite(p, x, v, s, f)
  BY DEF Write
<1> HIDE DEF s
<1>3. At(s, f, x) = x
  BY <1>1, AfterOpGood
<1>4. out' = Raw!Done("write", p, x, v)
  BY <1>1, <1>2, <1>3 DEF FinishWrite, Outcomes
<1>5. QED
  BY <1>4 DEF Raw!Done

\* What the kernel allows works, in any domains, unless the last attempt for the
\* same object was refused: the only thing that gets in the way is the -1 that
\* proc_setup() remembers.
THEOREM ProcAllowedWorks ==
  ASSUME OneFd PROVE Spec => ReadableIsRead /\ WriteableIsWritten
<1>1. Inv => ReadWorks
  BY OneFd, ReadIsDone DEF ReadWorks
<1>2. Inv => WriteWorks
  BY OneFd, WriteIsDone DEF WriteWorks
<1>3. QED
  BY <1>1, <1>2, InvAlways, PTL DEF Spec, ReadableIsRead, WriteableIsWritten
=============================================================================
