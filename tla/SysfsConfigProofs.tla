------------------------- MODULE SysfsConfigProofs -------------------------
(***************************************************************************)
(* For any number of devices, objects and descriptors: the sysfs back-end  *)
(* leaks no descriptor, caches the right files, implements RawAccess, and  *)
(* has the strings of devices right.                                       *)
(***************************************************************************)
EXTENDS SysfsConfig, SysfsFill, FiniteSetTheorems, WellFoundedInduction,
        TLAPS

\* A descriptor refers to this file, in this mode.
Refers(s, f, file, mode) ==
  /\ s.table[f] \in Opened
  /\ s.table[f].file = file
  /\ s.table[f].mode = mode

Mode(rw) == IF rw THEN "rw" ELSE "ro"

\* The inductive invariant, for a state that a helper of the back-end passes on
\* while the objects are d.
Good(s, d) ==
  /\ s.table \in [Fds -> Opened \cup {Closed}]
  /\ s.io \in IoState
  /\ \A f \in Fds : s.table[f] # Closed <=> f \in {s.io.fd, s.io.vpd}
  /\ s.io.fd # NoFd =>
       /\ s.io.cached \in Ptrs
       /\ s.io.fd # s.io.vpd
       /\ Refers(s, s.io.fd, <<d[s.io.cached], "config">>, Mode(s.io.rw))
       /\ Glue /\ s.io.pos # NoFd => s.io.pos = s.table[s.io.fd].off
  /\ s.io.vpd # NoFd =>
       /\ s.io.cached \in Ptrs
       /\ Refers(s, s.io.vpd, <<d[s.io.cached], "vpd">>, "ro")
  /\ s.io.cached # NULL => d[s.io.cached] # Free

Inv ==
  /\ dev \in [Ptrs -> Locs \cup {Free}]
  /\ reg \in [Files -> [Regs -> Vals]]
  /\ perm \in Perms
  /\ Good(State, dev)

\* The invariant is what the properties of SysfsConfig need.
LEMMA InvImplies == Inv => TypeOK /\ NoLeak /\ CacheOK /\ OffsetKnown
<1> SUFFICES ASSUME Inv PROVE TypeOK /\ NoLeak /\ CacheOK /\ OffsetKnown
  OBVIOUS
<1> USE DEF Inv, Good, State, Refers, Mode
<1>1. TypeOK
  BY DEF TypeOK
<1>2. NoLeak
  BY DEF NoLeak, OpenFds
<1>3. io.fd # NoFd => table[io.fd] # Closed /\ io.cached # NULL
  BY ValueAssumption DEF Opened
<1>4. io.vpd # NoFd => table[io.vpd] # Closed /\ io.cached # NULL
  BY ValueAssumption DEF Opened
<1>5. CacheOK
  BY <1>3, <1>4 DEF CacheOK
<1>6. OffsetKnown
  BY DEF OffsetKnown
<1>7. QED
  BY <1>1, <1>2, <1>5, <1>6

\* open() gives a descriptor that was not open, or none.
LEMMA OpenFdNew ==
  ASSUME NEW t, NEW file, NEW mode, OpenFd(t, file, mode) # NoFd
  PROVE  OpenFd(t, file, mode) \in Fds /\ t[OpenFd(t, file, mode)] = Closed
BY DEF OpenFd, Unused

LEMMA FlushedGood ==
  ASSUME NEW d, NEW s, Good(s, d)
  PROVE  /\ Good(Flushed(s), d)
         /\ Flushed(s).io.fd = NoFd
         /\ Flushed(s).io.vpd = NoFd
         /\ Flushed(s).io.cached = NULL
BY ValueAssumption DEF Good, Flushed, Close, IoState

\* sysfs_setup(), first part: the cache is p's from now on.
LEMMA ClaimedGood ==
  ASSUME Inv, NEW p \in Ptrs, dev[p] # Free, NEW intent
  PROVE  LET s == Claimed(p, intent)
         IN /\ Good(s, dev)
            /\ s.io.cached = p
            /\ intent = "write" /\ s.io.fd # NoFd => s.io.rw
<1>1. Good(State, dev)
  BY DEF Inv
<1>2. CASE io.cached # p \/ (intent = "write" /\ ~io.rw)
  <2> DEFINE s == Claimed(p, intent)
             u == Flushed(State)
  <2>1. Good(u, dev) /\ u.io.fd = NoFd /\ u.io.vpd = NoFd
    BY <1>1, FlushedGood
  <2>2. /\ s.table = u.table
        /\ s.io = [u.io EXCEPT !.cached = p]
    BY <1>2 DEF Claimed, Flushed
  <2> HIDE DEF s, u
  <2>3. /\ s.io \in IoState
        /\ s.io.fd = NoFd /\ s.io.vpd = NoFd /\ s.io.cached = p
    BY <2>1, <2>2 DEF Good, IoState
  <2>4. Good(s, dev)
    BY <2>1, <2>2, <2>3 DEF Good
  <2>5. QED
    BY <2>3, <2>4 DEF s
<1>3. CASE ~(io.cached # p \/ (intent = "write" /\ ~io.rw))
  BY <1>1, <1>3 DEF Claimed, State
<1>4. QED
  BY <1>2, <1>3

\* Opening the VPD file fills the empty slot of an otherwise good state.
LEMMA OpenVpdGood ==
  ASSUME NEW p \in Ptrs, dev[p] \in Locs, NEW s, Good(s, dev),
         s.io.cached = p, s.io.vpd = NoFd
  PROVE  /\ Good(OpenVpd(s, p), dev)
         /\ OpenVpd(s, p).io.cached = p
<1> DEFINE file == <<dev[p], "vpd">>
           f == OpenFd(s.table, file, "ro")
           u == OpenVpd(s, p)
<1>1. file \in Files
  BY DEF Files
<1>2. /\ u.table = [g \in Fds |-> IF g = f THEN [file |-> file, mode |-> "ro",
                                                 off |-> 0] ELSE s.table[g]]
      /\ u.io = [s.io EXCEPT !.vpd = f]
  BY DEF OpenVpd, OpenTable
<1>3. [file |-> file, mode |-> "ro", off |-> 0] \in Opened
  BY <1>1 DEF Opened, Modes
<1>4. f # NoFd => f \in Fds /\ s.table[f] = Closed
  BY OpenFdNew
<1> HIDE DEF f, u, file
<1>5. CASE f = NoFd
  <2>1. /\ u.io = s.io
        /\ u.table = s.table
    BY <1>2, <1>5, ValueAssumption DEF Good, IoState
  <2>2. Good(u, dev)
    BY <2>1 DEF Good, Refers
  <2>3. QED
    BY <2>1, <2>2 DEF u
<1>6. CASE f # NoFd
  <2>1. /\ u.io \in IoState
        /\ u.io.vpd = f /\ u.io.fd = s.io.fd /\ u.io.cached = p
        /\ u.io.rw = s.io.rw /\ u.io.pos = s.io.pos
    BY <1>2, <1>4, <1>6 DEF Good, IoState
  <2>2. u.table \in [Fds -> Opened \cup {Closed}]
    BY <1>2, <1>3 DEF Good
  <2>3. u.table[f] = [file |-> file, mode |-> "ro", off |-> 0]
    BY <1>2, <1>4, <1>6
  <2>4. u.io.fd # NoFd => u.io.fd \in Fds /\ u.io.fd # f
                          /\ u.table[u.io.fd] = s.table[s.io.fd]
    BY <1>2, <1>4, <1>6, <2>1, ValueAssumption DEF Good, Opened, Refers, IoState
  <2>5. \A g \in Fds : u.table[g] # Closed <=> g \in {u.io.fd, u.io.vpd}
    BY <1>2, <1>3, <1>4, <1>6, <2>1, <2>3, ValueAssumption
    DEF Good, Opened, Refers
  <2>6. Refers(u, f, <<dev[p], "vpd">>, "ro")
    BY <1>3, <2>3 DEF Refers, file
  <2>7. u.io.fd # NoFd => Refers(u, u.io.fd, <<dev[p], "config">>, Mode(u.io.rw))
    BY <2>1, <2>4 DEF Good, Refers
  <2>8. Glue /\ u.io.fd # NoFd /\ u.io.pos # NoFd
          => u.io.pos = u.table[u.io.fd].off
    BY <2>1, <2>4 DEF Good
  <2>9. dev[p] # Free
    BY ValueAssumption
  <2>10. Good(u, dev)
    BY <2>1, <2>2, <2>4, <2>5, <2>6, <2>7, <2>8, <2>9 DEF Good
  <2>11. QED
    BY <2>1, <2>10 DEF u
<1>7. QED
  BY <1>5, <1>6

\* Likewise for the configuration file, in the mode that fd_rw then states.
LEMMA OpenConfigGood ==
  ASSUME NEW p \in Ptrs, dev[p] \in Locs, NEW s, Good(s, dev),
         NEW rw \in BOOLEAN, s.io.cached = p, s.io.fd = NoFd
  PROVE  /\ Good(OpenConfig(s, p, rw), dev)
         /\ OpenConfig(s, p, rw).io.cached = p
         /\ OpenConfig(s, p, rw).io.rw = rw
<1> DEFINE file == <<dev[p], "config">>
           mode == Mode(rw)
           f == OpenFd(s.table, file, mode)
           u == OpenConfig(s, p, rw)
<1>1. file \in Files /\ mode \in Modes
  BY DEF Files, Modes, Mode
<1>2. /\ u.table = [g \in Fds |-> IF g = f THEN [file |-> file, mode |-> mode,
                                                 off |-> 0] ELSE s.table[g]]
      /\ u.io = [s.io EXCEPT !.rw = rw, !.pos = 0, !.fd = f]
  BY DEF OpenConfig, OpenTable, Mode
<1>3. [file |-> file, mode |-> mode, off |-> 0] \in Opened
  BY <1>1 DEF Opened
<1>4. f # NoFd => f \in Fds /\ s.table[f] = Closed
  BY OpenFdNew
<1>5. /\ u.io.vpd = s.io.vpd /\ u.io.cached = p
      /\ u.io.rw = rw /\ u.io.pos = 0 /\ u.io.fd = f
      /\ s.io.vpd \in Fds \cup {NoFd}
  BY <1>2 DEF Good, IoState
<1>6. dev[p] # Free
  BY ValueAssumption
<1> HIDE DEF f, u, file, mode
<1>7. u.io \in IoState
  <2>1. u.io = [fd |-> f, vpd |-> s.io.vpd, rw |-> rw, cached |-> p, pos |-> 0]
    BY <1>2 DEF Good, IoState
  <2>2. f \in Fds \cup {NoFd} /\ 0 \in Position
    BY <1>4 DEF Position
  <2>3. QED
    BY <1>5, <2>1, <2>2 DEF IoState
<1>8. CASE f = NoFd
  <2>1. u.table = s.table
    BY <1>2, <1>8, ValueAssumption DEF Good
  <2>2. Good(u, dev)
    BY <1>5, <1>6, <1>7, <1>8, <2>1 DEF Good, Refers
  <2>3. QED
    BY <1>5, <2>2 DEF u
<1>9. CASE f # NoFd
  <2>1. u.table \in [Fds -> Opened \cup {Closed}]
    BY <1>2, <1>3 DEF Good
  <2>2. u.table[f] = [file |-> file, mode |-> mode, off |-> 0]
    BY <1>2, <1>4, <1>9
  <2>3. u.io.vpd # NoFd => u.io.vpd # f /\ u.table[u.io.vpd] = s.table[s.io.vpd]
    BY <1>2, <1>4, <1>5, <1>9, ValueAssumption DEF Good, Opened, Refers
  <2>4. \A g \in Fds : u.table[g] # Closed <=> g \in {u.io.fd, u.io.vpd}
    BY <1>2, <1>3, <1>4, <1>5, <1>9, <2>2, ValueAssumption
    DEF Good, Opened, Refers
  <2>5. Refers(u, f, <<dev[p], "config">>, Mode(rw)) /\ u.table[f].off = 0
    BY <1>3, <2>2 DEF Refers, file, mode
  <2>6. u.io.vpd # NoFd => Refers(u, u.io.vpd, <<dev[p], "vpd">>, "ro")
    BY <1>5, <2>3 DEF Good, Refers
  <2>7. Good(u, dev)
    BY <1>5, <1>6, <1>7, <1>9, <2>1, <2>3, <2>4, <2>5, <2>6 DEF Good
  <2>8. QED
    BY <1>5, <2>7 DEF u
<1>10. QED
  BY <1>8, <1>9

\* sysfs_setup() leaves a good state in which the requested descriptor, if there
\* is one, is p's own.
LEMMA SetupGood ==
  ASSUME Inv, NEW p \in Ptrs, dev[p] # Free,
         NEW intent \in {"read", "write", "vpd"}
  PROVE  /\ Good(Setup(p, intent), dev)
         /\ Setup(p, intent).io.cached = p
         /\ intent = "write" => Setup(p, intent).io.rw
<1> DEFINE s == Claimed(p, intent)
           rw == Writeable \/ intent = "write"
<1>1. dev[p] \in Locs
  BY DEF Inv
<1>2. /\ Good(s, dev) /\ s.io.cached = p
      /\ intent = "write" /\ s.io.fd # NoFd => s.io.rw
  BY ClaimedGood
<1>3. /\ Setup(p, intent) = IF intent = "vpd"
                              THEN IF s.io.vpd = NoFd THEN OpenVpd(s, p) ELSE s
                              ELSE IF s.io.fd = NoFd THEN OpenConfig(s, p, rw)
                                   ELSE s
      /\ rw \in BOOLEAN
      /\ intent = "write" => rw = TRUE
  BY SwitchAssumption DEF Setup
<1> HIDE DEF s, rw
<1>4. CASE intent = "vpd"
  BY <1>1, <1>2, <1>3, <1>4, OpenVpdGood
<1>5. CASE intent # "vpd"
  <2>1. CASE s.io.fd = NoFd
    <3>1. Setup(p, intent) = OpenConfig(s, p, rw)
      BY <1>3, <1>5, <2>1
    <3>2. Setup(p, intent).io.rw = rw
      BY <1>1, <1>2, <1>3, <2>1, <3>1, OpenConfigGood
    <3>3. QED
      BY <1>1, <1>2, <1>3, <2>1, <3>1, <3>2, OpenConfigGood
  <2>2. CASE s.io.fd # NoFd
    BY <1>2, <1>3, <1>5, <2>2
  <2>3. QED
    BY <2>1, <2>2
<1>6. QED
  BY <1>4, <1>5

\* A read or write at x works at x, and leaves fd_pos and the offset in step.
LEMMA AfterOpGood ==
  ASSUME NEW d, NEW s, Good(s, d), NEW x \in Regs, NEW r, NEW f \in Fds,
         f = s.io.fd \/ (~Glue /\ f = s.io.vpd)
  PROVE  /\ At(s, f, x) = x
         /\ Good(AfterOp(s, f, x, r), d)
<1>1. x \in Nat /\ x # NoFd /\ f # NoFd
  BY ValueAssumption
<1>2. At(s, f, x) = x
  BY <1>1 DEF At, Good
<1>3. CASE ~Glue
  BY <1>2, <1>3 DEF AfterOp
<1>4. CASE Glue
  <2> DEFINE u == AfterOp(s, f, x, r)
             off == IF r = "full" THEN x + 1 ELSE x
             pos == IF r = "error" THEN NoFd ELSE off
  <2>1. f = s.io.fd /\ s.table[f] \in Opened
    BY <1>1, <1>4 DEF Good, Refers
  <2>2. /\ u.table = [s.table EXCEPT ![f].off = off]
        /\ u.io = [s.io EXCEPT !.pos = pos]
    BY <1>2, <1>4 DEF AfterOp
  <2>3. off \in Nat /\ pos \in Position /\ (pos # NoFd => pos = off)
    BY <1>1 DEF Position
  <2> HIDE DEF off, pos, u
  <2>4. /\ u.io \in IoState /\ u.io.fd = s.io.fd /\ u.io.vpd = s.io.vpd
        /\ u.io.cached = s.io.cached /\ u.io.rw = s.io.rw /\ u.io.pos = pos
    BY <2>2, <2>3 DEF Good, IoState
  <2>5. /\ u.table \in [Fds -> Opened \cup {Closed}]
        /\ u.table[f] \in Opened
        /\ u.table[f].file = s.table[f].file
        /\ u.table[f].mode = s.table[f].mode
        /\ u.table[f].off = off
        /\ \A g \in Fds : g # f => u.table[g] = s.table[g]
    BY <2>1, <2>2, <2>3 DEF Good, Opened
  <2>6. \A g \in Fds : u.table[g] # Closed <=> g \in {u.io.fd, u.io.vpd}
    BY <2>1, <2>4, <2>5, ValueAssumption DEF Good, Opened
  <2>7. Refers(u, f, <<d[s.io.cached], "config">>, Mode(s.io.rw))
    BY <1>1, <2>1, <2>5 DEF Good, Refers
  <2>8. s.io.vpd # NoFd => /\ s.io.vpd \in Fds /\ s.io.vpd # f
                           /\ Refers(u, s.io.vpd, <<d[s.io.cached], "vpd">>, "ro")
    BY <1>1, <2>1, <2>5 DEF Good, Refers, IoState
  <2>9. Good(u, d)
    BY <1>1, <2>1, <2>3, <2>4, <2>5, <2>6, <2>7, <2>8 DEF Good
  <2>10. QED
    BY <1>2, <2>9 DEF u
<1>5. QED
  BY <1>3, <1>4

\* Adopting a good state makes the next state good.
LEMMA BecomeGood ==
  ASSUME NEW s, Good(s, dev), Become(s), dev' = dev
  PROVE  Good(State, dev)'
<1>1. table' = s.table /\ io' = s.io
  BY DEF Become
<1>2. QED
  BY <1>1 DEF Good, State, Refers

\* The tail of a read method, on its own device's file: the invariant, and a
\* read of the abstract specification.
LEMMA FinishReadStep ==
  ASSUME Inv, NEW op, NEW kind, NEW p \in Ptrs, NEW x \in Regs, dev[p] # Free,
         NEW s, NEW f, Good(s, dev),
         f # NoFd => /\ f \in Fds
                     /\ s.table[f].file = <<dev[p], kind>>
                     /\ f = s.io.fd \/ (~Glue /\ f = s.io.vpd),
         FinishRead(op, p, x, s, f)
  PROVE  Inv' /\ Raw!Read(op, kind, p, x)
<1>1. UNCHANGED <<dev, reg, perm>>
  BY DEF FinishRead
<1>2. CASE f = NoFd
  <2>1. out' = Raw!Failed(op, p, x) /\ Become(s)
    BY <1>2 DEF FinishRead
  <2>2. Good(State, dev)'
    BY <1>1, <2>1, BecomeGood
  <2>3. QED
    BY <1>1, <2>1, <2>2 DEF Inv, Raw!Read
<1>3. CASE f # NoFd
  <2>1. PICK r \in Outcomes(x) :
          /\ out' = IF r = "full" /\ At(s, f, x) \in Regs
                      THEN Raw!Done(op, p, x, reg[s.table[f].file][At(s, f, x)])
                      ELSE Raw!Failed(op, p, x)
          /\ Become(AfterOp(s, f, x, r))
    BY <1>3 DEF FinishRead
  <2>2. At(s, f, x) = x /\ Good(AfterOp(s, f, x, r), dev)
    BY <1>3, AfterOpGood
  <2>3. Good(State, dev)'
    BY <1>1, <2>1, <2>2, BecomeGood
  <2>4. out' \in {Raw!Failed(op, p, x),
                 Raw!Done(op, p, x, reg[<<dev[p], kind>>][x])}
    BY <1>3, <2>1, <2>2
  <2>5. QED
    BY <1>1, <2>3, <2>4 DEF Inv, Raw!Read
<1>4. QED
  BY <1>2, <1>3

\* sysfs_read() reads the configuration file of its own device.
LEMMA ReadStep ==
  ASSUME Inv, NEW p \in Ptrs, NEW x \in Regs, Read(p, x)
  PROVE  Inv' /\ Raw!Read("read", "config", p, x)
<1> DEFINE s == Setup(p, "read")
           f == s.io.fd
<1>1. /\ Good(s, dev) /\ s.io.cached = p /\ dev[p] # Free
      /\ FinishRead("read", p, x, s, f)
  BY SetupGood DEF Read
<1> HIDE DEF s
<1>2. f # NoFd => f \in Fds /\ s.table[f].file = <<dev[p], "config">>
  BY <1>1 DEF Good, Refers, IoState
<1>3. QED
  BY <1>1, <1>2, FinishReadStep

\* sysfs_read_vpd(), likewise for the VPD file.
LEMMA ReadVpdStep ==
  ASSUME Inv, NEW p \in Ptrs, NEW x \in Regs, ReadVpd(p, x)
  PROVE  Inv' /\ Raw!Read("vpd", "vpd", p, x)
<1>1. CASE Glue
  <2>1. /\ dev[p] # Free /\ out' = Raw!Failed("vpd", p, x)
        /\ UNCHANGED <<dev, reg, perm, table, io>>
    BY <1>1 DEF ReadVpd
  <2>2. Good(State, dev)'
    BY <2>1 DEF Inv, Good, State, Refers
  <2>3. QED
    BY <2>1, <2>2 DEF Raw!Read, Inv
<1>2. CASE ~Glue
  <2> DEFINE s == Setup(p, "vpd")
             f == s.io.vpd
  <2>1. /\ Good(s, dev) /\ s.io.cached = p /\ dev[p] # Free
        /\ FinishRead("vpd", p, x, s, f)
    BY <1>2, SetupGood DEF ReadVpd
  <2> HIDE DEF s
  <2>2. f # NoFd => f \in Fds /\ s.table[f].file = <<dev[p], "vpd">>
    BY <2>1 DEF Good, Refers, IoState
  <2>3. QED
    BY <1>2, <2>1, <2>2, FinishReadStep
<1>3. QED
  BY <1>1, <1>2

\* sysfs_write() changes the register of its own device or nothing.
LEMMA WriteStep ==
  ASSUME Inv, NEW p \in Ptrs, NEW x \in Regs, NEW v \in Vals, Write(p, x, v)
  PROVE  Inv' /\ Raw!Write(p, x, v)
<1> DEFINE s == Setup(p, "write")
           f == s.io.fd
           file == <<dev[p], "config">>
<1>1. /\ Good(s, dev) /\ s.io.cached = p /\ dev[p] # Free
      /\ FinishWrite(p, x, v, s, f)
  BY SetupGood DEF Write
<1> HIDE DEF s
<1>2. f # NoFd => f \in Fds /\ s.table[f].file = file
  BY <1>1 DEF Good, Refers, IoState
<1>3. UNCHANGED <<dev, perm>>
  BY <1>1 DEF FinishWrite
<1>4. CASE f = NoFd
  <2>1. out' = Raw!Failed("write", p, x) /\ reg' = reg /\ Become(s)
    BY <1>1, <1>4 DEF FinishWrite
  <2>2. Good(State, dev)'
    BY <1>1, <1>3, <2>1, BecomeGood
  <2>3. QED
    BY <1>1, <1>3, <2>1, <2>2 DEF Inv, Raw!Write
<1>5. CASE f # NoFd
  <2>1. PICK r :
          /\ IF r = "full" /\ At(s, f, x) \in Regs
               THEN /\ out' = Raw!Done("write", p, x, v)
                    /\ reg' = [reg EXCEPT ![s.table[f].file][At(s, f, x)] = v]
               ELSE out' = Raw!Failed("write", p, x) /\ UNCHANGED reg
          /\ Become(AfterOp(s, f, x, r))
    BY <1>1, <1>5 DEF FinishWrite
  <2>2. At(s, f, x) = x /\ Good(AfterOp(s, f, x, r), dev)
    BY <1>1, <1>2, <1>5, AfterOpGood
  <2>3. Good(State, dev)'
    BY <1>1, <1>3, <2>1, <2>2, BecomeGood
  <2>4. \/ out' = Raw!Failed("write", p, x) /\ reg' = reg
        \/ /\ out' = Raw!Done("write", p, x, v)
           /\ reg' = [reg EXCEPT ![file][x] = v]
    BY <1>2, <1>5, <2>1, <2>2
  <2>5. reg' \in [Files -> [Regs -> Vals]]
    <3>1. reg \in [Files -> [Regs -> Vals]]
      BY DEF Inv
    <3> HIDE DEF file
    <3>2. QED
      BY <2>4, <3>1
  <2>6. QED
    BY <1>1, <1>3, <2>3, <2>4, <2>5 DEF Inv, Raw!Write
<1>6. QED
  BY <1>4, <1>5

\* Allocation, release and the end of a session.
LEMMA GetDevStep ==
  ASSUME Inv, NEW p \in Ptrs, NEW l \in Locs, GetDev(p, l)
  PROVE  Inv' /\ Raw!GetDev(p, l)
<1>1. io.cached # p /\ l # Free
  BY ValueAssumption DEF Inv, Good, State, GetDev
<1>2. io.cached # NULL => io.cached \in Ptrs /\ dev'[io.cached] = dev[io.cached]
  BY <1>1 DEF Inv, Good, State, IoState, GetDev
<1>3. io.cached \in Ptrs => dev'[io.cached] = dev[io.cached]
  BY <1>1 DEF Inv, GetDev
<1>4. Good(State, dev)'
  BY <1>2, <1>3 DEF Inv, Good, State, Refers, GetDev
<1>5. QED
  BY <1>4 DEF Inv, GetDev, Raw!GetDev

LEMMA FreeDevStep ==
  ASSUME Inv, NEW p \in Ptrs, FreeDev(p)
  PROVE  Inv' /\ Raw!FreeDev(p)
<1> DEFINE s == IF io.cached = p THEN Flushed(State) ELSE State
<1>1. Good(State, dev)
  BY DEF Inv
<1>2. Good(s, dev) /\ s.io.cached # p
  BY <1>1, FlushedGood, ValueAssumption DEF State
<1> HIDE DEF s
<1>3. /\ dev' = [dev EXCEPT ![p] = Free] /\ table' = s.table /\ io' = s.io
      /\ dev \in [Ptrs -> Locs \cup {Free}]
  BY DEF FreeDev, Become, s, Inv
<1>4. s.io.cached \in Ptrs => dev'[s.io.cached] = dev[s.io.cached]
  BY <1>2, <1>3
<1>5. s.io.cached # NULL => s.io.cached \in Ptrs
  BY <1>2 DEF Good, IoState
<1>6. Good(State, dev)'
  BY <1>2, <1>3, <1>4, <1>5 DEF Good, State, Refers
<1>7. QED
  BY <1>3, <1>6 DEF Inv, FreeDev, Raw!FreeDev

LEMMA CleanupStep ==
  ASSUME Inv, Cleanup
  PROVE  Inv' /\ Raw!Cleanup
<1> DEFINE s == Flushed(State)
<1>1. /\ Good(s, dev) /\ s.io.fd = NoFd /\ s.io.vpd = NoFd
      /\ s.io.cached = NULL
  BY FlushedGood DEF Inv
<1>2. table' = s.table /\ io' = [s.io EXCEPT !.rw = FALSE, !.pos = 0]
  BY DEF Cleanup, Become, Flushed
<1> HIDE DEF s
<1>3. /\ io' \in IoState /\ io'.fd = NoFd /\ io'.vpd = NoFd
      /\ io'.cached = NULL
  <2>1. io' = [fd |-> NoFd, vpd |-> NoFd, rw |-> FALSE, cached |-> NULL,
               pos |-> 0]
    BY <1>1, <1>2 DEF Good, IoState
  <2>2. QED
    BY <2>1 DEF IoState, Position
<1>4. Good(State, dev)'
  BY <1>1, <1>2, <1>3 DEF Good, State
<1>5. QED
  BY <1>4 DEF Inv, Cleanup, Raw!Cleanup

LEMMA KernelStep ==
  ASSUME Inv, Kernel
  PROVE  Inv' /\ [Raw!Hardware]_Raw!rvars
<1>1. CASE SetPerm
  BY <1>1 DEF SetPerm, Inv, Good, State, Refers, Raw!rvars
<1>2. ASSUME NEW l \in Locs, NEW x \in Regs, NEW v \in Vals, SetReg(l, x, v)
      PROVE  Inv' /\ Raw!Hardware
  BY <1>2 DEF SetReg, Inv, Good, State, Refers, Raw!Hardware
<1>3. QED
  BY <1>1, <1>2 DEF Kernel

LEMMA InitStep == FilesInit => Inv /\ Raw!Init
<1> SUFFICES ASSUME FilesInit PROVE Inv /\ Raw!Init
  OBVIOUS
<1>1. io \in IoState /\ table \in [Fds -> Opened \cup {Closed}]
  BY DEF FilesInit, IoState, Position
<1>2. Good(State, dev)
  BY <1>1, ValueAssumption DEF FilesInit, Good, State
<1>3. reg \in [Files -> [Regs -> Vals]]
  BY ValueAssumption DEF FilesInit
<1>4. QED
  BY <1>2, <1>3 DEF FilesInit, Inv, Raw!Init, Files, Raw!Files

LEMMA NextStep ==
  ASSUME Inv, [Next]_cvars
  PROVE  Inv' /\ [Raw!Next]_Raw!rvars
<1>1. CASE UNCHANGED cvars
  BY <1>1 DEF cvars, Inv, Good, State, Refers, Raw!rvars
<1>2. CASE Next
  BY <1>2, ReadStep, ReadVpdStep, WriteStep, GetDevStep, FreeDevStep,
     CleanupStep, KernelStep
  DEF Next, Raw!Next
<1>3. QED
  BY <1>1, <1>2

\* The descriptor cache is sound: descriptors belong to the cached device, none
\* leaks, and fd_pos is right, for any order of calls on any number of objects
\* whose addresses malloc() reuses.
THEOREM CacheIsSound == Spec => [](TypeOK /\ NoLeak /\ CacheOK /\ OffsetKnown)
<1>1. FilesInit => Inv
  BY InitStep
<1>2. Inv /\ [Next]_cvars => Inv'
  BY NextStep
<1>3. QED
  BY <1>1, <1>2, InvImplies, PTL DEF Spec

\* The sysfs back-end gives raw access to the specified device: it implements
\* RawAccess, so no read or write ever reaches another device's registers.
THEOREM SysfsIsRawAccess == Spec => Refines
<1>1. FilesInit => Inv /\ Raw!Init
  BY InitStep
<1>2. Inv /\ [Next]_cvars => Inv' /\ [Raw!Next]_Raw!rvars
  BY NextStep
<1>3. QED
  BY <1>1, <1>2, PTL DEF Spec, Refines, Raw!Spec

\* A process that can have a descriptor for configuration space besides the one
\* for vital product data.
TwoFds == \E f, g \in Fds : f # g

\* The mode in which sysfs_setup() opens configuration space.
OpensWith(intent) == Mode(Writeable \/ intent = "write")

\* sysfs_setup() has a descriptor whenever the kernel allows one.
LEMMA SetupWorks ==
  ASSUME TwoFds, Inv, NEW p \in Ptrs, dev[p] # Free,
         NEW intent \in {"read", "write"},
         MayOpen(<<dev[p], "config">>, OpensWith(intent))
  PROVE  /\ Good(Setup(p, intent), dev)
         /\ Setup(p, intent).io.cached = p
         /\ Setup(p, intent).io.fd \in Fds
         /\ intent = "write" => Setup(p, intent).table[Setup(p, intent).io.fd].mode = "rw"
<1> DEFINE s == Claimed(p, intent)
           u == Setup(p, intent)
           mode == OpensWith(intent)
           file == <<dev[p], "config">>
<1>1. /\ Good(u, dev) /\ u.io.cached = p
      /\ intent = "write" => u.io.rw
      /\ u.io.fd \in Fds \cup {NoFd}
  <2>1. intent \in {"read", "write", "vpd"}
    OBVIOUS
  <2>2. Good(u, dev) /\ u.io.cached = p /\ (intent = "write" => u.io.rw)
    BY <2>1, SetupGood
  <2> HIDE DEF u
  <2>3. QED
    BY <2>2 DEF Good, IoState
<1>2. Good(s, dev)
  BY ClaimedGood
<1>3. u = IF s.io.fd = NoFd THEN OpenConfig(s, p, Writeable \/ intent = "write")
          ELSE s
  BY DEF Setup
<1> HIDE DEF s, u
<1>4. ASSUME s.io.fd # NoFd PROVE u.io.fd \in Fds
  BY <1>1, <1>3, <1>4
<1>5. ASSUME s.io.fd = NoFd PROVE u.io.fd \in Fds
  <2>1. u.io.fd = OpenFd(s.table, file, mode)
    <3>1. s.io \in IoState
      BY <1>2 DEF Good
    <3>2. QED
      BY <1>3, <1>5, <3>1 DEF OpenConfig, OpensWith, Mode, IoState
  <2>2. \A f \in Fds : s.table[f] # Closed => f = s.io.vpd
    BY <1>2, <1>5, ValueAssumption DEF Good
  <2>3. Unused(s.table) # {}
    BY <2>2 DEF TwoFds, Unused
  <2>4. OpenFd(s.table, file, mode) \in Fds
    <3>1. (CHOOSE f \in Unused(s.table) : TRUE) \in Unused(s.table)
      BY <2>3
    <3>2. QED
      BY <2>3, <3>1 DEF OpenFd, Unused
  <2>5. QED
    BY <2>1, <2>4
<1>6. u.io.fd \in Fds
  BY <1>4, <1>5
<1>7. u.table[u.io.fd].mode = Mode(u.io.rw)
  BY <1>1, <1>6, ValueAssumption DEF Good, Refers
<1>8. QED
  BY <1>1, <1>6, <1>7 DEF u, Mode

\* An operation at a position that does not fail goes through.
LEMMA ReadIsDone ==
  ASSUME TwoFds, Inv, NEW p \in Ptrs, NEW x \in Regs, Read(p, x), ~Writeable,
         x \notin Fallible, MayOpen(<<dev[p], "config">>, "ro")
  PROVE  out'.ok
<1> DEFINE s == Setup(p, "read")
           f == s.io.fd
<1>1. OpensWith("read") = "ro"
  BY DEF OpensWith, Mode
<1>2. Good(s, dev) /\ f \in Fds /\ f # NoFd
  BY <1>1, SetupWorks, ValueAssumption DEF Read
<1>3. FinishRead("read", p, x, s, f)
  BY DEF Read
<1> HIDE DEF s
<1>4. At(s, f, x) = x
  BY <1>2, AfterOpGood
<1>5. out' = Raw!Done("read", p, x, reg[s.table[f].file][At(s, f, x)])
  BY <1>2, <1>3, <1>4 DEF FinishRead, Outcomes
<1>6. QED
  BY <1>5 DEF Raw!Done

LEMMA WriteIsDone ==
  ASSUME TwoFds, Inv, NEW p \in Ptrs, NEW x \in Regs, NEW v \in Vals,
         Write(p, x, v), x \notin Fallible, MayOpen(<<dev[p], "config">>, "rw")
  PROVE  out'.ok
<1> DEFINE s == Setup(p, "write")
           f == s.io.fd
<1>1. OpensWith("write") = "rw"
  BY DEF OpensWith, Mode
<1>2. Good(s, dev) /\ f \in Fds /\ f # NoFd /\ s.table[f].mode = "rw"
  BY <1>1, SetupWorks, ValueAssumption DEF Write
<1>3. FinishWrite(p, x, v, s, f)
  BY DEF Write
<1> HIDE DEF s
<1>4. At(s, f, x) = x
  BY <1>2, AfterOpGood
<1>5. out' = Raw!Done("write", p, x, v)
  BY <1>2, <1>3, <1>4 DEF FinishWrite, Outcomes
<1>6. QED
  BY <1>5 DEF Raw!Done

\* What the kernel allows works, whatever was opened or refused before: neither a
\* descriptor that can only read nor a failed attempt to open the file gets in the
\* way of a later access.
THEOREM SysfsAllowedWorks ==
  ASSUME TwoFds PROVE Spec => ReadableIsRead /\ WriteableIsWritten
<1>1. FilesInit => Inv
  BY InitStep
<1>2. Inv /\ [Next]_cvars => Inv'
  BY NextStep
<1>3. Inv => ReadWorks
  BY TwoFds, ReadIsDone DEF ReadWorks
<1>4. Inv => WriteWorks
  BY TwoFds, WriteIsDone DEF WriteWorks
<1>5. QED
  BY <1>1, <1>2, <1>3, <1>4, PTL DEF Spec, ReadableIsRead, WriteableIsWritten

----------------------------------------------------------------------------
(***************************************************************************)
(* SysfsFill: the strings of devices.  The loops of the code are folds of  *)
(* the community modules; FoldExists and FoldInduction are what is used of *)
(* them, with sets and functions in the place of operators.                *)
(***************************************************************************)
\* A set of natural numbers has a least one.
LEMMA LeastOf ==
  ASSUME NEW S \in SUBSET Nat, S # {}
  PROVE  \E i \in S : \A j \in S : i <= j
<1> DEFINE L == OpToRel(<, Nat)
<1>1. \A x, y \in Nat : <<x, y>> \in L <=> x < y
  BY DEF OpToRel
<1>2. IsWellFoundedOn(L, Nat)
  BY NatLessThanWellFounded
<1> HIDE DEF L
<1>3. PICK i \in S : \A j \in S : ~(<<j, i>> \in L)
  BY <1>2, WFMin
<1>4. \A j \in S : ~(j < i)
  BY <1>1, <1>3
<1>5. QED
  BY <1>4

\* C picks an element of every set.
Picks(C, S) == \A s \in SUBSET S : s # {} => C[s] \in s

\* Every subset has a number of elements, and one less without one of them.
LEMMA Sizes ==
  ASSUME NEW S, IsFiniteSet(S)
  PROVE  /\ \A s \in SUBSET S : Cardinality(s) \in Nat
         /\ \A s \in SUBSET S : Cardinality(s) = 0 <=> s = {}
         /\ \A s \in SUBSET S : \A x \in s : Cardinality(s \ {x}) = Cardinality(s) - 1
<1> SUFFICES ASSUME NEW s \in SUBSET S
             PROVE  /\ Cardinality(s) \in Nat
                    /\ Cardinality(s) = 0 <=> s = {}
                    /\ \A x \in s : Cardinality(s \ {x}) = Cardinality(s) - 1
  OBVIOUS
<1>1. IsFiniteSet(s)
  BY FS_Subset
<1>2. QED
  BY <1>1, FS_CardinalityType, FS_EmptySet, FS_RemoveElement

\* Induction over the subsets that a fold goes through.
LEMMA FoldInduction ==
  ASSUME NEW S, IsFiniteSet(S), NEW C, Picks(C, S), NEW Q, {} \in Q,
         \A s \in SUBSET S : s # {} /\ s \ {C[s]} \in Q => s \in Q
  PROVE  S \in Q
<1> SUFFICES ASSUME S \notin Q PROVE FALSE
  OBVIOUS
<1> DEFINE Bad == {s \in SUBSET S : s \notin Q}
           B == {Cardinality(s) : s \in Bad}
<1>1. B \in SUBSET Nat /\ B # {}
  BY Sizes
<1>2. PICK n \in B : \A k \in B : n <= k
  BY <1>1, LeastOf
<1>3. PICK s \in Bad : Cardinality(s) = n
  BY <1>2
<1>4. s # {} /\ C[s] \in s /\ s \ {C[s]} \in SUBSET S
  BY <1>3 DEF Picks
<1>5. Cardinality(s \ {C[s]}) = Cardinality(s) - 1 /\ Cardinality(s) \in Nat
  BY <1>3, <1>4, Sizes
<1>6. s \ {C[s]} \in Q
  BY <1>2, <1>3, <1>4, <1>5
<1>7. QED
  BY <1>3, <1>4, <1>6

\* There is a function by recursion over the subsets of S, with G as its step.
HasFold(S, C, T, b, G) ==
  \E f \in [SUBSET S -> T] :
    \A s \in SUBSET S : f[s] = IF s = {} THEN b ELSE G[<<C[s], f[s \ {C[s]}]>>]

\* The function that a fold is defined by, G giving the step, exists.
LEMMA FoldExists ==
  ASSUME NEW S, IsFiniteSet(S), NEW C, Picks(C, S),
         NEW T, NEW b \in T, NEW G \in [S \X T -> T]
  PROVE  HasFold(S, C, T, b, G)
<1> DEFINE D(n) == {s \in SUBSET S : Cardinality(s) <= n}
           Solves(f, n) ==
             \A s \in D(n) : f[s] = IF s = {} THEN b ELSE G[<<C[s], f[s \ {C[s]}]>>]
           Solved(n) == \E f \in [D(n) -> T] : Solves(f, n)
<1>1. Solved(0)
  <2> DEFINE f == [s \in D(0) |-> b]
  <2>1. \A s \in D(0) : s = {}
    BY Sizes
  <2>2. f \in [D(0) -> T]
    OBVIOUS
  <2>3. Solves(f, 0)
    BY <2>1
  <2> HIDE DEF Solves, D, f
  <2>4. QED
    BY <2>2, <2>3
<1>2. ASSUME NEW n \in Nat, Solved(n) PROVE Solved(n + 1)
  <2>1. PICK f \in [D(n) -> T] : Solves(f, n)
    BY <1>2
  <2> DEFINE g == [s \in D(n + 1) |->
                     IF s = {} THEN b ELSE G[<<C[s], f[s \ {C[s]}]>>]]
  <2>2. \A s \in D(n + 1) : s # {} => C[s] \in s /\ C[s] \in S /\ s \ {C[s]} \in D(n)
    BY Sizes DEF Picks
  <2>3. g \in [D(n + 1) -> T]
    BY <2>2
  <2>4. \A s \in D(n) : s \in D(n + 1) /\ g[s] = f[s]
    <3> SUFFICES ASSUME NEW s \in D(n) PROVE s \in D(n + 1) /\ g[s] = f[s]
      OBVIOUS
    <3>1. s \in D(n + 1)
      BY Sizes
    <3>2. QED
      BY <2>1, <3>1
  <2>5. Solves(g, n + 1)
    BY <2>2, <2>4
  <2>6. QED
    BY <2>3, <2>5
<1>3. \A n \in Nat : Solved(n)
  <2> SUFFICES ASSUME NEW n0 \in Nat, ~Solved(n0) PROVE FALSE
    OBVIOUS
  <2> DEFINE B == {n \in Nat : ~Solved(n)}
  <2> HIDE DEF Solved
  <2>1. PICK n \in B : \A k \in B : n <= k
    BY LeastOf
  <2>2. n # 0
    BY <1>1, <2>1
  <2>3. n - 1 \in Nat /\ n - 1 \notin B /\ n = (n - 1) + 1
    BY <2>1, <2>2
  <2>4. Solved(n - 1)
    BY <2>3
  <2>5. Solved((n - 1) + 1)
    BY <1>2, <2>3, <2>4
  <2>6. QED
    BY <2>1, <2>3, <2>5
<1> DEFINE n == Cardinality(S)
<1>4. n \in Nat /\ D(n) = SUBSET S
  <2>1. n \in Nat
    BY Sizes
  <2>2. \A s \in SUBSET S : Cardinality(s) <= n
    BY FS_Subset
  <2>3. QED
    BY <2>1, <2>2
<1>5. Solved(n)
  BY <1>3, <1>4
<1>6. QED
  BY <1>4, <1>5 DEF HasFold

\* What a block holds, and the fields of the objects.
BlockValues == {"free"} \cup Values

StringsType ==
  [property : [Objects -> [Keys -> {0} \cup Addresses]],
   pointer : [Objects -> [Pointers -> {0} \cup Addresses]],
   block : [Addresses -> BlockValues]]

\* The blocks of m that are in use are the properties, each one of one property.
EachOwned(m) ==
  /\ \A o1, o2 \in Objects, k1, k2 \in Keys :
       m.property[o1][k1] = m.property[o2][k2] /\ m.property[o1][k1] # 0
         => o1 = o2 /\ k1 = k2
  /\ \A a \in Addresses :
       m.block[a] # "free" <=> \E o \in Objects, k \in Keys : m.property[o][k] = a

\* The fields that a client reads are the properties of the same names.
PointersFollow(m) ==
  \A o \in Objects, k \in Pointers : m.pointer[o][k] = m.property[o][k]

Sound == {m \in StringsType : EachOwned(m) /\ PointersFollow(m)}

\* The property k of o is where it was, and what it was.
Same(m, n, o, k) ==
  /\ n.property[o][k] = m.property[o][k]
  /\ m.property[o][k] # 0 => n.block[m.property[o][k]] = m.block[m.property[o][k]]

SameBut(m, n, o, k) ==
  \A o2 \in Objects, k2 \in Keys : <<o2, k2>> # <<o, k>> => Same(m, n, o2, k2)

\* There are as many addresses as objects have properties.
LEMMA KeysFinite ==
  IsFiniteSet(Keys)
<1>1. IsFiniteSet({} \cup {"PHYS_SLOT"})
  BY FS_EmptySet, FS_AddElement
<1>2. IsFiniteSet(({} \cup {"PHYS_SLOT"}) \cup {"MODULE_ALIAS"})
  BY <1>1, FS_AddElement
<1>3. IsFiniteSet((({} \cup {"PHYS_SLOT"}) \cup {"MODULE_ALIAS"}) \cup {"IOMMU_GROUP"})
  BY <1>2, FS_AddElement
<1>4. Keys = (({} \cup {"PHYS_SLOT"}) \cup {"MODULE_ALIAS"}) \cup {"IOMMU_GROUP"}
  BY DEF Keys
<1>5. QED
  BY <1>3, <1>4

LEMMA AddressFacts ==
  /\ IsFiniteSet(Addresses) /\ IsFiniteSet(Objects \X Keys)
  /\ Cardinality(Addresses) \in Nat
  /\ Cardinality(Addresses) = Cardinality(Objects \X Keys)
  /\ Addresses \in SUBSET Nat /\ 0 \notin Addresses
<1>1. IsFiniteSet(Keys)
  BY KeysFinite
<1>2. IsFiniteSet(Objects)
  BY SysfsFillAssumption
<1>3. /\ IsFiniteSet(Objects \X Keys)
      /\ Cardinality(Objects \X Keys) = Cardinality(Objects) * Cardinality(Keys)
  BY <1>1, <1>2, FS_Product
<1>4. Cardinality(Objects \X Keys) \in Nat
  BY <1>3, FS_CardinalityType
<1> DEFINE n == Cardinality(Objects \X Keys)
<1>5. Addresses = 1..n
  BY <1>3 DEF Addresses
<1> HIDE DEF n
<1>6. n \in Nat
  BY <1>4 DEF n
<1>7. IsFiniteSet(1..n) /\ Cardinality(1..n) = n
  BY <1>6, FS_Interval
<1>8. QED
  BY <1>3, <1>5, <1>6, <1>7 DEF n

\* With a property that is not set there is a free block.
LEMMA FreeBlock ==
  ASSUME NEW m \in StringsType, EachOwned(m), NEW o \in Objects, NEW k \in Keys,
         m.property[o][k] = 0
  PROVE  \E a \in Addresses : m.block[a] = "free"
<1> SUFFICES ASSUME \A a \in Addresses : m.block[a] # "free" PROVE FALSE
  OBVIOUS
<1> DEFINE P == Objects \X Keys
           p0 == <<o, k>>
           P1 == P \ {p0}
           f == [a \in Addresses |->
                   CHOOSE p \in P : m.property[p[1]][p[2]] = a]
<1>1. \A a \in Addresses : \E p \in P : m.property[p[1]][p[2]] = a
  <2> SUFFICES ASSUME NEW a \in Addresses
               PROVE  \E p \in P : m.property[p[1]][p[2]] = a
    OBVIOUS
  <2>1. PICK o2 \in Objects, k2 \in Keys : m.property[o2][k2] = a
    BY DEF EachOwned
  <2>2. <<o2, k2>> \in P /\ m.property[<<o2, k2>>[1]][<<o2, k2>>[2]] = a
    BY <2>1
  <2>3. QED
    BY <2>2
<1>2. \A a \in Addresses : f[a] \in P /\ m.property[f[a][1]][f[a][2]] = a
  BY <1>1
<1>3. p0 \in P
  OBVIOUS
<1>4. \A a \in Addresses : f[a] # p0
  <2> SUFFICES ASSUME NEW a \in Addresses, f[a] = p0 PROVE FALSE
    OBVIOUS
  <2>1. p0[1] = o /\ p0[2] = k
    OBVIOUS
  <2>2. m.property[o][k] = a
    BY <1>2, <2>1
  <2>3. QED
    BY <2>2, AddressFacts
<1>5. f \in [Addresses -> P1]
  BY <1>2, <1>4
<1>6. /\ IsFiniteSet(P1)
      /\ Cardinality(P1) = Cardinality(P) - 1
  <2>1. IsFiniteSet(P)
    BY AddressFacts
  <2> HIDE DEF P, p0
  <2>2. QED
    BY <1>3, <2>1, FS_RemoveElement
<1>7. Cardinality(P1) < Cardinality(Addresses)
  BY <1>6, AddressFacts
<1> HIDE DEF f, P1
<1>8. PICK a, b \in Addresses : a # b /\ f[a] = f[b]
  BY <1>5, <1>6, <1>7, AddressFacts, FS_PigeonHole
<1>9. QED
  BY <1>2, <1>8

\* m without the property k of o, which keeps its pointer.
IsFreed(m, n, o, k) ==
  /\ n \in StringsType /\ EachOwned(n)
  /\ n.property[o][k] = 0 /\ n.pointer = m.pointer
  /\ SameBut(m, n, o, k)

\* Freeing a property touches no other, and leaves its pointer for the caller.
LEMMA FreeIsBlock == "free" \in BlockValues /\ 0 \in {0} \cup Addresses
BY DEF BlockValues

LEMMA FreedWorks ==
  ASSUME NEW m \in StringsType, EachOwned(m), NEW o \in Objects, NEW k \in Keys
  PROVE  IsFreed(m, Freed(m, o, k), o, k)
<1>1. CASE m.property[o][k] = 0
  BY <1>1 DEF Freed, IsFreed, SameBut, Same
<1>2. CASE m.property[o][k] # 0
  <2> DEFINE a == m.property[o][k]
             v == "free"
             z == 0
             n == [m EXCEPT !.block[a] = v, !.property[o][k] = z]
  <2>1. Freed(m, o, k) = n
    BY <1>2 DEF Freed
  <2>2. a \in Addresses
    BY <1>2 DEF StringsType
  <2>3. v \in BlockValues /\ z \in {0} \cup Addresses
    BY FreeIsBlock
  <2> HIDE DEF a, v, z
  <2>4. /\ n.pointer = m.pointer
        /\ n.block \in [Addresses -> BlockValues]
        /\ \A b \in Addresses : n.block[b] = IF b = a THEN v ELSE m.block[b]
        /\ n.property \in [Objects -> [Keys -> {0} \cup Addresses]]
        /\ \A o2 \in Objects, k2 \in Keys :
             n.property[o2][k2] = IF o2 = o /\ k2 = k THEN z ELSE m.property[o2][k2]
        /\ n \in StringsType
    BY <2>2, <2>3 DEF StringsType
  <2> HIDE DEF n
  <2> USE DEF a, v, z
  <2>5. \A o2 \in Objects, k2 \in Keys :
          m.property[o2][k2] = a => o2 = o /\ k2 = k
    BY <1>2 DEF EachOwned
  <2>6. SameBut(m, n, o, k)
    <3> SUFFICES ASSUME NEW o2 \in Objects, NEW k2 \in Keys, <<o2, k2>> # <<o, k>>
                 PROVE  Same(m, n, o2, k2)
      BY DEF SameBut
    <3>1. ~(o2 = o /\ k2 = k)
      OBVIOUS
    <3>2. n.property[o2][k2] = m.property[o2][k2] /\ m.property[o2][k2] # a
      BY <2>4, <2>5, <3>1
    <3>3. m.property[o2][k2] \in {0} \cup Addresses
      BY DEF StringsType
    <3>4. QED
      BY <2>4, <3>2, <3>3 DEF Same
  <2>7. EachOwned(n)
    <3>1. \A o1, o2 \in Objects, k1, k2 \in Keys :
            n.property[o1][k1] = n.property[o2][k2] /\ n.property[o1][k1] # 0
              => o1 = o2 /\ k1 = k2
      BY <2>4 DEF EachOwned
    <3>2. \A b \in Addresses : b # 0
      BY AddressFacts
    <3>3. ASSUME NEW b \in Addresses
          PROVE  n.block[b] # "free" <=> \E o2 \in Objects, k2 \in Keys : n.property[o2][k2] = b
      <4>1. CASE b = a
        BY <2>4, <2>5, <3>2, <4>1
      <4>2. CASE b # a
        BY <2>4, <2>5, <3>2, <4>2 DEF EachOwned
      <4>3. QED
        BY <4>1, <4>2
    <3>4. QED
      BY <3>1, <3>3 DEF EachOwned
  <2>8. QED
    BY <2>1, <2>4, <2>6, <2>7 DEF IsFreed
<1>3. QED
  BY <1>1, <1>2

\* n is m with value as the property k of o.
HasSet(m, n, o, k, value) ==
  /\ n \in Sound
  /\ n.property[o][k] # 0
  /\ n.block[n.property[o][k]] = value
  /\ SameBut(m, n, o, k)

\* pci_set_property() finds a block, as one is free or is freed by it.
LEMMA SetPropertyWorks ==
  ASSUME NEW m \in Sound, NEW o \in Objects, NEW k \in Keys, NEW value \in Values
  PROVE  HasSet(m, SetProperty(m, o, k, value), o, k, value)
<1> DEFINE f == Freed(m, o, k)
           a == Min({x \in Addresses : f.block[x] = "free"})
           g == [f EXCEPT !.block[a] = value, !.property[o][k] = a]
           h == IF k \in Pointers THEN [g EXCEPT !.pointer[o][k] = a] ELSE g
<1>1. IsFreed(m, f, o, k)
  BY FreedWorks DEF Sound
<1>2. SetProperty(m, o, k, value) = h
  BY DEF SetProperty
<1>3. a \in Addresses /\ f.block[a] = "free"
  <2>1. \E x \in Addresses : f.block[x] = "free"
    BY <1>1, FreeBlock DEF IsFreed
  <2> DEFINE F == {x \in Addresses : f.block[x] = "free"}
  <2>2. F \in SUBSET Nat /\ F # {}
    BY <2>1, AddressFacts
  <2>3. Min(F) \in F
    <3> HIDE DEF F
    <3>1. \E x \in F : \A y \in F : x <= y
      BY <2>2, LeastOf
    <3>2. QED
      BY <3>1 DEF Min
  <2>4. QED
    BY <2>3
<1>4. a # 0
  BY <1>3, AddressFacts
<1> HIDE DEF f, a
<1>5. f \in StringsType
  BY <1>1 DEF IsFreed
<1>6. value \in BlockValues /\ value # "free"
  BY DEF Values, BlockValues
<1>7. /\ g.pointer = f.pointer
      /\ g.block \in [Addresses -> BlockValues]
      /\ \A b \in Addresses : g.block[b] = IF b = a THEN value ELSE f.block[b]
      /\ g.property \in [Objects -> [Keys -> {0} \cup Addresses]]
      /\ \A o2 \in Objects, k2 \in Keys :
           g.property[o2][k2] = IF o2 = o /\ k2 = k THEN a ELSE f.property[o2][k2]
      /\ g \in StringsType
  BY <1>3, <1>5, <1>6 DEF StringsType
<1> HIDE DEF g
<1>8. /\ h.property = g.property /\ h.block = g.block
      /\ h \in StringsType
      /\ \A o2 \in Objects, k2 \in Pointers :
           h.pointer[o2][k2] = IF o2 = o /\ k2 = k THEN a ELSE m.pointer[o2][k2]
  <2>1. g.pointer = m.pointer
    BY <1>1, <1>7 DEF IsFreed
  <2>2. Pointers \subseteq Keys
    BY DEF Pointers, Keys
  <2>3. CASE k \in Pointers
    BY <1>3, <1>7, <2>1, <2>3 DEF StringsType
  <2>4. CASE k \notin Pointers
    BY <1>7, <2>1, <2>4
  <2>5. QED
    BY <2>3, <2>4
<1> HIDE DEF h
<1>9. \A o2 \in Objects, k2 \in Keys : f.property[o2][k2] # a
  BY <1>1, <1>3 DEF IsFreed, EachOwned
<1>10. EachOwned(h)
  <2>1. EachOwned(f) /\ f.property[o][k] = 0
    BY <1>1 DEF IsFreed
  <2>2. \A o1, o2 \in Objects, k1, k2 \in Keys :
          g.property[o1][k1] = g.property[o2][k2] /\ g.property[o1][k1] # 0
            => o1 = o2 /\ k1 = k2
    BY <1>7, <1>9, <2>1 DEF EachOwned
  <2>3. ASSUME NEW b \in Addresses
        PROVE  g.block[b] # "free" <=> \E o2 \in Objects, k2 \in Keys : g.property[o2][k2] = b
    <3>1. b # 0
      BY AddressFacts
    <3>2. CASE b = a
      BY <1>6, <1>7, <3>2
    <3>3. CASE b # a
      BY <1>7, <2>1, <3>1, <3>3 DEF EachOwned
    <3>4. QED
      BY <3>2, <3>3
  <2>4. QED
    BY <1>8, <2>2, <2>3 DEF EachOwned
<1>11. SameBut(m, h, o, k)
  <2> SUFFICES ASSUME NEW o2 \in Objects, NEW k2 \in Keys, <<o2, k2>> # <<o, k>>
               PROVE  Same(m, h, o2, k2)
    BY DEF SameBut
  <2>1. ~(o2 = o /\ k2 = k)
    OBVIOUS
  <2>2. Same(m, f, o2, k2)
    BY <1>1 DEF IsFreed, SameBut
  <2>3. m.property[o2][k2] \in {0} \cup Addresses
    BY DEF Sound, StringsType
  <2>4. g.property[o2][k2] = f.property[o2][k2] /\ f.property[o2][k2] # a
    BY <1>7, <1>9, <2>1
  <2>5. QED
    BY <1>7, <1>8, <2>2, <2>3, <2>4 DEF Same
<1>12. PointersFollow(h)
  <2>1. \A o2 \in Objects, k2 \in Pointers : m.pointer[o2][k2] = m.property[o2][k2]
    BY DEF Sound, PointersFollow
  <2>2. Pointers \subseteq Keys
    BY DEF Pointers, Keys
  <2>3. \A o2 \in Objects, k2 \in Pointers :
          ~(o2 = o /\ k2 = k) => h.property[o2][k2] = m.property[o2][k2]
    BY <1>11, <2>2 DEF SameBut, Same
  <2>4. \A o2 \in Objects, k2 \in Pointers :
          (o2 = o /\ k2 = k) => h.property[o2][k2] = a
    BY <1>7, <1>8, <2>2
  <2>5. QED
    BY <1>8, <2>1, <2>3, <2>4 DEF PointersFollow
<1>13. h \in Sound /\ h.property[o][k] # 0 /\ h.block[h.property[o][k]] = value
  BY <1>3, <1>4, <1>7, <1>8, <1>10, <1>12 DEF Sound
<1>14. QED
  BY <1>2, <1>11, <1>13 DEF HasSet

\* The properties in s of o are freed, and nothing else.
FreedAll(m, n, o, s) ==
  /\ n \in StringsType /\ EachOwned(n) /\ n.pointer = m.pointer
  /\ \A k \in s : n.property[o][k] = 0
  /\ \A o2 \in Objects, k2 \in Keys : ~(o2 = o /\ k2 \in s) => Same(m, n, o2, k2)

\* The order in which properties are freed and devices visited does not matter.
AnyOf(s) == CHOOSE x \in s : TRUE

\* Freeing one more property, and the fold over all of them.
LEMMA FreedAllNext ==
  ASSUME NEW m \in StringsType, NEW o \in Objects, NEW s \in SUBSET Keys,
         NEW k \in s, NEW n, FreedAll(m, n, o, s \ {k})
  PROVE  FreedAll(m, Freed(n, o, k), o, s)
<1> DEFINE f == Freed(n, o, k)
<1>1. n \in StringsType /\ EachOwned(n) /\ n.pointer = m.pointer
  BY DEF FreedAll
<1>2. IsFreed(n, f, o, k)
  BY <1>1, FreedWorks
<1> HIDE DEF f
<1>3. \A k2 \in s : f.property[o][k2] = 0
  <2> SUFFICES ASSUME NEW k2 \in s PROVE f.property[o][k2] = 0
    OBVIOUS
  <2>1. CASE k2 = k
    BY <1>2, <2>1 DEF IsFreed
  <2>2. CASE k2 # k
    <3>1. <<o, k2>> # <<o, k>> /\ k2 \in Keys
      BY <2>2
    <3>2. n.property[o][k2] = 0
      BY <2>2 DEF FreedAll
    <3>3. QED
      BY <1>2, <3>1, <3>2 DEF IsFreed, SameBut, Same
  <2>3. QED
    BY <2>1, <2>2
<1>4. ASSUME NEW o2 \in Objects, NEW k2 \in Keys, ~(o2 = o /\ k2 \in s)
      PROVE  Same(m, f, o2, k2)
  <2>1. <<o2, k2>> # <<o, k>>
    BY <1>4
  <2>2. Same(m, n, o2, k2)
    BY <1>4 DEF FreedAll
  <2>3. Same(n, f, o2, k2)
    BY <1>2, <2>1 DEF IsFreed, SameBut
  <2>4. QED
    BY <2>2, <2>3 DEF Same
<1>5. QED
  BY <1>1, <1>2, <1>3, <1>4 DEF FreedAll, IsFreed, f

LEMMA ResetFold ==
  ASSUME NEW m \in StringsType, EachOwned(m), NEW o \in Objects
  PROVE  FreedAll(m, FoldSet(LAMBDA k, n : Freed(n, o, k), m, Keys), o, Keys)
<1> DEFINE C == [s \in SUBSET Keys |-> AnyOf(s)]
           T == {n \in StringsType : EachOwned(n)}
           G == [p \in Keys \X T |-> Freed(p[2], o, p[1])]
           Step(f) == [s \in SUBSET Keys |->
                         IF s = {} THEN m ELSE Freed(f[s \ {AnyOf(s)}], o, AnyOf(s))]
           it == CHOOSE f : f = Step(f)
<1>1. FoldSet(LAMBDA k, n : Freed(n, o, k), m, Keys) = it[Keys]
  BY DEF FoldSet, MapThenFoldSet, AnyOf
<1>2. Picks(C, Keys)
  BY DEF Picks, AnyOf
<1>3. IsFiniteSet(Keys)
  BY KeysFinite
<1>4. G \in [Keys \X T -> T] /\ m \in T
  BY FreedWorks DEF IsFreed
<1>5. PICK f \in [SUBSET Keys -> T] :
        \A s \in SUBSET Keys :
          f[s] = IF s = {} THEN m ELSE G[<<C[s], f[s \ {C[s]}]>>]
  <2>1. HasFold(Keys, C, T, m, G)
    <3> HIDE DEF C, G, T
    <3>1. QED
      BY <1>2, <1>3, <1>4, FoldExists
  <2>2. QED
    BY <2>1 DEF HasFold
<1>6. f = Step(f)
  <2>1. \A s \in SUBSET Keys : s # {} =>
          C[s] \in Keys /\ C[s] = AnyOf(s) /\ s \ {C[s]} \in SUBSET Keys
    BY <1>2 DEF Picks
  <2>2. \A s \in SUBSET Keys : s # {} => f[s] = Freed(f[s \ {AnyOf(s)}], o, AnyOf(s))
    BY <1>5, <2>1
  <2>3. QED
    BY <1>5, <2>2
<1>7. it = Step(it)
  <2> HIDE DEF Step
  <2>1. QED
    BY <1>6
<1> HIDE DEF it
<1> DEFINE Q == {s \in SUBSET Keys : FreedAll(m, it[s], o, s)}
<1>8. {} \in Q
  <2>1. it[{}] = m
    BY <1>7
  <2>2. QED
    BY <2>1 DEF FreedAll, Same
<1>9. ASSUME NEW s \in SUBSET Keys, s # {}, s \ {C[s]} \in Q PROVE s \in Q
  <2>1. C[s] = AnyOf(s) /\ AnyOf(s) \in s
    BY <1>2, <1>9 DEF Picks
  <2>2. it[s] = Freed(it[s \ {AnyOf(s)}], o, AnyOf(s))
    BY <1>7, <1>9
  <2>3. QED
    BY <1>9, <2>1, <2>2, FreedAllNext
<1>10. Keys \in Q
  <2> HIDE DEF C, Q
  <2>1. QED
    BY <1>2, <1>3, <1>8, <1>9, FoldInduction
<1>11. QED
  BY <1>1, <1>10

\* An object without strings; nothing else changes.
HasReset(m, n, o) ==
  /\ n \in Sound
  /\ \A k \in Keys : n.property[o][k] = 0
  /\ \A o2 \in Objects \ {o}, k2 \in Keys : Same(m, n, o2, k2)

\* pci_reset_properties() leaves an object without strings.
LEMMA ResetWorks ==
  ASSUME NEW m \in Sound, NEW o \in Objects
  PROVE  HasReset(m, ResetStrings(m, o), o)
<1> DEFINE f == FoldSet(LAMBDA k, n : Freed(n, o, k), m, Keys)
           g == [f EXCEPT !.pointer[o] = [k \in Pointers |-> 0]]
<1>1. ResetStrings(m, o) = g
  BY DEF ResetStrings
<1>2. FreedAll(m, f, o, Keys)
  BY ResetFold DEF Sound
<1> HIDE DEF f
<1>3. Pointers \subseteq Keys
  BY DEF Pointers, Keys
<1>4. /\ g.property = f.property /\ g.block = f.block /\ g \in StringsType
      /\ \A o2 \in Objects, k2 \in Pointers :
           g.pointer[o2][k2] = IF o2 = o THEN 0 ELSE m.pointer[o2][k2]
  BY <1>2 DEF FreedAll, StringsType
<1> HIDE DEF g
<1>5. EachOwned(g)
  BY <1>2, <1>4 DEF FreedAll, EachOwned
<1>6. \A k \in Keys : g.property[o][k] = 0
  BY <1>2, <1>4 DEF FreedAll
<1>7. \A o2 \in Objects \ {o}, k2 \in Keys : Same(m, g, o2, k2)
  <2>1. \A o2 \in Objects \ {o}, k2 \in Keys : Same(m, f, o2, k2)
    BY <1>2 DEF FreedAll
  <2>2. QED
    BY <1>4, <2>1 DEF Same
<1>8. PointersFollow(g)
  <2>1. \A o2 \in Objects, k2 \in Pointers : m.pointer[o2][k2] = m.property[o2][k2]
    BY DEF Sound, PointersFollow
  <2>2. \A o2 \in Objects \ {o}, k2 \in Pointers : g.property[o2][k2] = m.property[o2][k2]
    BY <1>3, <1>7 DEF Same
  <2>3. QED
    BY <1>3, <1>4, <1>6, <2>1, <2>2 DEF PointersFollow
<1>9. QED
  BY <1>1, <1>4, <1>5, <1>6, <1>7, <1>8 DEF HasReset, Sound

\* An entry of the kernel's list.
Slot == [name : Values, at : STRING]

\* Keys and objects that a slot cannot change.
Spared(m, o, k) == k # "PHYS_SLOT" \/ m.property[o]["PHYS_SLOT"] # 0

\* A slot has been given to the objects in s.
SlotGiven(m, n, slot, s) ==
  /\ n \in Sound
  /\ \A o \in Objects, k \in Keys :
       Spared(m, o, k) \/ o \notin s \/ AddressOf[o] # slot.at => Same(m, n, o, k)
  /\ \A o \in s :
       m.property[o]["PHYS_SLOT"] = 0 /\ AddressOf[o] = slot.at =>
         /\ n.property[o]["PHYS_SLOT"] # 0
         /\ n.block[n.property[o]["PHYS_SLOT"]] = slot.name

\* One turn of the loop over the devices, and what it leaves.
GiveOne(o, n, slot) ==
  IF GetsSlot(n, o, slot) THEN SetProperty(n, o, "PHYS_SLOT", slot.name) ELSE n

LEMMA GiveOneSound ==
  ASSUME NEW n \in Sound, NEW o \in Objects, NEW slot \in Slot
  PROVE  GiveOne(o, n, slot) \in Sound
<1>1. "PHYS_SLOT" \in Keys /\ slot.name \in Values
  BY DEF Keys, Slot
<1>2. QED
  BY <1>1, SetPropertyWorks DEF GiveOne, HasSet

LEMMA SlotGivenNext ==
  ASSUME NEW m \in Sound, NEW slot \in Slot, NEW s \in SUBSET Listed,
         NEW o \in s, NEW n, SlotGiven(m, n, slot, s \ {o})
  PROVE  SlotGiven(m, GiveOne(o, n, slot), slot, s)
<1> DEFINE K == "PHYS_SLOT"
           g == GiveOne(o, n, slot)
<1>1. K \in Keys /\ K \in Pointers /\ slot.name \in Values /\ o \in Objects
      /\ s \subseteq Objects
  BY DEF Keys, Pointers, Slot, Objects
<1>2. n \in Sound
  BY DEF SlotGiven
<1>3. g \in Sound
  BY <1>1, <1>2, GiveOneSound
<1>4. Same(m, n, o, K)
  BY <1>1 DEF SlotGiven
<1>5. n.property[o][K] = m.property[o][K] /\ n.pointer[o][K] = m.property[o][K]
  BY <1>1, <1>2, <1>4 DEF Same, Sound, PointersFollow
<1>6. CASE ~GetsSlot(n, o, slot)
  <2>1. g = n
    BY <1>6 DEF GiveOne
  <2>2. AddressOf[o] # slot.at \/ m.property[o][K] # 0
    BY <1>5, <1>6 DEF GetsSlot
  <2>3. ASSUME NEW o2 \in Objects, NEW k2 \in Keys,
               Spared(m, o2, k2) \/ o2 \notin s \/ AddressOf[o2] # slot.at
        PROVE  Same(m, n, o2, k2)
    BY <2>3 DEF SlotGiven
  <2>4. ASSUME NEW o2 \in s, m.property[o2][K] = 0, AddressOf[o2] = slot.at
        PROVE  n.property[o2][K] # 0 /\ n.block[n.property[o2][K]] = slot.name
    <3>1. o2 # o
      BY <2>2, <2>4
    <3>2. QED
      BY <2>4, <3>1 DEF SlotGiven
  <2>5. QED
    BY <1>2, <2>1, <2>3, <2>4 DEF SlotGiven
<1>7. CASE GetsSlot(n, o, slot)
  <2>1. HasSet(n, g, o, K, slot.name)
    BY <1>1, <1>2, <1>7, SetPropertyWorks DEF GiveOne
  <2> HIDE DEF g
  <2>2. m.property[o][K] = 0 /\ AddressOf[o] = slot.at
    BY <1>5, <1>7 DEF GetsSlot
  <2>3. ASSUME NEW o2 \in Objects, NEW k2 \in Keys,
               Spared(m, o2, k2) \/ o2 \notin s \/ AddressOf[o2] # slot.at
        PROVE  Same(m, g, o2, k2)
    <3>1. Same(m, n, o2, k2)
      BY <2>3 DEF SlotGiven
    <3>2. ~(o2 = o /\ k2 = K)
      BY <2>2, <2>3 DEF Spared
    <3>3. Same(n, g, o2, k2)
      BY <2>1, <3>2 DEF HasSet, SameBut
    <3>4. QED
      BY <3>1, <3>3 DEF Same
  <2>4. ASSUME NEW o2 \in s, m.property[o2][K] = 0, AddressOf[o2] = slot.at
        PROVE  g.property[o2][K] # 0 /\ g.block[g.property[o2][K]] = slot.name
    <3>1. CASE o2 = o
      BY <2>1, <3>1 DEF HasSet
    <3>2. CASE o2 # o
      <4>1. n.property[o2][K] # 0 /\ n.block[n.property[o2][K]] = slot.name
        BY <2>4, <3>2 DEF SlotGiven
      <4>2. Same(n, g, o2, K)
        BY <1>1, <2>1, <3>2 DEF HasSet, SameBut
      <4>3. QED
        BY <4>1, <4>2 DEF Same
    <3>3. QED
      BY <3>1, <3>2
  <2>5. QED
    BY <1>3, <2>3, <2>4 DEF SlotGiven, g
<1>8. QED
  BY <1>6, <1>7

\* The loop over the devices, for one slot.
GiveAll(n, slot) ==
  FoldSet(LAMBDA o, p : IF GetsSlot(p, o, slot)
                        THEN SetProperty(p, o, "PHYS_SLOT", slot.name)
                        ELSE p,
          n, Listed)

LEMMA ListedFinite ==
  IsFiniteSet(Listed)
<1>1. Listed \in SUBSET Objects
  BY DEF Objects
<1>2. QED
  BY <1>1, SysfsFillAssumption, FS_Subset

LEMMA GiveAllWorks ==
  ASSUME NEW m \in Sound, NEW slot \in Slot
  PROVE  SlotGiven(m, GiveAll(m, slot), slot, Listed)
<1> DEFINE C == [s \in SUBSET Listed |-> AnyOf(s)]
           G == [p \in Listed \X Sound |-> GiveOne(p[1], p[2], slot)]
           Step(f) == [s \in SUBSET Listed |->
                         IF s = {} THEN m ELSE GiveOne(AnyOf(s), f[s \ {AnyOf(s)}], slot)]
           it == CHOOSE f : f = Step(f)
<1>1. GiveAll(m, slot) = it[Listed]
  BY DEF GiveAll, FoldSet, MapThenFoldSet, AnyOf, GiveOne
<1>2. Picks(C, Listed)
  BY DEF Picks, AnyOf
<1>3. G \in [Listed \X Sound -> Sound]
  BY GiveOneSound DEF Objects
<1>4. PICK f \in [SUBSET Listed -> Sound] :
        \A s \in SUBSET Listed :
          f[s] = IF s = {} THEN m ELSE G[<<C[s], f[s \ {C[s]}]>>]
  <2>1. HasFold(Listed, C, Sound, m, G)
    <3> HIDE DEF C, G
    <3>1. QED
      BY <1>2, <1>3, ListedFinite, FoldExists
  <2>2. QED
    BY <2>1 DEF HasFold
<1>5. f = Step(f)
  <2>1. \A s \in SUBSET Listed : s # {} =>
          C[s] \in Listed /\ C[s] = AnyOf(s) /\ s \ {C[s]} \in SUBSET Listed
    BY <1>2 DEF Picks
  <2>2. \A s \in SUBSET Listed : s # {} => f[s] = GiveOne(AnyOf(s), f[s \ {AnyOf(s)}], slot)
    BY <1>4, <2>1
  <2>3. QED
    BY <1>4, <2>2
<1>6. it = Step(it)
  <2> HIDE DEF Step
  <2>1. QED
    BY <1>5
<1> HIDE DEF it
<1> DEFINE Q == {s \in SUBSET Listed : SlotGiven(m, it[s], slot, s)}
<1>7. {} \in Q
  <2>1. it[{}] = m
    BY <1>6
  <2>2. QED
    BY <2>1 DEF SlotGiven, Same
<1>8. ASSUME NEW s \in SUBSET Listed, s # {}, s \ {C[s]} \in Q PROVE s \in Q
  <2>1. C[s] = AnyOf(s) /\ AnyOf(s) \in s
    BY <1>2, <1>8 DEF Picks
  <2>2. it[s] = GiveOne(AnyOf(s), it[s \ {AnyOf(s)}], slot)
    BY <1>6, <1>8
  <2>3. QED
    BY <1>8, <2>1, <2>2, SlotGivenNext
<1>9. Listed \in Q
  <2> HIDE DEF C, Q
  <2>1. QED
    BY <1>2, <1>7, <1>8, ListedFinite, FoldInduction
<1>10. QED
  BY <1>1, <1>9

\* The first i slots of list have been given to the devices.
SlotsGiven(m, n, list, i) ==
  /\ n \in Sound
  /\ \A o \in Objects, k \in Keys :
       Spared(m, o, k) \/ o \notin Listed => Same(m, n, o, k)
  /\ \A o \in Listed : m.property[o]["PHYS_SLOT"] = 0 =>
       LET a == n.property[o]["PHYS_SLOT"]
       IN /\ a = 0 => \A j \in 1..i : list[j].at # AddressOf[o]
          /\ a # 0 => \E j \in 1..i :
                        /\ list[j].at = AddressOf[o]
                        /\ \A l \in 1..j - 1 : list[l].at # AddressOf[o]
                        /\ n.block[a] = list[j].name

\* The loop over the slots: one more slot, and all of them.
LEMMA SlotsGivenNext ==
  ASSUME NEW m \in Sound, NEW list \in Seq(Slot), NEW i \in 1..Len(list),
         NEW n, SlotsGiven(m, n, list, i - 1)
  PROVE  SlotsGiven(m, GiveAll(n, list[i]), list, i)
<1> DEFINE K == "PHYS_SLOT"
           g == GiveAll(n, list[i])
<1>1. n \in Sound /\ list[i] \in Slot /\ K \in Keys
  BY DEF SlotsGiven, Keys
<1>2. SlotGiven(n, g, list[i], Listed)
  BY <1>1, GiveAllWorks
<1> HIDE DEF g
<1>3. ASSUME NEW o \in Objects, NEW k \in Keys, Spared(m, o, k) \/ o \notin Listed
      PROVE  Same(m, g, o, k)
  <2>1. Same(m, n, o, k)
    BY <1>3 DEF SlotsGiven
  <2>2. Spared(n, o, k) \/ o \notin Listed
    BY <1>3, <2>1 DEF Spared, Same
  <2>3. Same(n, g, o, k)
    BY <1>2, <2>2 DEF SlotGiven
  <2>4. QED
    BY <2>1, <2>3 DEF Same
<1>4. ASSUME NEW o \in Listed, m.property[o][K] = 0, g.property[o][K] = 0,
             NEW j \in 1..i
      PROVE  list[j].at # AddressOf[o]
  <2>1. o \in Objects
    BY DEF Objects
  <2>2. n.property[o][K] = 0 /\ AddressOf[o] # list[i].at
    BY <1>1, <1>2, <1>4, <2>1 DEF SlotGiven, Same, Spared
  <2>3. CASE j = i
    BY <2>2, <2>3
  <2>4. CASE j # i
    <3>1. j \in 1..i - 1
      BY <2>4
    <3>2. QED
      BY <1>4, <2>2, <3>1 DEF SlotsGiven
  <2>5. QED
    BY <2>3, <2>4
<1>5. ASSUME NEW o \in Listed, m.property[o][K] = 0, g.property[o][K] # 0
      PROVE  \E j \in 1..i :
               /\ list[j].at = AddressOf[o]
               /\ \A l \in 1..j - 1 : list[l].at # AddressOf[o]
               /\ g.block[g.property[o][K]] = list[j].name
  <2>1. o \in Objects
    BY DEF Objects
  <2>2. CASE n.property[o][K] = 0
    <3>1. AddressOf[o] = list[i].at
      BY <1>1, <1>2, <1>5, <2>1, <2>2 DEF SlotGiven, Same
    <3>2. g.block[g.property[o][K]] = list[i].name
      BY <1>2, <2>2, <3>1 DEF SlotGiven
    <3>3. \A l \in 1..i - 1 : list[l].at # AddressOf[o]
      BY <1>5, <2>2 DEF SlotsGiven
    <3>4. QED
      BY <3>1, <3>2, <3>3
  <2>3. CASE n.property[o][K] # 0
    <3>1. PICK j \in 1..i - 1 :
            /\ list[j].at = AddressOf[o]
            /\ \A l \in 1..j - 1 : list[l].at # AddressOf[o]
            /\ n.block[n.property[o][K]] = list[j].name
      BY <1>5, <2>3 DEF SlotsGiven
    <3>2. Same(n, g, o, K)
      BY <1>1, <1>2, <2>1, <2>3 DEF SlotGiven, Spared
    <3>3. g.block[g.property[o][K]] = list[j].name
      BY <2>3, <3>1, <3>2 DEF Same
    <3>4. j \in 1..i
      OBVIOUS
    <3>5. QED
      BY <3>1, <3>3, <3>4
  <2>4. QED
    BY <2>2, <2>3
<1>6. g \in Sound
  BY <1>2 DEF SlotGiven
<1>7. QED
  BY <1>3, <1>4, <1>5, <1>6 DEF SlotsGiven, g

\* A nonempty set of numbers from 1 to n has a largest one.
LEMMA MaxOf ==
  ASSUME NEW n \in Nat, NEW s \in SUBSET (1..n), s # {}
  PROVE  Max(s) \in s /\ \A x \in s : Max(s) >= x
<1> DEFINE B == {n - x : x \in s}
<1>1. B \in SUBSET Nat /\ B # {}
  <2>1. \A x \in s : x \in 1..n /\ n - x \in Nat
    OBVIOUS
  <2>2. QED
    BY <2>1
<1>2. PICK b \in B : \A c \in B : b <= c
  BY <1>1, LeastOf
<1>3. PICK x \in s : b = n - x
  BY <1>2
<1>4. ASSUME NEW y \in s PROVE x >= y
  <2>1. n - y \in B
    OBVIOUS
  <2>2. b <= n - y
    BY <1>2, <2>1
  <2>3. x \in Int /\ y \in Int
    OBVIOUS
  <2>4. QED
    BY <1>3, <2>2, <2>3
<1>5. QED
  BY <1>3, <1>4 DEF Max

LEMMA FillSlotsWorks ==
  ASSUME NEW m \in Sound, slots \in Seq(Slot)
  PROVE  SlotsGiven(m, FillSlots(m), slots, Len(slots))
<1> DEFINE N == Len(slots)
           D == 1..N
           C == [s \in SUBSET D |-> Max(s)]
           G == [p \in D \X Sound |-> GiveAll(p[2], slots[p[1]])]
           Step(f) == [s \in SUBSET D |->
                         IF s = {} THEN m ELSE GiveAll(f[s \ {Max(s)}], slots[Max(s)])]
           it == CHOOSE f : f = Step(f)
<1>1. N \in Nat /\ DOMAIN slots = D /\ \A i \in D : slots[i] \in Slot
  OBVIOUS
<1>2. FillSlots(m) = it[D]
  <2>1. FillSlots(m) =
          (CHOOSE f : f = [s \in SUBSET (DOMAIN slots) |->
             IF s = {} THEN m ELSE GiveAll(f[s \ {Max(s)}], slots[Max(s)])])[DOMAIN slots]
    BY DEF FillSlots, FoldLeft, MapThenFoldSet, GiveAll
  <2>2. QED
    BY <1>1, <2>1
<1>3. Picks(C, D)
  BY <1>1, MaxOf DEF Picks
<1>4. IsFiniteSet(D)
  BY <1>1, FS_Interval
<1>5. G \in [D \X Sound -> Sound]
  BY <1>1, GiveAllWorks DEF SlotGiven
<1> HIDE DEF D, N
<1>6. PICK f \in [SUBSET D -> Sound] :
        \A s \in SUBSET D :
          f[s] = IF s = {} THEN m ELSE G[<<C[s], f[s \ {C[s]}]>>]
  <2>1. HasFold(D, C, Sound, m, G)
    <3> HIDE DEF C, G
    <3>1. QED
      BY <1>3, <1>4, <1>5, FoldExists
  <2>2. QED
    BY <2>1 DEF HasFold
<1>7. f = Step(f)
  <2>1. \A s \in SUBSET D : s # {} =>
          C[s] \in D /\ C[s] = Max(s) /\ s \ {C[s]} \in SUBSET D
    BY <1>3 DEF Picks
  <2>2. \A s \in SUBSET D : s # {} => f[s] = GiveAll(f[s \ {Max(s)}], slots[Max(s)])
    BY <1>6, <2>1
  <2>3. QED
    BY <1>6, <2>2
<1>8. it = Step(it)
  <2> HIDE DEF Step
  <2>1. QED
    BY <1>7
<1> HIDE DEF it
<1> DEFINE Q == {s \in SUBSET D : /\ it[s] \in Sound
                                  /\ \A i \in 0..N : s = 1..i => SlotsGiven(m, it[s], slots, i)}
<1>9. {} \in Q
  <2>1. it[{}] = m
    BY <1>8
  <2>2. \A i \in 0..N : {} = 1..i => i = 0
    <3> SUFFICES ASSUME NEW i \in 0..N, {} = 1..i, i # 0 PROVE FALSE
      OBVIOUS
    <3>1. 1 \in 1..i
      BY <1>1 DEF N
    <3>2. QED
      BY <3>1
  <2>3. SlotsGiven(m, m, slots, 0)
    BY DEF SlotsGiven, Same, Spared
  <2>4. QED
    BY <2>1, <2>2, <2>3
<1>10. ASSUME NEW s \in SUBSET D, s # {}, s \ {C[s]} \in Q PROVE s \in Q
  <2>1. C[s] = Max(s) /\ Max(s) \in s /\ Max(s) \in D
    BY <1>3, <1>10 DEF Picks
  <2>2. it[s] = GiveAll(it[s \ {Max(s)}], slots[Max(s)])
    BY <1>8, <1>10
  <2>3. it[s \ {Max(s)}] \in Sound /\ slots[Max(s)] \in Slot
    BY <1>1, <1>10, <2>1 DEF D, N
  <2>4. it[s] \in Sound
    BY <2>2, <2>3, GiveAllWorks DEF SlotGiven
  <2>5. ASSUME NEW i \in 0..N, s = 1..i PROVE SlotsGiven(m, it[s], slots, i)
    <3>1. i \in 1..N /\ N \in Nat
      BY <1>1, <1>10, <2>5 DEF N
    <3>2. Max(s) = i
      <4>1. \A x \in s : Max(s) >= x
        BY <1>1, <1>10, MaxOf DEF D
      <4>2. QED
        BY <2>1, <2>5, <3>1, <4>1
    <3>3. s \ {i} = 1..(i - 1) /\ i - 1 \in 0..N
      BY <2>5, <3>1
    <3>4. SlotsGiven(m, it[s \ {i}], slots, i - 1)
      BY <1>10, <2>1, <3>2, <3>3
    <3>5. QED
      BY <2>2, <3>1, <3>2, <3>4, SlotsGivenNext DEF N
  <2>6. QED
    BY <2>4, <2>5
<1>11. D \in Q
  <2> HIDE DEF C, Q
  <2>1. QED
    BY <1>3, <1>4, <1>9, <1>10, FoldInduction
<1>12. N \in 0..N /\ D = 1..N
  BY <1>1 DEF D
<1>13. QED
  BY <1>2, <1>11, <1>12 DEF N

FillSpec == FillInit /\ [][FillNext]_fillVars

\* The slots as they are after FillStrings(), which fills in other strings later.
AfterSlots(m, flags) == IF "PHYS_SLOT" \in flags THEN FillSlots(m) ELSE m

\* n has the strings of m, those asked for of o, and with its slot all slots.
StringsFilled(m, n, o, flags) ==
  /\ n \in Sound
  /\ \A o2 \in Objects, k2 \in Keys :
       ~(o2 = o /\ k2 \in flags \ {"PHYS_SLOT"})
         => Same(AfterSlots(m, flags), n, o2, k2)

\* What stays the same twice stays the same.
LEMMA SameTwice ==
  ASSUME NEW l, NEW m, NEW n, NEW o, NEW k, Same(l, m, o, k), Same(m, n, o, k)
  PROVE  Same(l, n, o, k)
BY DEF Same

LEMMA FilledWorks ==
  ASSUME NEW m \in Sound, NEW o \in Objects, NEW k \in Keys, NEW value \in Values
  PROVE  /\ Filled(m, o, k, value) \in Sound
         /\ SameBut(m, Filled(m, o, k, value), o, k)
<1>1. CASE value = ""
  BY <1>1 DEF Filled, SameBut, Same
<1>2. CASE value # ""
  BY <1>2, SetPropertyWorks DEF Filled, HasSet
<1>3. QED
  BY <1>1, <1>2

\* sysfs_fill_info() fills in what it was asked for, and all slots with one.
LEMMA FillStringsWorks ==
  ASSUME NEW m \in Sound, NEW o \in Objects, NEW flags,
         slots \in Seq(Slot), files \in FileLists
  PROVE  StringsFilled(m, FillStrings(m, o, flags), o, flags)
<1> DEFINE s == AfterSlots(m, flags)
           a == IF "MODULE_ALIAS" \in flags
                THEN Filled(s, o, "MODULE_ALIAS", files[o].alias) ELSE s
           g == IF "IOMMU_GROUP" \in flags
                THEN Filled(a, o, "IOMMU_GROUP", files[o].group) ELSE a
<1>1. FillStrings(m, o, flags) = g
  BY DEF FillStrings, AfterSlots
<1>2. s \in Sound
  BY FillSlotsWorks DEF AfterSlots, SlotsGiven
<1> HIDE DEF s
<1>3. files[o].alias \in Values /\ files[o].group \in Values
  BY SysfsFillAssumption
<1>4. "MODULE_ALIAS" \in Keys /\ "IOMMU_GROUP" \in Keys
  BY DEF Keys
<1>5. a \in Sound /\ \A o2 \in Objects, k2 \in Keys :
        ~(o2 = o /\ k2 = "MODULE_ALIAS" /\ k2 \in flags) => Same(s, a, o2, k2)
  <2>1. CASE "MODULE_ALIAS" \in flags
    <3>1. a \in Sound /\ SameBut(s, a, o, "MODULE_ALIAS")
      BY <1>2, <1>3, <1>4, <2>1, FilledWorks
    <3> HIDE DEF a
    <3>2. QED
      BY <2>1, <3>1 DEF SameBut
  <2>2. CASE "MODULE_ALIAS" \notin flags
    BY <1>2, <2>2 DEF Same
  <2>3. QED
    BY <2>1, <2>2
<1> HIDE DEF a
<1>6. g \in Sound /\ \A o2 \in Objects, k2 \in Keys :
        ~(o2 = o /\ k2 = "IOMMU_GROUP" /\ k2 \in flags) => Same(a, g, o2, k2)
  <2>1. CASE "IOMMU_GROUP" \in flags
    <3>1. g \in Sound /\ SameBut(a, g, o, "IOMMU_GROUP")
      BY <1>3, <1>4, <1>5, <2>1, FilledWorks
    <3> HIDE DEF g
    <3>2. QED
      BY <2>1, <3>1 DEF SameBut
  <2>2. CASE "IOMMU_GROUP" \notin flags
    BY <1>5, <2>2 DEF Same
  <2>3. QED
    BY <2>1, <2>2
<1> HIDE DEF g
<1>7. ASSUME NEW o2 \in Objects, NEW k2 \in Keys,
             ~(o2 = o /\ k2 \in flags \ {"PHYS_SLOT"})
      PROVE  Same(s, g, o2, k2)
  <2>1. Same(s, a, o2, k2) /\ Same(a, g, o2, k2)
    BY <1>5, <1>6, <1>7
  <2>2. QED
    BY <2>1, SameTwice
<1>8. QED
  BY <1>1, <1>6, <1>7 DEF StringsFilled, s

\* The device o has the first slot of list that names it, or none.
SlotShown(n, list, o) ==
  LET a == n.property[o]["PHYS_SLOT"]
  IN /\ a = 0 => \A j \in 1..Len(list) : list[j].at # AddressOf[o]
     /\ a # 0 => \E j \in 1..Len(list) :
                   /\ list[j].at = AddressOf[o]
                   /\ \A l \in 1..j - 1 : list[l].at # AddressOf[o]
                   /\ n.block[a] = list[j].name

\* A slot that is right stays right while its string stays.
LEMMA SlotStillShown ==
  ASSUME NEW m, NEW n, NEW list, NEW o, Same(m, n, o, "PHYS_SLOT"), SlotShown(m, list, o)
  PROVE  SlotShown(n, list, o)
<1> DEFINE a == m.property[o]["PHYS_SLOT"]
<1>1. n.property[o]["PHYS_SLOT"] = a /\ (a # 0 => n.block[a] = m.block[a])
  BY DEF Same
<1>2. QED
  BY <1>1 DEF SlotShown

\* A field that is not known is not set.
UnknownAreUnset ==
  \A o \in Objects, k \in Keys : k \notin known[o] => strings.property[o][k] = 0

\* While the kernel's slots stay what they are, the known ones are right.
KnownSlotsShown ==
  ~kernelChanged =>
    \A o \in Listed : "PHYS_SLOT" \in known[o] => SlotShown(strings, slots, o)

\* Types, and that nothing is known before the start.
FillTyped ==
  /\ known \in [Objects -> SUBSET (Keys \cup {"IDENT"})]
  /\ slots \in Seq(Slot)
  /\ fillable = "idle" => \A o \in Objects : known[o] = {}
  /\ fillable # "idle" => files \in FileLists

\* What is not known is not set, and what is known of slots is right.
FillInv == strings \in Sound /\ FillTyped /\ UnknownAreUnset /\ KnownSlotsShown

\* The invariant holds of the first states.
LEMMA FillInvInit ==
  FillInit => FillInv
<1> SUFFICES ASSUME FillInit PROVE FillInv
  OBVIOUS
<1>1. strings = NoStrings /\ known = [o \in Objects |-> {}] /\ slots = <<>>
      /\ fillable = "idle"
  BY DEF FillInit
<1>2. NoStrings \in StringsType
  BY DEF NoStrings, StringsType, BlockValues
<1>3. EachOwned(NoStrings)
  <2>1. \A o \in Objects, k \in Keys : NoStrings.property[o][k] = 0
    BY DEF NoStrings
  <2>2. \A a \in Addresses : NoStrings.block[a] = "free" /\ a # 0
    BY AddressFacts DEF NoStrings
  <2>3. QED
    BY <2>1, <2>2 DEF EachOwned
<1>4. PointersFollow(NoStrings)
  BY DEF NoStrings, PointersFollow, Pointers, Keys
<1>5. UnknownAreUnset
  BY <1>1 DEF UnknownAreUnset, NoStrings
<1>6. KnownSlotsShown
  BY <1>1 DEF KnownSlotsShown, Objects
<1>7. FillTyped
  BY <1>1 DEF FillTyped
<1>8. QED
  BY <1>1, <1>2, <1>3, <1>4, <1>5, <1>6, <1>7 DEF FillInv, Sound

LEMMA SlotListsTyped ==
  SlotLists \subseteq Seq(Slot)
BY SysfsFillAssumption DEF Slot

\* The strings before a request: those of an object to be scanned anew are gone.
Begun(o, rescan) == IF rescan THEN ResetStrings(strings, o) ELSE strings
KnownBefore(o, rescan) == IF rescan THEN KnownAfterReset(o) ELSE known[o]

HasBegun(m, o, rescan) ==
  /\ m \in Sound
  /\ \A k \in Keys : k \notin KnownBefore(o, rescan) => m.property[o][k] = 0
  /\ \A o2 \in Objects, k2 \in Keys : ~(rescan /\ o2 = o) => Same(strings, m, o2, k2)

\* A request begins with sound strings, and resets those of its object only.
LEMMA BegunWorks ==
  ASSUME FillInv, NEW o \in Objects, NEW rescan \in BOOLEAN
  PROVE  HasBegun(Begun(o, rescan), o, rescan)
<1>1. strings \in Sound
  BY DEF FillInv
<1>2. CASE rescan
  <2>1. HasReset(strings, Begun(o, rescan), o)
    BY <1>1, <1>2, ResetWorks DEF Begun
  <2>2. QED
    BY <1>2, <2>1 DEF HasReset, HasBegun
<1>3. CASE ~rescan
  <2>1. Begun(o, rescan) = strings /\ KnownBefore(o, rescan) = known[o]
    BY <1>3 DEF Begun, KnownBefore
  <2>2. \A k \in Keys : k \notin known[o] => strings.property[o][k] = 0
    BY DEF FillInv, UnknownAreUnset
  <2>3. QED
    BY <1>1, <2>1, <2>2 DEF HasBegun, Same
<1>4. QED
  BY <1>2, <1>3

\* What a request does, with the strings m it begins with.
Dies(o, fields, m, before, flags) ==
  /\ strings' = m /\ known' = [known EXCEPT ![o] = before]
  /\ fillable' = "died"

Answers(o, fields, m, before, flags) ==
  /\ strings' = FillStrings(m, o, flags)
  /\ known' = [x \in Objects |->
                 (IF x = o THEN before \cup flags ELSE known[x])
                 \cup (IF "PHYS_SLOT" \in flags /\ x \in SlotKnown(o)
                       THEN {"PHYS_SLOT"} ELSE {})]
  /\ UNCHANGED fillable

\* What is asked for and not yet known.
Flags(fields, before) == (fields \ {"RESCAN"}) \ before

\* The cases of a request.
InfoCases(o, fields) ==
  LET rescan == "RESCAN" \in fields
      m == Begun(o, rescan)
      before == KnownBefore(o, rescan)
      flags == Flags(fields, before)
  IN /\ fillable = "ready"
     /\ rescanned' = IF rescan THEN o ELSE Nobody
     /\ Dies(o, fields, m, before, flags) \/ Answers(o, fields, m, before, flags)
     /\ UNCHANGED <<slots, files, kernelChanged>>

LEMMA InfoSplit ==
  ASSUME NEW o, NEW fields, FillInfo(o, fields)
  PROVE  InfoCases(o, fields)
BY DEF FillInfo, InfoCases, Begun, KnownBefore, Flags, Dies, Answers

LEMMA RequestTyped ==
  ASSUME NEW fields \in FillRequests
  PROVE  fields \subseteq Keys \cup {"IDENT", "RESCAN"}
BY SysfsFillAssumption

\* A request that ends the client, and one that is answered, keep the invariant.
LEMMA DiesKeeps ==
  ASSUME FillInv, NEW o \in Objects, NEW fields \in FillRequests, NEW rescan \in BOOLEAN,
         rescan = ("RESCAN" \in fields), NEW m, HasBegun(m, o, rescan), NEW flags,
         Dies(o, fields, m, KnownBefore(o, rescan), flags), fillable = "ready",
         UNCHANGED <<slots, files, kernelChanged>>
  PROVE  FillInv'
<1> DEFINE before == KnownBefore(o, rescan)
<1>1. before \in SUBSET (Keys \cup {"IDENT"}) /\ (rescan => before = {})
      /\ (~rescan => before = known[o])
  BY DEF FillInv, FillTyped, KnownBefore, KnownAfterReset
<1> HIDE DEF before
<1>2. /\ strings' = m /\ known' = [known EXCEPT ![o] = before]
      /\ fillable' = "died"
  BY DEF Dies, before
<1>3. known' \in [Objects -> SUBSET (Keys \cup {"IDENT"})]
      /\ \A x \in Objects : known'[x] = IF x = o THEN before ELSE known[x]
  BY <1>1, <1>2 DEF FillInv, FillTyped
<1>4. FillTyped'
  BY <1>2, <1>3 DEF FillInv, FillTyped
<1>5. UnknownAreUnset'
  <2> SUFFICES ASSUME NEW x \in Objects, NEW k \in Keys, k \notin known'[x]
               PROVE  m.property[x][k] = 0
    BY <1>2 DEF UnknownAreUnset
  <2>1. CASE x = o
    BY <1>3, <2>1 DEF HasBegun, before
  <2>2. CASE x # o
    <3>1. k \notin known[x]
      BY <1>3, <2>2
    <3>2. strings.property[x][k] = 0
      BY <3>1 DEF FillInv, UnknownAreUnset
    <3>3. Same(strings, m, x, k)
      BY <2>2 DEF HasBegun
    <3>4. QED
      BY <3>2, <3>3 DEF Same
  <2>3. QED
    BY <2>1, <2>2
<1>6. KnownSlotsShown'
  <2> SUFFICES ASSUME ~kernelChanged, NEW x \in Listed, "PHYS_SLOT" \in known'[x]
               PROVE  SlotShown(m, slots, x)
    BY <1>2 DEF KnownSlotsShown
  <2>1. x \in Objects /\ "PHYS_SLOT" \in Keys
    BY DEF Objects, Keys
  <2>2. ~(rescan /\ x = o) /\ "PHYS_SLOT" \in known[x]
    BY <1>1, <1>3, <2>1
  <2>3. Same(strings, m, x, "PHYS_SLOT")
    BY <2>1, <2>2 DEF HasBegun
  <2>4. SlotShown(strings, slots, x)
    BY <2>2 DEF FillInv, KnownSlotsShown
  <2>5. QED
    BY <2>3, <2>4, SlotStillShown
<1>7. strings' \in Sound
  BY <1>2 DEF HasBegun
<1>8. QED
  BY <1>4, <1>5, <1>6, <1>7 DEF FillInv

LEMMA AnswersKeeps ==
  ASSUME FillInv, NEW o \in Objects, NEW fields \in FillRequests, NEW rescan \in BOOLEAN,
         rescan = ("RESCAN" \in fields), NEW m, HasBegun(m, o, rescan),
         Answers(o, fields, m, KnownBefore(o, rescan), Flags(fields, KnownBefore(o, rescan))),
         fillable = "ready", UNCHANGED <<slots, files, kernelChanged>>
  PROVE  FillInv'
<1> DEFINE before == KnownBefore(o, rescan)
           flags == Flags(fields, before)
           K == "PHYS_SLOT"
           s == AfterSlots(m, flags)
           n == FillStrings(m, o, flags)
<1>1. before \in SUBSET (Keys \cup {"IDENT"}) /\ (rescan => before = {})
      /\ (~rescan => before = known[o])
  BY DEF FillInv, FillTyped, KnownBefore, KnownAfterReset
<1> HIDE DEF before
<1>2. flags \in SUBSET (Keys \cup {"IDENT"}) /\ \A k \in before : k \notin flags
  BY RequestTyped DEF Flags
<1> HIDE DEF flags
<1>3. /\ strings' = n
      /\ known' = [x \in Objects |->
                     (IF x = o THEN before \cup flags ELSE known[x])
                     \cup (IF K \in flags /\ x \in SlotKnown(o) THEN {K} ELSE {})]
      /\ fillable' = fillable
  BY DEF Answers, before, flags
<1>4. K \in Keys /\ Listed \subseteq Objects
  BY DEF Keys, Objects
<1>5. known' \in [Objects -> SUBSET (Keys \cup {"IDENT"})]
      /\ \A x \in Objects :
           known'[x] = (IF x = o THEN before \cup flags ELSE known[x])
                       \cup (IF K \in flags /\ x \in SlotKnown(o) THEN {K} ELSE {})
  <2>1. known \in [Objects -> SUBSET (Keys \cup {"IDENT"})]
    BY DEF FillInv, FillTyped
  <2>2. QED
    BY <1>1, <1>2, <1>3, <1>4, <2>1
<1>6. m \in Sound /\ slots \in Seq(Slot) /\ files \in FileLists
  BY DEF HasBegun, FillInv, FillTyped
<1>7. StringsFilled(m, n, o, flags)
  BY <1>6, FillStringsWorks
<1> HIDE DEF n
<1>8. K \in flags => SlotsGiven(m, s, slots, Len(slots))
  BY <1>6, FillSlotsWorks DEF AfterSlots
<1>9. K \notin flags => s = m
  BY DEF AfterSlots
<1> HIDE DEF s, K
<1>10. \A x \in Objects, k \in Keys : ~(x = o /\ k \in flags \ {K}) => Same(s, n, x, k)
  BY <1>7 DEF StringsFilled, s, K
<1>11. FillTyped'
  BY <1>3, <1>5 DEF FillInv, FillTyped
<1>12. ASSUME NEW x \in Objects, NEW k \in Keys, k \notin known'[x]
       PROVE  n.property[x][k] = 0
  <2>1. m.property[x][k] = 0
    <3>1. CASE x = o
      BY <1>5, <1>12, <3>1 DEF HasBegun, before
    <3>2. CASE x # o
      <4>1. k \notin known[x]
        BY <1>5, <1>12, <3>2
      <4>2. strings.property[x][k] = 0
        BY <4>1 DEF FillInv, UnknownAreUnset
      <4>3. Same(strings, m, x, k)
        BY <3>2 DEF HasBegun
      <4>4. QED
        BY <4>2, <4>3 DEF Same
    <3>3. QED
      BY <3>1, <3>2
  <2>2. Same(m, s, x, k)
    <3>1. CASE K \notin flags
      BY <1>9, <3>1 DEF Same
    <3>2. CASE K \in flags
      <4>1. k # K \/ x \notin Listed
        BY <1>5, <1>12, <3>2 DEF SlotKnown
      <4>2. Spared(m, x, k) \/ x \notin Listed
        BY <4>1 DEF Spared, K
      <4>3. QED
        BY <1>8, <3>2, <4>2 DEF SlotsGiven
    <3>3. QED
      BY <3>1, <3>2
  <2>3. ~(x = o /\ k \in flags \ {K})
    BY <1>5, <1>12
  <2>4. Same(s, n, x, k)
    BY <1>10, <2>3
  <2>5. QED
    BY <2>1, <2>2, <2>4 DEF Same
<1>13. ASSUME ~kernelChanged, NEW x \in Listed, K \in known'[x]
       PROVE  SlotShown(n, slots, x)
  <2>1. x \in Objects
    BY <1>4
  <2>2. Same(s, n, x, K)
    BY <1>4, <1>10, <2>1
  <2>3. SlotShown(s, slots, x)
    <3>1. CASE K \in flags /\ m.property[x][K] = 0
      BY <1>8, <3>1 DEF SlotsGiven, SlotShown, K
    <3>2. CASE K \notin flags
      <4>1. ~(rescan /\ x = o) /\ K \in known[x]
        BY <1>1, <1>5, <1>13, <2>1, <3>2
      <4>2. Same(strings, m, x, K)
        BY <1>4, <2>1, <4>1 DEF HasBegun
      <4>3. SlotShown(strings, slots, x)
        BY <1>13, <4>1 DEF FillInv, KnownSlotsShown, K
      <4>4. QED
        BY <1>9, <3>2, <4>2, <4>3, SlotStillShown DEF K
    <3>3. CASE K \in flags /\ m.property[x][K] # 0
      <4>1. x # o
        BY <1>2, <1>4, <2>1, <3>3 DEF HasBegun, before
      <4>2. Same(strings, m, x, K)
        BY <1>4, <2>1, <4>1 DEF HasBegun
      <4>3. strings.property[x][K] # 0
        BY <3>3, <4>2 DEF Same
      <4>4. K \in known[x]
        BY <1>4, <2>1, <4>3 DEF FillInv, UnknownAreUnset
      <4>5. SlotShown(m, slots, x)
        BY <1>13, <4>2, <4>4, SlotStillShown DEF FillInv, KnownSlotsShown, K
      <4>6. Same(m, s, x, K)
        BY <1>4, <1>8, <2>1, <3>3 DEF SlotsGiven, Spared, K
      <4>7. QED
        BY <4>5, <4>6, SlotStillShown DEF K
    <3>4. QED
      BY <3>1, <3>2, <3>3
  <2>4. QED
    BY <2>2, <2>3, SlotStillShown DEF K
<1>14. UnknownAreUnset' /\ KnownSlotsShown' /\ strings' \in Sound
  <2>1. UnknownAreUnset'
    BY <1>3, <1>12 DEF UnknownAreUnset
  <2>2. KnownSlotsShown'
    BY <1>3, <1>13 DEF KnownSlotsShown, K
  <2>3. QED
    BY <1>3, <1>7, <2>1, <2>2 DEF StringsFilled
<1>15. QED
  BY <1>11, <1>14 DEF FillInv

\* Every step keeps the invariant.
LEMMA FillInvNext ==
  FillInv /\ [FillNext]_fillVars => FillInv'
<1> SUFFICES ASSUME FillInv, [FillNext]_fillVars PROVE FillInv'
  OBVIOUS
<1>1. CASE StartFill
  <2>1. /\ slots' \in Seq(Slot) /\ files' \in FileLists
        /\ strings' = strings /\ known' = known /\ fillable' = "ready"
        /\ kernelChanged' = kernelChanged /\ fillable = "idle"
    BY <1>1, SlotListsTyped DEF StartFill
  <2>2. \A o \in Objects : known[o] = {}
    BY <2>1 DEF FillInv, FillTyped
  <2>3. KnownSlotsShown'
    BY <2>1, <2>2 DEF KnownSlotsShown, Objects
  <2>4. FillTyped' /\ UnknownAreUnset' /\ strings' \in Sound
    BY <2>1 DEF FillInv, FillTyped, UnknownAreUnset
  <2>5. QED
    BY <2>3, <2>4 DEF FillInv
<1>2. CASE KernelChange
  <2>1. /\ slots' \in Seq(Slot) /\ files' \in FileLists
        /\ strings' = strings /\ known' = known /\ fillable' = fillable
        /\ kernelChanged' = TRUE /\ fillable = "ready"
    BY <1>2, SlotListsTyped DEF KernelChange
  <2>2. KnownSlotsShown'
    BY <2>1 DEF KnownSlotsShown
  <2>3. FillTyped' /\ UnknownAreUnset' /\ strings' \in Sound
    BY <2>1 DEF FillInv, FillTyped, UnknownAreUnset
  <2>4. QED
    BY <2>2, <2>3 DEF FillInv
<1>3. ASSUME NEW o \in Objects, NEW fields \in FillRequests, FillInfo(o, fields)
      PROVE  FillInv'
  <2> DEFINE rescan == "RESCAN" \in fields
             m == Begun(o, rescan)
  <2>0. rescan \in BOOLEAN /\ rescan = ("RESCAN" \in fields)
    OBVIOUS
  <2>1. HasBegun(m, o, rescan)
    <3> HIDE DEF rescan
    <3>1. QED
      BY <2>0, BegunWorks
  <2> DEFINE before == KnownBefore(o, rescan)
             flags == Flags(fields, before)
  <2>2. /\ fillable = "ready" /\ UNCHANGED <<slots, files, kernelChanged>>
        /\ Dies(o, fields, m, before, flags) \/ Answers(o, fields, m, before, flags)
    BY <1>3, InfoSplit DEF InfoCases
  <2> HIDE DEF rescan, m
  <2>3. CASE Dies(o, fields, m, before, flags)
    BY <2>0, <2>1, <2>2, <2>3, DiesKeeps
  <2>4. CASE Answers(o, fields, m, before, flags)
    BY <2>0, <2>1, <2>2, <2>4, AnswersKeeps
  <2>5. QED
    BY <2>2, <2>3, <2>4
<1>4. CASE UNCHANGED fillVars
  BY <1>4 DEF fillVars, FillInv, FillTyped, UnknownAreUnset, KnownSlotsShown
<1>5. QED
  BY <1>1, <1>2, <1>3, <1>4 DEF FillNext

\* Strings stay, but for those of an object that is scanned anew.
AllStay ==
  \A o \in Objects, k \in Keys :
    strings.property[o][k] # 0 /\ rescanned' # o => Same(strings, strings', o, k)

\* Every step leaves the strings, but for those it resets first.
LEMMA FillStays ==
  FillInv /\ [FillNext]_fillVars => AllStay
<1> SUFFICES ASSUME FillInv, [FillNext]_fillVars, NEW x \in Objects, NEW k \in Keys,
                    strings.property[x][k] # 0, rescanned' # x
             PROVE  Same(strings, strings', x, k)
  BY DEF AllStay
<1>1. CASE UNCHANGED strings
  BY <1>1 DEF Same
<1>2. ASSUME NEW o \in Objects, NEW fields \in FillRequests, FillInfo(o, fields)
      PROVE  Same(strings, strings', x, k)
  <2> DEFINE rescan == "RESCAN" \in fields
             m == Begun(o, rescan)
             before == KnownBefore(o, rescan)
             flags == Flags(fields, before)
             s == AfterSlots(m, flags)
             n == FillStrings(m, o, flags)
  <2>0. rescan \in BOOLEAN /\ rescan = ("RESCAN" \in fields)
    OBVIOUS
  <2>1. HasBegun(m, o, rescan)
    <3> HIDE DEF rescan
    <3>1. QED
      BY <2>0, BegunWorks
  <2>2. InfoCases(o, fields)
    BY <1>2, InfoSplit
  <2>3. ~(rescan /\ x = o) /\ fillable = "ready"
    BY <2>2 DEF InfoCases
  <2>4. Same(strings, m, x, k)
    BY <2>1, <2>3 DEF HasBegun
  <2>5. k \in known[x]
    BY DEF FillInv, UnknownAreUnset
  <2>6. x = o => k \notin flags
    BY <2>3, <2>5 DEF KnownBefore, Flags
  <2> HIDE DEF m, flags
  <2>7. m \in Sound /\ slots \in Seq(Slot) /\ files \in FileLists
    BY <2>1, <2>3 DEF HasBegun, FillInv, FillTyped
  <2>8. Same(m, s, x, k)
    <3>1. CASE "PHYS_SLOT" \in flags
      <4>1. SlotsGiven(m, s, slots, Len(slots))
        BY <2>7, <3>1, FillSlotsWorks DEF AfterSlots
      <4>2. m.property[x][k] # 0
        BY <2>4 DEF Same
      <4>3. Spared(m, x, k)
        BY <4>2 DEF Spared
      <4>4. QED
        BY <4>1, <4>3 DEF SlotsGiven
    <3>2. CASE "PHYS_SLOT" \notin flags
      BY <3>2 DEF AfterSlots, Same
    <3>3. QED
      BY <3>1, <3>2
  <2>9. Same(s, n, x, k)
    BY <2>6, <2>7, FillStringsWorks DEF StringsFilled
  <2> HIDE DEF s, n
  <2>10. Same(strings, n, x, k)
    BY <2>4, <2>8, <2>9 DEF Same
  <2>11. strings' \in {m, n}
    BY <2>2 DEF InfoCases, Dies, Answers, m, n, flags
  <2>12. QED
    BY <2>4, <2>10, <2>11
<1>3. QED
  BY <1>1, <1>2 DEF FillNext, StartFill, KernelChange, fillVars

\* The invariant is what the properties need.
LEMMA FillInvImplies ==
  FillInv => SlotIsFirst /\ StringsAreOwned
<1> SUFFICES ASSUME FillInv PROVE SlotIsFirst /\ StringsAreOwned
  OBVIOUS
<1>1. strings \in StringsType /\ EachOwned(strings) /\ PointersFollow(strings)
  BY DEF FillInv, Sound
<1>2. Pointers \subseteq Keys
  BY DEF Pointers, Keys
<1>3. SlotIsFirst
  <2> SUFFICES ASSUME ~kernelChanged, NEW o \in Listed, "PHYS_SLOT" \in known[o]
               PROVE  LET a == strings.pointer[o]["PHYS_SLOT"]
                      IN /\ a = 0 => \A i \in 1..Len(slots) : slots[i].at # AddressOf[o]
                         /\ a # 0 => \E i \in 1..Len(slots) :
                              IsFirstSlot(o, i) /\ strings.block[a] = slots[i].name
    BY DEF SlotIsFirst
  <2>1. SlotShown(strings, slots, o)
    BY DEF FillInv, KnownSlotsShown
  <2>2. "PHYS_SLOT" \in Pointers /\ o \in Objects
    BY DEF Pointers, Objects
  <2>3. strings.pointer[o]["PHYS_SLOT"] = strings.property[o]["PHYS_SLOT"]
    BY <1>1, <2>2 DEF PointersFollow
  <2>4. QED
    BY <2>1, <2>3 DEF SlotShown, IsFirstSlot
<1>4. StringsAreOwned
  <2> DEFINE owned == {p \in Objects \X Keys : strings.property[p[1]][p[2]] # 0}
  <2>1. \A o \in Objects, k \in Pointers :
          strings.pointer[o][k] \in {0, strings.property[o][k]}
    BY <1>1 DEF PointersFollow
  <2>2. \A p, q \in owned :
          strings.property[p[1]][p[2]] = strings.property[q[1]][q[2]] => p = q
    <3> SUFFICES ASSUME NEW p \in owned, NEW q \in owned,
                        strings.property[p[1]][p[2]] = strings.property[q[1]][q[2]]
                 PROVE  p = q
      OBVIOUS
    <3>1. p \in Objects \X Keys /\ q \in Objects \X Keys
      OBVIOUS
    <3>2. p[1] = q[1] /\ p[2] = q[2]
      BY <1>1, <3>1 DEF EachOwned
    <3>3. QED
      BY <3>1, <3>2
  <2>3. {a \in Addresses : strings.block[a] # "free"} =
          {strings.property[p[1]][p[2]] : p \in owned}
    <3>1. ASSUME NEW a \in Addresses, strings.block[a] # "free"
          PROVE  \E p \in owned : a = strings.property[p[1]][p[2]]
      <4>1. PICK o \in Objects, k \in Keys : strings.property[o][k] = a
        BY <1>1, <3>1 DEF EachOwned
      <4>2. a # 0
        BY AddressFacts
      <4>3. <<o, k>> \in owned /\ a = strings.property[<<o, k>>[1]][<<o, k>>[2]]
        BY <4>1, <4>2
      <4>4. QED
        BY <4>3
    <3>2. ASSUME NEW p \in owned
          PROVE  /\ strings.property[p[1]][p[2]] \in Addresses
                 /\ strings.block[strings.property[p[1]][p[2]]] # "free"
      <4>1. p[1] \in Objects /\ p[2] \in Keys /\ strings.property[p[1]][p[2]] # 0
        OBVIOUS
      <4>2. strings.property[p[1]][p[2]] \in Addresses
        BY <1>1, <4>1 DEF StringsType
      <4>3. QED
        BY <1>1, <4>1, <4>2 DEF EachOwned
    <3> HIDE DEF owned
    <3>3. QED
      BY <3>1, <3>2
  <2>4. QED
    BY <2>1, <2>2, <2>3 DEF StringsAreOwned
<1>5. QED
  BY <1>3, <1>4

\* What a step may never do, in the terms of StringsStay.
Stays ==
  \A o \in Objects, k \in Pointers :
    LET a == strings.pointer[o][k]
    IN a # 0 /\ rescanned' # o =>
         strings'.pointer[o][k] = a /\ strings'.block[a] = strings.block[a]

LEMMA StaysFromAll ==
  FillInv /\ FillInv' /\ AllStay => Stays
<1> SUFFICES ASSUME FillInv, FillInv', AllStay, NEW o \in Objects, NEW k \in Pointers,
                    strings.pointer[o][k] # 0, rescanned' # o
             PROVE  /\ strings'.pointer[o][k] = strings.pointer[o][k]
                    /\ strings'.block[strings.pointer[o][k]] = strings.block[strings.pointer[o][k]]
  BY DEF Stays
<1>1. k \in Keys
  BY DEF Pointers, Keys
<1>2. strings.pointer[o][k] = strings.property[o][k]
  BY DEF FillInv, Sound, PointersFollow
<1>3. strings'.pointer[o][k] = strings'.property[o][k]
  BY DEF FillInv, Sound, PointersFollow
<1>4. Same(strings, strings', o, k)
  BY <1>1, <1>2 DEF AllStay
<1>5. QED
  BY <1>2, <1>3, <1>4 DEF Same

\* For any devices, slots and files, and requests in any order, rescans and a
\* change of the kernel's listing among them: each known slot is the first that
\* names the device, no string is lost, shared or left behind a pointer, and a
\* string a client was given stays until it has the device scanned anew
\* (pci_fill_info(), sysfs_fill_info(), pci_set_property()).
THEOREM StringsAreRight ==
  FillSpec => StringsRight
<1>1. FillSpec => []FillInv
  BY FillInvInit, FillInvNext, PTL DEF FillSpec
<1>2. FillInv /\ FillInv' /\ [FillNext]_fillVars => [Stays]_fillVars
  BY FillStays, StaysFromAll
<1>3. FillSpec => [][Stays]_fillVars
  BY <1>1, <1>2, PTL DEF FillSpec
<1>4. StringsStay <=> [][Stays]_fillVars
  BY DEF StringsStay, Stays
<1>5. FillSpec => [](SlotIsFirst /\ StringsAreOwned)
  BY <1>1, FillInvImplies, PTL
<1>6. QED
  BY <1>3, <1>4, <1>5 DEF StringsRight
============================================================================
