--------------------------- MODULE TopologyProofs ---------------------------
(***************************************************************************)
(* For any number of buses, devices and functions, and hardware that       *)
(* changes at any time: pci_generic_scan_bus() lists no function twice,    *)
(* and its recursion is no deeper than there are buses.  For any devices   *)
(* and any bus numbers in their bridges, listed by the scan or by the      *)
(* kernel: lspcie's tree has each device on one bus, in order, and in a    *)
(* well-formed topology below the closest bridge.                          *)
(***************************************************************************)
EXTENDS Topology, FunctionTheorems, FiniteSetTheorems, SequenceTheorems, TLAPS

----------------------------------------------------------------------------
(***************************************************************************)
(* The scan.                                                               *)
(***************************************************************************)
\* The loops of the call f have passed the function a of its bus.
Passed(a, f) == a[2] < f.dev \/ (a[2] = f.dev /\ a[3] < f.func)

\* The function the innermost call has listed and has not left yet.
Current(s, r, a) == r = "secondary" /\ a = Function(s[1])

\* A register behind the identifiers is that of a function.
OnFunction(s, r) == r # "id" => s # <<>> /\ s[1].dev <= MaxDev

\* The active calls are for different buses, all of which are marked.
OneCallPerBus(s, m) ==
  /\ \A c \in 1..Len(s) : s[c].bus \in m
  /\ \A c, j \in 1..Len(s) : s[c].bus = s[j].bus => c = j

\* What is listed is of marked buses, and of the bus of an active call only what
\* this call has passed.
ListedIsPassed(s, m, l, r) ==
  /\ \A k \in 1..Len(l) : l[k][1] \in m
  /\ \A c \in 1..Len(s), k \in 1..Len(l) :
       l[k][1] = s[c].bus => Passed(l[k], s[c]) \/ (c = 1 /\ Current(s, r, l[k]))

Inv ==
  /\ ScanTypeOK
  /\ OnFunction(stack, reg)
  /\ OneCallPerBus(stack, busmap)
  /\ ListedIsPassed(stack, busmap, list, reg)
  /\ ListedOnce

----------------------------------------------------------------------------
\* A sequence with one more element in front.
LEMMA InFront ==
  ASSUME NEW S, NEW x \in S, NEW s \in Seq(S)
  PROVE  /\ <<x>> \o s \in Seq(S)
         /\ Len(<<x>> \o s) = Len(s) + 1
         /\ (<<x>> \o s)[1] = x
         /\ \A c \in 1..Len(s) : (<<x>> \o s)[c + 1] = s[c]
         /\ \A c \in 2..Len(s) + 1 : (<<x>> \o s)[c] = s[c - 1]
OBVIOUS

\* A sequence with another first element.
LEMMA NewFirst ==
  ASSUME NEW S, NEW s \in Seq(S), s # <<>>, NEW x \in S
  PROVE  LET t == [s EXCEPT ![1] = x]
         IN /\ t \in Seq(S) /\ Len(t) = Len(s) /\ t # <<>> /\ t[1] = x
            /\ \A c \in 1..Len(s) : c # 1 => t[c] = s[c]
OBVIOUS

\* The loops move forward: they leave the function they are at and come to one
\* that they have not passed.
LEMMA AfterMoves ==
  ASSUME NEW f \in Frames, f.dev <= MaxDev
  PROVE  /\ After(f) \in Frames
         /\ After(f).bus = f.bus
         /\ Passed(Function(f), After(f))
         /\ \A a \in Addresses : Passed(a, f) => Passed(a, After(f))
<1>1. CASE f.multi /\ f.func < MaxFunc
  BY <1>1, SizeAssumption DEF After, Addresses, Frames, Passed, Function
<1>2. CASE ~(f.multi /\ f.func < MaxFunc)
  <2>1. After(f) = [f EXCEPT !.dev = @ + 1, !.func = 0, !.multi = FALSE]
    BY <1>2 DEF After
  <2>2. After(f) = [bus |-> f.bus, dev |-> f.dev + 1, func |-> 0, multi |-> FALSE]
    BY <2>1 DEF Frames
  <2>3. QED
    BY <2>2, SizeAssumption DEF Addresses, Frames, Passed, Function
<1>3. QED
  BY <1>1, <1>2

\* The innermost call moves on and stays on its bus.
LEMMA InnermostMoves ==
  ASSUME NEW s \in Seq(Frames), s # <<>>, NEW m, NEW l \in Seq(Addresses), NEW r, NEW q,
         NEW g \in Frames, g.bus = s[1].bus,
         OneCallPerBus(s, m), ListedIsPassed(s, m, l, r),
         \A a \in Addresses : Passed(a, s[1]) \/ Current(s, r, a) => Passed(a, g)
  PROVE  LET t == [s EXCEPT ![1] = g]
         IN /\ t \in Seq(Frames) /\ t # <<>>
            /\ OneCallPerBus(t, m)
            /\ ListedIsPassed(t, m, l, q)
<1> DEFINE t == [s EXCEPT ![1] = g]
<1>1. /\ t \in Seq(Frames) /\ Len(t) = Len(s) /\ t # <<>> /\ t[1] = g
      /\ \A c \in 1..Len(s) : c # 1 => t[c] = s[c]
  BY NewFirst
<1>2. Len(s) \in Nat /\ 1 \in 1..Len(s)
  OBVIOUS
<1> HIDE DEF t
<1>3. \A c \in 1..Len(s) : t[c].bus = s[c].bus
  BY <1>1
<1>4. OneCallPerBus(t, m)
  BY <1>1, <1>3 DEF OneCallPerBus
<1>5. ASSUME NEW c \in 1..Len(t), NEW k \in 1..Len(l), l[k][1] = t[c].bus
      PROVE  Passed(l[k], t[c])
  <2>1. l[k] \in Addresses
    OBVIOUS
  <2>2. Passed(l[k], s[c]) \/ (c = 1 /\ Current(s, r, l[k]))
    BY <1>1, <1>3, <1>5 DEF ListedIsPassed
  <2>3. QED
    BY <1>1, <2>1, <2>2
<1>6. ListedIsPassed(t, m, l, q)
  BY <1>5 DEF ListedIsPassed
<1>7. QED
  BY <1>1, <1>4, <1>6 DEF t

----------------------------------------------------------------------------
\* What the actions use of the invariant.
LEMMA TopFrame ==
  ASSUME Inv, stack # <<>>
  PROVE  /\ Top \in Frames /\ 1 \in 1..Len(stack)
         /\ Top.dev <= MaxDev => Function(Top) \in Addresses
         /\ Top.bus \in busmap
<1>1. stack \in Seq(Frames) /\ 1 \in 1..Len(stack)
  BY DEF Inv, ScanTypeOK
<1>2. stack[1] \in Frames
  BY <1>1
<1>3. stack[1].bus \in busmap
  BY <1>1 DEF Inv, OneCallPerBus
<1>4. stack[1].dev <= MaxDev => Function(stack[1]) \in Addresses
  BY <1>2, SizeAssumption DEF Frames, Function, Addresses
<1>5. QED
  BY <1>1, <1>2, <1>3, <1>4 DEF Top

LEMMA InitKeeps == ScanInit => Inv
<1> SUFFICES ASSUME ScanInit PROVE Inv
  OBVIOUS
<1>1. Frame(0) \in Frames
  BY SizeAssumption DEF Frame, Frames, BusNumbers
<1>2. ScanTypeOK
  BY <1>1, SizeAssumption, HardwareAssumption DEF ScanInit, ScanTypeOK, BusNumbers
<1>3. stack = <<Frame(0)>> /\ Len(stack) = 1 /\ Len(list) = 0 /\ reg = "id"
  BY DEF ScanInit
<1>4. OneCallPerBus(stack, busmap)
  BY <1>3 DEF ScanInit, OneCallPerBus, Frame
<1>5. QED
  BY <1>2, <1>3, <1>4 DEF Inv, OnFunction, ListedIsPassed, ListedOnce

LEMMA ReadIdKeeps == Inv /\ ReadId => Inv'
<1> SUFFICES ASSUME Inv, ReadId PROVE Inv'
  OBVIOUS
<1>1. stack # <<>> /\ reg = "id" /\ Top.dev <= MaxDev
      /\ hw' = hw /\ busmap' = busmap /\ list' = list
  BY DEF ReadId
<1>2. CASE stack' = stack /\ reg' = "header"
  BY <1>1, <1>2
  DEF Inv, ScanTypeOK, OnFunction, ListedIsPassed, Current, ListedOnce, Top
<1>3. CASE stack' = [stack EXCEPT ![1] = After(@)] /\ reg' = reg
  <2>1. Top \in Frames
    BY <1>1, TopFrame
  <2>2. stack' = [stack EXCEPT ![1] = After(Top)]
    BY <1>3 DEF Top
  <2>3. /\ After(Top) \in Frames /\ After(Top).bus = stack[1].bus
        /\ \A a \in Addresses :
             Passed(a, stack[1]) \/ Current(stack, reg, a) => Passed(a, After(Top))
    BY <1>1, <2>1, AfterMoves DEF Current, Top
  <2>4. /\ stack' \in Seq(Frames) /\ stack' # <<>>
        /\ OneCallPerBus(stack', busmap)
        /\ ListedIsPassed(stack', busmap, list, reg)
    BY <1>1, <2>2, <2>3, InnermostMoves DEF Inv, ScanTypeOK
  <2>5. QED
    BY <1>1, <1>3, <2>4 DEF Inv, ScanTypeOK, OnFunction, ListedOnce
<1>4. QED
  BY <1>2, <1>3 DEF ReadId

LEMMA ReadHeaderKeeps == Inv /\ ReadHeader => Inv'
<1> SUFFICES ASSUME Inv, ReadHeader PROVE Inv'
  OBVIOUS
<1> DEFINE fn == hw[Function(Top)]
           multi == IF Top.func = 0 THEN fn.multi \/ fn.kind = "none" ELSE Top.multi
           f == [Top EXCEPT !.multi = multi]
           new == <<Function(Top)>> \o list
<1>1. stack # <<>> /\ reg = "header" /\ list' = new /\ hw' = hw /\ busmap' = busmap
  BY DEF ReadHeader
<1>2. Top \in Frames /\ Top.dev <= MaxDev /\ Function(Top) \in Addresses
      /\ Top.bus \in busmap
  BY <1>1, TopFrame DEF Inv, OnFunction, Top
<1>3. f \in Frames /\ f.bus = Top.bus /\ f.dev = Top.dev /\ f.func = Top.func
  <2>1. multi \in BOOLEAN
    BY <1>2 DEF Inv, ScanTypeOK, Functions, Frames
  <2> HIDE DEF multi
  <2>2. QED
    BY <1>2, <2>1 DEF Frames
<1> HIDE DEF f
<1>4. /\ new \in Seq(Addresses) /\ Len(new) = Len(list) + 1
      /\ new[1] = Function(Top)
      /\ \A k \in 2..Len(list) + 1 : new[k] = list[k - 1]
  BY <1>2, InFront DEF Inv, ScanTypeOK
<1> HIDE DEF new
\* What was listed before has been passed, so it is not this function.
<1>5. \A k \in 1..Len(list) : list[k] # Function(Top)
  <2> SUFFICES ASSUME NEW k \in 1..Len(list), list[k] = Function(Top) PROVE FALSE
    OBVIOUS
  <2>1. list[k][1] = stack[1].bus /\ 1 \in 1..Len(stack)
    BY <1>1, TopFrame DEF Function, Top
  <2>2. Passed(Function(Top), Top)
    BY <1>1, <2>1 DEF Inv, ListedIsPassed, Current, Top
  <2>3. QED
    BY <1>2, <2>2, SizeAssumption DEF Passed, Function, Frames
<1>6. \A c, j \in 1..Len(new) : new[c] = new[j] => c = j
  <2>1. Len(list) \in Nat
    BY DEF Inv, ScanTypeOK
  <2>2. QED
    BY <1>4, <1>5, <2>1 DEF Inv, ListedOnce
\* With the function counted as the current one, nothing else has changed.
<1>7. ListedIsPassed(stack, busmap, new, "secondary")
  <2>1. Len(list) \in Nat /\ 1 \in 1..Len(stack)
    BY <1>1, TopFrame DEF Inv, ScanTypeOK
  <2>2. new[1][1] = stack[1].bus /\ stack[1].bus \in busmap
    BY <1>2, <1>4 DEF Function, Top
  <2>3. ASSUME NEW k \in 1..Len(new) PROVE new[k][1] \in busmap
    BY <1>4, <2>1, <2>2, <2>3 DEF Inv, ListedIsPassed
  <2>4. ASSUME NEW c \in 1..Len(stack), NEW k \in 1..Len(new), new[k][1] = stack[c].bus
        PROVE  Passed(new[k], stack[c]) \/ (c = 1 /\ Current(stack, "secondary", new[k]))
    <3>1. CASE k = 1
      BY <1>4, <2>1, <2>2, <2>4, <3>1 DEF Inv, OneCallPerBus, Current, Top
    <3>2. CASE k # 1
      <4>1. k - 1 \in 1..Len(list) /\ new[k] = list[k - 1]
        BY <1>4, <2>1, <3>2
      <4>2. QED
        BY <1>1, <2>4, <4>1 DEF Inv, ListedIsPassed, Current
    <3>3. QED
      BY <3>1, <3>2
  <2>5. QED
    BY <2>3, <2>4 DEF ListedIsPassed
<1>8. CASE stack' = [stack EXCEPT ![1] = f] /\ reg' = "secondary"
  <2>1. /\ stack' \in Seq(Frames) /\ Len(stack') = Len(stack) /\ stack' # <<>>
        /\ stack'[1] = f /\ \A c \in 1..Len(stack) : c # 1 => stack'[c] = stack[c]
    BY <1>1, <1>3, <1>8, NewFirst DEF Inv, ScanTypeOK
  <2>2. OneCallPerBus(stack', busmap)
    BY <1>3, <2>1 DEF Inv, OneCallPerBus, Top
  <2>3. ASSUME NEW c \in 1..Len(stack'), NEW k \in 1..Len(new), new[k][1] = stack'[c].bus
        PROVE  Passed(new[k], stack'[c]) \/ (c = 1 /\ Current(stack', "secondary", new[k]))
    BY <1>3, <1>7, <2>1, <2>3 DEF ListedIsPassed, Passed, Current, Function, Top
  <2>4. ListedIsPassed(stack', busmap, new, "secondary")
    BY <1>7, <2>3 DEF ListedIsPassed
  <2>5. QED
    BY <1>1, <1>2, <1>3, <1>4, <1>6, <1>8, <2>1, <2>2, <2>4
    DEF Inv, ScanTypeOK, OnFunction, ListedOnce
<1>9. CASE stack' = [stack EXCEPT ![1] = After(f)] /\ reg' = "id"
  <2>1. /\ After(f) \in Frames /\ After(f).bus = stack[1].bus
        /\ Passed(Function(f), After(f))
        /\ \A a \in Addresses : Passed(a, f) => Passed(a, After(f))
    BY <1>2, <1>3, AfterMoves DEF Top
  <2>2. \A a \in Addresses :
          Passed(a, stack[1]) \/ Current(stack, "secondary", a) => Passed(a, After(f))
    BY <1>3, <2>1 DEF Passed, Current, Function, Top
  <2>3. /\ stack' \in Seq(Frames) /\ stack' # <<>>
        /\ OneCallPerBus(stack', busmap)
        /\ ListedIsPassed(stack', busmap, new, "id")
    BY <1>1, <1>4, <1>7, <1>9, <2>1, <2>2, InnermostMoves DEF Inv, ScanTypeOK
  <2>4. QED
    BY <1>1, <1>4, <1>6, <1>9, <2>3 DEF Inv, ScanTypeOK, OnFunction, ListedOnce
<1>10. (stack' = [stack EXCEPT ![1] = f] /\ reg' = "secondary")
       \/ (stack' = [stack EXCEPT ![1] = After(f)] /\ reg' = "id")
  BY DEF ReadHeader, f
<1>11. QED
  BY <1>8, <1>9, <1>10

LEMMA ReadSecondaryKeeps == Inv /\ ReadSecondary => Inv'
<1> SUFFICES ASSUME Inv, ReadSecondary PROVE Inv'
  OBVIOUS
<1> DEFINE fn == hw[Function(Top)]
           b == IF fn.kind = "none" THEN LastBus ELSE fn.sec
           outer == [stack EXCEPT ![1] = After(@)]
<1>1. stack # <<>> /\ reg = "secondary" /\ reg' = "id"
      /\ hw' = hw /\ list' = list
  BY DEF ReadSecondary
<1>2. Top \in Frames /\ Top.dev <= MaxDev /\ Function(Top) \in Addresses
  BY <1>1, TopFrame DEF Inv, OnFunction, Top
<1>3. b \in BusNumbers
  BY <1>2, SizeAssumption DEF Inv, ScanTypeOK, Functions, BusNumbers
<1>4. (b \in busmap /\ stack' = outer /\ busmap' = busmap)
      \/ (b \notin busmap /\ stack' = <<Frame(b)>> \o outer /\ busmap' = busmap \cup {b})
  BY DEF ReadSecondary
<1> HIDE DEF b
\* The outer call goes on behind the bridge, which is listed.
<1>5. /\ outer \in Seq(Frames) /\ outer # <<>>
      /\ OneCallPerBus(outer, busmap)
      /\ ListedIsPassed(outer, busmap, list, "id")
  <2>1. outer = [stack EXCEPT ![1] = After(Top)]
    BY DEF Top
  <2>2. /\ After(Top) \in Frames /\ After(Top).bus = stack[1].bus
        /\ \A a \in Addresses :
             Passed(a, stack[1]) \/ Current(stack, reg, a) => Passed(a, After(Top))
    BY <1>2, AfterMoves DEF Current, Top
  <2>3. QED
    BY <1>1, <2>1, <2>2, InnermostMoves DEF Inv, ScanTypeOK
<1> HIDE DEF outer
<1>6. CASE b \in busmap /\ stack' = outer /\ busmap' = busmap
  BY <1>1, <1>5, <1>6 DEF Inv, ScanTypeOK, OnFunction, ListedOnce
\* Of a bus that was not marked nothing is listed, and no call is for it.
<1>7. CASE b \notin busmap /\ stack' = <<Frame(b)>> \o outer /\ busmap' = busmap \cup {b}
  <2>1. Frame(b) \in Frames /\ Frame(b).bus = b
    BY <1>3, SizeAssumption DEF Frame, Frames
  <2>2. /\ stack' \in Seq(Frames) /\ Len(stack') = Len(outer) + 1
        /\ stack'[1] = Frame(b)
        /\ \A c \in 2..Len(outer) + 1 : stack'[c] = outer[c - 1]
    BY <1>5, <1>7, <2>1, InFront
  <2>3. Len(outer) \in Nat
    BY <1>5
  <2>4. \A c \in 1..Len(stack') : c # 1 =>
          c - 1 \in 1..Len(outer) /\ stack'[c] = outer[c - 1] /\ stack'[c].bus \in busmap
    BY <1>5, <2>2, <2>3 DEF OneCallPerBus
  <2>5. OneCallPerBus(stack', busmap')
    <3>1. ASSUME NEW c \in 1..Len(stack') PROVE stack'[c].bus \in busmap'
      BY <1>7, <2>1, <2>2, <2>4
    <3>2. ASSUME NEW c \in 1..Len(stack'), NEW j \in 1..Len(stack'),
                 stack'[c].bus = stack'[j].bus
          PROVE  c = j
      <4>1. CASE c = 1 \/ j = 1
        BY <1>7, <2>1, <2>2, <2>4, <3>2, <4>1
      <4>2. CASE c # 1 /\ j # 1
        <5>1. c - 1 \in 1..Len(outer) /\ j - 1 \in 1..Len(outer)
              /\ outer[c - 1].bus = outer[j - 1].bus
          BY <2>4, <3>2, <4>2
        <5>2. c - 1 = j - 1
          BY <1>5, <5>1 DEF OneCallPerBus
        <5>3. QED
          BY <2>2, <2>3, <5>2
      <4>3. QED
        BY <4>1, <4>2
    <3>3. QED
      BY <3>1, <3>2 DEF OneCallPerBus
  <2>6. ListedIsPassed(stack', busmap', list, "id")
    <3>1. \A k \in 1..Len(list) : list[k][1] \in busmap
      BY <1>5 DEF ListedIsPassed
    <3>2. ASSUME NEW c \in 1..Len(stack'), NEW k \in 1..Len(list),
                 list[k][1] = stack'[c].bus
          PROVE  Passed(list[k], stack'[c])
      <4>1. c # 1
        BY <1>7, <2>1, <2>2, <3>1, <3>2
      <4>2. c - 1 \in 1..Len(outer) /\ stack'[c] = outer[c - 1]
        BY <2>4, <4>1
      <4>3. QED
        BY <1>5, <3>2, <4>2 DEF ListedIsPassed, Current
    <3>3. QED
      BY <1>7, <3>1, <3>2 DEF ListedIsPassed
  <2>7. QED
    BY <1>1, <1>3, <1>7, <2>2, <2>5, <2>6 DEF Inv, ScanTypeOK, OnFunction, ListedOnce
<1>8. QED
  BY <1>4, <1>6, <1>7

LEMMA BusDoneKeeps == Inv /\ BusDone => Inv'
<1> SUFFICES ASSUME Inv, BusDone PROVE Inv'
  OBVIOUS
<1>1. /\ stack # <<>> /\ reg = "id" /\ stack' = Tail(stack)
      /\ hw' = hw /\ busmap' = busmap /\ list' = list /\ reg' = reg
      /\ stack \in Seq(Frames)
  BY DEF BusDone, Inv, ScanTypeOK
<1>2. /\ stack' \in Seq(Frames) /\ Len(stack') = Len(stack) - 1
      /\ \A c \in 1..Len(stack') : c + 1 \in 1..Len(stack) /\ stack'[c] = stack[c + 1]
  BY <1>1
<1>3. OneCallPerBus(stack', busmap)
  <2>1. \A c \in 1..Len(stack') : stack'[c].bus \in busmap
    BY <1>2 DEF Inv, OneCallPerBus
  <2>2. ASSUME NEW c \in 1..Len(stack'), NEW j \in 1..Len(stack'),
               stack'[c].bus = stack'[j].bus
        PROVE  c = j
    <3>1. c + 1 = j + 1
      BY <1>2, <2>2 DEF Inv, OneCallPerBus
    <3>2. QED
      BY <1>2, <3>1
  <2>3. QED
    BY <2>1, <2>2 DEF OneCallPerBus
<1>4. ListedIsPassed(stack', busmap, list, reg)
  BY <1>1, <1>2 DEF Inv, ListedIsPassed, Current
<1>5. QED
  BY <1>1, <1>2, <1>3, <1>4 DEF Inv, ScanTypeOK, OnFunction, ListedOnce

LEMMA HwChangeKeeps == Inv /\ HwChange => Inv'
BY HardwareAssumption, UnstableAssumption
DEF Inv, HwChange, ScanTypeOK, OnFunction, OneCallPerBus, ListedIsPassed, Current,
    ListedOnce

LEMMA StepKeeps == Inv /\ [ScanNext]_svars => Inv'
<1> SUFFICES ASSUME Inv, [ScanNext]_svars PROVE Inv'
  OBVIOUS
<1>1. CASE UNCHANGED svars
  BY <1>1 DEF svars, Inv, ScanTypeOK, OnFunction, OneCallPerBus, ListedIsPassed, Current,
              ListedOnce
<1>2. QED
  BY <1>1, ReadIdKeeps, ReadHeaderKeeps, ReadSecondaryKeeps, BusDoneKeeps, HwChangeKeeps
  DEF ScanNext, ScanBus

----------------------------------------------------------------------------
\* Different buses for different calls: there are no more calls than buses.
LEMMA InvImpliesDepth == Inv => DepthBounded
<1> SUFFICES ASSUME Inv PROVE DepthBounded
  OBVIOUS
<1> DEFINE n == Len(stack)
           busOf == [c \in 1..n |-> stack[c].bus]
<1>1. n \in Nat /\ LastBus + 1 \in Nat
  BY SizeAssumption DEF Inv, ScanTypeOK
<1>2. busOf \in Injection(1..n, 0..LastBus)
  <2>1. \A c \in 1..n : stack[c].bus \in 0..LastBus
    BY DEF Inv, OneCallPerBus, ScanTypeOK, BusNumbers
  <2>2. \A c, j \in 1..n : busOf[c] = busOf[j] => c = j
    BY DEF Inv, OneCallPerBus
  <2>3. QED
    BY <2>1, <2>2 DEF Injection, IsInjective
<1>3. IsFiniteSet(0..LastBus) /\ Cardinality(0..LastBus) = LastBus + 1
  BY SizeAssumption, FS_Interval
<1>4. Cardinality(1..n) = n
  <2> HIDE DEF n
  <2>1. Cardinality(1..n) = IF 1 > n THEN 0 ELSE n - 1 + 1
    BY <1>1, FS_Interval
  <2>2. QED
    BY <1>1, <2>1
<1>5. Cardinality(1..n) <= Cardinality(0..LastBus)
  BY <1>2, <1>3, FS_Injection
<1>6. QED
  BY <1>3, <1>4, <1>5 DEF DepthBounded

\* The invariant is one of the scan, whatever the hardware does.
LEMMA InvAlways == ScanSpec => []Inv
<1>1. ScanInit => Inv
  BY InitKeeps
<1>2. Inv /\ [ScanNext]_svars => Inv'
  BY StepKeeps
<1>3. QED
  BY <1>1, <1>2, PTL DEF ScanSpec

\* pci_generic_scan_bus() puts no function on the list twice, and its recursion
\* is never deeper than there are bus numbers, however bridges are wired and
\* whatever changes between two reads of their registers: busmap[] cuts off
\* every loop.
THEOREM LoopsAreCutOff == ScanSpec => []LoopsCutOff
<1>1. Inv => LoopsCutOff
  BY InvImpliesDepth DEF Inv, LoopsCutOff
<1>2. QED
  BY <1>1, InvAlways, PTL

----------------------------------------------------------------------------
(***************************************************************************)
(* What the scan finds.  As long as the hardware is quiet, the flag of a   *)
(* call's loops is that of function 0 (of the device the loops are at),    *)
(* each function listed is there and below a bridge that is, each one the  *)
(* loops have passed is listed if it is there, and each bus behind a       *)
(* listed bridge is marked.                                                *)
(***************************************************************************)
FirstOf(f) == hw[<<f.bus, f.dev, 0>>]

\* The flag is set for functions beyond the first one, of devices that have
\* some, and for the first one while the bus behind it is read.
FlagRight(f, behind) ==
  /\ f.func > 0 => /\ f.dev <= MaxDev
                   /\ f.multi /\ FirstOf(f).kind # "none" /\ FirstOf(f).multi
  /\ f.func = 0 /\ behind => f.multi = FirstOf(f).multi
  /\ f.func = 0 /\ ~behind => ~f.multi

\* No active call has yet to try the function a.
Tried(s, r, a) ==
  \A c \in 1..Len(s) :
    s[c].bus = a[1] => Passed(a, s[c]) \/ (c = 1 /\ Current(s, r, a))

IsListed(l, a) == \E k \in 1..Len(l) : l[k] = a

Found(s, m, l, r) ==
  /\ r # "id" => hw[Function(s[1])].kind # "none"
  /\ r = "secondary" => hw[Function(s[1])].kind = "bridge"
  /\ \A c \in 1..Len(s) : FlagRight(s[c], c = 1 /\ r = "secondary")
  /\ m \subseteq Reachable
  /\ \A k \in 1..Len(l) :
       /\ Answers(l[k])
       /\ hw[l[k]].kind = "bridge" => hw[l[k]].sec \in m \/ Current(s, r, l[k])
  /\ \A a \in Addresses :
       a[1] \in m /\ Answers(a) /\ Tried(s, r, a) => IsListed(l, a)

QuietInv == 0 \in busmap /\ (hw \notin Unstable => Found(stack, busmap, list, reg))

----------------------------------------------------------------------------
\* The flag of a call that is about to leave a function.
Settled(f) ==
  /\ f.func > 0 => f.multi
  /\ f.multi = (FirstOf(f).kind # "none" /\ FirstOf(f).multi)

\* Behind a function the loops come to the next one that may be there.
LEMMA AfterSkips ==
  ASSUME NEW f \in Frames, f.dev <= MaxDev, Settled(f),
         NEW a \in Addresses, a[1] = f.bus, Answers(a), Passed(a, After(f)), ~Passed(a, f)
  PROVE  a = Function(f)
<1>1. /\ a[2] \in Nat /\ a[3] \in 0..MaxFunc /\ a = <<a[1], a[2], a[3]>>
      /\ f.dev \in Nat /\ f.func \in 0..MaxFunc /\ f.multi \in BOOLEAN
      /\ MaxFunc \in Nat
  BY SizeAssumption DEF Addresses, Frames
<1>2. a[2] = f.dev
  <2>1. CASE f.multi /\ f.func < MaxFunc
    BY <1>1, <2>1 DEF After, Passed, Frames
  <2>2. CASE ~(f.multi /\ f.func < MaxFunc)
    <3>1. After(f).dev = f.dev + 1 /\ After(f).func = 0
      BY <2>2 DEF After, Frames
    <3>2. QED
      BY <1>1, <3>1 DEF Passed
  <2>3. QED
    BY <2>1, <2>2
<1>3. f.func <= a[3]
  BY <1>1, <1>2 DEF Passed
<1>4. ASSUME a[3] # f.func PROVE FALSE
  <2>1. a[3] > 0 /\ a[3] > f.func /\ f.func < MaxFunc
    BY <1>1, <1>3, <1>4
  <2>2. FirstOf(f).kind # "none" /\ FirstOf(f).multi
    BY <1>2, <2>1 DEF Answers, FirstOf
  <2>3. f.multi
    BY <2>2 DEF Settled
  <2>4. After(f).dev = f.dev /\ After(f).func = f.func + 1
    BY <2>1, <2>3 DEF After, Frames
  <2>5. QED
    BY <1>1, <1>2, <2>1, <2>4 DEF Passed
<1>5. QED
  BY <1>1, <1>2, <1>4 DEF Function

LEMMA AfterFlag ==
  ASSUME NEW f \in Frames, f.dev <= MaxDev, Settled(f)
  PROVE  FlagRight(After(f), FALSE)
<1>1. f.dev \in Nat /\ f.func \in Nat
  BY DEF Frames
<1>2. CASE f.multi /\ f.func < MaxFunc
  <2>1. After(f) = [f EXCEPT !.func = @ + 1]
    BY <1>2 DEF After
  <2>2. /\ After(f).func = f.func + 1 /\ After(f).multi = f.multi
        /\ After(f).dev = f.dev /\ After(f).bus = f.bus
    BY <2>1 DEF Frames
  <2>3. FirstOf(After(f)) = FirstOf(f)
    BY <2>2 DEF FirstOf
  <2>4. FirstOf(f).kind # "none" /\ FirstOf(f).multi
    BY <1>2 DEF Settled
  <2>5. After(f).func # 0 /\ After(f).multi
    BY <1>1, <1>2, <2>2
  <2>6. QED
    BY <2>2, <2>3, <2>4, <2>5 DEF FlagRight
<1>3. CASE ~(f.multi /\ f.func < MaxFunc)
  <2>1. After(f) = [f EXCEPT !.dev = @ + 1, !.func = 0, !.multi = FALSE]
    BY <1>3 DEF After
  <2>2. After(f).func = 0 /\ After(f).multi = FALSE
    BY <2>1 DEF Frames
  <2>3. QED
    BY <2>2 DEF FlagRight
<1>4. QED
  BY <1>2, <1>3

\* When the innermost call leaves a function, all that has been tried is listed
\* if this was so with the function counted as the current one.
LEMMA LeavesFunction ==
  ASSUME NEW s \in Seq(Frames), s # <<>>, s[1].dev <= MaxDev,
         NEW g \in Frames, g.bus = s[1].bus, g.dev = s[1].dev, g.func = s[1].func,
         Settled(g), NEW m, NEW l,
         \A c \in 1..Len(s) : c # 1 => FlagRight(s[c], FALSE),
         \A a \in Addresses :
           a[1] \in m /\ Answers(a) /\ Tried(s, "secondary", a) => IsListed(l, a)
  PROVE  LET t == [s EXCEPT ![1] = After(g)]
         IN /\ \A c \in 1..Len(t) : FlagRight(t[c], FALSE)
            /\ \A a \in Addresses :
                 a[1] \in m /\ Answers(a) /\ Tried(t, "id", a) => IsListed(l, a)
<1> DEFINE t == [s EXCEPT ![1] = After(g)]
<1>1. After(g) \in Frames /\ After(g).bus = g.bus
  BY AfterMoves
<1>2. /\ Len(t) = Len(s) /\ t[1] = After(g) /\ 1 \in 1..Len(s)
      /\ \A c \in 1..Len(s) : c # 1 => t[c] = s[c]
  BY <1>1, NewFirst
<1> HIDE DEF t
<1>3. FlagRight(After(g), FALSE)
  BY AfterFlag
<1>4. \A c \in 1..Len(t) : FlagRight(t[c], FALSE)
  BY <1>2, <1>3
<1>5. ASSUME NEW a \in Addresses, a[1] \in m, Answers(a), Tried(t, "id", a)
      PROVE  IsListed(l, a)
  <2>1. ASSUME NEW c \in 1..Len(s), s[c].bus = a[1]
        PROVE  Passed(a, s[c]) \/ (c = 1 /\ Current(s, "secondary", a))
    <3>1. CASE c = 1
      <4>1. Passed(a, After(g))
        BY <1>1, <1>2, <1>5, <2>1, <3>1 DEF Tried, Current
      <4>2. Passed(a, g) \/ a = Function(g)
        BY <1>5, <2>1, <3>1, <4>1, AfterSkips
      <4>3. QED
        BY <3>1, <4>2 DEF Passed, Current, Function
    <3>2. CASE c # 1
      BY <1>2, <1>5, <2>1, <3>2 DEF Tried, Current
    <3>3. QED
      BY <3>1, <3>2
  <2>2. Tried(s, "secondary", a)
    BY <2>1 DEF Tried
  <2>3. QED
    BY <1>5, <2>2
<1>6. QED
  BY <1>4, <1>5 DEF t

\* The secondary bus of a bridge that can be reached can be reached.
LEMMA ReachableClosed ==
  ASSUME Inv, NEW a \in Addresses, a[1] \in Reachable, Answers(a), hw[a].kind = "bridge"
  PROVE  hw[a].sec \in Reachable
<1>1. hw[a].sec \in BusNumbers
  BY DEF Inv, ScanTypeOK, Functions
<1>2. ASSUME NEW bs \in SUBSET BusNumbers, ClosedUnderBridges(bs) PROVE hw[a].sec \in bs
  BY <1>2 DEF Reachable, ClosedUnderBridges
<1>3. QED
  BY <1>1, <1>2 DEF Reachable

----------------------------------------------------------------------------
LEMMA StartFinds == ScanInit => 0 \in busmap /\ Found(stack, busmap, list, reg)
<1> SUFFICES ASSUME ScanInit PROVE 0 \in busmap /\ Found(stack, busmap, list, reg)
  OBVIOUS
<1>1. /\ busmap = {0} /\ reg = "id" /\ Len(list) = 0
      /\ Len(stack) = 1 /\ stack[1] = Frame(0)
  BY DEF ScanInit
<1>2. {0} \subseteq Reachable
  BY SizeAssumption DEF Reachable, ClosedUnderBridges, BusNumbers
<1>3. FlagRight(Frame(0), FALSE)
  BY DEF FlagRight, Frame
<1>4. ASSUME NEW a \in Addresses, a[1] \in {0} PROVE ~Tried(stack, reg, a)
  <2>1. Frame(0).bus = a[1] /\ ~Passed(a, Frame(0))
    BY <1>4, SizeAssumption DEF Frame, Passed, Addresses
  <2>2. QED
    BY <1>1, <2>1 DEF Tried, Current
<1>5. ASSUME NEW c \in 1..Len(stack)
      PROVE  FlagRight(stack[c], c = 1 /\ reg = "secondary")
  <2>1. stack[c] = Frame(0) /\ (c = 1 /\ reg = "secondary") = FALSE
    BY <1>1
  <2>2. QED
    BY <1>3, <2>1
<1>6. QED
  BY <1>1, <1>2, <1>4, <1>5 DEF Found

LEMMA ReadIdFinds ==
  Inv /\ Found(stack, busmap, list, reg) /\ ReadId
    => Found(stack', busmap', list', reg')
<1> SUFFICES ASSUME Inv, Found(stack, busmap, list, reg), ReadId
             PROVE  Found(stack', busmap', list', reg')
  OBVIOUS
<1>1. stack # <<>> /\ reg = "id" /\ Top.dev <= MaxDev
      /\ busmap' = busmap /\ list' = list
  BY DEF ReadId
<1>2. CASE hw[Function(Top)].kind # "none" /\ reg' = "header" /\ stack' = stack
  BY <1>1, <1>2 DEF Found, Tried, Current, Top
<1>3. CASE hw[Function(Top)].kind = "none"
           /\ stack' = [stack EXCEPT ![1] = After(@)] /\ reg' = reg
  <2>1. Top \in Frames /\ 1 \in 1..Len(stack) /\ stack \in Seq(Frames)
    BY <1>1, TopFrame DEF Inv, ScanTypeOK
  <2>2. stack' = [stack EXCEPT ![1] = After(Top)] /\ stack[1] = Top
    BY <1>3 DEF Top
  <2>3. FlagRight(Top, FALSE)
    BY <1>1, <2>1, <2>2 DEF Found
  <2>4. Settled(Top)
    <3>1. CASE Top.func = 0
      <4>1. FirstOf(Top).kind = "none"
        BY <1>3, <3>1 DEF FirstOf, Function
      <4>2. QED
        BY <2>1, <2>3, <3>1, <4>1 DEF Settled, FlagRight, Frames
    <3>2. CASE Top.func > 0
      BY <2>1, <2>3, <3>2 DEF Settled, FlagRight, Frames, FirstOf
    <3>3. QED
      BY <2>1, <3>1, <3>2 DEF Frames
  <2>5. ASSUME NEW a \in Addresses, a[1] \in busmap, Answers(a),
               Tried(stack, "secondary", a)
        PROVE  IsListed(list, a)
    <3>1. a # Function(Top)
      BY <1>3, <2>5 DEF Answers
    <3>2. Tried(stack, reg, a)
      BY <2>5, <3>1 DEF Tried, Current, Top
    <3>3. QED
      BY <2>5, <3>2 DEF Found
  <2>6. \A c \in 1..Len(stack) : c # 1 => FlagRight(stack[c], FALSE)
    BY <1>1 DEF Found
  <2>7. /\ \A c \in 1..Len(stack') : FlagRight(stack'[c], FALSE)
        /\ \A a \in Addresses :
             a[1] \in busmap /\ Answers(a) /\ Tried(stack', "id", a) => IsListed(list, a)
    BY <1>1, <2>1, <2>2, <2>4, <2>5, <2>6, LeavesFunction
  <2>8. QED
    BY <1>1, <1>3, <2>7 DEF Found, Current
<1>4. QED
  BY <1>2, <1>3 DEF ReadId

\* The function the innermost call is at is there.
LEMMA CurrentAnswers ==
  ASSUME Inv, stack # <<>>, Found(stack, busmap, list, reg), reg # "id"
  PROVE  /\ Function(Top) \in Addresses /\ Answers(Function(Top))
         /\ Function(Top)[1] \in busmap
<1>1. Top \in Frames /\ Top.dev <= MaxDev /\ Function(Top) \in Addresses
      /\ Top.bus \in busmap /\ 1 \in 1..Len(stack)
  BY TopFrame DEF Inv, OnFunction, Top
<1>2. FlagRight(Top, 1 = 1 /\ reg = "secondary")
  BY <1>1 DEF Found, Top
<1>3. hw[Function(Top)].kind # "none"
  BY DEF Found, Top
<1>4. Top.func > 0 => FirstOf(Top).kind # "none" /\ FirstOf(Top).multi
  BY <1>2 DEF FlagRight
<1>5. Answers(Function(Top)) /\ Function(Top)[1] = Top.bus
  BY <1>3, <1>4 DEF Answers, FirstOf, Function
<1>6. QED
  BY <1>1, <1>5

LEMMA ReadHeaderFinds ==
  Inv /\ Found(stack, busmap, list, reg) /\ ReadHeader
    => Found(stack', busmap', list', reg')
<1> SUFFICES ASSUME Inv, Found(stack, busmap, list, reg), ReadHeader
             PROVE  Found(stack', busmap', list', reg')
  OBVIOUS
<1> DEFINE fn == hw[Function(Top)]
           multi == IF Top.func = 0 THEN fn.multi \/ fn.kind = "none" ELSE Top.multi
           f == [Top EXCEPT !.multi = multi]
           new == <<Function(Top)>> \o list
<1>1. stack # <<>> /\ reg = "header" /\ list' = new /\ busmap' = busmap
  BY DEF ReadHeader
<1>2. /\ Top \in Frames /\ Top.dev <= MaxDev /\ Function(Top) \in Addresses
      /\ Top.bus \in busmap /\ 1 \in 1..Len(stack) /\ stack[1] = Top
      /\ stack \in Seq(Frames)
  BY <1>1, TopFrame DEF Inv, OnFunction, Top, ScanTypeOK
<1>3. Answers(Function(Top)) /\ fn.kind # "none"
  BY <1>1, CurrentAnswers DEF Answers
<1>4. multi \in BOOLEAN
  BY <1>2 DEF Inv, ScanTypeOK, Functions, Frames
<1>5. (Top.func = 0 => multi = fn.multi) /\ (Top.func # 0 => multi = Top.multi)
  BY <1>3, <1>2 DEF Inv, ScanTypeOK, Functions
<1> HIDE DEF multi
<1>6. /\ f \in Frames /\ f.bus = Top.bus /\ f.dev = Top.dev /\ f.func = Top.func
      /\ f.multi = multi
  BY <1>2, <1>4 DEF Frames
<1>7. f = [Top EXCEPT !.multi = IF Top.func = 0 THEN fn.multi \/ fn.kind = "none"
                                ELSE Top.multi]
  BY DEF multi
<1> HIDE DEF f
<1>8. FlagRight(Top, FALSE)
  BY <1>1, <1>2 DEF Found
<1>9. Top.func = 0 => FirstOf(f) = fn
  BY <1>6 DEF FirstOf, Function
<1>10. Settled(f) /\ FlagRight(f, TRUE)
  <2>1. CASE Top.func = 0
    <3>1. FirstOf(f).kind # "none" /\ f.multi = FirstOf(f).multi /\ f.func = 0
      BY <1>3, <1>5, <1>6, <1>9, <2>1
    <3>2. f.multi \in BOOLEAN /\ f.func = 0 /\ ~(f.func > 0)
      BY <1>4, <1>6, <3>1
    <3>3. Settled(f)
      BY <3>1, <3>2 DEF Settled
    <3>4. QED
      BY <3>1, <3>2, <3>3 DEF FlagRight
  <2>2. CASE Top.func # 0
    <3>1. Top.func > 0
      BY <1>2, <2>2 DEF Frames
    <3>2. /\ Top.multi /\ f.multi = Top.multi /\ FirstOf(f) = FirstOf(Top)
          /\ FirstOf(Top).kind # "none" /\ FirstOf(Top).multi
      BY <1>5, <1>6, <1>8, <2>2, <3>1 DEF FlagRight, FirstOf
    <3>3. Settled(f)
      BY <3>2 DEF Settled
    <3>4. QED
      BY <1>2, <1>6, <2>2, <3>2, <3>3 DEF FlagRight
  <2>3. QED
    BY <2>1, <2>2
<1>11. /\ Len(new) = Len(list) + 1 /\ Len(list) \in Nat
       /\ new[1] = Function(Top)
       /\ \A k \in 2..Len(list) + 1 : new[k] = list[k - 1]
       /\ \A k \in 1..Len(list) : new[k + 1] = list[k]
  BY <1>2, InFront DEF Inv, ScanTypeOK
<1> HIDE DEF new
<1>12. \A k \in 1..Len(list) : /\ Answers(list[k])
                               /\ hw[list[k]].kind = "bridge" => hw[list[k]].sec \in busmap
  BY <1>1 DEF Found, Current
<1>13. \A k \in 1..Len(new) : new[k] = Function(Top)
                              \/ \E j \in 1..Len(list) : new[k] = list[j]
  <2> SUFFICES ASSUME NEW k \in 1..Len(new), k # 1
               PROVE  \E j \in 1..Len(list) : new[k] = list[j]
    BY <1>11
  <2>1. k - 1 \in 1..Len(list) /\ new[k] = list[k - 1]
    BY <1>11
  <2>2. QED
    BY <2>1
<1>14. ASSUME NEW a \in Addresses, a[1] \in busmap, Answers(a),
              Tried(stack, "secondary", a)
       PROVE  IsListed(new, a)
  <2>1. CASE a = Function(Top)
    BY <1>11, <2>1 DEF IsListed
  <2>2. CASE a # Function(Top)
    <3>1. Tried(stack, reg, a)
      BY <1>1, <1>14, <2>2 DEF Tried, Current, Top
    <3>2. PICK k \in 1..Len(list) : list[k] = a
      BY <1>14, <3>1 DEF Found, IsListed
    <3>3. k + 1 \in 1..Len(new) /\ new[k + 1] = a
      BY <1>11, <3>2
    <3>4. QED
      BY <3>3 DEF IsListed
  <2>3. QED
    BY <2>1, <2>2
<1>15. \A c \in 1..Len(stack) : c # 1 => FlagRight(stack[c], FALSE)
  BY <1>1 DEF Found
<1>16. CASE fn.kind = "bridge" /\ stack' = [stack EXCEPT ![1] = f] /\ reg' = "secondary"
  <2>1. /\ Len(stack') = Len(stack) /\ stack'[1] = f
        /\ \A c \in 1..Len(stack) : c # 1 => stack'[c] = stack[c]
    BY <1>1, <1>2, <1>6, <1>16, NewFirst
  <2>2. Function(f) = Function(Top)
    BY <1>6 DEF Function
  <2>3. ASSUME NEW a \in Addresses, Tried(stack', "secondary", a)
        PROVE  Tried(stack, "secondary", a)
    <3> SUFFICES ASSUME NEW c \in 1..Len(stack), stack[c].bus = a[1]
                 PROVE  Passed(a, stack[c]) \/ (c = 1 /\ Current(stack, "secondary", a))
      BY DEF Tried
    <3>1. CASE c = 1
      BY <1>2, <1>6, <2>1, <2>2, <2>3, <3>1 DEF Tried, Passed, Current
    <3>2. CASE c # 1
      BY <2>1, <2>3, <3>2 DEF Tried
    <3>3. QED
      BY <3>1, <3>2
  <2>4. \A c \in 1..Len(stack') : FlagRight(stack'[c], c = 1 /\ reg' = "secondary")
    <3> SUFFICES ASSUME NEW c \in 1..Len(stack')
                 PROVE  FlagRight(stack'[c], c = 1 /\ reg' = "secondary")
      OBVIOUS
    <3>1. CASE c = 1
      <4>1. (c = 1 /\ reg' = "secondary") = TRUE
        BY <1>16, <3>1
      <4>2. QED
        BY <1>10, <2>1, <3>1, <4>1
    <3>2. CASE c # 1
      <4>1. (c = 1 /\ reg' = "secondary") = FALSE
        BY <3>2
      <4>2. QED
        BY <1>15, <2>1, <3>2, <4>1
    <3>3. QED
      BY <3>1, <3>2
  <2>5. \A k \in 1..Len(new) :
          /\ Answers(new[k])
          /\ hw[new[k]].kind = "bridge" =>
               hw[new[k]].sec \in busmap \/ Current(stack', "secondary", new[k])
    BY <1>3, <1>12, <1>13, <2>1, <2>2 DEF Current
  <2>6. \A a \in Addresses :
          a[1] \in busmap /\ Answers(a) /\ Tried(stack', "secondary", a)
            => IsListed(new, a)
    BY <1>14, <2>3
  <2>7. hw[Function(stack'[1])].kind = "bridge"
    BY <1>16, <2>1, <2>2
  <2>8. busmap \subseteq Reachable
    BY DEF Found
  <2>9. QED
    BY <1>1, <1>16, <2>4, <2>5, <2>6, <2>7, <2>8 DEF Found
<1>17. CASE fn.kind # "bridge" /\ stack' = [stack EXCEPT ![1] = After(f)] /\ reg' = "id"
  <2>1. /\ \A c \in 1..Len(stack') : FlagRight(stack'[c], FALSE)
        /\ \A a \in Addresses :
             a[1] \in busmap /\ Answers(a) /\ Tried(stack', "id", a) => IsListed(new, a)
    BY <1>1, <1>2, <1>6, <1>10, <1>14, <1>15, <1>17, LeavesFunction
  <2>2. \A k \in 1..Len(new) :
          /\ Answers(new[k])
          /\ hw[new[k]].kind = "bridge" => hw[new[k]].sec \in busmap
    BY <1>3, <1>12, <1>13, <1>17
  <2>3. busmap \subseteq Reachable
    BY DEF Found
  <2>4. QED
    BY <1>1, <1>17, <2>1, <2>2, <2>3 DEF Found
<1>18. QED
  BY <1>7, <1>16, <1>17 DEF ReadHeader

LEMMA ReadSecondaryFinds ==
  Inv /\ Found(stack, busmap, list, reg) /\ ReadSecondary
    => Found(stack', busmap', list', reg')
<1> SUFFICES ASSUME Inv, Found(stack, busmap, list, reg), ReadSecondary
             PROVE  Found(stack', busmap', list', reg')
  OBVIOUS
<1> DEFINE b == hw[Function(Top)].sec
           outer == [stack EXCEPT ![1] = After(@)]
<1>1. stack # <<>> /\ reg = "secondary" /\ reg' = "id" /\ list' = list
  BY DEF ReadSecondary
<1>2. /\ Top \in Frames /\ Top.dev <= MaxDev /\ Function(Top) \in Addresses
      /\ Top.bus \in busmap /\ 1 \in 1..Len(stack) /\ stack[1] = Top
      /\ stack \in Seq(Frames) /\ Answers(Function(Top)) /\ Function(Top)[1] \in busmap
  BY <1>1, TopFrame, CurrentAnswers DEF Inv, OnFunction, Top, ScanTypeOK
<1>3. hw[Function(Top)].kind = "bridge"
  BY <1>1, <1>2 DEF Found
<1>4. (b \in busmap /\ stack' = outer /\ busmap' = busmap)
      \/ (b \notin busmap /\ stack' = <<Frame(b)>> \o outer /\ busmap' = busmap \cup {b})
  BY <1>3 DEF ReadSecondary
<1>5. b \in BusNumbers /\ b \in Reachable
  <2>1. Function(Top)[1] \in Reachable
    BY <1>2 DEF Found
  <2>2. QED
    BY <1>2, <1>3, <2>1, ReachableClosed DEF Reachable
<1>6. Settled(Top)
  <2>1. FlagRight(Top, TRUE)
    <3>1. FlagRight(stack[1], 1 = 1 /\ reg = "secondary")
      BY <1>2 DEF Found
    <3>2. (1 = 1 /\ reg = "secondary") = TRUE
      BY <1>1
    <3>3. QED
      BY <1>2, <3>1, <3>2
  <2>2. CASE Top.func = 0
    <3>1. FirstOf(Top) = hw[Function(Top)]
      BY <2>2 DEF FirstOf, Function
    <3>2. QED
      BY <1>2, <1>3, <2>1, <2>2, <3>1 DEF FlagRight, Settled, Frames
  <2>3. CASE Top.func > 0
    BY <1>2, <2>1, <2>3 DEF Settled, FlagRight, Frames, FirstOf
  <2>4. QED
    BY <1>2, <2>2, <2>3 DEF Frames
<1>7. outer = [stack EXCEPT ![1] = After(Top)]
  BY <1>2
<1>8. \A c \in 1..Len(stack) : c # 1 => FlagRight(stack[c], FALSE)
  BY DEF Found
<1>9. /\ \A c \in 1..Len(outer) : FlagRight(outer[c], FALSE)
      /\ \A a \in Addresses :
           a[1] \in busmap /\ Answers(a) /\ Tried(outer, "id", a) => IsListed(list, a)
  <2>1. \A a \in Addresses :
          a[1] \in busmap /\ Answers(a) /\ Tried(stack, "secondary", a)
            => IsListed(list, a)
    BY <1>1 DEF Found
  <2>2. QED
    BY <1>1, <1>2, <1>6, <1>7, <1>8, <2>1, LeavesFunction
<1>10. outer \in Seq(Frames) /\ outer # <<>>
  <2>1. After(Top) \in Frames
    BY <1>2, AfterMoves
  <2>2. QED
    BY <1>1, <1>2, <1>7, <2>1, NewFirst
<1> HIDE DEF outer
<1>11. \A k \in 1..Len(list) :
         /\ Answers(list[k])
         /\ hw[list[k]].kind = "bridge" => hw[list[k]].sec \in busmap \cup {b}
  BY <1>2 DEF Found, Current
<1>12. busmap \subseteq Reachable
  BY DEF Found
<1>13. CASE b \in busmap /\ stack' = outer /\ busmap' = busmap
  <2>1. busmap \cup {b} = busmap
    BY <1>13
  <2>2. QED
    BY <1>1, <1>9, <1>11, <1>12, <1>13, <2>1 DEF Found
<1>14. CASE b \notin busmap /\ stack' = <<Frame(b)>> \o outer /\ busmap' = busmap \cup {b}
  <2>1. Frame(b) \in Frames
    BY <1>5, SizeAssumption DEF Frame, Frames
  <2>2. /\ Len(stack') = Len(outer) + 1 /\ Len(outer) \in Nat
        /\ stack'[1] = Frame(b)
        /\ \A c \in 1..Len(outer) : stack'[c + 1] = outer[c]
        /\ \A c \in 2..Len(outer) + 1 : stack'[c] = outer[c - 1]
    BY <1>10, <1>14, <2>1, InFront
  <2>3. FlagRight(Frame(b), FALSE)
    BY DEF FlagRight, Frame
  <2>4. ASSUME NEW c \in 1..Len(stack') PROVE FlagRight(stack'[c], FALSE)
    <3>1. CASE c = 1
      BY <2>2, <2>3, <3>1
    <3>2. CASE c # 1
      <4>1. c - 1 \in 1..Len(outer) /\ stack'[c] = outer[c - 1]
        BY <2>2, <2>4, <3>2
      <4>2. QED
        BY <1>9, <4>1
    <3>3. QED
      BY <3>1, <3>2
  <2>5. ASSUME NEW a \in Addresses, a[1] \in busmap \cup {b}, Answers(a),
               Tried(stack', "id", a)
        PROVE  IsListed(list, a)
    <3>1. 1 \in 1..Len(stack')
      BY <2>2
    <3>2. a[1] # b
      <4> SUFFICES ASSUME a[1] = b PROVE FALSE
        OBVIOUS
      <4>1. stack'[1].bus = a[1] /\ ~Passed(a, stack'[1])
        BY <2>2, SizeAssumption DEF Frame, Passed, Addresses
      <4>2. QED
        BY <2>5, <3>1, <4>1 DEF Tried, Current
    <3>3. Tried(outer, "id", a)
      <4> SUFFICES ASSUME NEW c \in 1..Len(outer), outer[c].bus = a[1]
                   PROVE  Passed(a, outer[c])
        BY DEF Tried
      <4>1. c + 1 \in 1..Len(stack') /\ stack'[c + 1] = outer[c]
        BY <2>2
      <4>2. QED
        BY <2>5, <4>1 DEF Tried, Current
    <3>4. QED
      BY <1>9, <2>5, <3>2, <3>3
  <2>6. busmap' \subseteq Reachable
    BY <1>5, <1>12, <1>14
  <2>7. QED
    BY <1>1, <1>11, <1>14, <2>4, <2>5, <2>6 DEF Found
<1>15. QED
  BY <1>4, <1>13, <1>14

LEMMA BusDoneFinds ==
  Inv /\ Found(stack, busmap, list, reg) /\ BusDone
    => Found(stack', busmap', list', reg')
<1> SUFFICES ASSUME Inv, Found(stack, busmap, list, reg), BusDone
             PROVE  Found(stack', busmap', list', reg')
  OBVIOUS
<1>1. /\ stack # <<>> /\ reg = "id" /\ Top.dev > MaxDev /\ stack' = Tail(stack)
      /\ busmap' = busmap /\ list' = list /\ reg' = reg
      /\ stack \in Seq(Frames)
  BY DEF BusDone, Inv, ScanTypeOK
<1>2. /\ Len(stack') = Len(stack) - 1 /\ Len(stack) \in Nat
      /\ \A c \in 1..Len(stack') : c + 1 \in 1..Len(stack) /\ stack'[c] = stack[c + 1]
  BY <1>1
<1>3. ASSUME NEW c \in 1..Len(stack') PROVE FlagRight(stack'[c], FALSE)
  <2>1. FlagRight(stack[c + 1], c + 1 = 1 /\ reg = "secondary")
    BY <1>2, <1>3 DEF Found
  <2>2. (c + 1 = 1 /\ reg = "secondary") = FALSE
    BY <1>1
  <2>3. QED
    BY <1>2, <1>3, <2>1, <2>2
<1>4. ASSUME NEW a \in Addresses, Tried(stack', "id", a) PROVE Tried(stack, "id", a)
  <2> SUFFICES ASSUME NEW c \in 1..Len(stack), stack[c].bus = a[1]
               PROVE  Passed(a, stack[c])
    BY DEF Tried
  <2>1. CASE c = 1
    <3>1. stack[c] \in Frames
      BY <1>1
    <3>2. QED
      BY <1>1, <2>1, <3>1, SizeAssumption DEF Passed, Top, Addresses, Frames
  <2>2. CASE c # 1
    <3>1. c - 1 \in 1..Len(stack') /\ stack'[c - 1] = stack[c - 1 + 1]
      BY <1>2, <2>2
    <3>2. stack'[c - 1] = stack[c]
      BY <3>1
    <3>3. QED
      BY <1>4, <3>1, <3>2 DEF Tried, Current
  <2>3. QED
    BY <2>1, <2>2
<1>5. QED
  BY <1>1, <1>3, <1>4 DEF Found, Current

LEMMA QuietStep == Inv /\ QuietInv /\ [ScanNext]_svars => QuietInv'
<1> SUFFICES ASSUME Inv, QuietInv, [ScanNext]_svars PROVE QuietInv'
  OBVIOUS
<1>1. CASE HwChange
  BY <1>1 DEF HwChange, QuietInv
<1>2. ASSUME hw' = hw, 0 \in busmap',
             hw \notin Unstable => Found(stack', busmap', list', reg')
      PROVE  QuietInv'
  BY <1>2
  DEF QuietInv, Found, FlagRight, FirstOf, Tried, Current, IsListed, Answers, Reachable,
      ClosedUnderBridges, Passed, Function
<1>3. CASE UNCHANGED svars
  BY <1>2, <1>3 DEF svars, QuietInv
<1>4. CASE ReadId
  BY <1>2, <1>4, ReadIdFinds DEF ReadId, QuietInv
<1>5. CASE ReadHeader
  BY <1>2, <1>5, ReadHeaderFinds DEF ReadHeader, QuietInv
<1>6. CASE ReadSecondary
  <2>1. hw' = hw /\ 0 \in busmap'
    BY <1>6 DEF ReadSecondary, QuietInv
  <2>2. QED
    BY <1>2, <1>6, <2>1, ReadSecondaryFinds DEF QuietInv
<1>7. CASE BusDone
  BY <1>2, <1>7, BusDoneFinds DEF BusDone, QuietInv
<1>8. QED
  BY <1>1, <1>3, <1>4, <1>5, <1>6, <1>7 DEF ScanNext, ScanBus

\* At the end, the marked buses are closed under the bridges on them, and so
\* are all those that can be reached.
LEMMA AllFound == Inv /\ QuietInv => ScanComplete
<1> SUFFICES ASSUME Inv, QuietInv, stack = <<>>, hw \notin Unstable
             PROVE  {list[k] : k \in 1..Len(list)} = Present
  BY DEF ScanComplete
<1>1. Len(stack) = 0 /\ reg = "id"
  BY DEF Inv, OnFunction
<1>2. \A a \in Addresses : a[1] \in busmap /\ Answers(a) => IsListed(list, a)
  BY <1>1 DEF QuietInv, Found, Tried
<1>3. \A k \in 1..Len(list) :
        /\ Answers(list[k]) /\ list[k] \in Addresses /\ list[k][1] \in busmap
        /\ hw[list[k]].kind = "bridge" => hw[list[k]].sec \in busmap
  <2>1. list \in Seq(Addresses)
    BY DEF Inv, ScanTypeOK
  <2>2. QED
    BY <1>1, <2>1 DEF QuietInv, Found, Current, Inv, ListedIsPassed
<1>4. ClosedUnderBridges(busmap)
  <2>1. ASSUME NEW a \in Addresses, a[1] \in busmap, Answers(a), hw[a].kind = "bridge"
        PROVE  hw[a].sec \in busmap
    <3>1. PICK k \in 1..Len(list) : list[k] = a
      BY <1>2, <2>1 DEF IsListed
    <3>2. QED
      BY <1>3, <2>1, <3>1
  <2>2. QED
    BY <2>1 DEF ClosedUnderBridges, QuietInv
<1>5. busmap = Reachable
  <2>1. busmap \in SUBSET BusNumbers
    BY DEF Inv, ScanTypeOK
  <2>2. busmap \subseteq Reachable
    BY DEF QuietInv, Found
  <2>3. QED
    BY <1>4, <2>1, <2>2 DEF Reachable
<1>6. Present = {a \in Addresses : a[1] \in busmap /\ Answers(a)}
  BY <1>5 DEF Present
<1>7. QED
  BY <1>2, <1>3, <1>6 DEF IsListed

\* pci_generic_scan() lists exactly the functions there are, those of bus 0 and
\* below the bridges among them, however these are wired, if the hardware is
\* quiet: a device whose function 0 is missing or has only one function is
\* skipped rightly, and a bus is never thought done before it is.
THEOREM AllAreFound == ScanSpec => []ScanComplete
<1>1. ScanInit => Inv /\ QuietInv
  BY InitKeeps, StartFinds DEF QuietInv
<1>2. Inv /\ QuietInv /\ [ScanNext]_svars => Inv' /\ QuietInv'
  BY StepKeeps, QuietStep
<1>3. Inv /\ QuietInv => ScanComplete
  BY AllFound
<1>4. QED
  BY <1>1, <1>2, <1>3, PTL DEF ScanSpec

----------------------------------------------------------------------------
(***************************************************************************)
(* The tree.                                                               *)
(***************************************************************************)
\* Device d is in the range of bridge c.
InRange(d, c) ==
  /\ bridges[c].dom = d.dom
  /\ bridges[c].sec <= d.bus /\ d.bus <= bridges[c].sub

\* The list is sorted, and no two devices have the same address.
Ordered ==
  /\ devs \in Seq(Devices)
  /\ \A j, k \in 1..Len(devs) : j < k => Before(devs[j], devs[k])

\* The chain of bridges: the host bridge, and those of the first n devices in
\* the order of the list.
Chain == [dom : Domains, prim : Nat, sec : Nat, sub : Nat, dev : Nat]
OfDevice(c) ==
  LET d == devs[bridges[c].dev]
  IN /\ bridges[c].dev \in 1..Len(devs) /\ d.bridge
     /\ bridges[c].dom = d.dom /\ bridges[c].prim = d.prim
     /\ bridges[c].sec = d.sec /\ bridges[c].sub = d.sub
ChainOK(n) ==
  /\ bridges \in Seq(Chain) /\ Len(bridges) \in 1..(n + 1)
  /\ bridges[1].dom = 0 /\ bridges[1].prim = Word - 1
  /\ bridges[1].sec = 0 /\ bridges[1].sub = Word - 1
  /\ bridges[1].dev \in 0..Len(devs)
  /\ \A c \in 2..Len(bridges) : OfDevice(c) /\ bridges[c].dev <= n
  /\ \A b, c \in 2..Len(bridges) : b < c => bridges[b].dev < bridges[c].dev

\* n bridges are linked: the host bridge has all others as children.
LinkedOK(n) ==
  /\ child \in [1..Len(bridges) -> Seq(Nat)]
  /\ \A b \in 2..Len(bridges) : child[b] = <<>>
  /\ Len(child[1]) = n - 1
  /\ \A k \in 1..(n - 1) : child[1][k] = n + 1 - k

\* The first n devices are inserted: a bus has devices of its number, in the
\* order of the list, and every device is on a bus.
BusRec == [dom : Domains, num : Nat, devs : Seq(Nat)]
BusesTyped ==
  /\ buses \in [1..Len(bridges) -> Seq(BusRec)]
  /\ parent \in [1..Len(devs) -> 0..Len(bridges)]
OnBus(n, b, bus, d) ==
  /\ d \in 1..n /\ parent[d] = b
  /\ bus.dom = devs[d].dom /\ bus.num = devs[d].bus
Placed(n) ==
  \A b \in 1..Len(bridges) : \A u \in 1..Len(buses[b]) :
    LET bus == buses[b][u]
    IN /\ \A j \in 1..Len(bus.devs) : OnBus(n, b, bus, bus.devs[j])
       /\ \A j, k \in 1..Len(bus.devs) : j < k => bus.devs[j] < bus.devs[k]
Covered(n) ==
  \A d \in 1..n :
    /\ parent[d] \in 1..Len(bridges)
    /\ \E u \in 1..Len(buses[parent[d]]) :
         \E j \in 1..Len(buses[parent[d]][u].devs) :
           buses[parent[d]][u].devs[j] = d

\* Bridge b is the last one of the chain that has device d in its range, or it is
\* the host bridge and there is none.
Deepest(d, b) ==
  \/ b = 1 /\ \A c \in 2..Len(bridges) : ~InRange(devs[d], c)
  \/ /\ b \in 2..Len(bridges) /\ InRange(devs[d], b)
     /\ \A c \in 2..Len(bridges) : InRange(devs[d], c) => c <= b

\* In a well-formed topology the buses of the host bridge are in no other
\* bridge's range, and the devices are where they belong.
HostFree ==
  WellFormed =>
    \A u \in 1..Len(buses[1]) : \A c \in 2..Len(bridges) :
      ~(/\ bridges[c].dom = buses[1][u].dom
        /\ bridges[c].sec <= buses[1][u].num
        /\ buses[1][u].num <= bridges[c].sub)
ParentsRight(n) == WellFormed => \A d \in 1..n : Deepest(d, parent[d])

BusesOK(n) ==
  BusesTyped /\ Placed(n) /\ Covered(n) /\ HostFree /\ ParentsRight(n)

\* insert_dev() is at the host bridge, or at the bridge where the device belongs,
\* because the host bridge does not have its bus.
Searching ==
  \/ at = 1
  \/ at \in 2..Len(bridges) /\ Deepest(i, at)

AtStart ==
  /\ tpc = "start" /\ devs = <<>> /\ bridges = <<>> /\ child = <<>>
  /\ buses = <<>> /\ parent = <<>> /\ i = 1 /\ at = 1
AtBridges ==
  /\ tpc = "bridges" /\ i \in 1..(Len(devs) + 1) /\ at = 1
  /\ ChainOK(i - 1) /\ child = <<>> /\ buses = <<>> /\ parent = <<>>
AtChildren ==
  /\ tpc = "children" /\ i \in 1..(Len(bridges) + 1) /\ at = 1
  /\ ChainOK(Len(devs)) /\ LinkedOK(IF i = 1 THEN 1 ELSE i - 1)
  /\ buses = [b \in 1..Len(bridges) |-> <<>>]
  /\ parent = [d \in 1..Len(devs) |-> 0]
AtBuses ==
  /\ tpc = "buses" /\ i \in 1..(Len(bridges) + 1) /\ at = 1
  /\ ChainOK(Len(devs)) /\ LinkedOK(Len(bridges)) /\ BusesOK(0)
AtInsert ==
  /\ tpc = "insert" /\ i \in 1..(Len(devs) + 1) /\ (i <= Len(devs) => Searching)
  /\ at \in 1..Len(bridges)
  /\ ChainOK(Len(devs)) /\ LinkedOK(Len(bridges)) /\ BusesOK(i - 1)
AtEnd ==
  /\ Built /\ i \in 1..(Len(devs) + 1) /\ at \in 1..(Len(devs) + 1)
  /\ tpc \in {"path", "slot"} => at <= Len(devs)
  /\ ChainOK(Len(devs)) /\ BusesOK(Len(devs))

TreeInv ==
  /\ Ordered
  /\ AtStart \/ AtBridges \/ AtChildren \/ AtBuses \/ AtInsert \/ AtEnd

----------------------------------------------------------------------------
\* The least element of a set of numbers.
LEMMA LeastNumber ==
  ASSUME NEW S \in SUBSET Nat, S # {}
  PROVE  Min(S) \in S /\ \A m \in S : Min(S) <= m
<1> DEFINE R == OpToRel(<, Nat)
<1>1. \A x, y \in Nat : <<x, y>> \in R <=> x < y
  BY DEF OpToRel
<1>2. IsWellFoundedOn(R, Nat)
  BY NatLessThanWellFounded
<1> HIDE DEF R
<1>3. PICK n \in S : \A m \in S : ~(<<m, n>> \in R)
  BY <1>2, WFMin
<1>4. \A m \in S : n <= m
  <2> SUFFICES ASSUME NEW m \in S PROVE n <= m
    OBVIOUS
  <2>1. m \in Nat /\ n \in Nat
    OBVIOUS
  <2>2. ~(m < n)
    BY <1>1, <1>3, <2>1
  <2>3. QED
    BY <2>1, <2>2
<1>5. QED
  BY <1>4 DEF Min

\* What find_bus() finds.
LEMMA FindBusFinds ==
  ASSUME NEW b, NEW dom, NEW num, Len(buses[b]) \in Nat
  PROVE  LET u == FindBus(b, dom, num)
             B == buses[b]
         IN \/ u = 0 /\ \A v \in 1..Len(B) : ~(B[v].dom = dom /\ B[v].num = num)
            \/ u \in 1..Len(B) /\ B[u].dom = dom /\ B[u].num = num
<1> DEFINE S == {v \in 1..Len(buses[b]) : buses[b][v].dom = dom /\ buses[b][v].num = num}
<1>1. FindBus(b, dom, num) = IF S # {} THEN Min(S) ELSE 0
  BY DEF FindBus, SelectInSeq
<1>2. S \in SUBSET Nat
  OBVIOUS
<1>3. S # {} => Min(S) \in S
  BY <1>2, LeastNumber
<1>4. QED
  BY <1>1, <1>3

\* The child the search of insert_dev() finds: the first one that has the device.
LEMMA DescendFinds ==
  ASSUME NEW b, NEW d, Len(child[b]) \in Nat
  PROVE  LET n == Descend(d, b)
             C == child[b]
         IN \/ n = 0 /\ \A k \in 1..Len(C) : ~InRange(d, C[k])
            \/ /\ n \in 1..Len(C) /\ InRange(d, C[n])
               /\ \A k \in 1..Len(C) : InRange(d, C[k]) => n <= k
<1> DEFINE S == {k \in 1..Len(child[b]) : InRange(d, child[b][k])}
<1>1. Descend(d, b) = IF S # {} THEN Min(S) ELSE 0
  BY DEF Descend, SelectInSeq, InRange
<1>2. S \in SUBSET Nat
  OBVIOUS
<1>3. S # {} => Min(S) \in S /\ \A m \in S : Min(S) <= m
  BY <1>2, LeastNumber
<1>4. QED
  BY <1>1, <1>3

\* The device of the host bridge is on the list, or there is none.
LEMMA HostDevice ==
  ASSUME NEW l \in Seq(Devices)
  PROVE  Host(l).dev \in 0..Len(l)
<1> DEFINE S == {v \in 1..Len(l) : Address(l[v]) = <<0, 0, 0>>}
<1>1. Host(l).dev = IF HostDev THEN IF S # {} THEN Min(S) ELSE 0 ELSE 0
  BY DEF Host, SelectInSeq, NoDevice
<1>2. S \in SUBSET Nat
  OBVIOUS
<1>3. S # {} => Min(S) \in S
  BY <1>2, LeastNumber
<1>4. QED
  BY <1>1, <1>3

\* The fields of a device are numbers.
LEMMA DeviceNumbers ==
  \A d \in Devices :
    /\ d.dom \in Domains /\ d.dom \in Nat /\ d.bus \in Buses /\ d.bus \in Nat
    /\ d.slot \in Nat /\ d.bridge \in BOOLEAN /\ d.prim \in Nat
    /\ d.sec \in Nat /\ d.sub \in Nat /\ d.prim \in Buses
    /\ d.sec \in Buses /\ d.sub \in Buses
BY TopologyAssumption DEF Devices

\* A surjection of a list's positions onto its elements, which are all different,
\* does not repeat any.
LEMMA SortedIsOrdered ==
  ASSUME NEW l \in Seq(Devices),
         \A j, k \in DOMAIN l : Address(l[j]) = Address(l[k]) => j = k,
         NEW s \in Sorted(l)
  PROVE  /\ s \in Seq(Devices) /\ Len(s) = Len(l)
         /\ \A j, k \in DOMAIN s : j < k => Before(s[j], s[k])
<1>1. /\ s \in [1..Len(l) -> ToSet(l)] /\ ToSet(s) = ToSet(l)
      /\ \A j, k \in 1..Len(l) : j < k => ~Before(s[k], s[j])
  BY DEF Sorted
<1>2. Len(l) \in Nat /\ DOMAIN l = 1..Len(l) /\ \A k \in 1..Len(l) : l[k] \in Devices
  OBVIOUS
<1>3. l \in Bijection(1..Len(l), ToSet(l))
  <2>1. l \in [1..Len(l) -> ToSet(l)]
    BY <1>2 DEF ToSet
  <2>2. \A j, k \in 1..Len(l) : l[j] = l[k] => j = k
    BY <1>2 DEF Address
  <2>3. \A x \in ToSet(l) : \E k \in 1..Len(l) : l[k] = x
    BY <1>2 DEF ToSet
  <2>4. QED
    BY <2>1, <2>2, <2>3 DEF Bijection, Injection, Surjection, IsInjective
<1>4. s \in Surjection(1..Len(l), ToSet(l))
  BY <1>1 DEF Surjection, ToSet
<1>5. IsFiniteSet(1..Len(l))
  BY <1>2, FS_Interval
<1>6. Cardinality(ToSet(l)) = Cardinality(1..Len(l))
  <2>1. ExistsBijection(1..Len(l), ToSet(l))
    BY <1>3 DEF ExistsBijection
  <2>2. QED
    BY <1>5, <2>1, FS_Bijection
<1>7. s \in Injection(1..Len(l), ToSet(l))
  BY <1>4, <1>5, <1>6, FS_SurjSameCardinalityImpliesInj
<1>8. s \in Seq(Devices) /\ Len(s) = Len(l) /\ DOMAIN s = 1..Len(l)
  <2>1. ToSet(l) \subseteq Devices
    BY <1>2 DEF ToSet
  <2>2. s \in [1..Len(l) -> Devices]
    BY <1>1, <2>1
  <2>3. QED
    BY <1>2, <2>2
<1>9. ASSUME NEW j \in DOMAIN s, NEW k \in DOMAIN s, j < k
      PROVE  Before(s[j], s[k])
  <2>1. PICK a \in 1..Len(l) : l[a] = s[j]
    BY <1>1, <1>8, <1>2 DEF ToSet
  <2>2. PICK b \in 1..Len(l) : l[b] = s[k]
    BY <1>1, <1>8, <1>2 DEF ToSet
  <2>3. s[j] # s[k]
    BY <1>7, <1>8, <1>9 DEF Injection, IsInjective
  <2>4. Address(s[j]) # Address(s[k])
    BY <2>1, <2>2, <2>3, <1>2
  <2>5. s[j] \in Devices /\ s[k] \in Devices
    BY <1>8
  <2>6. ~Before(s[k], s[j])
    BY <1>1, <1>8, <1>9
  <2>7. \A d \in Devices : d.dom \in Nat /\ d.bus \in Nat /\ d.slot \in Nat
    BY DeviceNumbers
  <2> HIDE DEF Devices
  <2>8. \A d, e \in Devices : Address(d) # Address(e) /\ ~Before(e, d) => Before(d, e)
    BY <2>7 DEF Before, Address
  <2>9. QED
    BY <2>4, <2>5, <2>6, <2>8
<1>10. QED
  BY <1>8, <1>9

\* What Placed says of one device.
LEMMA PlacedAt ==
  ASSUME NEW n, Placed(n), NEW b \in 1..Len(bridges), NEW u \in 1..Len(buses[b]),
         NEW j \in 1..Len(buses[b][u].devs)
  PROVE  OnBus(n, b, buses[b][u], buses[b][u].devs[j])
BY DEF Placed

----------------------------------------------------------------------------
LEMMA GrowTreeKeeps ==
  ASSUME TreeInv, NEW l \in Seq(Devices), GrowTree(l),
         \A j, k \in DOMAIN l : Address(l[j]) = Address(l[k]) => j = k
  PROVE  TreeInv'
<1>1. AtStart
  BY DEF TreeInv, GrowTree, AtStart, AtBridges, AtChildren, AtBuses, AtInsert,
         AtEnd, Built
<1>2. Ordered'
  BY SortedIsOrdered DEF GrowTree, Ordered
<1>3. Host(devs').dev \in 0..Len(devs')
  BY <1>2, HostDevice DEF Ordered
<1>4. /\ Host(devs') \in Chain /\ Host(devs').dom = 0
      /\ Host(devs').prim = Word - 1 /\ Host(devs').sec = 0
      /\ Host(devs').sub = Word - 1
  <2>1. Len(devs') \in Nat
    BY <1>2 DEF Ordered
  <2>2. Host(devs').dev \in Nat
    BY <1>3, <2>1
  <2>3. QED
    BY <2>2, TopologyAssumption, OneNumbering DEF Chain, Host
<1>5. bridges' \in Seq(Chain) /\ Len(bridges') = 1 /\ bridges'[1] = Host(devs')
  BY <1>4 DEF GrowTree
<1>6. ChainOK(0)'
  BY <1>3, <1>4, <1>5 DEF ChainOK
<1>7. AtBridges'
  <2>1. Len(devs') \in Nat
    BY <1>2 DEF Ordered
  <2>2. i' - 1 = 0
    BY <1>1 DEF AtStart, GrowTree
  <2>3. ChainOK(i - 1)'
    BY <1>6, <2>2
  <2>4. QED
    BY <1>1, <2>1, <2>3 DEF AtStart, AtBridges, GrowTree
<1>8. QED
  BY <1>2, <1>7 DEF TreeInv

LEMMA CollectBridgeKeeps == TreeInv /\ CollectBridge => TreeInv'
<1> SUFFICES ASSUME TreeInv, CollectBridge PROVE TreeInv'
  OBVIOUS
<1> DEFINE d == devs[i]
           b == [dom |-> d.dom, prim |-> d.prim, sec |-> d.sec, sub |-> d.sub,
                 dev |-> i]
           M == Len(bridges)
<1>1. AtBridges /\ Ordered /\ i <= Len(devs)
  BY DEF TreeInv, CollectBridge, AtStart, AtBridges, AtChildren, AtBuses,
         AtInsert, AtEnd, Built
<1>2. /\ i \in 1..Len(devs) /\ d \in Devices /\ Len(devs) \in Nat
      /\ M \in 1..i
  BY <1>1 DEF AtBridges, Ordered, ChainOK
<1>3. /\ bridges' = IF d.bridge THEN Append(bridges, b) ELSE bridges
      /\ i' = i + 1 /\ tpc' = tpc /\ at' = at /\ devs' = devs
      /\ UNCHANGED <<child, buses, parent>>
  BY DEF CollectBridge
<1>0. PICK n : n = i
  OBVIOUS
<1>4. ChainOK(n)'
  <2>1. CASE ~d.bridge
    <3>1. bridges' = bridges /\ devs' = devs
      BY <1>3, <2>1
    <3>2. ChainOK(n - 1) /\ n \in 1..Len(devs)
      BY <1>0, <1>1, <1>2 DEF AtBridges
    <3>3. /\ bridges \in Seq(Chain) /\ Len(bridges) \in 1..n
          /\ bridges[1].dom = 0 /\ bridges[1].prim = Word - 1
          /\ bridges[1].sec = 0 /\ bridges[1].sub = Word - 1
          /\ bridges[1].dev \in 0..Len(devs)
      BY <3>2 DEF ChainOK
    <3>4. ASSUME NEW c \in 2..Len(bridges)
          PROVE  OfDevice(c)' /\ bridges[c].dev <= n
      <4>1. OfDevice(c) /\ bridges[c].dev <= n - 1
        BY <3>2 DEF ChainOK
      <4>2. OfDevice(c)'
        BY <3>1, <4>1 DEF OfDevice
      <4>3. bridges[c].dev \in Nat
        BY <1>2, <4>1 DEF OfDevice
      <4>4. QED
        BY <1>2, <4>1, <4>2, <4>3, <3>2
    <3>5. \A x, c \in 2..Len(bridges) :
            x < c => bridges[x].dev < bridges[c].dev
      BY <3>2 DEF ChainOK
    <3>6. Len(bridges) \in 1..(n + 1)
      BY <3>3, <3>2, <1>2
    <3>7. QED
      BY <3>1, <3>3, <3>4, <3>5, <3>6 DEF ChainOK
  <2>2. CASE d.bridge
    <3>1. b \in Chain
      <4>1. /\ d.dom \in Domains /\ d.prim \in Nat /\ d.sec \in Nat
            /\ d.sub \in Nat /\ i \in Nat
        BY <1>2, DeviceNumbers
      <4>2. QED
        BY <4>1 DEF Chain
    <3>2. /\ bridges' \in Seq(Chain) /\ Len(bridges') = M + 1
          /\ \A c \in 1..M : bridges'[c] = bridges[c]
          /\ bridges'[M + 1] = b
      BY <1>1, <1>3, <2>2, <3>1 DEF AtBridges, ChainOK
    <3> HIDE DEF b
    <3>3. /\ bridges'[1] = bridges[1] /\ Len(bridges') \in 1..(n + 1)
      BY <3>2, <1>0, <1>2
    <3>4. ASSUME NEW c \in 2..Len(bridges')
          PROVE  OfDevice(c)' /\ bridges'[c].dev <= n
      <4>1. CASE c = M + 1
        BY <4>1, <1>0, <1>2, <1>3, <2>2, <3>2 DEF OfDevice, b
      <4>2. CASE c # M + 1
        <5>1. c \in 2..M
          BY <4>2, <3>2, <1>2
        <5>2. OfDevice(c) /\ bridges[c].dev <= i - 1 /\ bridges[c].dev \in 1..Len(devs)
          BY <5>1, <1>1 DEF AtBridges, ChainOK, OfDevice
        <5>3. bridges'[c] = bridges[c]
          BY <5>1, <3>2, <1>2
        <5>4. QED
          BY <5>2, <5>3, <1>0, <1>2, <1>3 DEF OfDevice
      <4>3. QED
        BY <4>1, <4>2
    <3>5. ASSUME NEW a \in 2..Len(bridges'), NEW c \in 2..Len(bridges'), a < c
          PROVE  bridges'[a].dev < bridges'[c].dev
      <4>1. a \in 2..M /\ bridges'[a] = bridges[a]
        BY <3>2, <3>5, <1>2
      <4>2. CASE c = M + 1
        <5>1. bridges[a].dev <= i - 1 /\ bridges[a].dev \in 1..Len(devs)
          BY <4>1, <1>1 DEF AtBridges, ChainOK, OfDevice
        <5>2. bridges'[c].dev = i
          BY <4>2, <3>2 DEF b
        <5>3. QED
          BY <4>1, <5>1, <5>2, <1>2
      <4>3. CASE c # M + 1
        <5>1. c \in 2..M /\ bridges'[c] = bridges[c]
          BY <3>2, <4>3, <1>2
        <5>2. QED
          BY <4>1, <5>1, <3>5, <1>1 DEF AtBridges, ChainOK
      <4>4. QED
        BY <4>2, <4>3
    <3>6. QED
      <4>1. /\ bridges[1].dom = 0 /\ bridges[1].prim = Word - 1
            /\ bridges[1].sec = 0 /\ bridges[1].sub = Word - 1
            /\ bridges[1].dev \in 0..Len(devs)
        BY <1>1 DEF ChainOK, AtBridges
      <4>2. QED
        BY <3>2, <3>3, <3>4, <3>5, <4>1, <1>3 DEF ChainOK
  <2>3. QED
    BY <2>1, <2>2
<1>5. i' \in 1..(Len(devs') + 1) /\ i' - 1 = i
  BY <1>2, <1>3
<1>6. ChainOK(i - 1)'
  BY <1>0, <1>4, <1>5
<1>7. QED
  BY <1>1, <1>3, <1>5, <1>6 DEF TreeInv, AtBridges, Ordered

LEMMA BridgesBuiltKeeps == TreeInv /\ BridgesBuilt => TreeInv'
<1> SUFFICES ASSUME TreeInv, BridgesBuilt PROVE TreeInv'
  OBVIOUS
<1>1. AtBridges /\ Ordered /\ i > Len(devs)
  BY DEF TreeInv, BridgesBuilt, AtStart, AtBridges, AtChildren, AtBuses,
         AtInsert, AtEnd, Built
<1>2. /\ i - 1 = Len(devs) /\ DOMAIN devs = 1..Len(devs)
      /\ DOMAIN bridges = 1..Len(bridges) /\ Len(bridges) \in Nat \ {0}
  BY <1>1 DEF AtBridges, Ordered, ChainOK
<1>3. ChainOK(Len(devs))
  BY <1>1, <1>2 DEF AtBridges
<1>4. /\ child' = [b \in 1..Len(bridges) |-> <<>>]
      /\ buses' = [b \in 1..Len(bridges) |-> <<>>]
      /\ parent' = [d \in 1..Len(devs) |-> 0]
      /\ tpc' = "children" /\ i' = 1
      /\ devs' = devs /\ bridges' = bridges /\ at' = at
  BY <1>2 DEF BridgesBuilt
<1>5. ChainOK(Len(devs))'
  BY <1>3, <1>4 DEF ChainOK, OfDevice
<1>6. LinkedOK(1)'
  <2>1. child'[1] = <<>>
    BY <1>2, <1>4
  <2>2. QED
    BY <1>2, <1>4, <2>1 DEF LinkedOK
<1>7. AtChildren'
  <2>1. LinkedOK(IF i = 1 THEN 1 ELSE i - 1)'
    BY <1>6, <1>4
  <2>2. QED
    BY <1>1, <1>2, <1>4, <1>5, <2>1 DEF AtChildren, AtBridges
<1>8. QED
  BY <1>1, <1>4, <1>7 DEF TreeInv, Ordered

\* The numbers of a bridge of the chain.
LEMMA ChainNumbers ==
  ASSUME Ordered, NEW n \in Nat, ChainOK(n), NEW c \in 2..Len(bridges)
  PROVE  /\ bridges[c].dom \in Domains /\ bridges[c].prim \in Buses
         /\ bridges[c].sec \in Buses /\ bridges[c].sub \in Buses
<1>1. OfDevice(c)
  BY DEF ChainOK
<1>2. devs[bridges[c].dev] \in Devices
  BY <1>1 DEF OfDevice, Ordered
<1>3. QED
  BY <1>1, <1>2, DeviceNumbers DEF OfDevice

\* The host bridge is upstream of every other bridge and always the best one,
\* because its span overflows to 0; nothing is upstream of it.
LEMMA HostIsBest ==
  ASSUME Ordered, ChainOK(Len(devs)), NEW b \in 1..Len(bridges)
  PROVE  /\ b = 1 => Upstream(b) = {}
         /\ b # 1 => Upstream(b) # {} /\ Best(b) = 1
<1>1. Len(devs) \in Nat /\ Len(bridges) \in Nat \ {0} /\ Word \in Nat \ {0, 1}
  BY TopologyAssumption DEF Ordered, ChainOK
<1>2. \A c \in 2..Len(bridges) :
        /\ bridges[c].dom \in Domains /\ bridges[c].prim \in Buses
        /\ bridges[c].sec \in Buses /\ bridges[c].sub \in Buses
  BY <1>1, ChainNumbers
<1>3. \A n \in Buses : n \in Nat /\ 2 * n < Word
  BY TopologyAssumption
<1>4. DOMAIN bridges = 1..Len(bridges)
  BY DEF ChainOK
<1>5. /\ bridges[1].dom = 0 /\ bridges[1].prim = Word - 1
      /\ bridges[1].sec = 0 /\ bridges[1].sub = Word - 1
  BY DEF ChainOK
<1>6. CASE b = 1
  <2>1. ASSUME NEW c \in Upstream(1) PROVE FALSE
    <3>1. c \in 2..Len(bridges) /\ bridges[1].prim <= bridges[c].sub
      BY <2>1, <1>1, <1>4 DEF Upstream
    <3>2. bridges[c].sub \in Nat /\ 2 * bridges[c].sub < Word
      BY <3>1, <1>2, <1>3
    <3>3. QED
      BY <3>1, <3>2, <1>1, <1>5
  <2>2. QED
    BY <2>1, <1>6
<1>7. CASE b # 1
  <2>1. bridges[b].prim \in Nat /\ 2 * bridges[b].prim < Word
    BY <1>7, <1>1, <1>2, <1>3
  <2>2. 1 \in Upstream(b)
    BY <2>1, <1>1, <1>4, <1>5, <1>7 DEF Upstream
  <2>3. Span(1) = 0
    BY <1>1, <1>5 DEF Span
  <2>4. ASSUME NEW c \in Upstream(b) \ {1} PROVE Span(c) \in Nat /\ c \in Nat /\ 1 < c
    <3>1. c \in 2..Len(bridges)
      BY <2>4, <1>1, <1>4 DEF Upstream
    <3>2. /\ bridges[c].sub \in Nat /\ bridges[c].prim \in Nat
          /\ 2 * bridges[c].prim < Word
      BY <3>1, <1>2, <1>3
    <3>3. bridges[c].sub + Word - bridges[c].prim \in Nat
      <4>1. \A x, y, w \in Nat : 2 * x < w => y + w - x \in Nat
        OBVIOUS
      <4>2. QED
        BY <4>1, <3>2, <1>1
    <3>4. Span(c) \in Nat
      BY <3>3, <1>1 DEF Span
    <3>5. QED
      BY <3>1, <3>4
  <2>5. \A e \in Upstream(b) \ {1} : Span(1) < Span(e) \/ (Span(1) = Span(e) /\ 1 < e)
    BY <2>3, <2>4
  <2>6. ASSUME NEW c \in Upstream(b), c # 1,
               \A e \in Upstream(b) \ {c} :
                 Span(c) < Span(e) \/ (Span(c) = Span(e) /\ c < e)
        PROVE  FALSE
    <3>1. Span(c) < 0 \/ c < 1
      BY <2>2, <2>3, <2>6
    <3>2. QED
      BY <3>1, <2>4, <2>6
  <2>7. Best(b) = 1
    BY <2>2, <2>5, <2>6 DEF Best
  <2>8. QED
    BY <2>2, <2>7, <1>7
<1>8. QED
  BY <1>6, <1>7

LEMMA LinkBridgeKeeps == TreeInv /\ LinkBridge => TreeInv'
<1> SUFFICES ASSUME TreeInv, LinkBridge PROVE TreeInv'
  OBVIOUS
<1> DEFINE M == Len(bridges)
<1>1. AtChildren /\ Ordered /\ i <= M
  BY DEF TreeInv, LinkBridge, AtStart, AtBridges, AtChildren, AtBuses,
         AtInsert, AtEnd, Built
<1>2. M \in Nat \ {0} /\ i \in 1..M
  BY <1>1 DEF AtChildren, Ordered, ChainOK
<1>3. UNCHANGED <<devs, bridges, buses, parent, tpc, at>> /\ i' = i + 1
  BY DEF LinkBridge
<1>4. ChainOK(Len(devs))'
  BY <1>1, <1>3 DEF AtChildren, ChainOK, OfDevice
<1>5. LinkedOK(IF i = 1 THEN 1 ELSE i - 1)'
  <2>1. CASE i = 1
    <3>1. child' = child
      BY <1>1, <1>2, <2>1, HostIsBest DEF AtChildren, LinkBridge
    <3>2. LinkedOK(1)
      BY <1>1, <2>1 DEF AtChildren
    <3>3. LinkedOK(1)'
      BY <3>1, <3>2, <1>3 DEF LinkedOK
    <3>4. (IF i = 1 THEN 1 ELSE i - 1)' = 1
      BY <2>1, <1>3
    <3>5. QED
      BY <3>3, <3>4
  <2>2. CASE i # 1
    <3>0. PICK n : n = i
      OBVIOUS
    <3>1. child' = [child EXCEPT ![1] = <<n>> \o @]
      BY <1>1, <1>2, <2>2, <3>0, HostIsBest DEF AtChildren, LinkBridge
    <3>2. LinkedOK(n - 1) /\ n \in 2..M
      BY <1>1, <1>2, <2>2, <3>0 DEF AtChildren
    <3>3. child \in [1..M -> Seq(Nat)] /\ child[1] \in Seq(Nat) /\ n \in Nat
      BY <3>2, <1>2 DEF LinkedOK
    <3>4. child' \in [1..M -> Seq(Nat)] /\ child'[1] = <<n>> \o child[1]
          /\ \A b \in 2..M : child'[b] = child[b]
      BY <3>1, <3>3, <1>2
    <3>5. /\ Len(child'[1]) = n - 1 /\ child'[1][1] = n
          /\ \A k \in 2..(n - 1) : child'[1][k] = child[1][k - 1]
      <4>1. Len(child[1]) = n - 2
        BY <3>2, <3>3 DEF LinkedOK
      <4>2. QED
        BY <4>1, <3>3, <3>4, <3>2, InFront
    <3>6. \A k \in 1..(n - 1) : child'[1][k] = n + 1 - k
      <4>1. \A k \in 2..(n - 1) : child[1][k - 1] = n + 1 - k
        BY <3>2 DEF LinkedOK
      <4>2. QED
        BY <4>1, <3>5, <3>2
    <3>7. LinkedOK(n)'
      BY <3>4, <3>5, <3>6, <3>2, <1>3 DEF LinkedOK
    <3>8. (IF i = 1 THEN 1 ELSE i - 1)' = n
      BY <3>0, <1>2, <1>3
    <3>9. QED
      BY <3>7, <3>8
  <2>3. QED
    BY <2>1, <2>2
<1>6. AtChildren'
  BY <1>1, <1>2, <1>3, <1>4, <1>5 DEF AtChildren
<1>7. QED
  BY <1>1, <1>3, <1>6 DEF TreeInv, Ordered

\* What BusesOK says depends on four variables only.
LEMMA BusesUnchanged ==
  ASSUME NEW n, BusesOK(n), UNCHANGED <<devs, bridges, buses, parent>>
  PROVE  BusesOK(n)'
<1>1. WellFormed' = WellFormed /\ BusesTyped' /\ Placed(n)' /\ Covered(n)'
  <2>1. WellFormed' = WellFormed
    BY DEF WellFormed
  <2>2. BusesTyped'
    BY DEF BusesOK, BusesTyped
  <2>3. Placed(n)'
    <3>1. Placed(n)
      BY DEF BusesOK
    <3>2. PICK B, P, D, R : buses = B /\ parent = P /\ devs = D /\ bridges = R
      OBVIOUS
    <3>3. buses' = B /\ parent' = P /\ devs' = D /\ bridges' = R
      BY <3>2
    <3>4. ASSUME NEW b \in 1..Len(R), NEW u \in 1..Len(B[b])
          PROVE  /\ \A j \in 1..Len(B[b][u].devs) :
                      /\ B[b][u].devs[j] \in 1..n /\ P[B[b][u].devs[j]] = b
                      /\ B[b][u].dom = D[B[b][u].devs[j]].dom
                      /\ B[b][u].num = D[B[b][u].devs[j]].bus
                 /\ \A j, k \in 1..Len(B[b][u].devs) :
                      j < k => B[b][u].devs[j] < B[b][u].devs[k]
      <4>1. b \in 1..Len(bridges) /\ u \in 1..Len(buses[b]) /\ buses[b][u] = B[b][u]
        BY <3>2
      <4>2. /\ \A j \in 1..Len(buses[b][u].devs) :
                 OnBus(n, b, buses[b][u], buses[b][u].devs[j])
            /\ \A j, k \in 1..Len(buses[b][u].devs) :
                 j < k => buses[b][u].devs[j] < buses[b][u].devs[k]
        BY <3>1, <4>1 DEF Placed
      <4>3. PICK bus : bus = B[b][u]
        OBVIOUS
      <4>4. \A j \in 1..Len(bus.devs) : OnBus(n, b, bus, bus.devs[j])
        BY <4>1, <4>2, <4>3
      <4>5. \A j, k \in 1..Len(bus.devs) : j < k => bus.devs[j] < bus.devs[k]
        BY <4>1, <4>2, <4>3
      <4>6. QED
        BY <3>2, <4>3, <4>4, <4>5 DEF OnBus
    <3>5. QED
      BY <3>3, <3>4 DEF Placed, OnBus
  <2>4. Covered(n)'
    BY DEF BusesOK, Covered
  <2>5. QED
    BY <2>1, <2>2, <2>3, <2>4
<1>2. HostFree'
  BY <1>1 DEF BusesOK, HostFree
<1>3. ParentsRight(n)'
  BY <1>1 DEF BusesOK, ParentsRight, Deepest, InRange
<1>4. QED
  BY <1>1, <1>2, <1>3 DEF BusesOK

LEMMA BridgesLinkedKeeps == TreeInv /\ BridgesLinked => TreeInv'
<1> SUFFICES ASSUME TreeInv, BridgesLinked PROVE TreeInv'
  OBVIOUS
<1> DEFINE M == Len(bridges)
<1>1. AtChildren /\ Ordered /\ i > M
  BY DEF TreeInv, BridgesLinked, AtStart, AtBridges, AtChildren, AtBuses,
         AtInsert, AtEnd, Built
<1>2. M \in Nat \ {0} /\ i = M + 1 /\ Len(devs) \in Nat
  BY <1>1 DEF AtChildren, Ordered, ChainOK
<1>3. UNCHANGED <<devs, bridges, child, buses, parent, at>> /\ i' = 1 /\ tpc' = "buses"
  BY DEF BridgesLinked
<1>4. ChainOK(Len(devs))'
  BY <1>1, <1>3 DEF AtChildren, ChainOK, OfDevice
<1>5. LinkedOK(Len(bridges))'
  <2>1. LinkedOK(M)
    BY <1>1, <1>2 DEF AtChildren
  <2>2. QED
    BY <2>1, <1>3 DEF LinkedOK
<1>6. BusesOK(0)
  <2>1. \A b \in 1..M : buses[b] = <<>>
    BY <1>1 DEF AtChildren
  <2>2. BusesTyped
    BY <1>1, <1>2 DEF AtChildren, BusesTyped
  <2>3. QED
    BY <1>2, <2>1, <2>2 DEF BusesOK, Placed, Covered, HostFree, ParentsRight
<1>7. BusesOK(0)'
  BY <1>3, <1>6, BusesUnchanged
<1>8. AtBuses'
  BY <1>1, <1>2, <1>3, <1>4, <1>5, <1>7 DEF AtBuses, AtChildren
<1>9. QED
  BY <1>1, <1>3, <1>8 DEF TreeInv, Ordered

\* A bridge of a well-formed topology has no bus 0 below it.
LEMMA BusZeroIsHosts ==
  ASSUME Ordered, ChainOK(Len(devs)), WellFormed, NEW c \in 2..Len(bridges)
  PROVE  ~(bridges[c].sec <= 0)
<1>1. OfDevice(c)
  BY DEF ChainOK
<1> DEFINE d == devs[bridges[c].dev]
<1>2. d \in Devices /\ d \in ToSet(devs) /\ d.bridge
  BY <1>1 DEF OfDevice, Ordered, ToSet
<1>3. d.bus < d.sec
  BY <1>2 DEF WellFormed
<1>4. QED
  BY <1>1, <1>2, <1>3, DeviceNumbers DEF OfDevice

LEMMA SecondaryBusKeeps == TreeInv /\ SecondaryBus => TreeInv'
<1> SUFFICES ASSUME TreeInv, SecondaryBus PROVE TreeInv'
  OBVIOUS
<1> DEFINE M == Len(bridges)
           B == bridges[i]
           new == [dom |-> B.dom, num |-> B.sec, devs |-> <<>>]
<1>1. AtBuses /\ Ordered /\ i <= M
  BY DEF TreeInv, SecondaryBus, AtStart, AtBridges, AtChildren, AtBuses,
         AtInsert, AtEnd, Built
<1>2. M \in Nat \ {0} /\ i \in 1..M /\ Len(devs) \in Nat
  BY <1>1 DEF AtBuses, Ordered, ChainOK
<1>3. /\ UNCHANGED <<devs, bridges, child, parent, tpc, at>> /\ i' = i + 1
      /\ \/ buses' = buses
         \/ buses' = [buses EXCEPT ![i] = <<new>> \o @]
  BY DEF SecondaryBus, NewBus
<1>4. ChainOK(Len(devs))' /\ LinkedOK(Len(bridges))'
  BY <1>1, <1>3 DEF AtBuses, ChainOK, OfDevice, LinkedOK
<1>5. BusesOK(0)'
  <2>1. CASE buses' = buses
    <3>1. /\ devs' = devs /\ bridges' = bridges /\ parent' = parent
          /\ buses' = buses
      BY <1>3, <2>1
    <3>2. BusesTyped /\ Placed(0) /\ Covered(0) /\ HostFree /\ ParentsRight(0)
      BY <1>1 DEF AtBuses, BusesOK
    <3>3. BusesTyped'
      BY <3>1, <3>2 DEF BusesTyped
    <3>4. Placed(0)'
      <4>1. ASSUME NEW b \in 1..M, NEW u \in 1..Len(buses[b]),
                   NEW j \in 1..Len(buses[b][u].devs)
            PROVE  FALSE
        <5>1. OnBus(0, b, buses[b][u], buses[b][u].devs[j])
          BY <3>2, <4>1 DEF Placed
        <5>2. QED
          BY <5>1 DEF OnBus
      <4>2. \A b \in 1..Len(bridges') : \A u \in 1..Len(buses'[b]) :
              \A j \in 1..Len(buses'[b][u].devs) : FALSE
        BY <3>1, <4>1
      <4>3. QED
        BY <4>2 DEF Placed
    <3>5. Covered(0)' /\ ParentsRight(0)'
      BY DEF Covered, ParentsRight
    <3>6. WellFormed' <=> WellFormed
      BY <3>1 DEF WellFormed
    <3>7. HostFree'
      BY <3>1, <3>2, <3>6 DEF HostFree
    <3>8. QED
      BY <3>3, <3>4, <3>5, <3>7 DEF BusesOK
  <2>2. CASE buses' = [buses EXCEPT ![i] = <<new>> \o @]
    <3>1. new \in BusRec
      <4>1. B \in Chain
        BY <1>1, <1>2 DEF AtBuses, ChainOK
      <4>2. QED
        BY <4>1 DEF Chain, BusRec
    <3>2. new.dom = B.dom /\ new.num = B.sec /\ new.devs = <<>>
      OBVIOUS
    <3> HIDE DEF new
    <3>3. buses \in [1..M -> Seq(BusRec)] /\ buses[i] \in Seq(BusRec)
      BY <1>1, <1>2 DEF AtBuses, BusesOK, BusesTyped
    <3>4. /\ buses' \in [1..M -> Seq(BusRec)]
          /\ \A b \in 1..M : b # i => buses'[b] = buses[b]
          /\ Len(buses'[i]) = Len(buses[i]) + 1 /\ buses'[i][1] = new
          /\ \A u \in 2..(Len(buses[i]) + 1) : buses'[i][u] = buses[i][u - 1]
      BY <1>2, <2>2, <3>1, <3>3, InFront
    <3>5. ASSUME NEW b \in 1..M, NEW u \in 1..Len(buses'[b])
          PROVE  \/ buses'[b][u] = new /\ b = i
                 \/ \E v \in 1..Len(buses[b]) : buses'[b][u] = buses[b][v]
      <4>1. CASE b # i
        BY <4>1, <3>4
      <4>2. CASE b = i /\ u = 1
        BY <4>2, <3>4
      <4>3. CASE b = i /\ u # 1
        <5>1. u - 1 \in 1..Len(buses[i]) /\ buses'[i][u] = buses[i][u - 1]
          BY <4>3, <3>3, <3>4, <3>5
        <5>2. QED
          BY <4>3, <5>1
      <4>4. QED
        BY <4>1, <4>2, <4>3
    <3>6. Placed(0)'
      <4>1. Placed(0)
        BY <1>1 DEF AtBuses, BusesOK
      <4>2. \A b \in 1..M : \A u \in 1..Len(buses[b]) : Len(buses[b][u].devs) \in Nat
        <5>1. \A r \in BusRec : Len(r.devs) \in Nat
          BY DEF BusRec
        <5>2. QED
          BY <3>3, <5>1
      <4>3. \A b \in 1..M : \A u \in 1..Len(buses[b]) : Len(buses[b][u].devs) = 0
        <5> SUFFICES ASSUME NEW b \in 1..M, NEW u \in 1..Len(buses[b]),
                            Len(buses[b][u].devs) # 0
                     PROVE  FALSE
          OBVIOUS
        <5>1. 1 \in 1..Len(buses[b][u].devs)
          BY <4>2
        <5>2. OnBus(0, b, buses[b][u], buses[b][u].devs[1])
          BY <4>1, <5>1, PlacedAt
        <5>3. QED
          BY <5>2 DEF OnBus
      <4>4. \A b \in 1..M : \A u \in 1..Len(buses'[b]) : Len(buses'[b][u].devs) = 0
        BY <4>3, <3>5, <3>2
      <4>5. QED
        BY <4>4, <1>3 DEF Placed
    <3>7. HostFree'
      <4> SUFFICES ASSUME WellFormed, NEW u \in 1..Len(buses'[1]), NEW c \in 2..M,
                          bridges[c].dom = buses'[1][u].dom,
                          bridges[c].sec <= buses'[1][u].num,
                          buses'[1][u].num <= bridges[c].sub
                   PROVE  FALSE
        BY <1>3 DEF HostFree, WellFormed
      <4>1. CASE buses'[1][u] = new /\ i = 1
        <5>1. bridges[c].sec <= 0
          BY <4>1, <3>2, <1>1 DEF AtBuses, ChainOK
        <5>2. QED
          BY <5>1, <1>1, BusZeroIsHosts DEF AtBuses
      <4>2. CASE \E v \in 1..Len(buses[1]) : buses'[1][u] = buses[1][v]
        BY <4>2, <1>1 DEF AtBuses, BusesOK, HostFree
      <4>3. QED
        BY <4>1, <4>2, <3>5, <1>2
    <3>8. BusesTyped'
      BY <3>4, <1>1, <1>3 DEF BusesTyped, AtBuses, BusesOK
    <3>9. QED
      BY <3>6, <3>7, <3>8 DEF BusesOK, Covered, ParentsRight
  <2>3. QED
    BY <1>3, <2>1, <2>2
<1>6. AtBuses'
  BY <1>1, <1>2, <1>3, <1>4, <1>5 DEF AtBuses
<1>7. QED
  BY <1>1, <1>3, <1>6 DEF TreeInv, Ordered

LEMMA BusesInsertedKeeps == TreeInv /\ BusesInserted => TreeInv'
<1> SUFFICES ASSUME TreeInv, BusesInserted PROVE TreeInv'
  OBVIOUS
<1>1. AtBuses /\ Ordered
  BY DEF TreeInv, BusesInserted, AtStart, AtBridges, AtChildren, AtBuses,
         AtInsert, AtEnd, Built
<1>2. /\ UNCHANGED <<devs, bridges, child, buses, parent>>
      /\ i' = 1 /\ at' = 1 /\ tpc' = "insert"
  BY DEF BusesInserted
<1>3. ChainOK(Len(devs))' /\ LinkedOK(Len(bridges))'
  BY <1>1, <1>2 DEF AtBuses, ChainOK, OfDevice, LinkedOK
<1>4. BusesOK(0)'
  BY <1>1, <1>2, BusesUnchanged DEF AtBuses
<1>5. BusesOK(i - 1)'
  BY <1>2, <1>4
<1>6. AtInsert'
  <2>1. Len(devs') \in Nat /\ Len(bridges') \in Nat \ {0}
    BY <1>1, <1>2 DEF Ordered, AtBuses, ChainOK
  <2>2. QED
    BY <1>2, <1>3, <1>5, <2>1 DEF AtInsert, Searching
<1>7. QED
  BY <1>1, <1>2, <1>6 DEF TreeInv, Ordered

LEMMA InsertBelowKeeps == TreeInv /\ InsertBelow => TreeInv'
<1> SUFFICES ASSUME TreeInv, InsertBelow PROVE TreeInv'
  OBVIOUS
<1> DEFINE M == Len(bridges)
           d == devs[i]
           n == Descend(d, at)
<1>1. AtInsert /\ Ordered /\ i <= Len(devs)
  BY DEF TreeInv, InsertBelow, AtStart, AtBridges, AtChildren, AtBuses,
         AtInsert, AtEnd, Built
<1>2. M \in Nat \ {0} /\ Len(devs) \in Nat /\ LinkedOK(M) /\ at \in 1..M
  BY <1>1 DEF AtInsert, Ordered, ChainOK
<1>3. /\ UNCHANGED <<devs, bridges, child, buses, parent, i, tpc>>
      /\ at' = child[at][n] /\ n # 0
  BY DEF InsertBelow
<1>4. Len(child[at]) \in Nat
  BY <1>2 DEF LinkedOK
<1>5. /\ n \in 1..Len(child[at]) /\ InRange(d, child[at][n])
      /\ \A k \in 1..Len(child[at]) : InRange(d, child[at][k]) => n <= k
  BY <1>3, <1>4, DescendFinds
<1> HIDE DEF n
<1>6. at = 1
  BY <1>2, <1>5 DEF LinkedOK
<1>7. n \in 1..(M - 1) /\ at' = M + 1 - n
  BY <1>2, <1>3, <1>5, <1>6 DEF LinkedOK
<1>8. at' \in 2..M /\ InRange(d, at')
  BY <1>2, <1>3, <1>5, <1>7
<1>9. ASSUME NEW c \in 2..M, InRange(d, c) PROVE c <= at'
  <2>1. M + 1 - c \in 1..(M - 1) /\ child[1][M + 1 - c] = c
    BY <1>2 DEF LinkedOK
  <2>2. n <= M + 1 - c
    BY <2>1, <1>2, <1>5, <1>6, <1>9 DEF LinkedOK
  <2>3. QED
    BY <2>2, <1>2, <1>7
<1>10. Searching'
  BY <1>3, <1>8, <1>9 DEF Searching, Deepest, InRange
<1>11. ChainOK(Len(devs))' /\ LinkedOK(Len(bridges))'
  BY <1>1, <1>3 DEF AtInsert, ChainOK, OfDevice, LinkedOK
<1>12. BusesOK(i - 1)'
  <2>1. PICK m : m = i - 1
    OBVIOUS
  <2>2. BusesOK(m)
    BY <1>1, <2>1 DEF AtInsert
  <2>3. BusesOK(m)'
    BY <1>3, <2>2, BusesUnchanged
  <2>4. QED
    BY <1>3, <2>1, <2>3
<1>13. AtInsert'
  BY <1>1, <1>2, <1>3, <1>8, <1>10, <1>11, <1>12 DEF AtInsert
<1>14. QED
  BY <1>1, <1>3, <1>13 DEF TreeInv, Ordered

\* The bridge insert_dev() ends at is where the device belongs.
LEMMA BelongsHere ==
  ASSUME TreeInv, InsertHere, WellFormed
  PROVE  Deepest(i, at)
<1> DEFINE M == Len(bridges)
           d == devs[i]
           u == FindBus(at, d.dom, d.bus)
<1>1. AtInsert /\ i <= Len(devs)
  BY DEF TreeInv, InsertHere, AtStart, AtBridges, AtChildren, AtBuses,
         AtInsert, AtEnd, Built
<1>2. /\ M \in Nat \ {0} /\ LinkedOK(M) /\ BusesOK(i - 1) /\ Searching
      /\ at \in 1..M
  BY <1>1 DEF AtInsert, ChainOK
<1>3. CASE at # 1
  BY <1>2, <1>3 DEF Searching
<1>4. CASE at = 1 /\ u # 0
  <2>1. Len(buses[1]) \in Nat
    BY <1>2 DEF BusesOK, BusesTyped
  <2>2. u \in 1..Len(buses[1]) /\ buses[1][u].dom = d.dom /\ buses[1][u].num = d.bus
    BY <1>4, <2>1, FindBusFinds
  <2> HIDE DEF u
  <2>3. \A c \in 2..M : ~InRange(d, c)
    BY <2>2, <1>2 DEF BusesOK, HostFree, InRange
  <2>4. QED
    BY <2>3, <1>4 DEF Deepest
<1>5. CASE at = 1 /\ Descend(d, at) = 0
  <2>1. Len(child[1]) = M - 1 /\ Len(child[1]) \in Nat
    BY <1>2 DEF LinkedOK
  <2>2. \A k \in 1..(M - 1) : ~InRange(d, child[1][k])
    BY <1>5, <2>1, DescendFinds
  <2>3. ASSUME NEW c \in 2..M PROVE ~InRange(d, c)
    <3>1. M + 1 - c \in 1..(M - 1) /\ child[1][M + 1 - c] = c
      BY <1>2 DEF LinkedOK
    <3>2. QED
      BY <3>1, <2>2
  <2>4. QED
    BY <2>3, <1>5 DEF Deepest
<1>6. QED
  BY <1>3, <1>4, <1>5 DEF InsertHere

\* One more bus in front of the others.
LEMMA BusAdded ==
  ASSUME NEW M \in Nat, NEW f \in [1..M -> Seq(BusRec)], NEW a \in 1..M,
         NEW r \in BusRec, NEW g, g = [f EXCEPT ![a] = <<r>> \o @]
  PROVE  /\ g \in [1..M -> Seq(BusRec)]
         /\ \A b \in 1..M : b # a => g[b] = f[b]
         /\ Len(g[a]) = Len(f[a]) + 1 /\ g[a][1] = r
         /\ \A v \in 1..Len(f[a]) : g[a][v + 1] = f[a][v]
         /\ \A v \in 2..(Len(f[a]) + 1) :
              v - 1 \in 1..Len(f[a]) /\ g[a][v] = f[a][v - 1]
<1>1. f[a] \in Seq(BusRec)
  OBVIOUS
<1>2. g[a] = <<r>> \o f[a] /\ \A b \in 1..M : b # a => g[b] = f[b]
  OBVIOUS
<1>3. <<r>> \o f[a] \in Seq(BusRec)
  BY <1>1, InFront
<1>4. g \in [1..M -> Seq(BusRec)]
  BY <1>1, <1>3
<1>5. QED
  BY <1>1, <1>2, <1>4, InFront

\* What an insertion does: every bus is an old one, or it is the one of the
\* device, with the device at its end; no old one is lost.
LEMMA InsertionEffect ==
  ASSUME TreeInv, InsertHere
  PROVE  LET M == Len(bridges)
             d == devs[i]
         IN /\ buses' \in [1..M -> Seq(BusRec)]
            /\ \A b \in 1..M : \A v \in 1..Len(buses'[b]) :
                 \/ \E w \in 1..Len(buses[b]) : buses'[b][v] = buses[b][w]
                 \/ /\ b = at
                    /\ buses'[b][v].dom = d.dom /\ buses'[b][v].num = d.bus
                    /\ \/ buses'[b][v].devs = <<i>>
                       \/ \E w \in 1..Len(buses[b]) :
                            /\ buses'[b][v].devs = Append(buses[b][w].devs, i)
                            /\ buses[b][w].dom = d.dom /\ buses[b][w].num = d.bus
            /\ \A b \in 1..M : \A w \in 1..Len(buses[b]) :
                 \E v \in 1..Len(buses'[b]) :
                   \/ buses'[b][v].devs = buses[b][w].devs
                   \/ buses'[b][v].devs = Append(buses[b][w].devs, i)
            /\ \E v \in 1..Len(buses'[at]) :
                 \/ buses'[at][v].devs = <<i>>
                 \/ \E w \in 1..Len(buses[at]) :
                      buses'[at][v].devs = Append(buses[at][w].devs, i)
<1> DEFINE n == i
           a == at
           M == Len(bridges)
           d == devs[n]
           u == FindBus(a, d.dom, d.bus)
           r == [dom |-> d.dom, num |-> d.bus, devs |-> <<n>>]
<1>1. AtInsert /\ Ordered /\ n <= Len(devs)
  BY DEF TreeInv, InsertHere, AtStart, AtBridges, AtChildren, AtBuses,
         AtInsert, AtEnd, Built
<1>2. /\ M \in Nat \ {0} /\ a \in 1..M /\ n \in Nat /\ d \in Devices
      /\ buses \in [1..M -> Seq(BusRec)] /\ buses[a] \in Seq(BusRec)
  BY <1>1 DEF AtInsert, ChainOK, BusesOK, BusesTyped, Ordered
<1>3. CASE u # 0
  <2>1. u \in 1..Len(buses[a]) /\ buses[a][u].dom = d.dom /\ buses[a][u].num = d.bus
    BY <1>2, <1>3, FindBusFinds
  <2>2. buses' = [buses EXCEPT ![a][u].devs = Append(@, n)]
    BY <1>3 DEF InsertHere
  <2> HIDE DEF u
  <2>3. /\ buses' \in [1..M -> Seq(BusRec)]
        /\ \A b \in 1..M : b # a => buses'[b] = buses[b]
        /\ Len(buses'[a]) = Len(buses[a])
        /\ \A v \in 1..Len(buses[a]) : v # u => buses'[a][v] = buses[a][v]
        /\ buses'[a][u].devs = Append(buses[a][u].devs, n)
        /\ buses'[a][u].dom = buses[a][u].dom /\ buses'[a][u].num = buses[a][u].num
    <3> DEFINE grown == [buses[a][u] EXCEPT !.devs = Append(buses[a][u].devs, n)]
               s == [buses[a] EXCEPT ![u] = grown]
    <3>1. buses[a][u] \in BusRec
      BY <1>2, <2>1
    <3>2. Append(buses[a][u].devs, n) \in Seq(Nat)
      BY <3>1, <1>2 DEF BusRec
    <3>3. grown \in BusRec
      BY <3>1, <3>2 DEF BusRec
    <3>4. /\ grown.devs = Append(buses[a][u].devs, n)
          /\ grown.dom = buses[a][u].dom /\ grown.num = buses[a][u].num
      BY <3>1 DEF BusRec
    <3>5. buses' = [buses EXCEPT ![a] = s]
      BY <2>2
    <3> HIDE DEF grown
    <3>6. /\ s \in Seq(BusRec) /\ Len(s) = Len(buses[a]) /\ s[u] = grown
          /\ \A v \in 1..Len(buses[a]) : v # u => s[v] = buses[a][v]
      BY <1>2, <2>1, <3>3
    <3> HIDE DEF s
    <3>7. /\ buses' \in [1..M -> Seq(BusRec)] /\ buses'[a] = s
          /\ \A b \in 1..M : b # a => buses'[b] = buses[b]
      BY <1>2, <3>5, <3>6
    <3>8. QED
      BY <2>1, <3>4, <3>6, <3>7
  <2>4. QED
    BY <2>1, <2>3
<1>4. CASE u = 0
  <2>1. d.dom \in Domains /\ d.bus \in Nat
    BY <1>2, DeviceNumbers
  <2>2. r \in BusRec
    BY <2>1, <1>2 DEF BusRec
  <2>3. buses' = [buses EXCEPT ![a] = <<r>> \o @]
    BY <1>4 DEF InsertHere, NewBus
  <2>4. r.dom = d.dom /\ r.num = d.bus /\ r.devs = <<n>>
    OBVIOUS
  <2> HIDE DEF r
  <2>5. /\ buses' \in [1..M -> Seq(BusRec)]
        /\ \A b \in 1..M : b # a => buses'[b] = buses[b]
        /\ Len(buses'[a]) = Len(buses[a]) + 1 /\ buses'[a][1] = r
        /\ \A v \in 1..Len(buses[a]) : buses'[a][v + 1] = buses[a][v]
        /\ \A v \in 2..(Len(buses[a]) + 1) :
             v - 1 \in 1..Len(buses[a]) /\ buses'[a][v] = buses[a][v - 1]
    <3> HIDE DEF M
    <3>1. M \in Nat
      BY <1>2
    <3>2. QED
      BY <3>1, <1>2, <2>2, <2>3, BusAdded
  <2>6. Len(buses[a]) \in Nat
    BY <1>2
  <2>7. ASSUME NEW b \in 1..M, NEW v \in 1..Len(buses'[b])
        PROVE  \/ \E w \in 1..Len(buses[b]) : buses'[b][v] = buses[b][w]
               \/ b = a /\ buses'[b][v] = r
    <3>1. CASE b # a
      BY <3>1, <2>5
    <3>2. CASE b = a /\ v = 1
      BY <3>2, <2>5
    <3>3. CASE b = a /\ v # 1
      <4>1. v \in 2..(Len(buses[a]) + 1)
        BY <3>3, <2>5, <2>6
      <4>2. QED
        BY <3>3, <4>1, <2>5
    <3>4. QED
      BY <3>1, <3>2, <3>3
  <2>8. ASSUME NEW b \in 1..M, NEW w \in 1..Len(buses[b])
        PROVE  \E v \in 1..Len(buses'[b]) : buses'[b][v] = buses[b][w]
    <3>1. CASE b # a
      BY <3>1, <2>5
    <3>2. CASE b = a
      <4>1. w + 1 \in 1..Len(buses'[a]) /\ buses'[a][w + 1] = buses[a][w]
        BY <3>2, <2>5, <2>6
      <4>2. QED
        BY <3>2, <4>1
    <3>3. QED
      BY <3>1, <3>2
  <2>9. 1 \in 1..Len(buses'[a]) /\ buses'[a][1].devs = <<n>>
    BY <2>4, <2>5, <2>6
  <2>10. QED
    BY <2>4, <2>5, <2>7, <2>8, <2>9
<1>5. QED
  BY <1>3, <1>4

LEMMA InsertHereKeeps == TreeInv /\ InsertHere => TreeInv'
<1> SUFFICES ASSUME TreeInv, InsertHere PROVE TreeInv'
  OBVIOUS
<1>0. PICK n, a : n = i /\ a = at
  OBVIOUS
<1> DEFINE M == Len(bridges)
           d == devs[n]
<1>1. AtInsert /\ Ordered /\ n <= Len(devs)
  BY <1>0 DEF TreeInv, InsertHere, AtStart, AtBridges, AtChildren, AtBuses,
              AtInsert, AtEnd, Built
<1>2. /\ M \in Nat \ {0} /\ a \in 1..M /\ Len(devs) \in Nat /\ n \in 1..Len(devs)
      /\ BusesOK(n - 1) /\ parent \in [1..Len(devs) -> 0..M]
      /\ buses \in [1..M -> Seq(BusRec)]
  BY <1>0, <1>1 DEF AtInsert, ChainOK, BusesOK, BusesTyped, Ordered
<1>3. /\ UNCHANGED <<devs, bridges, child, tpc>>
      /\ parent' = [parent EXCEPT ![n] = a] /\ i' = n + 1 /\ at' = 1
  BY <1>0 DEF InsertHere
<1>4. /\ parent' \in [1..Len(devs) -> 0..M] /\ parent'[n] = a
      /\ \A e \in 1..(n - 1) : parent'[e] = parent[e]
  BY <1>2, <1>3
<1>5. \A b \in 1..M : \A w \in 1..Len(buses[b]) :
        buses[b][w] \in BusRec /\ buses[b][w].devs \in Seq(Nat)
  <2>1. \A r \in BusRec : r.devs \in Seq(Nat)
    BY DEF BusRec
  <2>2. \A b \in 1..M : \A w \in 1..Len(buses[b]) : buses[b][w] \in BusRec
    BY <1>2
  <2>3. QED
    BY <2>1, <2>2
<1>6. /\ buses' \in [1..M -> Seq(BusRec)]
      /\ \A b \in 1..M : \A v \in 1..Len(buses'[b]) :
           \/ \E w \in 1..Len(buses[b]) : buses'[b][v] = buses[b][w]
           \/ /\ b = a
              /\ buses'[b][v].dom = d.dom /\ buses'[b][v].num = d.bus
              /\ \/ buses'[b][v].devs = <<n>>
                 \/ \E w \in 1..Len(buses[b]) :
                      /\ buses'[b][v].devs = Append(buses[b][w].devs, n)
                      /\ buses[b][w].dom = d.dom /\ buses[b][w].num = d.bus
  BY <1>0, InsertionEffect
<1>7. \A b \in 1..M : \A w \in 1..Len(buses[b]) :
        \E v \in 1..Len(buses'[b]) :
          \/ buses'[b][v].devs = buses[b][w].devs
          \/ buses'[b][v].devs = Append(buses[b][w].devs, n)
  BY <1>0, InsertionEffect
<1>7a. \E v \in 1..Len(buses'[a]) :
        \/ buses'[a][v].devs = <<n>>
        \/ \E w \in 1..Len(buses[a]) :
             buses'[a][v].devs = Append(buses[a][w].devs, n)
  BY <1>0, InsertionEffect
<1>8. \A s \in Seq(Nat) : /\ Len(Append(s, n)) = Len(s) + 1
                          /\ Append(s, n)[Len(s) + 1] = n
                          /\ \A j \in 1..Len(s) : Append(s, n)[j] = s[j]
  BY <1>2
<1>9. BusesTyped'
  BY <1>3, <1>4, <1>6 DEF BusesTyped
<1>10. ASSUME NEW b \in 1..M, NEW v \in 1..Len(buses'[b])
       PROVE  /\ \A j \in 1..Len(buses'[b][v].devs) :
                   /\ buses'[b][v].devs[j] \in 1..n
                   /\ parent'[buses'[b][v].devs[j]] = b
                   /\ buses'[b][v].dom = devs[buses'[b][v].devs[j]].dom
                   /\ buses'[b][v].num = devs[buses'[b][v].devs[j]].bus
              /\ \A j, k \in 1..Len(buses'[b][v].devs) :
                   j < k => buses'[b][v].devs[j] < buses'[b][v].devs[k]
  <2> DEFINE new == buses'[b][v]
  <2>1. Placed(n - 1)
    BY <1>2 DEF BusesOK
  <2>2. ASSUME NEW w \in 1..Len(buses[b])
        PROVE  /\ \A j \in 1..Len(buses[b][w].devs) :
                    /\ buses[b][w].devs[j] \in 1..(n - 1)
                    /\ parent'[buses[b][w].devs[j]] = b
                    /\ buses[b][w].dom = devs[buses[b][w].devs[j]].dom
                    /\ buses[b][w].num = devs[buses[b][w].devs[j]].bus
               /\ \A j, k \in 1..Len(buses[b][w].devs) :
                    j < k => buses[b][w].devs[j] < buses[b][w].devs[k]
    <3>1. \A j \in 1..Len(buses[b][w].devs) :
            /\ buses[b][w].devs[j] \in 1..(n - 1)
            /\ parent[buses[b][w].devs[j]] = b
            /\ buses[b][w].dom = devs[buses[b][w].devs[j]].dom
            /\ buses[b][w].num = devs[buses[b][w].devs[j]].bus
      <4>1. \A j \in 1..Len(buses[b][w].devs) :
              OnBus(n - 1, b, buses[b][w], buses[b][w].devs[j])
        BY <2>1, PlacedAt
      <4>2. QED
        BY <4>1 DEF OnBus
    <3>2. \A j, k \in 1..Len(buses[b][w].devs) :
            j < k => buses[b][w].devs[j] < buses[b][w].devs[k]
      BY <2>1 DEF Placed
    <3>3. QED
      BY <3>1, <3>2, <1>4
  <2>3. CASE \E w \in 1..Len(buses[b]) : new = buses[b][w]
    <3>1. PICK w \in 1..Len(buses[b]) : new = buses[b][w]
      BY <2>3
    <3>2. /\ new.devs = buses[b][w].devs
          /\ new.dom = buses[b][w].dom /\ new.num = buses[b][w].num
      BY <3>1
    <3> HIDE DEF new
    <3>3. \A e \in 1..(n - 1) : e \in 1..n
      BY <1>2
    <3>4. ASSUME NEW j \in 1..Len(new.devs)
          PROVE  /\ new.devs[j] \in 1..n /\ parent'[new.devs[j]] = b
                 /\ new.dom = devs[new.devs[j]].dom
                 /\ new.num = devs[new.devs[j]].bus
      BY <2>2, <3>2, <3>3
    <3>5. \A j, k \in 1..Len(new.devs) : j < k => new.devs[j] < new.devs[k]
      BY <2>2, <3>2
    <3>6. QED
      BY <3>4, <3>5 DEF new
  <2>4. CASE b = a /\ new.dom = d.dom /\ new.num = d.bus /\ new.devs = <<n>>
    <3>1. Len(new.devs) = 1 /\ new.devs[1] = n
      BY <2>4
    <3>2. QED
      BY <3>1, <2>4, <1>2, <1>4
  <2>5. CASE /\ b = a /\ new.dom = d.dom /\ new.num = d.bus
             /\ \E w \in 1..Len(buses[b]) :
                  /\ new.devs = Append(buses[b][w].devs, n)
                  /\ buses[b][w].dom = d.dom /\ buses[b][w].num = d.bus
    <3>1. PICK w \in 1..Len(buses[b]) :
            /\ new.devs = Append(buses[b][w].devs, n)
            /\ buses[b][w].dom = d.dom /\ buses[b][w].num = d.bus
      BY <2>5
    <3> DEFINE m == Len(buses[b][w].devs)
    <3>2. buses[b][w].devs \in Seq(Nat) /\ m \in Nat
      BY <1>5
    <3>3. /\ Len(new.devs) = m + 1 /\ new.devs[m + 1] = n
          /\ \A j \in 1..m : new.devs[j] = buses[b][w].devs[j]
      BY <3>1, <3>2, <1>8
    <3>4. /\ \A j \in 1..m : /\ new.devs[j] \in 1..(n - 1)
                            /\ parent'[new.devs[j]] = b
                            /\ d.dom = devs[new.devs[j]].dom
                            /\ d.bus = devs[new.devs[j]].bus
          /\ \A j, k \in 1..m : j < k => new.devs[j] < new.devs[k]
      BY <2>2, <3>1, <3>3
    <3> HIDE DEF m, new
    <3>4a. b = a /\ new.dom = d.dom /\ new.num = d.bus
      BY <2>5
    <3>5. ASSUME NEW j \in 1..Len(new.devs)
          PROVE  /\ new.devs[j] \in 1..n /\ parent'[new.devs[j]] = b
                 /\ new.dom = devs[new.devs[j]].dom
                 /\ new.num = devs[new.devs[j]].bus
      <4>1. CASE j = m + 1
        BY <4>1, <3>4a, <3>3, <1>2, <1>4
      <4>2. CASE j \in 1..m
        BY <4>2, <3>4a, <3>4, <1>2
      <4>3. j = m + 1 \/ j \in 1..m
        BY <3>2, <3>3
      <4>4. QED
        BY <4>1, <4>2, <4>3
    <3>6. ASSUME NEW j \in 1..Len(new.devs), NEW k \in 1..Len(new.devs), j < k
          PROVE  new.devs[j] < new.devs[k]
      <4>1. j \in 1..m /\ (k = m + 1 \/ k \in 1..m)
        BY <3>2, <3>3, <3>6
      <4>2. CASE k = m + 1
        BY <4>1, <4>2, <3>3, <3>4, <1>2
      <4>3. CASE k \in 1..m
        BY <4>1, <4>3, <3>4, <3>6
      <4>4. QED
        BY <4>1, <4>2, <4>3
    <3>7. QED
      BY <3>5, <3>6 DEF new
  <2>6. QED
    BY <1>6, <2>3, <2>4, <2>5
<1>10a. Placed(n)'
  <2>1. bridges' = bridges /\ devs' = devs
    BY <1>3
  <2>2. ASSUME NEW b \in 1..M, NEW v \in 1..Len(buses'[b]),
               NEW j \in 1..Len(buses'[b][v].devs)
        PROVE  OnBus(n, b, buses[b][v], buses[b][v].devs[j])'
    <3>1. /\ buses'[b][v].devs[j] \in 1..n
          /\ parent'[buses'[b][v].devs[j]] = b
          /\ buses'[b][v].dom = devs[buses'[b][v].devs[j]].dom
          /\ buses'[b][v].num = devs[buses'[b][v].devs[j]].bus
      BY <1>10
    <3>2. QED
      BY <3>1, <2>1 DEF OnBus
  <2>3. QED
    BY <2>1, <2>2, <1>10 DEF Placed
<1>11. Covered(n)'
  <2> SUFFICES ASSUME NEW e \in 1..n
               PROVE  /\ parent'[e] \in 1..M
                      /\ \E v \in 1..Len(buses'[parent'[e]]) :
                           \E j \in 1..Len(buses'[parent'[e]][v].devs) :
                             buses'[parent'[e]][v].devs[j] = e
    BY <1>3 DEF Covered
  <2>1. Covered(n - 1)
    BY <1>2 DEF BusesOK
  <2>2. CASE e = n
    <3>1. PICK v \in 1..Len(buses'[a]) :
            \/ buses'[a][v].devs = <<n>>
            \/ \E w \in 1..Len(buses[a]) :
                 buses'[a][v].devs = Append(buses[a][w].devs, n)
      BY <1>7a
    <3>2. \E j \in 1..Len(buses'[a][v].devs) : buses'[a][v].devs[j] = n
      <4>1. CASE buses'[a][v].devs = <<n>>
        BY <4>1
      <4>2. ASSUME NEW w \in 1..Len(buses[a]),
                   buses'[a][v].devs = Append(buses[a][w].devs, n)
            PROVE  \E j \in 1..Len(buses'[a][v].devs) : buses'[a][v].devs[j] = n
        <5>1. buses[a][w].devs \in Seq(Nat)
          BY <1>2, <1>5
        <5>2. Len(buses[a][w].devs) + 1 \in 1..Len(buses'[a][v].devs)
          BY <4>2, <5>1, <1>8
        <5>3. buses'[a][v].devs[Len(buses[a][w].devs) + 1] = n
          BY <4>2, <5>1, <1>8
        <5>4. QED
          BY <5>2, <5>3
      <4>3. QED
        BY <3>1, <4>1, <4>2
    <3>3. QED
      BY <2>2, <3>2, <1>2, <1>4
  <2>3. CASE e \in 1..(n - 1)
    <3> DEFINE p == parent[e]
    <3>1. p \in 1..M /\ parent'[e] = p
      BY <2>1, <2>3, <1>4 DEF Covered
    <3>2. PICK w \in 1..Len(buses[p]) :
            \E j \in 1..Len(buses[p][w].devs) : buses[p][w].devs[j] = e
      BY <2>1, <2>3 DEF Covered
    <3>3. PICK j \in 1..Len(buses[p][w].devs) : buses[p][w].devs[j] = e
      BY <3>2
    <3> HIDE DEF p
    <3>4. PICK v \in 1..Len(buses'[p]) :
            \/ buses'[p][v].devs = buses[p][w].devs
            \/ buses'[p][v].devs = Append(buses[p][w].devs, n)
      BY <3>1, <1>7
    <3>5. buses[p][w].devs \in Seq(Nat)
      BY <3>1, <1>5
    <3>6. j \in 1..Len(buses'[p][v].devs) /\ buses'[p][v].devs[j] = e
      <4>1. CASE buses'[p][v].devs = buses[p][w].devs
        BY <4>1, <3>3
      <4>2. CASE buses'[p][v].devs = Append(buses[p][w].devs, n)
        BY <4>2, <3>3, <3>5, <1>8
      <4>3. QED
        BY <3>4, <4>1, <4>2
    <3>7. QED
      BY <3>1, <3>6
  <2>4. QED
    BY <2>2, <2>3, <1>2
<1>12. WellFormed => Deepest(n, a)
  BY <1>0, BelongsHere
<1>13. HostFree'
  <2> SUFFICES ASSUME WellFormed, NEW v \in 1..Len(buses'[1]), NEW c \in 2..M,
                      bridges[c].dom = buses'[1][v].dom,
                      bridges[c].sec <= buses'[1][v].num,
                      buses'[1][v].num <= bridges[c].sub
               PROVE  FALSE
    BY <1>3 DEF HostFree, WellFormed
  <2>1. CASE \E w \in 1..Len(buses[1]) : buses'[1][v] = buses[1][w]
    BY <2>1, <1>2 DEF BusesOK, HostFree
  <2>2. CASE 1 = a /\ buses'[1][v].dom = d.dom /\ buses'[1][v].num = d.bus
    BY <2>2, <1>12 DEF Deepest, InRange
  <2>3. QED
    BY <2>1, <2>2, <1>2, <1>6
<1>14. ParentsRight(n)'
  <2>1. WellFormed' = WellFormed
    BY <1>3 DEF WellFormed
  <2>2. \A e, b : Deepest(e, b) => Deepest(e, b)'
    BY <1>3 DEF Deepest, InRange
  <2>3. ParentsRight(n - 1)
    BY <1>2 DEF BusesOK
  <2>4. ASSUME WellFormed, NEW e \in 1..n PROVE Deepest(e, parent'[e])
    <3>1. CASE e = n
      BY <2>4, <3>1, <1>4, <1>12
    <3>2. CASE e \in 1..(n - 1)
      BY <2>3, <2>4, <3>2, <1>4 DEF ParentsRight
    <3>3. QED
      BY <3>1, <3>2, <1>2
  <2>5. ASSUME WellFormed, NEW e \in 1..n PROVE Deepest(e, parent[e])'
    BY <2>4, <2>5, <1>3 DEF Deepest, InRange
  <2>6. QED
    BY <2>1, <2>5 DEF ParentsRight
<1>15. BusesOK(i - 1)'
  <2>1. BusesOK(n)'
    BY <1>9, <1>10a, <1>11, <1>13, <1>14 DEF BusesOK
  <2>2. i' - 1 = n
    BY <1>2, <1>3
  <2>3. QED
    BY <2>1, <2>2
<1>16. ChainOK(Len(devs))' /\ LinkedOK(Len(bridges))'
  BY <1>1, <1>3 DEF AtInsert, ChainOK, OfDevice, LinkedOK
<1>17. AtInsert'
  <2>1. i' \in 1..(Len(devs') + 1) /\ at' \in 1..Len(bridges') /\ tpc' = "insert"
    BY <1>1, <1>2, <1>3 DEF AtInsert
  <2>2. Searching'
    BY <1>3 DEF Searching
  <2>3. QED
    BY <2>1, <2>2, <1>15, <1>16 DEF AtInsert
<1>18. QED
  BY <1>1, <1>3, <1>17 DEF TreeInv, Ordered

LEMMA TreeBuiltKeeps == TreeInv /\ TreeBuilt => TreeInv'
<1> SUFFICES ASSUME TreeInv, TreeBuilt PROVE TreeInv'
  OBVIOUS
<1>1. AtInsert /\ Ordered /\ i > Len(devs)
  BY DEF TreeInv, TreeBuilt, AtStart, AtBridges, AtChildren, AtBuses,
         AtInsert, AtEnd, Built
<1>2. /\ Len(devs) \in Nat /\ i = Len(devs) + 1 /\ at \in 1..(Len(devs) + 1)
      /\ ChainOK(Len(devs))
  BY <1>1 DEF AtInsert, Ordered, ChainOK
<1>3. UNCHANGED <<devs, bridges, buses, parent, i, at>> /\ tpc' = "built"
  BY DEF TreeBuilt
<1>4. PICK n : n = Len(devs)
  OBVIOUS
<1>5. BusesOK(n)
  BY <1>1, <1>2, <1>4 DEF AtInsert
<1>6. BusesOK(n)' /\ n = Len(devs')
  BY <1>3, <1>4, <1>5, BusesUnchanged
<1>7. ChainOK(Len(devs))'
  BY <1>2, <1>3 DEF ChainOK, OfDevice
<1>8. BusesOK(Len(devs))'
  BY <1>6
<1>9. AtEnd'
  BY <1>2, <1>3, <1>7, <1>8 DEF AtEnd, Built
<1>10. QED
  BY <1>1, <1>3, <1>9 DEF TreeInv, Ordered

\* The tree stays as it is once it is built.
LEMMA EndKeeps ==
  ASSUME TreeInv, Built, Built', UNCHANGED <<devs, bridges, buses, parent, i>>,
         at' \in 1..(Len(devs) + 1),
         tpc' \in {"path", "slot"} => at' <= Len(devs)
  PROVE  TreeInv'
<1>1. AtEnd /\ Ordered
  BY DEF TreeInv, AtStart, AtBridges, AtChildren, AtBuses, AtInsert, Built
<1>2. ChainOK(Len(devs))'
  BY <1>1 DEF AtEnd, ChainOK, OfDevice
<1>3. PICK n : n = Len(devs)
  OBVIOUS
<1>4. BusesOK(n)' /\ n = Len(devs')
  BY <1>1, <1>3, BusesUnchanged DEF AtEnd
<1>5. BusesOK(Len(devs))'
  BY <1>4
<1>6. AtEnd'
  BY <1>1, <1>2, <1>5 DEF AtEnd
<1>7. QED
  BY <1>1, <1>6 DEF TreeInv, Ordered

LEMMA ClimbStepKeeps == TreeInv /\ ClimbStep => TreeInv'
<1> SUFFICES ASSUME TreeInv, ClimbStep PROVE TreeInv'
  OBVIOUS
<1>1. Built /\ Built' /\ UNCHANGED <<devs, bridges, buses, parent, i>>
  BY DEF ClimbStep, Built
<1>2. AtEnd /\ Ordered /\ tpc \in {"path", "slot"}
  BY <1>1 DEF ClimbStep, TreeInv, AtStart, AtBridges, AtChildren, AtBuses,
              AtInsert, Built
<1>3. /\ Len(devs) \in Nat /\ at \in 1..Len(devs) /\ Len(bridges) \in Nat
      /\ ChainOK(Len(devs)) /\ BusesOK(Len(devs))
  BY <1>2 DEF AtEnd, Ordered, ChainOK
<1>4. parent[at] \in 1..Len(bridges)
  BY <1>3 DEF BusesOK, Covered
<1>5. Above(at) \in 0..Len(devs)
  <2>1. CASE parent[at] = 1
    BY <2>1, <1>3 DEF Above, ChainOK
  <2>2. CASE parent[at] \in 2..Len(bridges)
    BY <2>2, <1>3 DEF Above, ChainOK, OfDevice
  <2>3. QED
    BY <2>1, <2>2, <1>3, <1>4
<1>6. at' \in 1..Len(devs)
  BY <1>3, <1>5 DEF ClimbStep, NoDevice
<1>7. at' \in 1..(Len(devs) + 1) /\ at' <= Len(devs)
  BY <1>3, <1>6
<1>8. QED
  BY <1>1, <1>7, EndKeeps

LEMMA UserKeeps == TreeInv /\ User => TreeInv'
<1> SUFFICES ASSUME TreeInv, User PROVE TreeInv'
  OBVIOUS
<1>1. Built /\ Built' /\ UNCHANGED <<devs, bridges, buses, parent, i>>
  BY DEF User, Climb, ShowForest, Built
<1>2. AtEnd /\ Ordered
  BY <1>1 DEF TreeInv, AtStart, AtBridges, AtChildren, AtBuses, AtInsert, Built
<1>3. CASE ShowForest
  BY <1>1, <1>2, <1>3, EndKeeps DEF ShowForest, AtEnd
<1>4. ASSUME NEW d \in DOMAIN devs, NEW kind \in {"path", "slot"}, Climb(kind, d)
      PROVE  TreeInv'
  <2>1. Len(devs) \in Nat /\ at' \in 1..Len(devs)
    BY <1>2, <1>4 DEF Climb, Ordered
  <2>2. at' \in 1..(Len(devs) + 1) /\ at' <= Len(devs)
    BY <2>1
  <2>3. QED
    BY <1>1, <2>2, EndKeeps
<1>5. QED
  BY <1>3, <1>4 DEF User

LEMMA LspcieKeeps == TreeInv /\ Lspcie => TreeInv'
<1> SUFFICES ASSUME TreeInv, Lspcie PROVE TreeInv'
  OBVIOUS
<1>1. CASE ShowDev \/ ForestShown
  <2>1. /\ Built /\ Built' /\ UNCHANGED <<devs, bridges, buses, parent, i, at>>
        /\ tpc' \notin {"path", "slot"}
    BY <1>1 DEF ShowDev, ForestShown, Built
  <2>2. AtEnd
    BY <2>1 DEF TreeInv, AtStart, AtBridges, AtChildren, AtBuses, AtInsert, Built
  <2>3. QED
    BY <2>1, <2>2, EndKeeps DEF AtEnd
<1>2. QED
  BY <1>1, CollectBridgeKeeps, BridgesBuiltKeeps, LinkBridgeKeeps,
     BridgesLinkedKeeps, SecondaryBusKeeps, BusesInsertedKeeps, InsertBelowKeeps,
     InsertHereKeeps, TreeBuiltKeeps, ClimbStepKeeps DEF Lspcie

----------------------------------------------------------------------------
\* A device number and a function number are found again in their one number.
LEMMA SlotNumber ==
  ASSUME NEW K \in Nat, NEW a \in Nat, NEW b \in Nat, NEW x \in 0..K, NEW y \in 0..K,
         a * (K + 1) + x = b * (K + 1) + y
  PROVE  a = b /\ x = y
<1>1. ASSUME NEW p \in Nat, NEW q \in Nat, NEW v \in 0..K, NEW w \in 0..K, p < q
      PROVE  p * (K + 1) + v < q * (K + 1) + w
  <2>1. PICK c \in Nat : q = p + 1 + c
    <3>1. q - p - 1 \in Nat /\ q = p + 1 + (q - p - 1)
      BY <1>1
    <3>2. QED
      BY <3>1
  <2>2. c * (K + 1) \in Nat /\ p * (K + 1) \in Nat
    OBVIOUS
  <2>3. q * (K + 1) = p * (K + 1) + (K + 1) + c * (K + 1)
    BY <2>1
  <2>4. QED
    BY <2>2, <2>3
<1>2. ~(a < b)
  BY <1>1
<1>3. ~(b < a)
  BY <1>1
<1>4. a = b
  BY <1>2, <1>3
<1>5. QED
  BY <1>4

\* The scan lists devices of different addresses.
LEMMA ScannedDevices ==
  ASSUME Inv
  PROVE  LET l == [n \in DOMAIN list |-> Device(list[n])]
         IN /\ l \in Seq(Devices)
            /\ \A j, k \in DOMAIN l : Address(l[j]) = Address(l[k]) => j = k
<1> DEFINE l == [n \in DOMAIN list |-> Device(list[n])]
<1>1. list \in Seq(Addresses) /\ hw \in [Addresses -> Functions] /\ ListedOnce
  BY DEF Inv, ScanTypeOK
<1>2. \A a \in Addresses : Device(a) \in Devices
  <2> SUFFICES ASSUME NEW a \in Addresses PROVE Device(a) \in Devices
    OBVIOUS
  <2>1. hw[a] \in Functions
    BY <1>1
  <2>2. /\ hw[a].prim \in Buses /\ hw[a].sec \in Buses /\ hw[a].sub \in Buses
        /\ a[1] \in Buses
    BY <2>1, OneNumbering DEF Functions, Addresses
  <2>3. a[2] * (MaxFunc + 1) + a[3] \in Slots /\ 0 \in Domains
    BY OneNumbering
  <2>4. QED
    BY <2>2, <2>3 DEF Device, Devices
<1>3. \A a, b \in Addresses : Address(Device(a)) = Address(Device(b)) => a = b
  <2> SUFFICES ASSUME NEW a \in Addresses, NEW b \in Addresses,
                      Address(Device(a)) = Address(Device(b))
               PROVE  a = b
    OBVIOUS
  <2>1. /\ a[1] = b[1]
        /\ a[2] * (MaxFunc + 1) + a[3] = b[2] * (MaxFunc + 1) + b[3]
    BY DEF Address, Device
  <2>2. /\ a[2] \in Nat /\ b[2] \in Nat /\ a[3] \in 0..MaxFunc /\ b[3] \in 0..MaxFunc
        /\ MaxFunc \in Nat
    BY SizeAssumption DEF Addresses
  <2>3. a[2] = b[2] /\ a[3] = b[3]
    BY <2>1, <2>2, SlotNumber
  <2>4. QED
    BY <2>1, <2>3 DEF Addresses
<1>4. DOMAIN list = 1..Len(list) /\ \A n \in 1..Len(list) : list[n] \in Addresses
  BY <1>1
<1>5. l \in Seq(Devices) /\ DOMAIN l = 1..Len(list)
  BY <1>1, <1>2, <1>4
<1>6. ASSUME NEW j \in DOMAIN l, NEW k \in DOMAIN l, Address(l[j]) = Address(l[k])
      PROVE  j = k
  <2>1. list[j] = list[k]
    BY <1>3, <1>4, <1>5, <1>6
  <2>2. QED
    BY <2>1, <1>1, <1>5 DEF ListedOnce
<1>7. QED
  BY <1>5, <1>6

\* To turn a list around keeps its addresses different.
LEMMA ReverseDiffers ==
  ASSUME NEW l \in Seq(Devices),
         \A j, k \in DOMAIN l : Address(l[j]) = Address(l[k]) => j = k
  PROVE  /\ Reverse(l) \in Seq(Devices)
         /\ \A j, k \in DOMAIN Reverse(l) :
              Address(Reverse(l)[j]) = Address(Reverse(l)[k]) => j = k
<1>1. Len(l) \in Nat /\ DOMAIN l = 1..Len(l)
  OBVIOUS
<1>2. Reverse(l) = [n \in 1..Len(l) |-> l[(Len(l) - n) + 1]]
  BY DEF Reverse
<1>3. \A n \in 1..Len(l) : (Len(l) - n) + 1 \in 1..Len(l)
  BY <1>1
<1>4. Reverse(l) \in Seq(Devices)
  BY <1>1, <1>2, <1>3
<1>5. ASSUME NEW j \in 1..Len(l), NEW k \in 1..Len(l),
             Address(Reverse(l)[j]) = Address(Reverse(l)[k])
      PROVE  j = k
  <2>1. (Len(l) - j) + 1 = (Len(l) - k) + 1
    BY <1>1, <1>2, <1>3, <1>5
  <2>2. QED
    BY <2>1, <1>1
<1>6. QED
  BY <1>2, <1>4, <1>5

LEMMA TopologyInit == Init => Inv /\ TreeInv
<1> SUFFICES ASSUME Init PROVE Inv /\ TreeInv
  OBVIOUS
<1>1. Inv
  BY InitKeeps DEF Init
<1>2. TreeInv
  BY DEF Init, TreeInit, TreeInv, Ordered, AtStart
<1>3. QED
  BY <1>1, <1>2

LEMMA TopologyStep == Inv /\ TreeInv /\ [Next]_vars => Inv' /\ TreeInv'
<1> SUFFICES ASSUME Inv, TreeInv, [Next]_vars PROVE Inv' /\ TreeInv'
  OBVIOUS
<1>1. ASSUME UNCHANGED tvars PROVE TreeInv'
  <2>1. UNCHANGED <<devs, bridges, child, buses, parent, tpc, i, at>>
    BY <1>1 DEF tvars
  <2>2. Ordered'
    BY <2>1 DEF TreeInv, Ordered
  <2>3. \A n : ChainOK(n) => ChainOK(n)'
    BY <2>1 DEF ChainOK, OfDevice
  <2>4. \A n : LinkedOK(n) => LinkedOK(n)'
    BY <2>1 DEF LinkedOK
  <2>5. \A n : BusesOK(n) => BusesOK(n)'
    BY <2>1, BusesUnchanged
  <2>6. PICK n, m, k, e : n = i - 1 /\ m = Len(devs) /\ k = Len(bridges)
                          /\ e = IF i = 1 THEN 1 ELSE i - 1
    OBVIOUS
  <2>7. CASE AtStart
    BY <2>1, <2>2, <2>7 DEF TreeInv, AtStart
  <2>8. CASE AtBridges
    BY <2>1, <2>2, <2>3, <2>6, <2>8 DEF TreeInv, AtBridges
  <2>9. CASE AtChildren
    BY <2>1, <2>2, <2>3, <2>4, <2>6, <2>9 DEF TreeInv, AtChildren
  <2>10. CASE AtBuses
    BY <2>1, <2>2, <2>3, <2>4, <2>5, <2>6, <2>10 DEF TreeInv, AtBuses
  <2>11. CASE AtInsert
    <3>1. Searching => Searching'
      BY <2>1 DEF Searching, Deepest, InRange
    <3>2. QED
      BY <2>1, <2>2, <2>3, <2>4, <2>5, <2>6, <2>11, <3>1 DEF TreeInv, AtInsert
  <2>12. CASE AtEnd
    BY <2>1, <2>2, <2>3, <2>5, <2>6, <2>12 DEF TreeInv, AtEnd, Built
  <2>13. QED
    BY <2>7, <2>8, <2>9, <2>10, <2>11, <2>12 DEF TreeInv
<1>2. ASSUME UNCHANGED svars PROVE Inv'
  BY <1>2, StepKeeps
<1>3. CASE Scan
  BY <1>1, <1>3, StepKeeps DEF Scan, ScanNext
<1>4. CASE Replug
  BY <1>1, <1>4, StepKeeps DEF Replug, ScanNext
<1>5. CASE ScannedTree
  <2> DEFINE l == [n \in DOMAIN list |-> Device(list[n])]
  <2>1. /\ l \in Seq(Devices)
        /\ \A j, k \in DOMAIN l : Address(l[j]) = Address(l[k]) => j = k
    BY ScannedDevices
  <2>2. GrowTree(Reverse(l)) /\ UNCHANGED svars
    BY <1>5 DEF ScannedTree, ScanDevices
  <2> HIDE DEF l
  <2>3. QED
    BY <2>1, <2>2, <1>2, ReverseDiffers, GrowTreeKeeps
<1>6. CASE ListedTree
  <2>1. PICK l \in Listings : GrowTree(Reverse(l))
    BY <1>6 DEF ListedTree, ScanDevices
  <2>2. /\ l \in Seq(Devices)
        /\ \A j, k \in DOMAIN l : Address(l[j]) = Address(l[k]) => j = k
    BY ListingAssumption
  <2>3. UNCHANGED svars
    BY <1>6 DEF ListedTree
  <2>4. QED
    BY <2>1, <2>2, <2>3, <1>2, ReverseDiffers, GrowTreeKeeps
<1>7. CASE Tree
  BY <1>2, <1>7, LspcieKeeps DEF Tree
<1>8. CASE Show
  BY <1>2, <1>8, UserKeeps DEF Show
<1>9. CASE UNCHANGED vars
  BY <1>1, <1>2, <1>9 DEF vars
<1>10. QED
  BY <1>3, <1>4, <1>5, <1>6, <1>7, <1>8, <1>9 DEF Next

----------------------------------------------------------------------------
LEMMA InvTypes == TreeInv => TreeTypeOK
<1> SUFFICES ASSUME TreeInv PROVE TreeTypeOK
  OBVIOUS
<1>1. /\ devs \in Seq(Devices) /\ DOMAIN devs = 1..Len(devs) /\ Len(devs) \in Nat
      /\ \A d \in DOMAIN devs : devs[d] \in Devices
  BY DEF TreeInv, Ordered
<1>2. CASE AtStart
  BY <1>1, <1>2 DEF AtStart, TreeTypeOK
<1>3. CASE ~AtStart
  <2>1. PICK n : /\ n \in Nat /\ n <= Len(devs) /\ ChainOK(n)
                 /\ (n = Len(devs) \/ AtBridges)
    <3>1. CASE AtBridges
      <4>1. i - 1 \in Nat /\ i - 1 <= Len(devs) /\ ChainOK(i - 1)
        BY <1>1, <3>1 DEF AtBridges
      <4>2. QED
        BY <3>1, <4>1
    <3>2. CASE ~AtBridges
      <4>1. ChainOK(Len(devs))
        BY <1>3, <3>2 DEF TreeInv, AtChildren, AtBuses, AtInsert, AtEnd
      <4>2. QED
        BY <1>1, <4>1
    <3>3. QED
      BY <3>1, <3>2
  <2>2. DOMAIN bridges = 1..Len(bridges) /\ Len(bridges) \in 1..(Len(devs) + 1)
    <3>1. bridges \in Seq(Chain) /\ Len(bridges) \in 1..(n + 1)
      BY <2>1 DEF ChainOK
    <3>2. DOMAIN bridges = 1..Len(bridges)
      BY <3>1
    <3>3. Len(bridges) \in 1..(Len(devs) + 1)
      <4>1. n \in Nat /\ n <= Len(devs) /\ Len(devs) \in Nat
        BY <2>1, <1>1
      <4>2. QED
        BY <4>1, <3>1
    <3>4. QED
      BY <3>2, <3>3
  <2>3. \A c \in DOMAIN bridges : bridges[c].dev \in 0..Len(devs)
    <3> SUFFICES ASSUME NEW c \in 1..Len(bridges) PROVE bridges[c].dev \in 0..Len(devs)
      BY <2>2
    <3>1. CASE c = 1
      BY <2>1, <3>1 DEF ChainOK
    <3>2. CASE c \in 2..Len(bridges)
      <4>1. OfDevice(c)
        BY <2>1, <3>2 DEF ChainOK
      <4>2. QED
        BY <4>1, <1>1 DEF OfDevice
    <3>3. QED
      BY <3>1, <3>2, <2>2
  <2>4. parent \in [DOMAIN parent -> 0..Len(bridges)]
    <3>1. CASE AtBridges
      BY <3>1 DEF AtBridges
    <3>2. CASE AtChildren
      BY <3>2, <2>2, <1>1 DEF AtChildren
    <3>3. CASE AtBuses \/ AtInsert \/ AtEnd
      BY <3>3 DEF AtBuses, AtInsert, AtEnd, BusesOK, BusesTyped
    <3>4. QED
      BY <1>3, <3>1, <3>2, <3>3 DEF TreeInv
  <2>5. i \in 1..(Len(devs) + 2) /\ at \in 1..(Len(devs) + 1)
    <3>1. CASE AtBridges \/ AtChildren \/ AtBuses
      BY <3>1, <2>2, <1>1 DEF AtBridges, AtChildren, AtBuses
    <3>2. CASE AtInsert \/ AtEnd
      BY <3>2, <2>2, <1>1 DEF AtInsert, AtEnd
    <3>3. QED
      BY <1>3, <3>1, <3>2 DEF TreeInv
  <2>6. tpc \in {"bridges", "children", "buses", "insert", "built", "path", "slot",
                 "show", "shown"}
    BY <1>3 DEF TreeInv, AtBridges, AtChildren, AtBuses, AtInsert, AtEnd, Built
  <2>7. QED
    BY <1>1, <2>3, <2>4, <2>5, <2>6 DEF TreeTypeOK
<1>4. QED
  BY <1>2, <1>3

LEMMA SequencesOfBuses ==
  ASSUME BusesTyped, NEW b \in 1..Len(bridges), NEW u \in 1..Len(buses[b])
  PROVE  /\ DOMAIN buses[b] = 1..Len(buses[b])
         /\ DOMAIN buses[b][u].devs = 1..Len(buses[b][u].devs)
<1>1. buses[b] \in Seq(BusRec)
  BY DEF BusesTyped
<1>2. buses[b][u] \in BusRec
  BY <1>1
<1>3. buses[b][u].devs \in Seq(Nat)
  BY <1>2 DEF BusRec
<1>4. QED
  BY <1>1, <1>3

LEMMA OnItsBus ==
  ASSUME BusesTyped, NEW n, Placed(n),
         NEW b \in 1..Len(bridges), NEW u \in 1..Len(buses[b]),
         NEW e \in ToSet(buses[b][u].devs)
  PROVE  /\ parent[e] = b
         /\ buses[b][u].dom = devs[e].dom /\ buses[b][u].num = devs[e].bus
<1>1. PICK j \in 1..Len(buses[b][u].devs) : buses[b][u].devs[j] = e
  BY SequencesOfBuses DEF ToSet
<1>2. OnBus(n, b, buses[b][u], buses[b][u].devs[j])
  BY <1>1, PlacedAt
<1>3. QED
  BY <1>1, <1>2 DEF OnBus

LEMMA InvOneBus == TreeInv => OnOneBus
<1> SUFFICES ASSUME TreeInv, Built, NEW e \in DOMAIN devs
             PROVE  /\ \E u \in DOMAIN buses[parent[e]] :
                         /\ e \in ToSet(buses[parent[e]][u].devs)
                         /\ buses[parent[e]][u].dom = devs[e].dom
                         /\ buses[parent[e]][u].num = devs[e].bus
                    /\ \A b \in DOMAIN buses : \A u \in DOMAIN buses[b] :
                         e \in ToSet(buses[b][u].devs) =>
                           b = parent[e] /\ buses[b][u].num = devs[e].bus
  BY DEF OnOneBus
<1> DEFINE M == Len(bridges)
           N == Len(devs)
<1>1. AtEnd /\ Ordered
  BY DEF TreeInv, AtStart, AtBridges, AtChildren, AtBuses, AtInsert, Built
<1>2. /\ e \in 1..N /\ Placed(N) /\ Covered(N)
      /\ buses \in [1..M -> Seq(BusRec)] /\ BusesTyped
  BY <1>1 DEF AtEnd, Ordered, BusesOK, BusesTyped
<1>3. ASSUME NEW b \in 1..M, NEW u \in 1..Len(buses[b])
      PROVE  /\ DOMAIN buses[b] = 1..Len(buses[b])
             /\ DOMAIN buses[b][u].devs = 1..Len(buses[b][u].devs)
  BY <1>2, SequencesOfBuses DEF BusesTyped
<1>4. ASSUME NEW b \in 1..M, NEW u \in 1..Len(buses[b]),
             e \in ToSet(buses[b][u].devs)
      PROVE  b = parent[e] /\ buses[b][u].dom = devs[e].dom
             /\ buses[b][u].num = devs[e].bus
  BY <1>2, <1>4, OnItsBus
<1> DEFINE p == parent[e]
<1>5. p \in 1..M
  BY <1>2 DEF Covered
<1>6. PICK u \in 1..Len(buses[p]) :
        \E j \in 1..Len(buses[p][u].devs) : buses[p][u].devs[j] = e
  BY <1>2 DEF Covered
<1> HIDE DEF p
<1>7. e \in ToSet(buses[p][u].devs)
  BY <1>3, <1>5, <1>6 DEF ToSet
<1>8. u \in DOMAIN buses[p] /\ buses[p][u].dom = devs[e].dom
      /\ buses[p][u].num = devs[e].bus
  BY <1>3, <1>4, <1>5, <1>7
<1>9. \A b \in DOMAIN buses : b \in 1..M /\ \A v \in DOMAIN buses[b] : v \in 1..Len(buses[b])
  <2>1. \A b \in 1..M : buses[b] \in Seq(BusRec)
    BY <1>2
  <2>2. QED
    BY <2>1, <1>2
<1>10. QED
  BY <1>4, <1>7, <1>8, <1>9 DEF p

LEMMA InvSorted == TreeInv => BusesSorted
<1> SUFFICES ASSUME TreeInv, NEW b \in DOMAIN buses, NEW u \in DOMAIN buses[b],
                    NEW j \in DOMAIN buses[b][u].devs,
                    NEW k \in DOMAIN buses[b][u].devs, j < k
             PROVE  Before(devs[buses[b][u].devs[j]], devs[buses[b][u].devs[k]])
  BY DEF BusesSorted
<1> DEFINE M == Len(bridges)
<1>1. Ordered /\ ~AtStart /\ ~AtBridges
  BY DEF TreeInv, AtStart, AtBridges
<1>2. ~AtChildren
  BY DEF AtChildren
<1>3. PICK n \in Nat : n <= Len(devs) /\ Placed(n) /\ buses \in [1..M -> Seq(BusRec)]
  <2>0. Len(devs) \in Nat
    BY <1>1 DEF Ordered
  <2>1. CASE AtBuses
    BY <2>0, <2>1 DEF AtBuses, BusesOK, BusesTyped
  <2>2. CASE AtInsert
    <3>1. i - 1 \in Nat /\ i - 1 <= Len(devs)
      BY <2>0, <2>2 DEF AtInsert
    <3>2. QED
      BY <2>2, <3>1 DEF AtInsert, BusesOK, BusesTyped
  <2>3. CASE AtEnd
    BY <2>0, <2>3 DEF AtEnd, BusesOK, BusesTyped
  <2>4. QED
    BY <1>1, <1>2, <2>1, <2>2, <2>3 DEF TreeInv
<1>4. b \in 1..M /\ u \in 1..Len(buses[b]) /\ buses[b] \in Seq(BusRec)
  BY <1>3
<1>5. buses[b][u] \in BusRec
  BY <1>4
<1>6. buses[b][u].devs \in Seq(Nat)
  BY <1>5 DEF BusRec
<1>7. j \in 1..Len(buses[b][u].devs) /\ k \in 1..Len(buses[b][u].devs)
  BY <1>6
<1>8. /\ buses[b][u].devs[j] \in 1..n /\ buses[b][u].devs[k] \in 1..n
      /\ buses[b][u].devs[j] < buses[b][u].devs[k]
  <2>1. /\ OnBus(n, b, buses[b][u], buses[b][u].devs[j])
        /\ OnBus(n, b, buses[b][u], buses[b][u].devs[k])
    BY <1>3, <1>4, <1>7, PlacedAt
  <2>2. buses[b][u].devs[j] < buses[b][u].devs[k]
    BY <1>3, <1>4, <1>7 DEF Placed
  <2>3. QED
    BY <2>1, <2>2 DEF OnBus
<1>9. /\ buses[b][u].devs[j] \in 1..Len(devs)
      /\ buses[b][u].devs[k] \in 1..Len(devs)
  <2>1. Len(devs) \in Nat
    BY <1>1 DEF Ordered
  <2>2. QED
    BY <2>1, <1>3, <1>8
<1>10. QED
  BY <1>1, <1>8, <1>9 DEF Ordered

\* Of two bridges that a device is behind the later one of the chain has the
\* smaller range.
LEMMA LaterIsCloser ==
  ASSUME Ordered, ChainOK(Len(devs)), WellFormed, NEW d \in Devices,
         NEW b \in 2..Len(bridges), NEW c \in 2..Len(bridges), b < c,
         InRange(d, b), InRange(d, c)
  PROVE  bridges[b].sec < bridges[c].sec /\ bridges[c].sub <= bridges[b].sub
<1> DEFINE e == devs[bridges[b].dev]
           f == devs[bridges[c].dev]
<1>1. OfDevice(b) /\ OfDevice(c) /\ bridges[b].dev < bridges[c].dev
  BY DEF ChainOK
<1>2. /\ e \in Devices /\ f \in Devices /\ e \in ToSet(devs) /\ f \in ToSet(devs)
      /\ e.bridge /\ f.bridge
  BY <1>1 DEF OfDevice, Ordered, ToSet
<1>3. Before(e, f)
  BY <1>1 DEF OfDevice, Ordered
<1>4. /\ bridges[b].dom = e.dom /\ bridges[b].sec = e.sec /\ bridges[b].sub = e.sub
      /\ bridges[c].dom = f.dom /\ bridges[c].sec = f.sec /\ bridges[c].sub = f.sub
  BY <1>1 DEF OfDevice
<1> HIDE DEF e, f
<1>5. /\ e.bus \in Nat /\ e.sec \in Nat /\ e.sub \in Nat /\ e.dom \in Nat
      /\ f.bus \in Nat /\ f.sec \in Nat /\ f.sub \in Nat /\ f.dom \in Nat
      /\ e.slot \in Nat /\ f.slot \in Nat /\ d.bus \in Nat
  BY <1>2, DeviceNumbers
<1>6. e.dom = f.dom /\ e # f /\ e.bus <= f.bus
  <2>1. e.dom = f.dom
    BY <1>4 DEF InRange
  <2>2. e # f
    BY <1>3, <1>5 DEF Before
  <2>3. e.bus <= f.bus
    BY <1>3, <1>5, <2>1 DEF Before
  <2>4. QED
    BY <2>1, <2>2, <2>3
<1>7. d.bus \in BusRange(e) /\ d.bus \in BusRange(f)
  BY <1>4, <1>5 DEF InRange, BusRange
<1>8. BusRange(e) \cap BusRange(f) # {}
  BY <1>7
<1>9. f.bus < f.sec
  BY <1>2 DEF WellFormed
<1>10. \/ e.bus \in BusRange(f) /\ e.sub <= f.sub
       \/ f.bus \in BusRange(e) /\ f.sub <= e.sub
  BY <1>2, <1>6, <1>8 DEF WellFormed
<1>11. ~(e.bus \in BusRange(f))
  BY <1>5, <1>6, <1>9 DEF BusRange
<1>12. e.sec <= f.bus /\ f.sub <= e.sub
  BY <1>5, <1>10, <1>11 DEF BusRange
<1>13. QED
  BY <1>4, <1>5, <1>9, <1>12

\* The last bridge of the chain that has a device in its range is the closest one.
LEMMA DeepestIsClosest ==
  ASSUME Ordered, ChainOK(Len(devs)), WellFormed, NEW d \in 1..Len(devs),
         NEW p, Deepest(d, p)
  PROVE  p = Closest(d)
<1> DEFINE M == Len(bridges)
           R(b) == BusRange(bridges[b])
<1>1. devs[d] \in Devices /\ M \in Nat /\ Len(devs) \in Nat
  BY DEF Ordered, ChainOK
<1>2. devs[d].bus \in Nat
  BY <1>1, DeviceNumbers
<1>3. \A b \in 2..M : bridges[b].sec \in Nat /\ bridges[b].sub \in Nat
  BY <1>1, ChainNumbers, TopologyAssumption
<1>4. \A b \in 2..M : b \in Behind(d) <=> InRange(devs[d], b)
  BY <1>2, <1>3 DEF Behind, InRange, BusRange
<1>5. \A b : b \in Behind(d) => b \in 2..M
  BY DEF Behind
<1>6. CASE Behind(d) = {}
  <2>1. p = 1
    BY <1>4, <1>6 DEF Deepest
  <2>2. QED
    BY <2>1, <1>6 DEF Closest
<1>7. CASE Behind(d) # {}
  <2>1. /\ p \in 2..M /\ InRange(devs[d], p)
        /\ \A c \in 2..M : InRange(devs[d], c) => c <= p
    BY <1>4, <1>5, <1>7 DEF Deepest
  <2>2. p \in Behind(d)
    BY <2>1, <1>4
  <2>3. ASSUME NEW c \in Behind(d), c # p
        PROVE  bridges[c].sec < bridges[p].sec /\ bridges[p].sub <= bridges[c].sub
    <3>1. c \in 2..M /\ InRange(devs[d], c) /\ c < p
      BY <2>1, <2>3, <1>4, <1>5
    <3>2. QED
      BY <3>1, <2>1, <1>1, LaterIsCloser
  <2>4. \A c \in Behind(d) : R(p) \subseteq R(c)
    <3> SUFFICES ASSUME NEW c \in Behind(d), c # p PROVE R(p) \subseteq R(c)
      OBVIOUS
    <3>1. c \in 2..M
      BY <1>5
    <3>2. bridges[c].sec < bridges[p].sec /\ bridges[p].sub <= bridges[c].sub
      BY <2>3
    <3>3. /\ bridges[c].sec \in Nat /\ bridges[c].sub \in Nat
          /\ bridges[p].sec \in Nat /\ bridges[p].sub \in Nat
      BY <3>1, <2>1, <1>3
    <3>4. QED
      BY <3>2, <3>3 DEF BusRange
  <2>5. ASSUME NEW b \in Behind(d), b # p, \A c \in Behind(d) : R(b) \subseteq R(c)
        PROVE  FALSE
    <3>1. b \in 2..M /\ InRange(devs[d], b)
      BY <1>4, <1>5
    <3>2. /\ bridges[b].sec \in Nat /\ bridges[b].sub \in Nat
          /\ bridges[p].sec \in Nat /\ bridges[p].sub \in Nat
      BY <3>1, <2>1, <1>3
    <3>3. bridges[b].sec < bridges[p].sec
      BY <2>3, <2>5
    <3>4. bridges[b].sec \in R(b)
      BY <3>1, <3>2, <1>2 DEF InRange, BusRange
    <3>5. bridges[b].sec \in R(p)
      BY <3>4, <2>2, <2>5
    <3>6. QED
      BY <3>2, <3>3, <3>5 DEF BusRange
  <2>6. QED
    BY <2>2, <2>4, <2>5, <1>7 DEF Closest
<1>8. QED
  BY <1>6, <1>7

LEMMA InvRightParent == TreeInv => RightParent
<1> SUFFICES ASSUME TreeInv, Built, WellFormed, NEW d \in DOMAIN devs
             PROVE  parent[d] = Closest(d)
  BY DEF RightParent
<1>1. AtEnd /\ Ordered
  BY DEF TreeInv, AtStart, AtBridges, AtChildren, AtBuses, AtInsert, Built
<1>2. d \in 1..Len(devs) /\ ChainOK(Len(devs)) /\ ParentsRight(Len(devs))
  BY <1>1 DEF AtEnd, Ordered, BusesOK
<1>3. Deepest(d, parent[d])
  BY <1>2 DEF ParentsRight
<1>4. QED
  BY <1>1, <1>2, <1>3, DeepestIsClosest

----------------------------------------------------------------------------
\* Whatever the hardware claims while it is scanned, and in whatever order the
\* kernel lists the devices, each device is on one bus, which has its number, in
\* the order of the list; in a well-formed topology it is below the closest
\* bridge, although host_bridge takes all bridges as its children.
THEOREM TreeIsRight == Spec => []TreeRight
<1>1. Inv /\ TreeInv => TreeRight
  BY InvTypes, InvOneBus, InvSorted, InvRightParent DEF TreeRight, TypeOK, Inv
<1>2. Init => Inv /\ TreeInv
  BY TopologyInit
<1>3. Inv /\ TreeInv /\ [Next]_vars => Inv' /\ TreeInv'
  BY TopologyStep
<1>4. QED
  BY <1>1, <1>2, <1>3, PTL DEF Spec
=============================================================================
