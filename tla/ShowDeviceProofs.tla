-------------------------- MODULE ShowDeviceProofs --------------------------
(***************************************************************************)
(* Proofs about ShowDevice: lspcie never looks at a byte it has not read,  *)
(* wherever the capabilities are and however many rounds their loops take. *)
(***************************************************************************)
EXTENDS ShowDevice, FiniteSetTheorems, WellFoundedInduction,
        SequenceTheorems, TLAPS

----------------------------------------------------------------------------
(***************************************************************************)
(* Numbers, and what config_fetch() does to the buffer.                    *)
(***************************************************************************)
\* Induction over the numbers, and over those up to a bound.
LEMMA NatSetInduction ==
  ASSUME NEW S \in SUBSET Nat, 0 \in S, \A n \in S : n + 1 \in S
  PROVE  \A n \in Nat : n \in S
<1> DEFINE R == OpToRel(<, Nat)
           T == {n \in Nat : n \notin S}
<1>1. \A x, y \in Nat : <<x, y>> \in R <=> x < y
  BY DEF OpToRel
<1>2. IsWellFoundedOn(R, Nat)
  BY NatLessThanWellFounded
<1> HIDE DEF R
<1>3. SUFFICES ASSUME T # {} PROVE FALSE
  OBVIOUS
<1>4. PICK n \in T : \A m \in T : ~(<<m, n>> \in R)
  BY <1>2, <1>3, WFMin
<1>5. n # 0 /\ n - 1 \in Nat /\ n - 1 < n
  BY <1>4
<1>6. n - 1 \in S
  BY <1>1, <1>4, <1>5
<1>7. QED
  BY <1>4, <1>5, <1>6

\* A set of numbers has a least one.
LEMMA MinIs ==
  ASSUME NEW S \in SUBSET Nat, S # {}
  PROVE  Min(S) \in S /\ \A x \in S : Min(S) <= x
<1> DEFINE T == {n \in Nat : \A x \in S : n <= x}
<1>1. \E n \in S : n \in T
  <2>1. SUFFICES ASSUME ~ \E n \in S : n \in T PROVE FALSE
    OBVIOUS
  <2>2. 0 \in T
    OBVIOUS
  <2>3. \A n \in T : n + 1 \in T
    <3>1. ASSUME NEW n \in T, NEW x \in S PROVE n + 1 <= x
      <4>1. n <= x /\ n # x /\ n \in Nat /\ x \in Nat
        BY <2>1
      <4>2. QED
        BY <4>1
    <3>2. QED
      BY <3>1
  <2>4. \A n \in Nat : n \in T
    <3> HIDE DEF T
    <3>1. T \in SUBSET Nat
      BY DEF T
    <3>2. QED
      BY <2>2, <2>3, <3>1, NatSetInduction
  <2>5. PICK x \in S : TRUE
    OBVIOUS
  <2>6. x + 1 \in T
    BY <2>4
  <2>7. QED
    BY <2>6
<1>2. QED
  BY <1>1 DEF Min

\* A bounded one has a greatest.
LEMMA MaxIs ==
  ASSUME NEW S \in SUBSET Nat, S # {}, NEW N \in Nat, \A x \in S : x <= N
  PROVE  Max(S) \in S /\ \A x \in S : x <= Max(S)
<1> DEFINE T == {N - x : x \in S}
<1>1. T \in SUBSET Nat /\ T # {}
  <2>1. \A x \in S : x \in Nat /\ x <= N /\ N - x \in Nat
    OBVIOUS
  <2>2. QED
    BY <2>1
<1>2. Min(T) \in T /\ \A y \in T : Min(T) <= y
  <2> HIDE DEF T
  <2>1. QED
    BY <1>1, MinIs
<1>3. PICK m \in S : Min(T) = N - m
  BY <1>2
<1>4. ASSUME NEW x \in S PROVE m >= x
  <2>1. N - m <= N - x
    BY <1>2, <1>3
  <2>2. QED
    BY <2>1
<1>5. QED
  BY <1>3, <1>4 DEF Max

\* The sizes of the buffer are numbers: powers of two count subsets.
LEMMA SizesAreNumbers == BufferSizes \subseteq Nat
<1>1. ASSUME NEW k \in Nat PROVE 2^k \in Nat
  <2>1. IsFiniteSet(1..k) /\ Cardinality(1..k) = k
    <3>1. /\ IsFiniteSet(1..k)
          /\ Cardinality(1..k) = IF 1 > k THEN 0 ELSE k - 1 + 1
      BY FS_Interval
    <3>2. QED
      BY <3>1
  <2>2. IsFiniteSet(SUBSET (1..k)) /\ Cardinality(SUBSET (1..k)) = 2^k
    BY <2>1, FS_SUBSET
  <2>3. QED
    BY <2>2, FS_CardinalityType
<1>2. ASSUME NEW b \in BufferSizes PROVE b \in Nat
  <2>1. PICK k \in 0..Doublings : b = 64 * 2^k
    BY DEF BufferSizes
  <2>2. 2^k \in Nat
    BY <1>1, DoublingsAssumption
  <2>3. \A n \in Nat : 64 * n \in Nat
    OBVIOUS
  <2>4. QED
    BY <2>1, <2>2, <2>3
<1>3. QED
  BY <1>2

\* The buffer grows to hold what is fetched, and never shrinks.
LEMMA GrownIs ==
  ASSUME bufsize \in BufferSizes, NEW end \in Nat, end <= SpaceEnd + Reach
  PROVE  /\ Grown(end) \in BufferSizes
         /\ Grown(end) >= bufsize /\ Grown(end) >= end
<1> DEFINE S == {b \in BufferSizes : b >= bufsize /\ b >= end}
<1>1. BufferSizes \subseteq Nat
  BY SizesAreNumbers
<1>2. PICK b \in BufferSizes : b >= SpaceEnd + Reach
  BY GrowthAssumption
<1>3. S # {}
  <2>1. SpaceEnd \in Nat /\ Reach \in Nat
    BY BoundAssumption, RepeatAssumption DEF Reach
  <2>2. b >= end
    BY <1>1, <1>2, <2>1
  <2>3. b >= bufsize => b \in S
    BY <2>2
  <2>4. bufsize >= b => bufsize \in S
    BY <1>1, <2>2
  <2>5. QED
    BY <1>1, <2>3, <2>4
<1>4. Min(S) \in S
  <2>1. S \in SUBSET Nat
    BY <1>1
  <2> HIDE DEF S
  <2>2. QED
    BY <1>3, <2>1, MinIs
<1>5. QED
  BY <1>4 DEF Grown

\* Intervals within intervals.
LEMMA Intervals ==
  /\ \A m, n \in Nat : m <= n => 0 .. m - 1 \subseteq 0 .. n - 1
  /\ \A n \in Nat : 0 .. n - 1 \subseteq Nat
  /\ \A m, n, a, b \in Nat :
       a \in m .. n /\ b \in m .. n => a .. b \subseteq 0 .. n
OBVIOUS

\* A successful fetch makes the bytes present, and nothing outside the buffer.
LEMMA FetchedIs ==
  ASSUME FetchTypeOK, InBuffer, NEW pos \in Nat, NEW len \in Nat,
         pos + len <= SpaceEnd + Reach, Fetched(pos, len)
  PROVE  /\ present' \subseteq Nat /\ bufsize' \in BufferSizes /\ InBuffer'
         /\ present \subseteq present'
         /\ pos .. pos + len - 1 \subseteq present'
<1> DEFINE missing == Missing(pos, len)
<1>1. missing = (pos .. pos + len - 1) \ present
  BY DEF Missing
<1>2. present \subseteq Nat /\ bufsize \in BufferSizes
  BY DEF FetchTypeOK
<1>3. BufferSizes \subseteq Nat
  BY SizesAreNumbers
<1> HIDE DEF missing
<1>4. CASE missing = {}
  <2>1. UNCHANGED <<present, bufsize>>
    BY <1>4 DEF Fetched, missing
  <2>2. pos .. pos + len - 1 \subseteq present
    BY <1>1, <1>4
  <2>3. QED
    BY <1>2, <2>1, <2>2 DEF InBuffer
<1>5. CASE missing # {}
  <2>1. present' = present \cup Min(missing) .. Max(missing)
        /\ bufsize' = Grown(pos + len)
    BY <1>5 DEF Fetched, missing
  <2>2. missing \in SUBSET Nat /\ pos + len \in Nat
        /\ \A x \in missing : x <= pos + len /\ x < pos + len /\ x >= pos
    BY <1>1
  <2>3. /\ Min(missing) \in missing /\ \A x \in missing : Min(missing) <= x
        /\ Max(missing) \in missing /\ \A x \in missing : x <= Max(missing)
    BY <1>5, <2>2, MinIs, MaxIs
  <2>4. missing \subseteq Min(missing) .. Max(missing)
    BY <2>2, <2>3
  <2>5. pos .. pos + len - 1 \subseteq present'
    BY <1>1, <2>1, <2>4
  <2>6. /\ bufsize' \in BufferSizes
        /\ bufsize' >= bufsize /\ bufsize' >= pos + len
    BY <1>2, <2>1, <2>2, GrownIs
  <2>7. Min(missing) .. Max(missing) \subseteq 0 .. (pos + len) - 1
    <3>1. PICK x \in missing : TRUE
      BY <1>5
    <3>2. (pos + len) - 1 \in Nat
      BY <2>2, <3>1
    <3>3. missing \subseteq pos .. (pos + len) - 1
      BY <1>1
    <3>4. /\ Min(missing) \in pos .. (pos + len) - 1
          /\ Max(missing) \in pos .. (pos + len) - 1
          /\ Min(missing) \in Nat /\ Max(missing) \in Nat
      BY <2>2, <2>3, <3>3
    <3>5. QED
      BY <3>2, <3>4, Intervals
  <2>8. bufsize \in Nat /\ bufsize' \in Nat
    BY <1>2, <1>3, <2>6
  <2>9. /\ 0 .. (pos + len) - 1 \subseteq 0 .. bufsize' - 1
        /\ 0 .. bufsize - 1 \subseteq 0 .. bufsize' - 1
    BY <2>2, <2>6, <2>8, Intervals
  <2>10. present' \subseteq 0 .. bufsize' - 1
    BY <2>1, <2>7, <2>9 DEF InBuffer
  <2>11. present' \subseteq Nat
    BY <2>8, <2>10, Intervals
  <2>12. QED
    BY <2>1, <2>5, <2>6, <2>10, <2>11 DEF InBuffer
<1>6. QED
  BY <1>4, <1>5

\* One that fails may have resized the buffer.
LEMMA FetchFailedIs ==
  ASSUME FetchTypeOK, InBuffer, NEW pos \in Nat, NEW len \in Nat,
         pos + len <= SpaceEnd + Reach, FetchFailed(pos, len)
  PROVE  /\ present' = present /\ bufsize' \in BufferSizes /\ InBuffer'
<1>1. present' = present /\ bufsize' = Grown(pos + len) /\ pos + len \in Nat
  BY DEF FetchFailed
<1>2. bufsize' \in BufferSizes /\ bufsize' >= bufsize
  BY <1>1, GrownIs DEF FetchTypeOK
<1>3. bufsize \in Nat /\ bufsize' \in Nat
  BY <1>2, SizesAreNumbers DEF FetchTypeOK
<1>4. 0 .. bufsize - 1 \subseteq 0 .. bufsize' - 1
  BY <1>2, <1>3, Intervals
<1>5. QED
  BY <1>1, <1>2, <1>4 DEF InBuffer

----------------------------------------------------------------------------
(***************************************************************************)
(* Decoders: each script ends within Reach and looks at nothing but the    *)
(* header of its capability and what it has fetched itself.                *)
(***************************************************************************)
\* Entries of Enhanced Allocation are as long as their flags say.
LongEnough ==
  \A e \in Entries :
    e.dwords >= 2 + (IF e.baseHigh THEN 1 ELSE 0)
                  + (IF e.maxHigh THEN 1 ELSE 0)

\* Steps that end within Reach and look at the header of the capability and at
\* what they have fetched themselves only.
Inside(pos, len) == 0..3 \cup pos .. pos + len - 1
Steps ==
  {s \in [pos : Nat, len : Nat, looks : SUBSET Nat, goOn : BOOLEAN] :
     /\ s.pos + s.len <= Reach
     /\ LongEnough => s.looks \subseteq Inside(s.pos, s.len)}
Scripts == Seq(Steps)

\* No reach is shorter than the longest VirtIO capability.
LEMMA ReachIs == Reach \in Nat /\ Reach >= 255
BY RepeatAssumption DEF Reach

\* What makes a step of a decoder.
LEMMA StepIs ==
  ASSUME NEW pos \in Nat, NEW len \in Nat, NEW looks \in SUBSET Nat,
         pos + len <= Reach, LongEnough => looks \subseteq Inside(pos, len)
  PROVE  /\ Fetch(pos, len, looks) \in Steps
         /\ TryFetch(pos, len, looks) \in Steps
BY DEF Steps, Fetch, TryFetch

\* Scripts are put together from scripts.
LEMMA ScriptIs ==
  /\ <<>> \in Scripts
  /\ \A s \in Steps : <<s>> \in Scripts
  /\ \A a, b \in Scripts : a \o b \in Scripts
  /\ \A c, a : a \in Scripts => When(c, a) \in Scripts
BY DEF Scripts, When

\* Decoders with one fetch.
LEMMA OneStep ==
  ASSUME NEW pos \in Nat, NEW len \in Nat, NEW looks \in SUBSET Nat,
         pos + len <= Reach, LongEnough => looks \subseteq Inside(pos, len)
  PROVE  <<Fetch(pos, len, looks)>> \in Scripts
BY StepIs, ScriptIs

\* Traditional capabilities with one fetch of a fixed length.
LEMMA PlainScripts ==
  UNION {CapPm, CapAgp, CapMsix, CapAf, CapSata, CapSsvid} \subseteq Scripts
<1> USE DEF Word, Byte, Long, Longs, Inside
<1>1. CapPm \subseteq Scripts
  BY ReachIs, OneStep DEF CapPm
<1>2. CapAgp \subseteq Scripts
  BY ReachIs, OneStep DEF CapAgp
<1>3. CapMsix \subseteq Scripts
  BY ReachIs, OneStep DEF CapMsix
<1>4. CapAf \subseteq Scripts
  BY ReachIs, OneStep DEF CapAf
<1>5. CapSata \subseteq Scripts
  BY ReachIs, OneStep DEF CapSata
<1>6. CapSsvid \subseteq Scripts
  BY ReachIs, OneStep DEF CapSsvid
<1>7. QED
  BY <1>1, <1>2, <1>3, <1>4, <1>5, <1>6

\* HyperTransport.
LEMMA HtScripts == CapHt \subseteq Scripts
<1> USE DEF Word, Byte, Long, Longs, Inside
<1>1. HtPri \in Scripts
  BY ReachIs, OneStep DEF HtPri
<1>2. HtSec \in Scripts
  BY ReachIs, OneStep DEF HtSec
<1>3. HtMsiMapping \in Scripts
  BY ReachIs, OneStep DEF HtMsiMapping
<1>4. QED
  BY <1>1, <1>2, <1>3, ScriptIs DEF CapHt

\* PCI-X, by kind of header.
LEMMA PcixScripts == \A h \in HeaderTypes : CapPcix(h) \subseteq Scripts
<1> USE DEF Word, Byte, Long, Longs, Inside
<1>1. <<Fetch(4, 4, Word(2) \cup Long(4))>> \in Scripts
  BY ReachIs, OneStep
<1>2. <<Fetch(4, 12, Word(2) \cup Longs(4, 12))>> \in Scripts
  BY ReachIs, OneStep
<1>3. QED
  BY <1>1, <1>2, ScriptIs DEF CapPcix, HeaderTypes

\* Message signalled interrupts, with 32 or 64 bits, with or without masks.
LEMMA MsiScripts == CapMsi \subseteq Scripts
<1> DEFINE first(data) == <<Fetch(4, data - 2, Long(4) \cup Word(data) \cup
                                (IF data = 12 THEN Long(8) ELSE {}))>>
           last(data) == <<Fetch(data + 4, 8, Longs(data + 4, data + 8))>>
<1>1. CapMsi = {first(data) \o When(mask, last(data)) :
                  data \in {8, 12}, mask \in BOOLEAN}
  BY DEF CapMsi
<1>2. ASSUME NEW data \in {8, 12}
      PROVE  first(data) \in Scripts /\ last(data) \in Scripts
  <2> USE DEF Word, Byte, Long, Longs, Inside
  <2>1. first(data) \in Scripts
    BY ReachIs, OneStep
  <2>2. last(data) \in Scripts
    BY ReachIs, OneStep
  <2>3. QED
    BY <2>1, <2>2
<1> HIDE DEF first, last
<1>3. ASSUME NEW s \in CapMsi PROVE s \in Scripts
  <2>1. PICK data \in {8, 12}, mask \in BOOLEAN :
          s = first(data) \o When(mask, last(data))
    BY <1>1
  <2>2. When(mask, last(data)) \in Scripts
    BY <1>2, ScriptIs
  <2>3. QED
    BY <1>2, <2>1, <2>2, ScriptIs
<1>4. QED
  BY <1>3

\* VirtIO, whose length the capability tells.
LEMMA VirtioScripts == \A v : CapVirtio(v) \subseteq Scripts
<1> SUFFICES ASSUME NEW v PROVE CapVirtio(v) \subseteq Scripts
  OBVIOUS
<1> DEFINE looks(len) == IF v < 2 THEN {}
                         ELSE UNION {Byte(4), Longs(8, 12),
                                     IF len >= 20 THEN Long(16) ELSE {}}
<1>1. CapVirtio(v) = {<<Fetch(0, len, looks(len))>> : len \in {16, 255}}
                       \cup {<<>>}
  BY Zenon DEF CapVirtio
<1>2. ASSUME NEW len \in {16, 255}
      PROVE  looks(len) \in SUBSET Nat /\ looks(len) \subseteq Inside(0, len)
  BY DEF Byte, Long, Longs, Inside
<1> HIDE DEF looks
<1>3. ASSUME NEW len \in {16, 255}
      PROVE  <<Fetch(0, len, looks(len))>> \in Scripts
  BY <1>2, ReachIs, OneStep
<1>4. QED
  BY <1>1, <1>3, ScriptIs

\* Express: the length covers the registers the kind of port has.
LEMMA ExpressScripts == \A k \in ExpressKinds : CapExpress(k) \subseteq Scripts
<1> SUFFICES ASSUME NEW k \in ExpressKinds
             PROVE  CapExpress(k) \subseteq Scripts
  OBVIOUS
<1>1. <<Fetch(4, ExpressSize(k), ExpressLooks(k))>> \in Scripts
  <2> DEFINE len == ExpressSize(k)
             looks == ExpressLooks(k)
  <2>1. /\ len \in {16, 24, 32}
        /\ k.slot => len >= 24
        /\ k.type = "root" => len = 32
    BY DEF ExpressSize
  <2>2. looks \in SUBSET Nat /\ looks \subseteq 4 .. 35
        /\ (~k.slot /\ k.type # "root" => looks \subseteq 4 .. 19)
        /\ (k.type # "root" => looks \subseteq 4 .. 27)
    BY DEF ExpressLooks, ExpressDev, ExpressLink, ExpressSlot, ExpressRoot,
           Word, Byte, Long, Longs
  <2> HIDE DEF looks, len
  <2>3. looks \subseteq 4 .. 4 + len - 1
    BY <2>1, <2>2
  <2>4. QED
    BY <2>1, <2>2, <2>3, ReachIs, OneStep DEF Inside, looks, len
<1>2. <<Fetch(36, IF k.slot THEN 24 ELSE 16, Express2Looks(k))>> \in Scripts
  <2>1. /\ Express2Looks(k) \in SUBSET Nat
        /\ Express2Looks(k) \subseteq 36 .. 51
    BY DEF Express2Looks, ExpressDev2, ExpressLink2, Word, Byte, Long, Longs
  <2>2. QED
    BY <2>1, ReachIs, OneStep DEF Inside
<1>3. ASSUME NEW s \in CapExpress(k) PROVE s \in Scripts
  <2>1. PICK v2 \in BOOLEAN :
          s = <<Fetch(4, ExpressSize(k), ExpressLooks(k))>>
     \o When(v2, <<Fetch(36, IF k.slot THEN 24 ELSE 16, Express2Looks(k))>>)
    BY Zenon DEF CapExpress
  <2>2. QED
    BY <1>1, <1>2, <2>1, ScriptIs
<1>4. QED
  BY <1>3

\* A step of each element makes a script.
LEMMA RoundsScript ==
  \A n \in Nat : \A f \in [1..n -> Steps] : f \in Scripts
BY DEF Scripts

\* Extended capabilities with one fetch of a fixed length.
LEMMA PlainExtScripts ==
  UNION {CapTph, CapLtr, CapSec, CapDsn, CapDpc, CapAcs, CapAri, CapAts,
         CapPasid, CapPri, CapSriov, CapEvendor, CapL1pm, CapPtm}
    \subseteq Scripts
<1> USE DEF Word, Byte, Long, Longs, Inside
<1>1. CapTph \subseteq Scripts
  BY ReachIs, OneStep DEF CapTph
<1>2. CapLtr \subseteq Scripts
  BY ReachIs, OneStep DEF CapLtr
<1>3. CapSec \subseteq Scripts
  BY ReachIs, OneStep DEF CapSec
<1>4. CapDsn \subseteq Scripts
  BY ReachIs, OneStep DEF CapDsn
<1>5. CapDpc \subseteq Scripts
  BY ReachIs, OneStep DEF CapDpc
<1>6. CapAcs \subseteq Scripts
  BY ReachIs, OneStep DEF CapAcs
<1>7. CapPri \subseteq Scripts
  BY ReachIs, OneStep DEF CapPri
<1>8. CapSriov \subseteq Scripts
  BY ReachIs, OneStep DEF CapSriov
<1>9. CapEvendor \subseteq Scripts
  BY ReachIs, OneStep DEF CapEvendor
<1>10. CapL1pm \subseteq Scripts
  BY ReachIs, OneStep DEF CapL1pm
<1>11. CapPtm \subseteq Scripts
  BY ReachIs, OneStep DEF CapPtm
<1>12. QED
  BY <1>1, <1>2, <1>3, <1>4, <1>5, <1>6, <1>7, <1>8, <1>9, <1>10, <1>11
  DEF CapAri, CapAts, CapPasid

\* Those that depend on the type of the port.
LEMMA PortScripts ==
  \A t : CapAer(t) \subseteq Scripts /\ CapMulticast(t) \subseteq Scripts
<1> SUFFICES ASSUME NEW t
             PROVE  /\ CapAer(t) \subseteq Scripts
                    /\ CapMulticast(t) \subseteq Scripts
  OBVIOUS
<1> USE DEF Word, Byte, Long, Longs, Inside
<1>1. CapAer(t) \subseteq Scripts
  <2>1. <<Fetch(4, 40, Longs(4, 40))>> \in Scripts
    BY ReachIs, OneStep
  <2>2. <<Fetch(44, 12, UNION {Longs(44, 48), Word(52), Word(54)})>>
          \in Scripts
    BY ReachIs, OneStep
  <2>3. QED
    BY <2>1, <2>2, ScriptIs DEF CapAer
<1>2. CapMulticast(t) \subseteq Scripts
  <2> DEFINE looks == UNION {Word(4), Word(6), Longs(8, 36),
                             IF t = "endpoint" THEN {} ELSE Longs(40, 44)}
  <2>1. looks \in SUBSET Nat /\ looks \subseteq Inside(4, 48)
    OBVIOUS
  <2>2. CapMulticast(t) = {<<Fetch(4, 48, looks)>>}
    BY Zenon DEF CapMulticast
  <2> HIDE DEF looks
  <2>3. QED
    BY <2>1, <2>2, ReachIs, OneStep
<1>3. QED
  BY <1>1, <1>2

\* Designated vendor-specific capabilities.
LEMMA DvsecScripts == \A v : CapDvsec(v) \subseteq Scripts
<1> SUFFICES ASSUME NEW v, NEW s \in CapDvsec(v) PROVE s \in Scripts
  OBVIOUS
<1> DEFINE first == <<Fetch(4, 8, Longs(4, 8))>>
           last == <<Fetch(10, 12, UNION {Word(10), Word(12), Word(14)})>>
<1>1. \E cxl : s = first \o When(cxl, last)
  BY Zenon DEF CapDvsec
<1>2. first \in Scripts /\ last \in Scripts
  <2> USE DEF Word, Byte, Long, Longs, Inside
  <2>1. first \in Scripts
    BY ReachIs, OneStep
  <2>2. last \in Scripts
    BY ReachIs, OneStep
  <2>3. QED
    BY <2>1, <2>2
<1> HIDE DEF first, last
<1>3. QED
  BY <1>1, <1>2, ScriptIs

\* Virtual channels, links of a root complex, resizable BARs: a loop each.
LEMMA RoundScripts == UNION {CapVc, CapRclink, CapRebar} \subseteq Scripts
<1>1. ASSUME NEW n \in 0..MaxRepeat, NEW i \in 0 .. n - 1
      PROVE  /\ TryFetch(16 + 12 * i, 12, Longs(16 + 12 * i, 20 + 12 * i)
                           \cup Word(26 + 12 * i)) \in Steps
             /\ Fetch(16 + 16 * i, 16, Long(16 + 16 * i)
                        \cup Longs(24 + 16 * i, 28 + 16 * i)) \in Steps
             /\ Fetch(4 + 8 * i, 8, Longs(4 + 8 * i, 8 + 8 * i)) \in Steps
  <2> USE DEF Word, Byte, Long, Longs, Inside
  <2>0. i \in Nat /\ i + 1 <= MaxRepeat /\ MaxRepeat \in Nat
    BY RepeatAssumption
  <2>1. TryFetch(16 + 12 * i, 12, Longs(16 + 12 * i, 20 + 12 * i)
                           \cup Word(26 + 12 * i)) \in Steps
    BY <2>0, StepIs DEF Reach
  <2>2. Fetch(16 + 16 * i, 16, Long(16 + 16 * i)
                        \cup Longs(24 + 16 * i, 28 + 16 * i)) \in Steps
    BY <2>0, StepIs DEF Reach
  <2>3. Fetch(4 + 8 * i, 8, Longs(4 + 8 * i, 8 + 8 * i)) \in Steps
    BY <2>0, StepIs DEF Reach
  <2>4. QED
    BY <2>1, <2>2, <2>3
<1>2. ASSUME NEW s \in CapVc PROVE s \in Scripts
  <2> DEFINE first == <<Fetch(4, 24, UNION {Longs(4, 8), Word(12), Word(14)})>>
             rest(n) == [i \in 1..n |-> TryFetch(16 + 12 * (i - 1), 12,
                               Longs(16 + 12 * (i - 1), 20 + 12 * (i - 1))
                                 \cup Word(26 + 12 * (i - 1)))]
  <2>1. PICK n \in 1..MaxRepeat : s = first \o rest(n)
    BY DEF CapVc, Rounds
  <2>2. first \in Scripts
    BY ReachIs, OneStep DEF Word, Byte, Long, Longs, Inside
  <2>3. \A i \in 1..n : i - 1 \in 0 .. n - 1 /\ n \in 0..MaxRepeat
    BY RepeatAssumption
  <2>4. \A i \in 1..n : rest(n)[i] \in Steps
    BY <1>1, <2>3
  <2>5. rest(n) \in [1..n -> Steps]
    BY <2>4
  <2> HIDE DEF first, rest
  <2>6. QED
    BY <2>1, <2>2, <2>5, RoundsScript, RepeatAssumption, ScriptIs
<1>3. ASSUME NEW s \in CapRclink PROVE s \in Scripts
  <2> DEFINE first == <<Fetch(4, 12, Long(4))>>
             rest(n) == [i \in 1..n |-> Fetch(16 + 16 * (i - 1), 16,
                               Long(16 + 16 * (i - 1))
                                 \cup Longs(24 + 16 * (i - 1),
                                            28 + 16 * (i - 1)))]
  <2>1. PICK n \in 0..MaxRepeat : s = first \o rest(n)
    BY DEF CapRclink, Rounds
  <2>2. first \in Scripts
    BY ReachIs, OneStep DEF Word, Byte, Long, Longs, Inside
  <2>3. \A i \in 1..n : i - 1 \in 0 .. n - 1 /\ n \in 0..MaxRepeat
    BY RepeatAssumption
  <2>4. \A i \in 1..n : rest(n)[i] \in Steps
    BY <1>1, <2>3
  <2>5. rest(n) \in [1..n -> Steps]
    BY <2>4
  <2> HIDE DEF first, rest
  <2>6. QED
    BY <2>1, <2>2, <2>5, RoundsScript, RepeatAssumption, ScriptIs
<1>4. ASSUME NEW s \in CapRebar PROVE s \in Scripts
  <2> DEFINE rest(n) == [i \in 1..n |-> Fetch(4 + 8 * (i - 1), 8,
                               Longs(4 + 8 * (i - 1), 8 + 8 * (i - 1)))]
  <2>1. PICK n \in 1..MaxRepeat : s = rest(n)
    BY DEF CapRebar, Rounds
  <2>3. \A i \in 1..n : i - 1 \in 0 .. n - 1 /\ n \in 0..MaxRepeat
    BY RepeatAssumption
  <2>4. \A i \in 1..n : rest(n)[i] \in Steps
    BY <1>1, <2>3
  <2>5. rest(n) \in [1..n -> Steps]
    BY <2>4
  <2> HIDE DEF rest
  <2>6. QED
    BY <2>1, <2>5, RoundsScript, RepeatAssumption
<1>5. QED
  BY <1>2, <1>3, <1>4

\* Positions of the first n entries of a list, as EaEntries counts them.
IsAt(at, list_, first, n) ==
  at = [i \in 1..n |->
          IF i = 1 THEN first ELSE at[i - 1] + 4 + 4 * list_[i - 1].dwords]

\* There is such a list of positions, though each is defined from the last.
LEMMA AtExists ==
  ASSUME NEW list_, NEW first, NEW n \in Nat
  PROVE  \E at : IsAt(at, list_, first, n)
<1> DEFINE S == {k \in Nat : \E at : IsAt(at, list_, first, k)}
<1>1. 0 \in S
  <2>1. IsAt([i \in 1..0 |-> first], list_, first, 0)
    BY DEF IsAt
  <2>2. QED
    BY <2>1
<1>2. ASSUME NEW k \in S PROVE k + 1 \in S
  <2>1. PICK at : IsAt(at, list_, first, k)
    OBVIOUS
  <2> DEFINE val(f, i) == IF i = 1 THEN first
                          ELSE f[i - 1] + 4 + 4 * list_[i - 1].dwords
             at2 == [i \in 1 .. k + 1 |->
                       IF i = k + 1 THEN val(at, i) ELSE at[i]]
  <2>2. at = [i \in 1..k |-> val(at, i)]
    BY <2>1 DEF IsAt
  <2>3. \A i \in 1..k : at[i] = val(at, i)
    BY <2>2
  <2>4. \A i \in 1 .. k + 1 : i # 1 => at2[i - 1] = at[i - 1]
    OBVIOUS
  <2>5. \A i \in 1 .. k + 1 : at2[i] = val(at2, i)
    <3>1. ASSUME NEW i \in 1 .. k + 1 PROVE at2[i] = val(at, i)
      <4>1. CASE i = k + 1
        BY <4>1
      <4>2. CASE i # k + 1
        <5>1. i \in 1..k
          BY <4>2
        <5>2. QED
          BY <4>2, <5>1, <2>3
      <4>3. QED
        BY <4>1, <4>2
    <3>2. \A i \in 1 .. k + 1 : val(at, i) = val(at2, i)
      BY <2>4
    <3> HIDE DEF at2, val
    <3>3. QED
      BY <3>1, <3>2
  <2>6. at2 = [i \in 1 .. k + 1 |-> at2[i]]
    OBVIOUS
  <2>7. at2 = [i \in 1 .. k + 1 |-> val(at2, i)]
    <3> HIDE DEF at2, val
    <3>1. QED
      BY <2>5, <2>6
  <2> HIDE DEF at2
  <2>8. IsAt(at2, list_, first, k + 1)
    BY <2>7, Zenon DEF IsAt
  <2>9. QED
    BY <2>8
<1>3. \A k \in Nat : k \in S
  <2>1. S \in SUBSET Nat
    OBVIOUS
  <2> HIDE DEF S
  <2>2. QED
    BY <1>1, <1>2, <2>1, NatSetInduction
<1>4. QED
  BY <1>3

\* An entry is 32 bytes long at most.
LEMMA AtIs ==
  ASSUME NEW n \in Nat, NEW list_ \in [1..n -> Entries], NEW first \in {4, 8},
         NEW at, IsAt(at, list_, first, n)
  PROVE  \A i \in 1..n : at[i] \in Nat /\ at[i] >= 4
                           /\ at[i] <= 8 + 32 * (i - 1)
<1> DEFINE S == {k \in Nat : k + 1 \in 1..n =>
                   at[k + 1] \in Nat /\ at[k + 1] >= 4
                     /\ at[k + 1] <= 8 + 32 * k}
<1>1. \A i \in 1..n :
        at[i] = IF i = 1 THEN first
                ELSE at[i - 1] + 4 + 4 * list_[i - 1].dwords
  BY Zenon DEF IsAt
<1>2. \A i \in 1..n : list_[i].dwords \in 0..7
  BY EntriesAssumption
<1>3. 0 \in S
  BY <1>1
<1>4. ASSUME NEW k \in S PROVE k + 1 \in S
  <2>1. SUFFICES ASSUME k + 2 \in 1..n
                 PROVE  at[k + 2] \in Nat /\ at[k + 2] >= 4
                          /\ at[k + 2] <= 8 + 32 * (k + 1)
    BY k + 1 + 1 = k + 2
  <2>2. k + 1 \in 1..n /\ k + 2 # 1 /\ (k + 2) - 1 = k + 1
    BY <2>1
  <2>3. at[k + 1] \in Nat /\ at[k + 1] >= 4 /\ at[k + 1] <= 8 + 32 * k
    BY <2>2
  <2>4. at[k + 2] = at[k + 1] + 4 + 4 * list_[k + 1].dwords
    BY <1>1, <2>1, <2>2
  <2>5. k \in Nat /\ list_[k + 1].dwords \in 0..7
    BY <1>2, <2>2
  <2>6. ASSUME NEW a \in Nat, NEW d \in 0..7, NEW c \in Nat,
               a >= 4, a <= 8 + 32 * c
        PROVE  a + 4 + 4 * d \in Nat /\ a + 4 + 4 * d >= 4
                 /\ a + 4 + 4 * d <= 8 + 32 * (c + 1)
    BY <2>6
  <2> HIDE DEF S
  <2>7. QED
    BY <2>3, <2>4, <2>5, <2>6
<1>5. \A k \in Nat : k \in S
  <2>1. S \in SUBSET Nat
    OBVIOUS
  <2> HIDE DEF S
  <2>2. QED
    BY <1>3, <1>4, <2>1, NatSetInduction
<1>6. ASSUME NEW i \in 1..n
      PROVE  at[i] \in Nat /\ at[i] >= 4 /\ at[i] <= 8 + 32 * (i - 1)
  <2>1. i - 1 \in S /\ (i - 1) + 1 = i
    BY <1>5
  <2>2. QED
    BY <2>1
<1>7. QED
  BY <1>6

\* An entry that is long enough holds what its flags promise.
LEMMA EntryScript ==
  ASSUME NEW e \in Entries, NEW at \in Nat, at + 32 <= Reach
  PROVE  /\ EntrySteps(e, at) \in [1..2 -> Steps]
<1> USE DEF Word, Byte, Long, Longs, Inside
<1>1. /\ e.dwords \in 0..7 /\ e.baseHigh \in BOOLEAN /\ e.maxHigh \in BOOLEAN
  BY EntriesAssumption
<1>2. Fetch(at, 4, Long(at)) \in Steps
  BY StepIs, ReachIs
<1>3. Fetch(at + 4, 4 * e.dwords, EntryLooks(e, at)) \in Steps
  <2> DEFINE looks == EntryLooks(e, at)
  <2>1. /\ looks \in SUBSET Nat
        /\ looks \subseteq at + 4 .. at + 19
        /\ ~(e.baseHigh /\ e.maxHigh) => looks \subseteq at + 4 .. at + 15
        /\ ~(e.baseHigh \/ e.maxHigh) => looks \subseteq at + 4 .. at + 11
    BY <1>1 DEF EntryLooks
  <2>2. LongEnough =>
          /\ e.dwords >= 2
          /\ e.baseHigh \/ e.maxHigh => e.dwords >= 3
          /\ e.baseHigh /\ e.maxHigh => e.dwords >= 4
    BY <1>1 DEF LongEnough
  <2> HIDE DEF looks
  <2>3. LongEnough => looks \subseteq at + 4 .. (at + 4) + 4 * e.dwords - 1
    BY <1>1, <2>1, <2>2
  <2>4. at + 4 \in Nat /\ 4 * e.dwords \in Nat
        /\ (at + 4) + 4 * e.dwords <= Reach
    BY <1>1, ReachIs
  <2>5. LongEnough => looks \subseteq Inside(at + 4, 4 * e.dwords)
    BY <2>3
  <2> HIDE DEF Inside
  <2>6. QED
    BY <2>1, <2>4, <2>5, StepIs DEF looks
<1>4. QED
  BY <1>2, <1>3 DEF EntrySteps

\* The loop over the entries of Enhanced Allocation.
LEMMA EaScript ==
  ASSUME NEW list_ \in EntryLists, NEW first \in {4, 8}
  PROVE  EaEntries(list_, first) \in Scripts
<1>1. PICK n \in 0..MaxRepeat : list_ \in [1..n -> Entries]
  BY DEF EntryLists
<1>2. n \in Nat /\ n <= MaxRepeat /\ MaxRepeat \in Nat
  BY RepeatAssumption
<1>3. Len(list_) = n
  BY <1>1, <1>2
<1> DEFINE at[i \in 1..Len(list_)] ==
             IF i = 1 THEN first ELSE at[i - 1] + 4 + 4 * list_[i - 1].dwords
<1>4. IsAt(at, list_, first, n)
  <2>1. \E f : f = [i \in 1..Len(list_) |->
          IF i = 1 THEN first ELSE f[i - 1] + 4 + 4 * list_[i - 1].dwords]
    <3>1. \E f : IsAt(f, list_, first, n)
      BY <1>2, AtExists
    <3>2. QED
      BY <1>3, <3>1, Zenon DEF IsAt
  <2>2. at = [i \in 1..Len(list_) |->
          IF i = 1 THEN first ELSE at[i - 1] + 4 + 4 * list_[i - 1].dwords]
    BY <2>1, Zenon
  <2> HIDE DEF at
  <2>3. QED
    BY <1>3, <2>2, Zenon DEF IsAt
<1> DEFINE s == [j \in 1 .. 2 * Len(list_) |->
        LET i == (j + 1) \div 2 IN EntrySteps(list_[i], at[i])[2 - (j % 2)]]
<1>5. EaEntries(list_, first) = s
  BY Zenon DEF EaEntries
<1> HIDE DEF at
<1>6. ASSUME NEW j \in 1 .. 2 * n PROVE s[j] \in Steps
  <2> DEFINE i == (j + 1) \div 2
             k == 2 - (j % 2)
  <2>1. i \in 1..n /\ k \in 1..2
    BY <1>2
  <2>2. s[j] = EntrySteps(list_[i], at[i])[k]
    BY <1>3
  <2> HIDE DEF i, k, s
  <2>3. at[i] \in Nat /\ at[i] <= 8 + 32 * (i - 1)
    BY <1>1, <1>2, <1>4, <2>1, AtIs
  <2>4. at[i] + 32 <= Reach
    BY <1>2, <2>1, <2>3 DEF Reach
  <2>5. list_[i] \in Entries
    BY <1>1, <2>1
  <2>6. EntrySteps(list_[i], at[i]) \in [1..2 -> Steps]
    BY <2>3, <2>4, <2>5, EntryScript
  <2>7. QED
    BY <2>1, <2>2, <2>6
<1>7. s \in [1 .. 2 * n -> Steps]
  BY <1>3, <1>6
<1>8. 2 * n \in Nat
  BY <1>2
<1> HIDE DEF s
<1>9. QED
  BY <1>5, <1>7, <1>8, RoundsScript

\* Enhanced Allocation, by verbosity and kind of header.
LEMMA EaScripts == \A v, h : CapEa(v, h) \subseteq Scripts
<1> SUFFICES ASSUME NEW v, NEW h, NEW s \in CapEa(v, h) PROVE s \in Scripts
  OBVIOUS
<1> DEFINE bridge == h = "bridge"
           first == <<Fetch(4, 2, 4..5)>>
           rest(list_) == EaEntries(list_, IF bridge THEN 8 ELSE 4)
<1>1. PICK list_ \in EntryLists :
        s = When(bridge, first) \o When(v >= 2, rest(list_))
  BY Zenon DEF CapEa
<1>2. first \in Scripts
  BY ReachIs, OneStep DEF Inside
<1>3. rest(list_) \in Scripts
  BY EaScript
<1> HIDE DEF first, rest
<1>4. QED
  BY <1>1, <1>2, <1>3, ScriptIs

\* What showing a capability may come to, whichever decoder it is.
Decodings == [script : Scripts, ext : BOOLEAN, type : PortTypes]

\* Scripts make decodings.
LEMMA DecodedIs ==
  ASSUME NEW S, S \subseteq Scripts, NEW e \in BOOLEAN, NEW t \in PortTypes
  PROVE  Decoded(S, e, t) \subseteq Decodings
BY DEF Decoded, Decodings

\* And so does printing a line only.
LEMMA IfVerboseIs ==
  ASSUME NEW S, S \subseteq Scripts, NEW v
  PROVE  IfVerbose(v, S) \subseteq Scripts
BY ScriptIs DEF IfVerbose

\* The switch of show_caps().
LEMMA StandardDecodings ==
  ASSUME NEW v, NEW h \in HeaderTypes
  PROVE  StandardCaps(v, h) \subseteq Decodings
<1> DEFINE plain == UNION {CapPm, CapAgp, CapMsi, CapMsix, CapAf, CapSata,
                           CapHt}
           always == UNION {CapSsvid, CapVirtio(v), CapEa(v, h), {<<>>}}
<1>0. "none" \in PortTypes /\ TRUE \in BOOLEAN /\ FALSE \in BOOLEAN
  BY DEF PortTypes
<1>1. Decoded(IfVerbose(v, plain), FALSE, "none") \subseteq Decodings
  <2>1. plain \subseteq Scripts
    BY PlainScripts, MsiScripts, HtScripts
  <2> HIDE DEF plain
  <2>2. QED
    BY <1>0, <2>1, IfVerboseIs, DecodedIs
<1>2. Decoded(always, FALSE, "none") \subseteq Decodings
  <2>1. always \subseteq Scripts
    BY PlainScripts, VirtioScripts, EaScripts, ScriptIs
  <2> HIDE DEF always
  <2>2. QED
    BY <1>0, <2>1, DecodedIs
<1>3. Decoded(IfVerbose(v, CapPcix(h)), TRUE, "none") \subseteq Decodings
  BY <1>0, PcixScripts, IfVerboseIs, DecodedIs
<1>4. ASSUME NEW k \in ExpressKinds
      PROVE  Decoded(IfVerbose(v, CapExpress(k)), TRUE, k.type)
               \subseteq Decodings
  <2>1. k.type \in PortTypes
    BY DEF ExpressKinds, PortTypes
  <2>2. QED
    BY <1>0, <2>1, ExpressScripts, IfVerboseIs, DecodedIs
<1> HIDE DEF plain, always
<1>5. StandardCaps(v, h) =
        UNION {Decoded(IfVerbose(v, plain), FALSE, "none"),
               Decoded(always, FALSE, "none"),
               Decoded(IfVerbose(v, CapPcix(h)), TRUE, "none"),
               UNION {Decoded(IfVerbose(v, CapExpress(k)), TRUE, k.type) :
                        k \in ExpressKinds}}
  BY Zenon DEF StandardCaps, plain, always
<1>6. UNION {Decoded(IfVerbose(v, CapExpress(k)), TRUE, k.type) :
               k \in ExpressKinds} \subseteq Decodings
  BY <1>4
<1>7. QED
  BY <1>1, <1>2, <1>3, <1>5, <1>6

\* The switch of show_ext_caps().
LEMMA ExtendedDecodings ==
  ASSUME NEW v, NEW t \in PortTypes
  PROVE  ExtendedCaps(v, t) \subseteq Decodings
<1> DEFINE most ==
      UNION {CapTph, CapLtr, CapSec, CapAer(t), CapDpc, CapAcs, CapAri,
             CapAts, CapPasid, CapPri, CapSriov, CapMulticast(t), CapVc,
             CapRclink, CapL1pm, CapPtm, CapRebar}
           rest == UNION {CapDsn, CapDvsec(v), CapEvendor, {<<>>}}
<1>1. most \subseteq Scripts /\ rest \subseteq Scripts
  BY PlainExtScripts, PortScripts, DvsecScripts, RoundScripts, ScriptIs
<1>2. ExtendedCaps(v, t) = Decoded(IfVerbose(v, most) \cup rest, TRUE, t)
  BY Zenon DEF ExtendedCaps
<1> HIDE DEF most, rest
<1>3. IfVerbose(v, most) \cup rest \subseteq Scripts
  BY <1>1, IfVerboseIs
<1>4. QED
  BY <1>2, <1>3, DecodedIs

\* Every script there is to choose stays within its own reach.
LEMMA DecodersAre ==
  ASSUME verbose \in Verbosities, htype \in HeaderTypes, type \in PortTypes
  PROVE  Decoders \subseteq Decodings
<1>1. CASE list = "std"
  <2>1. Decoders = StandardCaps(verbose, htype)
    BY <1>1 DEF Decoders, StandardDecoders
  <2>2. QED
    BY <2>1, StandardDecodings
<1>2. CASE list # "std"
  <2>1. Decoders = ExtendedCaps(verbose, type)
    BY <1>2 DEF Decoders, ExtendedDecoders
  <2>2. QED
    BY <2>1, ExtendedDecodings
<1>3. QED
  BY <1>1, <1>2

----------------------------------------------------------------------------
(***************************************************************************)
(* The invariant.                                                          *)
(***************************************************************************)
\* What has been read of the header stays read, and so do the header of the
\* capability and the bytes that are dumped.
ReadInv ==
  /\ 0 .. cached - 1 \subseteq present
  /\ pc = "decode" => where .. where + 3 \subseteq present
  /\ pc = "dump4" => 0..255 \subseteq present

\* Where lspcie is tells what has been set up.
Early ==
  {"header", "cardbus", "setup", "identify", "show", "fill", "registers"}
StageInv ==
  /\ pc \in {"identify", "show", "fill"} => cache = bufsize
  /\ pc = "registers" => htype # "other"
  /\ pc \in Early => list = "std" /\ next = 0 /\ been = {}
  /\ LongEnough => pc # "died"

ShowInv == TypeOK /\ InBuffer /\ script \in Scripts /\ ReadInv /\ StageInv

\* The invariant holds at the start.
LEMMA ShowInit == Init => ShowInv
<1> SUFFICES ASSUME Init PROVE ShowInv
  OBVIOUS
<1> USE DEF Init, FetchInit
<1>1. 64 \in BufferSizes
  <2>1. 64 = 64 * 2^0
    BY FS_EmptySet, FS_SUBSET
  <2>2. 0 \in 0..Doublings
    BY DoublingsAssumption
  <2>3. QED
    BY <2>1, <2>2 DEF BufferSizes
<1>2. TypeOK
  <2>1. FetchTypeOK
    BY <1>1 DEF FetchTypeOK
  <2>2. left \in 0..MaxDecoded /\ {where, next} \subseteq {0}
    BY BoundAssumption
  <2>3. QED
    BY <2>1, <2>2 DEF TypeOK, HeaderTypes, PortTypes
<1>3. InBuffer
  BY DEF InBuffer
<1>4. script \in Scripts
  BY ScriptIs
<1>5. ReadInv /\ StageInv
  BY DEF ReadInv, StageInv
<1>6. QED
  BY <1>2, <1>3, <1>4, <1>5 DEF ShowInv

\* Bytes that are there can be looked at.
LEMMA LookIs ==
  ASSUME NEW bytes, NEW goOn, Look(bytes, goOn)
  PROVE  /\ pc' \in {goOn, "died"}
         /\ bytes \subseteq present' => pc' = goOn
BY DEF Look

\* The header's bytes, which every view of the header looks at.
LEMMA HeaderBytes ==
  ASSUME TypeOK, ReadInv
  PROVE  /\ 0..63 \subseteq present
         /\ cached >= 128 => 0..127 \subseteq present
         /\ TerseLooks \subseteq present /\ Subsystem \subseteq present
         /\ Htype0 \cup Htype1 \cup Htype2 \subseteq present
         /\ cached >= 128 => Htype2Rest \subseteq present
<1>1. cached \in {64, 128} /\ 0 .. cached - 1 \subseteq present
  BY DEF TypeOK, FetchTypeOK, ReadInv
<1>2. 0..63 \subseteq present /\ (cached >= 128 => 0..127 \subseteq present)
  BY <1>1
<1> USE DEF Byte, Word, Long, Longs
<1>3. \/ Subsystem \subseteq 0..63
      \/ cached >= 128 /\ Subsystem \subseteq 0..127
  BY DEF Subsystem
<1>4. UNION {Byte(8), Byte(9), Byte(14)} \subseteq 0..63
  OBVIOUS
<1>5. Htype0 \cup Htype1 \cup Htype2 \subseteq 0..63
  BY DEF Htype0, Htype1, Htype2, ShowBases, ShowRom
<1>6. Htype2Rest \subseteq 0..127
  BY DEF Htype2Rest
<1>7. Subsystem \subseteq present
  BY <1>2, <1>3
<1>8. TerseLooks \subseteq present
  BY <1>2, <1>4, <1>7 DEF TerseLooks
<1>9. QED
  BY <1>2, <1>5, <1>6, <1>7, <1>8

\* The end of the space is behind every capability.
LEMMA SpaceIs ==
  /\ SpaceEnd \in Nat /\ SpaceEnd >= 260
  /\ \A p \in StdPointers \cup ExtPointers : p \in Nat /\ p + 4 <= SpaceEnd
BY PointerAssumption, BoundAssumption

\* What changes nothing of what has been read but the place.
LEMMA HeaderStep ==
  ASSUME ShowInv,
         ReadHeader \/ Identify \/ SetupCache \/ FillInfo \/ NoDump
  PROVE  ShowInv'
<1> USE DEF ShowInv, TypeOK, FetchTypeOK, InBuffer, ReadInv, StageInv, Early,
            Pointers, fetchVars, walkVars
<1>1. CASE ReadHeader
  BY <1>1 DEF ReadHeader, HeaderTypes
<1>2. CASE Identify
  BY <1>2 DEF Identify
<1>3. CASE SetupCache
  BY <1>3 DEF SetupCache
<1>4. CASE FillInfo
  BY <1>4 DEF FillInfo
<1>5. CASE NoDump
  BY <1>5 DEF NoDump
<1>6. QED
  BY <1>1, <1>2, <1>3, <1>4, <1>5

\* A fetch that begins at a capability or in the header.
LEMMA FetchKeeps ==
  ASSUME ShowInv, NEW pos \in Nat, NEW len \in Nat,
         pos + len <= SpaceEnd + Reach,
         Fetched(pos, len) \/ FetchFailed(pos, len),
         size' = size, cached' \in {64, 128}, cache' \in {0} \cup BufferSizes
  PROVE  /\ FetchTypeOK' /\ InBuffer' /\ present \subseteq present'
         /\ 0 .. cached - 1 \subseteq present'
         /\ Fetched(pos, len) => pos .. pos + len - 1 \subseteq present'
<1>1. FetchTypeOK /\ InBuffer /\ 0 .. cached - 1 \subseteq present
  BY DEF ShowInv, TypeOK, ReadInv
<1>2. CASE Fetched(pos, len)
  BY <1>1, <1>2, FetchedIs DEF FetchTypeOK
<1>3. CASE FetchFailed(pos, len)
  <2>1. present' = present /\ bufsize' \in BufferSizes /\ InBuffer'
    BY <1>1, <1>3, FetchFailedIs
  <2>2. ~Fetched(pos, len) \/ pos .. pos + len - 1 \subseteq present'
    BY <1>1, FetchedIs
  <2>3. QED
    BY <1>1, <2>1, <2>2 DEF FetchTypeOK
<1>4. QED
  BY <1>2, <1>3

\* The rest of a CardBus header is read, or not.
LEMMA CardbusStep == ASSUME ShowInv, FetchCardbus PROVE ShowInv'
<1>1. /\ \/ Fetched(64, 64) /\ cached' = 128
         \/ FetchFailed(64, 64) /\ cached' = cached
      /\ pc' = "setup" /\ pc = "cardbus"
      /\ UNCHANGED <<size, cache, verbose, machine, htype>>
      /\ UNCHANGED <<list, where, next, script, been, canExt, type, left>>
  BY DEF FetchCardbus, walkVars
<1>2. cached' \in {64, 128} /\ cache' \in {0} \cup BufferSizes
  BY <1>1 DEF ShowInv, TypeOK, FetchTypeOK
<1>3. 64 + 64 <= SpaceEnd + Reach
  BY SpaceIs, ReachIs
<1>4. /\ FetchTypeOK' /\ InBuffer' /\ present \subseteq present'
      /\ 0 .. cached - 1 \subseteq present'
      /\ Fetched(64, 64) => 64 .. 127 \subseteq present'
  BY <1>1, <1>2, <1>3, FetchKeeps
<1>5. 0 .. cached' - 1 \subseteq present'
  <2>1. CASE cached' = cached
    BY <1>4, <2>1
  <2>2. CASE cached' # cached
    <3>1. cached \in {64, 128} /\ cached' = 128 /\ Fetched(64, 64)
      BY <1>1, <2>2 DEF ShowInv, TypeOK, FetchTypeOK
    <3>2. 0 .. 127 \subseteq (0 .. cached - 1) \cup (64 .. 127)
      BY <3>1
    <3>3. QED
      BY <1>4, <3>1, <3>2
  <2>3. QED
    BY <2>1, <2>2
<1>6. QED
  BY <1>1, <1>4, <1>5
  DEF ShowInv, TypeOK, ReadInv, StageInv, Early, Pointers

\* The views of the header look at its 64 bytes, or 128 if they were read.
LEMMA ShowStep ==
  ASSUME ShowInv, ShowTerse \/ ShowMachine \/ ShowVerbose \/ DumpHeader
  PROVE  ShowInv'
<1>1. /\ UNCHANGED <<size, present, bufsize, cached, cache>>
      /\ UNCHANGED <<verbose, machine, htype, list, where, next, script, been,
                     canExt, type, left>>
  BY DEF ShowTerse, ShowMachine, ShowVerbose, DumpHeader, fetchVars, walkVars
<1>2. \/ pc = "show" /\ pc' \in {"dump", "fill"}
      \/ pc = "dump" /\ pc' = "done"
  <2> USE DEF ShowInv
  <2>1. CASE ShowTerse
    BY <1>1, <2>1, HeaderBytes, LookIs DEF ShowTerse
  <2>2. CASE ShowMachine
    BY <1>1, <2>2, HeaderBytes, LookIs DEF ShowMachine, TerseLooks
  <2>3. CASE ShowVerbose
    <3>1. UNION {Word(4), Word(6), 12..15, Byte(61)} \subseteq 0..63
      BY DEF Word, Byte
    <3>2. QED
      BY <1>1, <2>3, <3>1, HeaderBytes, LookIs DEF ShowVerbose
  <2>4. CASE DumpHeader
    BY <1>1, <2>4, LookIs DEF DumpHeader, ReadInv
  <2>5. QED
    BY <2>1, <2>2, <2>3, <2>4
<1>3. QED
  BY <1>1, <1>2
  DEF ShowInv, TypeOK, FetchTypeOK, InBuffer, ReadInv, StageInv, Early,
      Pointers

\* So do the registers behind them.
LEMMA RegistersStep == ASSUME ShowInv, ShowRegisters PROVE ShowInv'
<1>1. /\ UNCHANGED <<size, present, bufsize, cached, cache>>
      /\ UNCHANGED <<verbose, machine, htype, list, next, script, been,
                     canExt, type, left>>
      /\ pc = "registers"
  BY DEF ShowRegisters, fetchVars
<1>2. htype \in {"normal", "bridge", "cardbus"} /\ list = "std" /\ next = 0
      /\ been = {} /\ cached \in {64, 128}
  BY <1>1 DEF ShowInv, TypeOK, FetchTypeOK, StageInv, HeaderTypes, Early
<1>3. /\ Word(6) \subseteq present
      /\ Htype0 \cup Htype1 \cup Htype2 \subseteq present
      /\ cached >= 128 => Htype2Rest \subseteq present
  <2>1. Word(6) \subseteq 0..63
    BY DEF Word
  <2>2. QED
    BY <2>1, HeaderBytes DEF ShowInv
<1>4. \/ pc' = "dump" /\ where' \in {where, 0}
      \/ pc' = "cap" /\ where' \in StdPointers
  <2>1. CASE htype = "cardbus" /\ cached < 128
    BY <1>1, <1>3, <2>1, LookIs DEF ShowRegisters
  <2>2. CASE ~(htype = "cardbus" /\ cached < 128)
    <3> DEFINE looks == Word(6) \cup CASE htype = "normal" -> Htype0
                                   [] htype = "bridge" -> Htype1
                                   [] htype = "cardbus" ->
                                        Htype2 \cup Htype2Rest
    <3>1. where' \in StdPointers \cup {0}
          /\ Look(looks, IF where' = 0 THEN "dump" ELSE "cap")
      BY <2>2 DEF ShowRegisters
    <3>2. looks \subseteq present
      BY <1>2, <1>3, <2>2
    <3> HIDE DEF looks
    <3>3. QED
      BY <1>1, <3>1, <3>2, LookIs
  <2>3. QED
    BY <2>1, <2>2
<1>5. QED
  BY <1>1, <1>2, <1>4
  DEF ShowInv, TypeOK, FetchTypeOK, InBuffer, ReadInv, StageInv, Early,
      Pointers

\* The walk goes on with the extended chain, or is over.
LEMMA LeaveIs ==
  ASSUME TypeOK, LeaveList
  PROVE  /\ \/ pc' = "cap" /\ list' = "ext" /\ where' = 256 /\ been' = {}
            \/ pc' = "dump" /\ list' = list /\ where' = 0 /\ been' = been
         /\ next' = 0 /\ script' = <<>>
         /\ UNCHANGED <<canExt, type, left>>
BY DEF LeaveList

\* What is left of the invariant when the walk goes on after a fetch.
LEMMA LeaveStep ==
  ASSUME ShowInv, pc \in {"cap", "decode"}, LeaveList, Stay, FetchTypeOK',
         InBuffer', 0 .. cached - 1 \subseteq present'
  PROVE  ShowInv'
<1>1. /\ \/ pc' = "cap" /\ list' = "ext" /\ where' = 256 /\ been' = {}
         \/ pc' = "dump" /\ list' = list /\ where' = 0 /\ been' = been
      /\ next' = 0 /\ script' = <<>>
      /\ UNCHANGED <<canExt, type, left>>
  BY LeaveIs DEF ShowInv
<1>2. UNCHANGED <<size, cached, cache, verbose, machine, htype>>
  BY DEF Stay
<1>3. TypeOK'
  BY <1>1, <1>2, PointerAssumption DEF ShowInv, TypeOK, Pointers
<1>4. script' \in Scripts
  BY <1>1, ScriptIs
<1>5. ReadInv' /\ StageInv'
  BY <1>1, <1>2 DEF ShowInv, ReadInv, StageInv, Early
<1>6. QED
  BY <1>3, <1>4, <1>5 DEF ShowInv

\* A decoder begins with a script of its own.
LEMMA ChooseStep ==
  ASSUME ShowInv, pc = "cap", NEW c \in Decoders, Choose(c), Stay,
         FetchTypeOK', InBuffer', 0 .. cached - 1 \subseteq present',
         where .. where + 3 \subseteq present'
  PROVE  ShowInv'
<1>1. UNCHANGED <<size, cached, cache, verbose, machine, htype>>
  BY DEF Stay
<1>2. /\ next' \in Pointers \cup {0} /\ script' = c.script
      /\ canExt' = (canExt \/ c.ext)
      /\ type' = (IF c.type = "none" THEN type ELSE c.type)
      /\ left' = (IF c.script = <<>> THEN left ELSE left - 1)
      /\ (c.script # <<>> => left > 0)
      /\ been' = been \cup {where} /\ pc' = "decode"
      /\ UNCHANGED <<list, where>>
  BY DEF Choose
<1>3. c.script \in Scripts /\ c.ext \in BOOLEAN /\ c.type \in PortTypes
  <2>1. c \in Decodings
    BY DecodersAre DEF ShowInv, TypeOK
  <2>2. QED
    BY <2>1 DEF Decodings
<1>4. left' \in 0..MaxDecoded
  BY <1>2, BoundAssumption DEF ShowInv, TypeOK
<1>5. TypeOK'
  <2>1. Pointers' = Pointers
    BY <1>2 DEF Pointers
  <2>2. Pointers \subseteq StdPointers \cup ExtPointers
    BY DEF Pointers
  <2>3. where \in Pointers /\ been \subseteq Pointers
    BY DEF ShowInv, TypeOK
  <2>4. canExt' \in BOOLEAN /\ type' \in PortTypes
    BY <1>2, <1>3 DEF ShowInv, TypeOK
  <2> HIDE DEF Pointers
  <2>5. QED
    BY <1>1, <1>2, <1>4, <2>1, <2>2, <2>3, <2>4 DEF ShowInv, TypeOK
<1>6. ReadInv' /\ StageInv'
  BY <1>1, <1>2 DEF ShowInv, ReadInv, StageInv, Early
<1>7. QED
  BY <1>2, <1>3, <1>5, <1>6 DEF ShowInv

\* Where a capability is, its header can be fetched.
LEMMA WhereIs ==
  ASSUME TypeOK, pc \in {"cap", "decode"}
  PROVE  where \in Nat /\ where + 4 <= SpaceEnd /\ where \in Pointers
BY SpaceIs DEF TypeOK

\* One round of the loop over a chain.
LEMMA CapHeaderStep == ASSUME ShowInv, CapHeader PROVE ShowInv'
<1>1. pc = "cap" /\ Stay
      /\ \/ (FetchFailed(where, 4) \/ Fetched(where, 4)) /\ LeaveList
         \/ Fetched(where, 4) /\ \E c \in Decoders : Choose(c)
  BY DEF CapHeader
<1>2. where \in Nat /\ where + 4 <= SpaceEnd + Reach
  BY <1>1, WhereIs, SpaceIs, ReachIs DEF ShowInv
<1>3. size' = size /\ cached' \in {64, 128} /\ cache' \in {0} \cup BufferSizes
  BY <1>1 DEF Stay, ShowInv, TypeOK, FetchTypeOK
<1>4. /\ FetchTypeOK' /\ InBuffer' /\ 0 .. cached - 1 \subseteq present'
      /\ Fetched(where, 4) => where .. where + 4 - 1 \subseteq present'
  BY <1>1, <1>2, <1>3, FetchKeeps
<1>5. where .. where + 4 - 1 = where .. where + 3
  BY <1>2
<1>6. CASE LeaveList
  BY <1>1, <1>4, <1>6, LeaveStep
<1>7. CASE Fetched(where, 4) /\ \E c \in Decoders : Choose(c)
  BY <1>1, <1>4, <1>5, <1>7, ChooseStep
<1>8. QED
  BY <1>1, <1>6, <1>7

\* The end of a round.
LEMMA NextCapStep == ASSUME ShowInv, NextCap PROVE ShowInv'
<1>1. pc = "decode" /\ Stay /\ UNCHANGED <<present, bufsize>>
  BY DEF NextCap
<1>2. UNCHANGED <<size, present, bufsize, cached, cache, verbose, machine,
                  htype>>
  BY <1>1 DEF Stay
<1>3. FetchTypeOK' /\ InBuffer' /\ 0 .. cached - 1 \subseteq present'
  BY <1>2 DEF ShowInv, TypeOK, FetchTypeOK, InBuffer, ReadInv
<1>4. CASE next = 0
  BY <1>1, <1>3, <1>4, LeaveStep DEF NextCap
<1>5. CASE next # 0
  <2>1. /\ where' = next /\ pc' = "cap"
        /\ UNCHANGED <<list, next, script, been, canExt, type, left>>
    BY <1>5 DEF NextCap
  <2>2. TypeOK'
    BY <1>1, <1>2, <1>3, <1>5, <2>1 DEF ShowInv, TypeOK, Pointers
  <2>3. ReadInv' /\ StageInv'
    BY <1>1, <1>2, <1>3, <2>1 DEF ShowInv, ReadInv, StageInv, Early
  <2>4. QED
    BY <1>3, <2>1, <2>2, <2>3 DEF ShowInv
<1>6. QED
  BY <1>4, <1>5

\* A decoder looks only at what its own fetch, or that of the header, has
\* read.
LEMMA DecodeStep == ASSUME ShowInv, Decode PROVE ShowInv'
<1> DEFINE s == Head(script)
           pos == where + s.pos
<1>1. pc = "decode" /\ script # <<>> /\ Stay
      /\ UNCHANGED <<list, where, next, been, canExt, type, left>>
      /\ \/ /\ Fetched(pos, s.len)
            /\ Look({where + x : x \in s.looks}, "decode")
            /\ script' = Tail(script)
         \/ /\ FetchFailed(pos, s.len)
            /\ script' = (IF s.goOn THEN Tail(script) ELSE <<>>)
            /\ pc' = pc
  BY Zenon DEF Decode
<1>2. UNCHANGED <<size, cached, cache, verbose, machine, htype>>
  BY <1>1 DEF Stay
<1>3. s \in Steps /\ Tail(script) \in Scripts
  BY <1>1 DEF ShowInv, Scripts
<1>4. /\ s.pos \in Nat /\ s.len \in Nat /\ s.looks \in SUBSET Nat
      /\ s.pos + s.len <= Reach
      /\ LongEnough => s.looks \subseteq Inside(s.pos, s.len)
  BY <1>3 DEF Steps
<1>5. where \in Nat /\ where + 4 <= SpaceEnd
  BY <1>1, WhereIs DEF ShowInv
<1> HIDE DEF s
<1>6. pos \in Nat /\ pos + s.len <= SpaceEnd + Reach
  BY <1>4, <1>5, SpaceIs, ReachIs
<1>7. cached' \in {64, 128} /\ cache' \in {0} \cup BufferSizes
  BY <1>2 DEF ShowInv, TypeOK, FetchTypeOK
<1> HIDE DEF pos
<1>8. /\ FetchTypeOK' /\ InBuffer' /\ present \subseteq present'
      /\ 0 .. cached - 1 \subseteq present'
      /\ Fetched(pos, s.len) => pos .. pos + s.len - 1 \subseteq present'
  BY <1>1, <1>2, <1>4, <1>6, <1>7, FetchKeeps
<1>9. where .. where + 3 \subseteq present'
  BY <1>1, <1>8 DEF ShowInv, ReadInv
<1>10. pc' \in {"decode", "died"} /\ (LongEnough => pc' = "decode")
  <2>1. CASE FetchFailed(pos, s.len) /\ pc' = pc
    BY <1>1, <2>1
  <2>2. CASE /\ Fetched(pos, s.len)
             /\ Look({where + x : x \in s.looks}, "decode")
    <3>1. ASSUME LongEnough
          PROVE  {where + x : x \in s.looks} \subseteq present'
      <4>1. ASSUME NEW x \in s.looks PROVE where + x \in present'
        <5>1. x \in Nat /\ x \in Inside(s.pos, s.len)
          BY <1>4, <3>1
        <5>2. CASE x \in 0..3
          BY <1>5, <1>9, <5>2
        <5>3. CASE x \in s.pos .. s.pos + s.len - 1
          <6>1. where + x \in pos .. pos + s.len - 1
            BY <1>4, <1>5, <5>3 DEF pos
          <6>2. QED
            BY <1>8, <2>2, <6>1
        <5>4. QED
          BY <5>1, <5>2, <5>3 DEF Inside
      <4>2. QED
        BY <4>1
    <3>2. QED
      BY <2>2, <3>1, LookIs
  <2>3. QED
    BY <1>1, <2>1, <2>2
<1>11. script' \in Scripts
  BY <1>1, <1>3, ScriptIs
<1>12. TypeOK'
  BY <1>1, <1>2, <1>8, <1>10 DEF ShowInv, TypeOK, Pointers
<1>13. ReadInv' /\ StageInv'
  BY <1>1, <1>2, <1>8, <1>9, <1>10 DEF ReadInv, StageInv, Early
<1>14. QED
  BY <1>8, <1>11, <1>12, <1>13 DEF ShowInv

\* A dump shows as much as could be read.
LEMMA DumpStep ==
  ASSUME ShowInv, DumpStandard \/ DumpExtended PROVE ShowInv'
<1>1. /\ Stay /\ pc \in {"dump", "dump4"}
      /\ UNCHANGED <<list, where, next, script, been, canExt, type, left>>
  BY DEF DumpStandard, DumpExtended, walkVars
<1>2. UNCHANGED <<size, cached, cache, verbose, machine, htype>>
  BY <1>1 DEF Stay
<1>3. /\ cached' \in {64, 128} /\ cache' \in {0} \cup BufferSizes
      /\ cached \in {64, 128}
  BY <1>2 DEF ShowInv, TypeOK, FetchTypeOK
<1>4. /\ FetchTypeOK' /\ InBuffer' /\ 0 .. cached - 1 \subseteq present'
      /\ pc' \in {"dump4", "done"}
      /\ pc' = "dump4" => 0..255 \subseteq present'
  <2>1. CASE DumpStandard
    <3>1. cached \in Nat /\ 256 - cached \in Nat
          /\ cached + (256 - cached) <= SpaceEnd + Reach
          /\ cached .. cached + (256 - cached) - 1 = cached .. 255
          /\ 0..255 = (0 .. cached - 1) \cup (cached .. 255)
      BY <1>3, SpaceIs, ReachIs
    <3>2. Fetched(cached, 256 - cached) \/ FetchFailed(cached, 256 - cached)
      BY <2>1 DEF DumpStandard
    <3>3. /\ FetchTypeOK' /\ InBuffer' /\ 0 .. cached - 1 \subseteq present'
          /\ Fetched(cached, 256 - cached) => cached .. 255 \subseteq present'
      BY <1>2, <1>3, <3>1, <3>2, FetchKeeps
    <3>4. Fetched(cached, 256 - cached) => 0..255 \subseteq present'
      BY <3>1, <3>3
    <3>5. /\ pc' \in {"dump4", "done"}
          /\ pc' = "dump4" => 0..255 \subseteq present'
      <4>1. CASE Fetched(cached, 256 - cached) /\ pc' = "dump4"
        BY <3>4, <4>1
      <4>2. CASE Fetched(cached, 256 - cached) /\ Look(0..255, "done")
        BY <3>4, <4>2, LookIs
      <4>3. CASE Look(0 .. cached - 1, "done")
        <5>1. 0 .. cached - 1 \subseteq present'
          BY <3>3, Zenon
        <5>2. pc' = "done"
          BY <4>3, <5>1, Zenon DEF Look
        <5>3. QED
          BY <5>2
      <4>4. \/ Fetched(cached, 256 - cached) /\ pc' = "dump4"
            \/ Fetched(cached, 256 - cached) /\ Look(0..255, "done")
            \/ Look(0 .. cached - 1, "done")
        BY <2>1, Zenon DEF DumpStandard
      <4>5. QED
        BY <4>1, <4>2, <4>3, <4>4, Zenon
    <3>6. QED
      BY <3>3, <3>5
  <2>2. CASE DumpExtended
    <3> DEFINE len == SpaceEnd - 256
               from == 256
    <3>1. from \in Nat /\ len \in Nat /\ from + len <= SpaceEnd + Reach
          /\ from .. from + len - 1 = 256 .. SpaceEnd - 1
          /\ 0 .. SpaceEnd - 1 = (0..255) \cup (256 .. SpaceEnd - 1)
      BY SpaceIs, ReachIs
    <3>2. pc = "dump4" /\ 0..255 \subseteq present
          /\ \/ Fetched(from, len) /\ Look(0 .. SpaceEnd - 1, "done")
             \/ FetchFailed(from, len) /\ Look(0..255, "done")
      BY <2>2 DEF DumpExtended, ShowInv, ReadInv
    <3>7. Fetched(from, len) \/ FetchFailed(from, len)
      BY <3>2, Zenon
    <3> HIDE DEF len, from
    <3>3. /\ FetchTypeOK' /\ InBuffer' /\ 0 .. cached - 1 \subseteq present'
          /\ present \subseteq present'
          /\ Fetched(from, len) => from .. from + len - 1 \subseteq present'
      BY <1>2, <1>3, <3>1, <3>7, FetchKeeps
    <3>4. /\ 0..255 \subseteq present'
          /\ Fetched(from, len) => 0 .. SpaceEnd - 1 \subseteq present'
      <4>1. 0..255 \subseteq present'
        BY <3>2, <3>3
      <4>2. ASSUME Fetched(from, len)
            PROVE  0 .. SpaceEnd - 1 \subseteq present'
        BY <3>1, <3>3, <4>1, <4>2, Zenon
      <4>3. QED
        BY <4>1, <4>2
    <3>5. pc' = "done"
      BY <3>2, <3>4, LookIs
    <3>6. QED
      BY <3>3, <3>5
  <2>3. QED
    BY <2>1, <2>2
<1>5. TypeOK'
  BY <1>1, <1>2, <1>4 DEF ShowInv, TypeOK, Pointers
<1>6. ReadInv' /\ StageInv'
  BY <1>1, <1>2, <1>4 DEF ReadInv, StageInv, Early
<1>7. QED
  BY <1>1, <1>4, <1>5, <1>6 DEF ShowInv

\* Every step of lspcie keeps the invariant.
LEMMA ShowInvNext == ShowInv /\ [Next]_dvars => ShowInv'
<1> SUFFICES ASSUME ShowInv, [Next]_dvars PROVE ShowInv'
  OBVIOUS
<1>1. CASE Next
  BY <1>1, HeaderStep, CardbusStep, ShowStep, RegistersStep, CapHeaderStep,
     DecodeStep, NextCapStep, DumpStep DEF Next
<1>2. CASE UNCHANGED dvars
  BY <1>2 DEF dvars, fetchVars, showVars, walkVars, ShowInv, TypeOK,
    FetchTypeOK, InBuffer, ReadInv, StageInv, Pointers
<1>3. QED
  BY <1>1, <1>2

\* So it always holds.
LEMMA ShowInvHolds == Spec => []ShowInv
BY ShowInit, ShowInvNext, PTL DEF Spec

\* Every variable of one function's display keeps its type: positions of
\* capabilities stay in their chain (show_caps(), show_ext_caps()).
THEOREM ShowTypes == Spec => []TypeOK
<1>1. ShowInv => TypeOK
  BY DEF ShowInv
<1>2. QED
  BY <1>1, ShowInvHolds, PTL

\* However often config_fetch() resizes the buffer, what d->present says has
\* been read lies inside it, and pci_fill_info() never reads through a buffer
\* that has been given up since pci_setup_cache().
THEOREM BufferStays == Spec => []BufferOK
<1>1. ShowInv => BufferOK
  BY DEF ShowInv, BufferOK, CacheAlive, StageInv
<1>2. QED
  BY <1>1, ShowInvHolds, PTL

\* Where entries of Enhanced Allocation are as long as their flags say, no
\* contents of the registers and no failing fetch makes check_conf_range() stop
\* lspcie.
THEOREM NeverDies == ASSUME LongEnough PROVE Spec => []NoInternalBug
<1>1. ShowInv => NoInternalBug
  BY DEF ShowInv, NoInternalBug, StageInv
<1>2. QED
  BY <1>1, ShowInvHolds, PTL
=============================================================================
