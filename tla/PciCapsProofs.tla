--------------------------- MODULE PciCapsProofs ---------------------------
(***************************************************************************)
(* What PciCaps guarantees for every device, every configuration space,    *)
(* every heap and any interference of the hardware.                        *)
(***************************************************************************)
EXTENDS PciCaps, FiniteSetTheorems, FunctionTheorems, WellFoundedInduction,
        TLAPS

\* Induction over the numbers, and over those up to a bound.
LEMMA NatSetInduction ==
  ASSUME NEW S \in SUBSET Nat, 0 \in S, \A n \in S : n + 1 \in S
  PROVE  \A n \in Nat : n \in S
<1> DEFINE R == OpToRel(<, Nat)
           T == {n \in Nat : n \notin S}
<1>1. \A x, y \in Nat : <<x, y>> \in R <=> x < y
  BY DEF OpToRel
<1>2. IsWellFoundedOn(R, Nat)
  BY NatLessThanWellFounded
<1> HIDE DEF R
<1>3. SUFFICES ASSUME T # {} PROVE FALSE
  OBVIOUS
<1>4. PICK n \in T : \A m \in T : ~(<<m, n>> \in R)
  BY <1>2, <1>3, WFMin
<1>5. n # 0 /\ n - 1 \in Nat /\ n - 1 < n
  BY <1>4
<1>6. n - 1 \in S
  BY <1>1, <1>4, <1>5
<1>7. QED
  BY <1>4, <1>5, <1>6

LEMMA BoundedInduction ==
  ASSUME NEW N \in Nat, NEW S, 0 \in S,
         \A n \in 0..(N - 1) : n \in S => n + 1 \in S
  PROVE  \A n \in 0..N : n \in S
<1> DEFINE T == {n \in Nat : n <= N => n \in S}
<1>1. 0 \in T
  OBVIOUS
<1>2. \A n \in T : n + 1 \in T
  OBVIOUS
<1>3. \A n \in Nat : n \in T
  <2> HIDE DEF T
  <2>1. T \in SUBSET Nat
    BY DEF T
  <2>2. QED
    BY <1>1, <1>2, <2>1, NatSetInduction
<1>4. QED
  BY <1>3

\* pci_add_cap() keeps heap cells well-typed and links the new cell last.
LEMMA AddCapTypes ==
  ASSUME TypeOK,
         NEW c \in Cells, NEW addr \in Addr, NEW id \in CapIds,
         NEW type \in {NORMAL, EXTENDED},
         AddCap(c, addr, id, type)
  PROVE  /\ heap' \in [Cells -> Cap]
         /\ live' \subseteq Cells
         /\ {first', last'} \subseteq Cells \cup {NULL}
         /\ order' \in Seq(Cells)
<1>1. heap' \in [Cells -> Cap]
  <2>1. [addr |-> addr, id |-> id, type |-> type, next |-> NULL] \in Cap
    BY DEF Cap
  <2>2. ASSUME NEW x \in Cells
        PROVE  [heap[x] EXCEPT !.next = c] \in Cap
    BY DEF TypeOK, Cap
  <2>3. QED
    BY <2>1, <2>2 DEF TypeOK, AddCap
<1>2. QED
  BY <1>1 DEF TypeOK, AddCap

\* The configuration space hands the scanners positions and identifiers only.
LEMMA ConfigTypes ==
  ASSUME TypeOK
  PROVE  /\ cfg.head \in TradAddr \cup {0}
         /\ \A a \in TradAddr : /\ cfg.trad[a].id \in CapIds
                                /\ cfg.trad[a].next \in TradAddr \cup {0}
         /\ \A a \in ExtAddr : /\ cfg.ext[a].id \in CapIds
                               /\ cfg.ext[a].next \in ExtAddr \cup {0}
BY ConfigsAssumption DEF TypeOK, ConfigSpace

\* What pci_find_cap_nr() returns is a cell or NULL, and a count.
LEMMA FindTypes ==
  ASSUME TypeOK, NEW query
  PROVE  FindInList(query) \in [found : Cells \cup {NULL}, count : Nat]
<1> DEFINE hits == Matches(query.id, query.type)
           isNr(n) == Cardinality({m \in hits : m < n}) = query.nr
<1>1. Cardinality(Cells) \in Nat
  BY CellsAssumption, FS_CardinalityType
<1>2. Cardinality(hits) \in Nat
  <2>1. IsFiniteSet(0..Cardinality(Cells))
    BY <1>1, FS_Interval
  <2>2. hits \subseteq 0..Cardinality(Cells)
    BY DEF Matches
  <2>3. QED
    BY <2>1, <2>2, FS_Subset, FS_CardinalityType
<1>3. \A n \in hits : Nth[n] \in Cells
  BY DEF Matches
<1>4. ASSUME \E n \in hits : isNr(n)
      PROVE  Nth[CHOOSE n \in hits : isNr(n)] \in Cells
  <2> DEFINE m == CHOOSE n \in hits : isNr(n)
  <2>1. m \in hits
    BY <1>4
  <2> HIDE DEF m
  <2>2. Nth[m] \in Cells
    BY <1>3, <2>1
  <2>3. QED
    BY <2>2 DEF m
<1>5. QED
  BY <1>2, <1>4 DEF FindInList

(***************************************************************************)
(* Type correctness.                                                       *)
(***************************************************************************)
LEMMA TypeInit == Init => TypeOK
<1>1. Blank \in Cap
  BY IdAssumption DEF Blank, Cap
<1>2. [kind |-> "free", flags |-> {}] \in Ops
  BY DEF Ops
<1>3. [found |-> NULL, count |-> 0] \in [found : Cells \cup {NULL}, count : Nat]
  OBVIOUS
<1>4. ASSUME Init PROVE TypeOK
  <2>1. heap \in [Cells -> Cap] /\ order \in Seq(Cells)
    BY <1>1, <1>4 DEF Init
  <2>2. op \in Ops /\ ret \in [found : Cells \cup {NULL}, count : Nat]
    BY <1>2, <1>3, <1>4 DEF Init
  <2>3. known \subseteq Flags /\ want \subseteq Flags /\ seen \subseteq Addr
    BY <1>4 DEF Init
  <2>4. pc = "idle" /\ live = {} /\ where = 0 /\ nested = FALSE
    BY <1>4 DEF Init
  <2>5. cfg \in Configs /\ {first, last} \subseteq Cells \cup {NULL}
    BY <1>4 DEF Init
  <2>6. QED
    BY <2>1, <2>2, <2>3, <2>4, <2>5 DEF TypeOK
<1>5. QED
  BY <1>4

\* The steps of the clients, of the hardware and of pci_fill_info().
LEMMA TypeClient ==
  ASSUME TypeOK, Client \/ HwChange
  PROVE  TypeOK'
<1>1. CASE HwChange
  BY <1>1, ConfigsAssumption DEF TypeOK, HwChange, dev, scan
<1>2. ASSUME NEW flags \in Requests, FillInfo(flags)
      PROVE  TypeOK'
  BY <1>2 DEF TypeOK, FillInfo, dev, scan, Ops
<1>3. ASSUME NEW query \in Queries, FindCap(query)
      PROVE  TypeOK'
  <2>1. op' \in Ops
    BY <1>3 DEF FindCap, Ops
  <2>2. QED
    BY <1>3, <2>1 DEF TypeOK, FindCap, dev, scan
<1>4. CASE FreeDev
  BY <1>4 DEF TypeOK, FreeDev, dev, scan, Ops
<1>5. QED
  BY <1>1, <1>2, <1>3, <1>4, TypeOK, Client \/ HwChange DEF Client

LEMMA OpFlags == ASSUME TypeOK PROVE op.flags \subseteq Flags
BY FlagsAssumption DEF TypeOK, Ops, Flags

LEMMA TypeLibrary ==
  ASSUME TypeOK, Library
  PROVE  TypeOK'
<1>1. CASE FreeNext
  <2>1. first \in Cells
    BY <1>1 DEF FreeNext, TypeOK
  <2>2. Blank \in Cap
    BY IdAssumption DEF Blank, Cap
  <2>3. heap' \in [Cells -> Cap]
    BY <1>1, <2>2 DEF FreeNext, TypeOK
  <2>4. first' \in Cells \cup {NULL}
    BY <1>1, <2>1 DEF FreeNext, TypeOK, Cap
  <2>5. order' \in Seq(Cells)
    BY <1>1 DEF FreeNext, TypeOK
  <2>6. QED
    BY <1>1, <2>3, <2>4, <2>5 DEF FreeNext, TypeOK, scan
<1>2. CASE FreeDone
  BY <1>2 DEF FreeDone, TypeOK, scan
<1>3. CASE Fill
  BY <1>3, OpFlags, FlagsAssumption DEF Fill, TypeOK, dev, Flags
<1>4. CASE ReadStatus
  BY <1>4, ConfigTypes DEF ReadStatus, AfterTrad, TypeOK, dev, Addr
<1>5. CASE TradStop
  BY <1>5 DEF TradStop, AfterTrad, TypeOK, dev, scan
<1>6. CASE TradNext
  <2>1. where \in TradAddr
    BY <1>6 DEF TradNext, TypeOK
  <2>2. PICK c \in Cells : AddCap(c, where, cfg.trad[where].id, NORMAL)
    BY <1>6 DEF TradNext
  <2>3. /\ heap' \in [Cells -> Cap]
        /\ live' \subseteq Cells
        /\ {first', last'} \subseteq Cells \cup {NULL}
        /\ order' \in Seq(Cells)
    BY <2>1, <2>2, AddCapTypes, ConfigTypes DEF Addr
  <2>4. QED
    BY <1>6, <2>1, <2>3, ConfigTypes DEF TradNext, AfterTrad, TypeOK, Addr
<1>7. CASE FindExpress
  BY <1>7, AddrAssumption DEF FindExpress, TypeOK, dev, Addr
<1>8. CASE ExtStop
  BY <1>8 DEF ExtStop, TypeOK, dev, scan
<1>9. CASE ExtNext
  <2>1. where \in ExtAddr
    BY <1>9 DEF ExtNext, TypeOK
  <2>2. PICK c \in Cells : AddCap(c, where, cfg.ext[where].id, EXTENDED)
    BY <1>9 DEF ExtNext
  <2>3. /\ heap' \in [Cells -> Cap]
        /\ live' \subseteq Cells
        /\ {first', last'} \subseteq Cells \cup {NULL}
        /\ order' \in Seq(Cells)
    BY <2>1, <2>2, AddCapTypes, ConfigTypes DEF Addr
  <2>4. QED
    BY <1>9, <2>1, <2>3, ConfigTypes DEF ExtNext, TypeOK, Addr
<1>10. CASE OutOfMemory
  BY <1>10 DEF OutOfMemory, TypeOK, dev, scan
<1>11. CASE ScanReturn
  BY <1>11 DEF ScanReturn, TypeOK, dev, Flags
<1>12. CASE Return
  BY <1>12, FindTypes DEF Return, TypeOK, dev, scan
<1>13. QED
  BY <1>1, <1>2, <1>3, <1>4, <1>5, <1>6, <1>7, <1>8, <1>9, <1>10, <1>11,
     <1>12, Library DEF Library

\* Type correctness: the scanners never follow a link out of the positions of
\* their own list, pointers are cells or NULL, and known_fields holds flags.
THEOREM TypeCorrect == Spec => []TypeOK
<1>1. TypeOK /\ [Next]_vars => TypeOK'
  <2> SUFFICES ASSUME TypeOK, [Next]_vars PROVE TypeOK'
    OBVIOUS
  <2>1. CASE UNCHANGED vars
    BY <2>1 DEF vars, dev, scan, TypeOK
  <2>2. QED
    BY <2>1, TypeClient, TypeLibrary DEF Next
<1>2. QED
  BY <1>1, TypeInit, PTL DEF Spec

(***************************************************************************)
(* The capability list, as long as no client uses PCI_FILL_RESCAN.  The    *)
(* inductive invariant adds that pci_free_caps() then runs only for        *)
(* pci_free_dev(), which is why last_cap may be left behind.               *)
(***************************************************************************)
ListInv == ListOK /\ (pc = "free" => op.kind = "free")

NoRescan == \A flags \in Requests : RESCAN \notin flags

\* Linking a cell at the tail: the list gets longer by that cell.
LEMMA AddCapList ==
  ASSUME TypeOK, ListOK, pc # "free",
         NEW c \in Cells, NEW addr, NEW id, NEW type,
         AddCap(c, addr, id, type)
  PROVE  ListOK'
<1> DEFINE n == Len(order)
<1>1. /\ order \in Seq(Cells) /\ n \in Nat
      /\ \A i \in 1..n : order[i] \in Cells /\ order[i] \in live
      /\ c \notin live
  BY DEF TypeOK, ListOK, AddCap
<1>2. /\ order' = Append(order, c)
      /\ Len(order') = n + 1
      /\ order'[n + 1] = c
      /\ \A i \in 1..n : order'[i] = order[i]
      /\ order' # <<>>
  BY <1>1 DEF AddCap
<1>3. (live = {order[i] : i \in 1..Len(order)})'
  BY <1>1, <1>2 DEF ListOK, AddCap
<1>4. (\A i, j \in 1..Len(order) : order[i] = order[j] => i = j)'
  <2> SUFFICES ASSUME NEW i \in 1..(n + 1), NEW j \in 1..(n + 1),
                      order'[i] = order'[j]
               PROVE  i = j
    BY <1>2
  <2>1. CASE i \in 1..n /\ j \in 1..n
    BY <1>2, <2>1 DEF ListOK
  <2>2. CASE i = n + 1 \/ j = n + 1
    BY <1>1, <1>2, <2>2
  <2>3. QED
    BY <1>1, <2>1, <2>2
<1>5. (first = IF order = <<>> THEN NULL ELSE order[1])'
  <2>1. CASE order = <<>>
    <3>1. n = 0 /\ last = NULL
      BY <2>1 DEF ListOK
    <3>2. QED
      BY <1>2, <3>1 DEF AddCap
  <2>2. CASE order # <<>>
    <3>1. n > 0 /\ last = order[n]
      BY <1>1, <2>2 DEF ListOK
    <3>2. last # NULL
      BY <1>1, <3>1, CellsAssumption
    <3>3. first' = order[1] /\ order'[1] = order[1]
      BY <1>1, <1>2, <2>2, <3>1, <3>2 DEF AddCap, ListOK
    <3>4. QED
      BY <1>2, <3>3
  <2>3. QED
    BY <2>1, <2>2
<1>6. (\A i \in 1..Len(order) :
         heap[order[i]].next = IF i = Len(order) THEN NULL ELSE order[i + 1])'
  <2> SUFFICES ASSUME NEW i \in 1..(n + 1)
               PROVE  heap'[order'[i]].next =
                        IF i = n + 1 THEN NULL ELSE order'[i + 1]
    BY <1>2
  <2>1. CASE i = n + 1
    BY <1>1, <1>2, <2>1 DEF AddCap
  <2>2. CASE i \in 1..n
    <3>1. order'[i] = order[i] /\ order[i] \in Cells /\ order[i] # c
      BY <1>1, <1>2, <2>2
    <3>2. last = order[n]
      BY <1>1, <2>2 DEF ListOK
    <3>3. CASE i = n
      <4>1. heap'[order[i]] = [heap[last] EXCEPT !.next = c]
        BY <3>1, <3>2, <3>3 DEF AddCap
      <4>2. heap[last] \in Cap
        BY <3>1, <3>2, <3>3 DEF TypeOK
      <4>3. heap'[order[i]].next = c
        BY <4>1, <4>2 DEF Cap
      <4>4. QED
        BY <1>1, <1>2, <3>1, <3>3, <4>3
    <3>4. CASE i # n
      <4>1. order[i] # last
        BY <1>1, <2>2, <3>2, <3>4 DEF ListOK
      <4>2. heap'[order[i]] = heap[order[i]]
        BY <3>1, <4>1 DEF AddCap
      <4>3. heap[order[i]].next = order[i + 1] /\ i + 1 \in 1..n
        BY <1>1, <2>2, <3>4 DEF ListOK
      <4>4. QED
        BY <1>1, <1>2, <2>2, <3>1, <3>4, <4>2, <4>3
    <3>5. QED
      BY <3>3, <3>4
  <2>3. QED
    BY <1>1, <2>1, <2>2
<1>7. last' = order'[Len(order')]
  BY <1>2 DEF AddCap
<1>8. QED
  BY <1>2, <1>3, <1>4, <1>5, <1>6, <1>7 DEF ListOK

\* An iteration of pci_free_caps() takes the head off the list.
LEMMA FreeNextList ==
  ASSUME TypeOK, ListOK, FreeNext
  PROVE  ListOK'
<1> DEFINE n == Len(order)
<1>1. order # <<>> /\ first = order[1] /\ pc = "free" /\ pc' = "free"
  BY DEF FreeNext, ListOK
<1>2. /\ order \in Seq(Cells) /\ n \in Nat \ {0}
      /\ \A i \in 1..n : order[i] \in Cells
      /\ order[1] \in Cells
  BY <1>1 DEF TypeOK
<1>3. /\ order' = Tail(order)
      /\ Len(order') = n - 1
      /\ \A i \in 1..(n - 1) : order'[i] = order[i + 1]
  BY <1>1, <1>2 DEF FreeNext
<1>4. order' = <<>> <=> n = 1
  BY <1>2, <1>3
<1>5. \A i \in 2..n : order[i] # order[1]
  BY <1>2 DEF ListOK
<1>6. (live = {order[i] : i \in 1..Len(order)})'
  <2>1. live = {order[i] : i \in 1..n}
    BY DEF ListOK
  <2>2. live' = {order[i] : i \in 2..n}
    BY <1>1, <1>2, <1>5, <2>1 DEF FreeNext
  <2>3. {order[i] : i \in 2..n} = {order'[i] : i \in 1..(n - 1)}
    <3>1. ASSUME NEW i \in 2..n
          PROVE  i - 1 \in 1..(n - 1) /\ order'[i - 1] = order[i]
      BY <1>2, <1>3
    <3>2. ASSUME NEW i \in 1..(n - 1)
          PROVE  i + 1 \in 2..n /\ order'[i] = order[i + 1]
      BY <1>2, <1>3
    <3>3. QED
      BY <3>1, <3>2
  <2>4. QED
    BY <1>3, <2>2, <2>3
<1>7. (\A i, j \in 1..Len(order) : order[i] = order[j] => i = j)'
  <2> SUFFICES ASSUME NEW i \in 1..(n - 1), NEW j \in 1..(n - 1),
                      order'[i] = order'[j]
               PROVE  i = j
    BY <1>3
  <2>1. i + 1 \in 1..n /\ j + 1 \in 1..n
    BY <1>2
  <2>2. order[i + 1] = order[j + 1]
    BY <1>3
  <2>3. i + 1 = j + 1
    BY <2>1, <2>2 DEF ListOK
  <2>4. QED
    BY <1>2, <2>3
<1>8. (first = IF order = <<>> THEN NULL ELSE order[1])'
  <2>1. first' = heap[order[1]].next
    BY <1>1 DEF FreeNext
  <2>2. 1 \in 1..n /\ 1 + 1 = 2
    BY <1>2
  <2>3. heap[order[1]].next = IF 1 = n THEN NULL ELSE order[1 + 1]
    BY <2>2 DEF ListOK
  <2>4. n # 1 => order'[1] = order[1 + 1]
    BY <1>2, <1>3
  <2>5. QED
    BY <1>2, <1>3, <1>4, <2>1, <2>3, <2>4
<1>9. (\A i \in 1..Len(order) :
         heap[order[i]].next = IF i = Len(order) THEN NULL ELSE order[i + 1])'
  <2> SUFFICES ASSUME NEW i \in 1..(n - 1)
               PROVE  heap'[order'[i]].next =
                        IF i = n - 1 THEN NULL ELSE order'[i + 1]
    BY <1>3
  <2>1. i + 1 \in 2..n /\ i + 1 \in 1..n /\ order'[i] = order[i + 1]
    BY <1>2, <1>3
  <2>2. heap'[order[i + 1]] = heap[order[i + 1]]
    BY <1>1, <1>2, <1>5, <2>1 DEF FreeNext
  <2>3. heap[order[i + 1]].next = IF i + 1 = n THEN NULL
                                  ELSE order[(i + 1) + 1]
    BY <1>2, <2>1 DEF ListOK
  <2>4. i # n - 1 => order'[i + 1] = order[(i + 1) + 1]
    <3>1. i # n - 1 => i + 1 \in 1..(n - 1)
      BY <1>2
    <3>2. QED
      BY <1>3, <3>1
  <2>5. QED
    BY <1>2, <2>1, <2>2, <2>3, <2>4
<1>10. (IF order = <<>> THEN pc = "free" \/ last = NULL
                       ELSE last = order[Len(order)])'
  <2>1. last' = order[n]
    BY <1>1 DEF FreeNext, ListOK
  <2>2. QED
    BY <1>1, <1>2, <1>3, <1>4, <2>1
<1>11. QED
  BY <1>6, <1>7, <1>8, <1>9, <1>10 DEF ListOK

\* Steps that leave the heap alone and do not end pci_free_caps().
LEMMA ListUntouched ==
  ASSUME ListOK, UNCHANGED dev, pc # "free"
  PROVE  ListOK'
BY DEF ListOK, dev

LEMMA ListStep ==
  ASSUME NoRescan, TypeOK, ListInv, [Next]_vars
  PROVE  ListInv'
<1> USE DEF ListInv
<1>1. CASE UNCHANGED vars
  BY <1>1 DEF vars, dev, ListOK
<1>2. CASE HwChange
  BY <1>2 DEF HwChange, dev, ListOK
<1>3. ASSUME NEW flags \in Requests, FillInfo(flags)
      PROVE  ListInv'
  BY <1>3, ListUntouched DEF FillInfo, NoRescan
<1>4. ASSUME NEW query \in Queries, FindCap(query)
      PROVE  ListInv'
  BY <1>4, ListUntouched DEF FindCap
<1>5. CASE FreeDev
  BY <1>5, ListUntouched DEF FreeDev
<1>6. CASE FreeNext
  BY <1>6, FreeNextList DEF FreeNext
<1>7. CASE FreeDone
  <2>1. first = NULL /\ op.kind = "free"
    BY <1>7 DEF FreeDone
  <2>2. order = <<>>
    <3>1. order \in Seq(Cells) /\ NULL \notin Cells
      BY CellsAssumption DEF TypeOK
    <3>2. order # <<>> => order[1] \in Cells
      BY <3>1
    <3>3. QED
      BY <2>1, <3>1, <3>2 DEF ListOK
  <2>3. QED
    BY <1>7, <2>1, <2>2 DEF FreeDone, ListOK
<1>8. CASE Fill
  BY <1>8, ListUntouched DEF Fill
<1>9. CASE ReadStatus
  BY <1>9, ListUntouched DEF ReadStatus, AfterTrad
<1>10. CASE TradStop
  BY <1>10, ListUntouched DEF TradStop, AfterTrad
<1>11. CASE TradNext
  BY <1>11, AddCapList DEF TradNext, AfterTrad
<1>12. CASE FindExpress
  BY <1>12, ListUntouched DEF FindExpress
<1>13. CASE ExtStop
  BY <1>13, ListUntouched DEF ExtStop
<1>14. CASE ExtNext
  BY <1>14, AddCapList DEF ExtNext
<1>15. CASE OutOfMemory
  BY <1>15, ListUntouched DEF OutOfMemory
<1>16. CASE ScanReturn
  BY <1>16, ListUntouched DEF ScanReturn
<1>17. CASE Return
  BY <1>17, ListUntouched DEF Return
<1>18. QED
  BY <1>1, <1>2, <1>3, <1>4, <1>5, <1>6, <1>7, <1>8, <1>9, <1>10, <1>11,
     <1>12, <1>13, <1>14, <1>15, <1>16, <1>17 DEF Next, Client, Library

\* Without PCI_FILL_RESCAN the capability list is well-formed at every moment,
\* however often it is scanned, whatever the hardware answers meanwhile and
\* whichever addresses malloc() returns.
THEOREM ListCorrect ==
  ASSUME NoRescan
  PROVE  Spec => []ListOK
<1>1. Init => ListInv
  BY DEF Init, ListInv, ListOK
<1>2. TypeOK /\ ListInv /\ [Next]_vars => ListInv'
  BY NoRescan, ListStep
<1>3. ListInv => ListOK
  BY DEF ListInv
<1>4. QED
  BY <1>1, <1>2, <1>3, TypeCorrect, PTL DEF Spec

(***************************************************************************)
(* The pointers: a traversal from first_cap meets the cells in use, and what *)
(* a client holds stays on the list.                                       *)
(***************************************************************************)
\* What a traversal from first_cap meets as long as the list is well linked.
LEMMA NthIs ==
  ASSUME TypeOK, ListOK
  PROVE  /\ Cardinality(Cells) \in Nat
         /\ Len(order) <= Cardinality(Cells)
         /\ \A n \in 0..Cardinality(Cells) :
              Nth[n] = IF n < Len(order) THEN order[n + 1] ELSE NULL
<1> DEFINE N == Cardinality(Cells)
           l == Len(order)
           w == [n \in 0..N |-> IF n < l THEN order[n + 1] ELSE NULL]
<1>1. N \in Nat
  BY CellsAssumption, FS_CardinalityType
<1>2. order \in Seq(Cells) /\ l \in Nat
  BY DEF TypeOK
<1>3. \A i \in 1..l : order[i] \in Cells /\ order[i] # NULL
  BY <1>2, CellsAssumption
<1>4. l <= N
  <2> DEFINE f == [i \in 1..l |-> order[i]]
  <2>1. f \in Injection(1..l, Cells)
    <3>1. f \in [1..l -> Cells]
      BY <1>3
    <3>2. \A i, j \in 1..l : f[i] = f[j] => i = j
      BY DEF ListOK
    <3> HIDE DEF f
    <3>3. QED
      BY <3>1, <3>2, Fun_IsInj
  <2>2. Cardinality(1..l) <= N
    BY <2>1, CellsAssumption, FS_Injection
  <2>3. Cardinality(1..l) = l
    <3> HIDE DEF l
    <3>1. Cardinality(1..l) = IF 1 > l THEN 0 ELSE l - 1 + 1
      BY <1>2, FS_Interval
    <3>2. QED
      BY <1>2, <3>1
  <2>4. QED
    BY <2>2, <2>3
<1>5. ASSUME NEW n \in 0..N
      PROVE  w[n] = IF n = 0 THEN first
                    ELSE IF w[n - 1] = NULL THEN NULL ELSE heap[w[n - 1]].next
  <2>1. CASE n = 0
    BY <1>1, <1>2, <2>1 DEF ListOK
  <2>2. CASE n # 0
    <3>1. n - 1 \in 0..N /\ (n - 1) + 1 = n
      BY <2>2, <1>1
    <3>2. w[n - 1] = IF n - 1 < l THEN order[n] ELSE NULL
      BY <3>1
    <3>3. CASE n - 1 < l
      <4>1. n \in 1..l
        BY <1>2, <2>2, <3>3
      <4>2. heap[order[n]].next = IF n = l THEN NULL ELSE order[n + 1]
        BY <4>1 DEF ListOK
      <4>3. n = l <=> ~(n < l)
        BY <1>2, <4>1
      <4>4. QED
        BY <1>3, <2>2, <3>2, <3>3, <4>1, <4>2, <4>3
    <3>4. CASE ~(n - 1 < l)
      <4>1. ~(n < l)
        BY <1>2, <3>4
      <4>2. QED
        BY <2>2, <3>2, <3>4, <4>1
    <3>5. QED
      BY <3>3, <3>4
  <2>3. QED
    BY <2>1, <2>2
<1>6. \E f : f = [n \in 0..N |->
                    IF n = 0 THEN first
                    ELSE IF f[n - 1] = NULL THEN NULL ELSE heap[f[n - 1]].next]
  <2> HIDE DEF w
  <2>1. w = [n \in 0..N |-> w[n]]
    BY DEF w
  <2>2. w = [n \in 0..N |->
               IF n = 0 THEN first
               ELSE IF w[n - 1] = NULL THEN NULL ELSE heap[w[n - 1]].next]
    BY <1>5, <2>1
  <2>3. QED
    BY <2>2
<1>7. Nth = [n \in 0..N |->
               IF n = 0 THEN first
               ELSE IF Nth[n - 1] = NULL THEN NULL ELSE heap[Nth[n - 1]].next]
  BY <1>6, Zenon DEF Nth
<1>8. \A n \in 0..N : Nth[n] = IF n = 0 THEN first
                               ELSE IF Nth[n - 1] = NULL THEN NULL
                               ELSE heap[Nth[n - 1]].next
  <2> HIDE DEF N
  <2>1. QED
    BY <1>7
<1>9. \A n \in 0..N : Nth[n] = w[n]
  <2> DEFINE S == {n \in 0..N : Nth[n] = w[n]}
  <2> HIDE DEF w
  <2>1. 0 \in S
    BY <1>1, <1>5, <1>8
  <2>2. ASSUME NEW n \in 0..(N - 1), n \in S
        PROVE  n + 1 \in S
    <3>1. n + 1 \in 0..N /\ (n + 1) - 1 = n /\ n + 1 # 0
      BY <1>1
    <3>2. QED
      BY <1>5, <1>8, <2>2, <3>1
  <2>3. \A n \in 0..N : n \in S
    <3> HIDE DEF S
    <3>1. QED
      BY <1>1, <2>1, <2>2, BoundedInduction
  <2>4. QED
    BY <2>3
<1>10. QED
  BY <1>1, <1>4, <1>9

\* A traversal from first_cap meets exactly the cells in use.
LEMMA ListedIsLive == TypeOK /\ ListOK => Listed = live
<1> SUFFICES ASSUME TypeOK, ListOK PROVE Listed = live
  OBVIOUS
<1> DEFINE N == Cardinality(Cells)
           l == Len(order)
<1>1. /\ N \in Nat /\ l <= N
      /\ \A n \in 0..N : Nth[n] = IF n < l THEN order[n + 1] ELSE NULL
  BY NthIs
<1>2. order \in Seq(Cells) /\ l \in Nat
  BY DEF TypeOK
<1>3. \A i \in 1..l : order[i] # NULL
  BY <1>2, CellsAssumption
<1> HIDE DEF N, l
<1>4. Listed = {Nth[n] : n \in 0..N} \ {NULL}
  BY DEF Listed, N
<1>5. ASSUME NEW c \in Listed PROVE c \in live
  <2>1. PICK n \in 0..N : c = Nth[n] /\ c # NULL
    BY <1>4
  <2>2. n < l /\ c = order[n + 1]
    BY <1>1, <2>1
  <2>3. n + 1 \in 1..l
    BY <1>2, <2>2
  <2>4. QED
    BY <2>2, <2>3 DEF ListOK, l
<1>6. ASSUME NEW c \in live PROVE c \in Listed
  <2>1. PICK i \in 1..l : c = order[i]
    BY DEF ListOK, l
  <2>2. i - 1 \in 0..N /\ i - 1 < l /\ (i - 1) + 1 = i
    BY <1>1, <1>2
  <2>3. Nth[i - 1] = order[i]
    BY <1>1, <2>2
  <2>4. QED
    BY <1>3, <1>4, <2>1, <2>2, <2>3
<1>7. QED
  BY <1>5, <1>6

LEMMA ListedIsLiveNext == TypeOK' /\ ListOK' => (Listed = live)'
BY ListedIsLive, PTL

\* pci_add_cap() writes to the link of the tail, all else is left alone.
LEMMA CapsStayStep ==
  ASSUME TypeOK, ListOK, TypeOK', ListOK', [Next]_vars
  PROVE  pc # "free" => /\ Listed \subseteq Listed'
                        /\ \A c \in Listed : [heap'[c] EXCEPT !.next = NULL]
                                             = [heap[c] EXCEPT !.next = NULL]
<1> SUFFICES ASSUME pc # "free"
             PROVE  /\ Listed \subseteq Listed'
                    /\ \A c \in Listed : [heap'[c] EXCEPT !.next = NULL]
                                         = [heap[c] EXCEPT !.next = NULL]
  OBVIOUS
<1>1. Listed = live
  BY ListedIsLive
<1>2. Listed' = live'
  BY ListedIsLiveNext
<1>3. CASE UNCHANGED <<heap, live>>
  BY <1>1, <1>2, <1>3
<1>4. ASSUME NEW c \in Cells, NEW addr, NEW id, NEW type,
             AddCap(c, addr, id, type)
      PROVE  /\ live \subseteq live'
             /\ \A x \in live : [heap'[x] EXCEPT !.next = NULL]
                                = [heap[x] EXCEPT !.next = NULL]
  <2>1. live \subseteq live' /\ c \notin live
    BY <1>4 DEF AddCap
  <2>2. ASSUME NEW x \in live
        PROVE  [heap'[x] EXCEPT !.next = NULL] = [heap[x] EXCEPT !.next = NULL]
    <3>1. x \in Cells /\ heap[x] \in Cap
      BY DEF TypeOK
    <3>2. CASE x = last
      <4>1. heap'[x] = [heap[x] EXCEPT !.next = c]
        BY <1>4, <2>1, <3>1, <3>2 DEF AddCap
      <4>2. QED
        BY <3>1, <4>1 DEF Cap
    <3>3. CASE x # last
      BY <1>4, <2>1, <3>1, <3>3 DEF AddCap
    <3>4. QED
      BY <3>2, <3>3
  <2>3. QED
    BY <2>1, <2>2
<1>5. CASE TradNext
  BY <1>1, <1>2, <1>4, <1>5 DEF TradNext
<1>6. CASE ExtNext
  BY <1>1, <1>2, <1>4, <1>6 DEF ExtNext
<1>7. UNCHANGED <<heap, live>> \/ TradNext \/ ExtNext
  BY DEF Next, Client, Library, vars, dev, HwChange, FillInfo, FindCap,
         FreeDev, FreeNext, FreeDone, Fill, ReadStatus, TradStop, FindExpress,
         ExtStop, OutOfMemory, ScanReturn, Return
<1>8. QED
  BY <1>3, <1>5, <1>6, <1>7

\* What a client holds stays valid until the list is released: no step takes a
\* capability off the list or changes its contents.
THEOREM CapsAreKept ==
  ASSUME NoRescan
  PROVE  Spec => CapsStay
<1>1. Init => ListInv
  BY DEF Init, ListInv, ListOK
<1>2. TypeOK /\ ListInv /\ [Next]_vars => ListInv'
  BY NoRescan, ListStep
<1>3. TypeOK /\ ListInv /\ TypeOK' /\ ListInv' /\ [Next]_vars
      => [pc # "free" =>
            /\ Listed \subseteq Listed'
            /\ \A c \in Listed : [heap'[c] EXCEPT !.next = NULL]
                                 = [heap[c] EXCEPT !.next = NULL]]_vars
  BY CapsStayStep DEF ListInv
<1>4. QED
  BY <1>1, <1>2, <1>3, TypeCorrect, PTL DEF Spec, CapsStay

(***************************************************************************)
(* Chains of the configuration space, which PciCaps defines by recursion:  *)
(* the least sets that are closed under the links of good entries.         *)
(***************************************************************************)
\* The positions met when the links of a table are followed from head.
IsWalk(p, N, head, table) ==
  p = [n \in 0..N |-> IF n = 0 THEN head
                      ELSE IF p[n - 1] = 0 THEN 0 ELSE table[p[n - 1]].next]

LEMMA WalkExists ==
  ASSUME NEW N \in Nat, NEW head, NEW table
  PROVE  \E p : IsWalk(p, N, head, table)
<1> DEFINE Walk(f, m) == IsWalk(f, m, head, table)
           S == {m \in Nat : \E f : Walk(f, m)}
<1> USE DEF IsWalk
<1>1. 0 \in S
  <2>1. Walk([n \in 0..0 |-> head], 0)
    OBVIOUS
  <2>2. QED
    BY <2>1
<1>2. ASSUME NEW m \in S
      PROVE  m + 1 \in S
  <2>1. PICK f : Walk(f, m)
    OBVIOUS
  <2> DEFINE g == [n \in 0..(m + 1) |->
                     IF n <= m THEN f[n]
                     ELSE IF f[m] = 0 THEN 0 ELSE table[f[m]].next]
  <2>2. \A n \in 0..m : f[n] = IF n = 0 THEN head
                               ELSE IF f[n - 1] = 0 THEN 0
                               ELSE table[f[n - 1]].next
    BY <2>1
  <2>3. ASSUME NEW n \in 0..(m + 1)
        PROVE  g[n] = IF n = 0 THEN head
                      ELSE IF g[n - 1] = 0 THEN 0 ELSE table[g[n - 1]].next
    <3>1. CASE n <= m
      <4>1. n \in 0..m /\ n # 0 => n - 1 \in 0..(m + 1) /\ n - 1 <= m
        BY <3>1
      <4>2. QED
        BY <2>2, <3>1, <4>1
    <3>2. CASE n = m + 1
      <4>1. m \in Nat /\ n - 1 = m /\ n # 0 /\ ~(n <= m) /\ n - 1 \in 0..(m + 1)
        BY <3>2
      <4>2. QED
        BY <4>1
    <3>3. QED
      BY <3>1, <3>2
  <2>4. Walk(g, m + 1)
    <3> HIDE DEF g
    <3>1. g = [n \in 0..(m + 1) |-> g[n]]
      BY DEF g
    <3>2. QED
      BY <2>3, <3>1
  <2>5. \E f_ : Walk(f_, m + 1)
    <3> HIDE DEF g, Walk
    <3>1. QED
      BY <2>4
  <2>6. QED
    BY <2>5
<1>3. N \in S
  <2> HIDE DEF S
  <2>1. S \in SUBSET Nat
    BY DEF S
  <2>2. QED
    BY <1>1, <1>2, <2>1, NatSetInduction
<1>4. QED
  BY <1>3

\* More places than positions: one position is in two places.
LEMMA SomethingTwice ==
  ASSUME NEW D, IsFiniteSet(D), NEW p \in [0..Cardinality(D) -> D]
  PROVE  \E x, y \in 0..Cardinality(D) : x < y /\ p[x] = p[y]
<1> DEFINE N == Cardinality(D)
<1>1. N \in Nat
  BY FS_CardinalityType
<1>2. IsFiniteSet(0..N) /\ Cardinality(0..N) = IF 0 > N THEN 0 ELSE N - 0 + 1
  BY <1>1, FS_Interval
<1>3. Cardinality(D) < Cardinality(0..N)
  BY <1>1, <1>2
<1>4. PICK u, v \in 0..N : u # v /\ p[u] = p[v]
  BY <1>2, <1>3, FS_PigeonHole
<1>5. u < v \/ v < u
  BY <1>1, <1>4
<1>6. QED
  BY <1>4, <1>5

\* A walk over a table whose links are positions or 0 meets nothing else.
LEMMA WalkStays ==
  ASSUME NEW D, NEW N \in Nat, NEW head \in D \cup {0}, NEW table,
         \A a \in D : table[a].next \in D \cup {0},
         NEW p, IsWalk(p, N, head, table)
  PROVE  \A n \in 0..N : p[n] \in D \cup {0}
<1> DEFINE S == {n \in 0..N : p[n] \in D \cup {0}}
<1>1. \A n \in 0..N : p[n] = IF n = 0 THEN head
                             ELSE IF p[n - 1] = 0 THEN 0
                             ELSE table[p[n - 1]].next
  BY DEF IsWalk
<1>2. 0 \in S
  BY <1>1
<1>3. ASSUME NEW n \in 0..(N - 1), n \in S PROVE n + 1 \in S
  <2>1. n + 1 \in 0..N /\ (n + 1) - 1 = n /\ n + 1 # 0
    OBVIOUS
  <2>2. QED
    BY <1>1, <1>3, <2>1
<1>4. \A n \in 0..N : n \in S
  <2> HIDE DEF S
  <2>1. QED
    BY <1>2, <1>3, BoundedInduction
<1>5. QED
  BY <1>4

\* The good positions reached from head by the links of a table: closed under
\* good links, and the least such set.
IsChain(C, head, table, G) ==
  /\ C \subseteq G
  /\ head \in G => head \in C
  /\ \A a \in C : table[a].next \in G => table[a].next \in C
  /\ \A S : /\ head \in G => head \in S
            /\ \A a \in S \cap G : table[a].next \in G => table[a].next \in S
            => C \subseteq S

\* A chain of at most as many entries as there are positions, read up to the
\* first bad one, holds what the links lead to from its head, and nothing else.
LEMMA ChainFacts ==
  ASSUME NEW D, IsFiniteSet(D), 0 \notin D, NEW head, NEW table,
         NEW G \in SUBSET D,
         NEW p, IsWalk(p, Cardinality(D), head, table),
         NEW Ch, Ch = {p[n] : n \in {k \in 0..Cardinality(D) :
                                       \A m \in 0..k : p[m] \in G}}
  PROVE  IsChain(Ch, head, table, G)
<1> DEFINE N == Cardinality(D)
<1>1. N \in Nat
  BY FS_CardinalityType
<1> HIDE DEF N
<1>2. \A n \in 0..N : p[n] = IF n = 0 THEN head
                             ELSE IF p[n - 1] = 0 THEN 0 ELSE table[p[n - 1]].next
  BY DEF N, IsWalk
<1>3. ASSUME NEW n \in 0..(N - 1), p[n] \in G
      PROVE  n + 1 \in 0..N /\ p[n + 1] = table[p[n]].next
  <2>1. n + 1 \in 0..N /\ (n + 1) - 1 = n /\ n + 1 # 0
    BY <1>1
  <2>2. p[n] # 0
    BY <1>3
  <2>3. QED
    BY <1>2, <2>1, <2>2
<1>4. Ch = {p[n] : n \in {k \in 0..N : \A m \in 0..k : p[m] \in G}}
  BY DEF N
<1>5. Ch \subseteq G
  BY <1>1, <1>4
<1>6. head \in G => head \in Ch
  <2>1. 0 \in 0..N /\ p[0] = head /\ \A m \in 0..0 : m = 0
    BY <1>1, <1>2
  <2>2. QED
    BY <1>4, <2>1
\* An entry before the last place.
<1>7. ASSUME NEW n \in 0..(N - 1), \A m \in 0..n : p[m] \in G,
             table[p[n]].next \in G
      PROVE  table[p[n]].next \in Ch
  <2>1. n \in 0..n
    BY <1>1
  <2>2. n + 1 \in 0..N /\ p[n + 1] = table[p[n]].next
    BY <1>3, <1>7, <2>1
  <2>3. \A m \in 0..(n + 1) : m \in 0..n \/ m = n + 1
    BY <1>1
  <2>4. \A m \in 0..(n + 1) : p[m] \in G
    BY <1>7, <2>2, <2>3
  <2>5. QED
    BY <1>4, <2>2, <2>4
\* The entry in the last place has been met before.
<1>8. ASSUME \A m \in 0..N : p[m] \in G
      PROVE  \E n \in 0..(N - 1) : p[n] = p[N]
  <2>1. p \in [0..N -> D]
    BY <1>8 DEF N, IsWalk
  <2>2. PICK x, y \in 0..N : x < y /\ p[x] = p[y]
    <3>1. N = Cardinality(D)
      BY DEF N
    <3>2. \E x, y \in 0..Cardinality(D) : x < y /\ p[x] = p[y]
      BY <2>1, <3>1, SomethingTwice
    <3>3. QED
      BY <3>1, <3>2
  <2> DEFINE S == {k \in 0..(N - y) : p[x + k] = p[y + k]}
  <2>3. N - y \in Nat /\ x \in Nat /\ y \in Nat
    BY <1>1
  <2>4. 0 \in S
    <3>1. 0 \in 0..(N - y) /\ x + 0 = x /\ y + 0 = y
      BY <2>3
    <3>2. QED
      BY <2>2, <3>1
  <2>5. ASSUME NEW k \in 0..((N - y) - 1), k \in S
        PROVE  k + 1 \in S
    <3>1. /\ x + k \in 0..(N - 1) /\ y + k \in 0..(N - 1) /\ k + 1 \in 0..(N - y)
          /\ x + k \in 0..N /\ y + k \in 0..N
      BY <1>1, <2>2, <2>3
    <3>2. p[x + k] \in G /\ p[y + k] \in G
      BY <1>8, <3>1
    <3>3. /\ p[(x + k) + 1] = table[p[x + k]].next
          /\ p[(y + k) + 1] = table[p[y + k]].next
      BY <1>3, <3>1, <3>2
    <3>4. (x + k) + 1 = x + (k + 1) /\ (y + k) + 1 = y + (k + 1)
      BY <2>3, <3>1
    <3>5. QED
      BY <2>5, <3>1, <3>3, <3>4
  <2>6. N - y \in S
    <3> HIDE DEF S
    <3>1. \A k \in 0..(N - y) : k \in S
      BY <2>3, <2>4, <2>5, BoundedInduction
    <3>2. QED
      BY <2>3, <3>1
  <2>7. x + (N - y) \in 0..(N - 1) /\ y + (N - y) = N
    BY <1>1, <2>2, <2>3
  <2>8. QED
    BY <2>6, <2>7
<1>9. ASSUME NEW a \in Ch, table[a].next \in G
      PROVE  table[a].next \in Ch
  <2>1. PICK n \in 0..N : a = p[n] /\ \A m \in 0..n : p[m] \in G
    BY <1>4
  <2>2. CASE n \in 0..(N - 1)
    BY <1>7, <1>9, <2>1, <2>2
  <2>3. CASE n = N
    <3>1. PICK i \in 0..(N - 1) : p[i] = p[N]
      BY <1>8, <2>1, <2>3
    <3>2. \A m \in 0..i : m \in 0..N
      BY <1>1
    <3>3. QED
      BY <1>7, <1>9, <2>1, <2>3, <3>1, <3>2
  <2>4. n \in 0..(N - 1) \/ n = N
    BY <1>1
  <2>5. QED
    BY <2>2, <2>3, <2>4
<1>10. ASSUME NEW S, head \in G => head \in S,
              \A a \in S \cap G : table[a].next \in G => table[a].next \in S
       PROVE  Ch \subseteq S
  <2> DEFINE R == {n \in 0..N : (\A m \in 0..n : p[m] \in G) => p[n] \in S}
  <2>1. 0 \in R
    <3>1. 0 \in 0..N /\ p[0] = head /\ 0 \in 0..0
      BY <1>1, <1>2
    <3>2. QED
      BY <1>10, <3>1
  <2>2. ASSUME NEW n \in 0..(N - 1), n \in R
        PROVE  n + 1 \in R
    <3>1. n + 1 \in 0..N /\ n \in 0..n /\ n + 1 \in 0..(n + 1)
      BY <1>1
    <3>2. \A m \in 0..n : m \in 0..(n + 1)
      BY <1>1
    <3>3. ASSUME \A m \in 0..(n + 1) : p[m] \in G
          PROVE  p[n + 1] \in S
      <4>1. p[n] \in S /\ p[n] \in G /\ p[n + 1] \in G
        BY <2>2, <3>1, <3>2, <3>3
      <4>2. p[n + 1] = table[p[n]].next
        BY <1>3, <4>1
      <4>3. QED
        BY <1>10, <4>1, <4>2
    <3>4. QED
      BY <3>1, <3>3
  <2>3. \A n \in 0..N : n \in R
    <3> HIDE DEF R
    <3>1. QED
      BY <1>1, <2>1, <2>2, BoundedInduction
  <2>4. ASSUME NEW a \in Ch
        PROVE  a \in S
    <3>1. PICK n \in 0..N : a = p[n] /\ \A m \in 0..n : p[m] \in G
      BY <1>4
    <3>2. QED
      BY <2>3, <3>1
  <2>5. QED
    BY <2>4
<1>11. QED
  BY <1>5, <1>6, <1>9, <1>10 DEF IsChain

\* The good entries of a configuration space.
TradGood(c) == {a \in TradAddr : c.trad[a].id # BadId}
ExtGood(c) == {a \in ExtAddr : c.ext[a].used}

\* The chains of PciCaps are such chains.
LEMMA TradChainIs ==
  ASSUME NEW c \in ConfigSpace
  PROVE  IF c.list THEN IsChain(TradChain(c), c.head, c.trad, TradGood(c))
                   ELSE TradChain(c) = {}
<1> DEFINE N == Cardinality(TradAddr)
           G == TradGood(c)
<1>1. /\ IsFiniteSet(TradAddr) /\ 0 \notin TradAddr /\ N \in Nat
      /\ c.head \in TradAddr \cup {0}
      /\ \A a \in TradAddr : c.trad[a].next \in TradAddr \cup {0}
      /\ G \in SUBSET TradAddr
  BY AddrAssumption, FS_CardinalityType DEF ConfigSpace, TradGood
<1> DEFINE p[n \in 0..Cardinality(TradAddr)] ==
             IF n = 0 THEN c.head
             ELSE IF p[n - 1] = 0 THEN 0 ELSE c.trad[p[n - 1]].next
           good(n) == \A m \in 0..n : p[m] # 0 /\ c.trad[p[m]].id # BadId
           Ch == {p[n] : n \in {k \in 0..N : \A m \in 0..k : p[m] \in G}}
<1>2. TradChain(c) = IF c.list THEN {p[n] : n \in {k \in DOMAIN p : good(k)}}
                     ELSE {}
  BY DEF TradChain
<1>3. IsWalk(p, N, c.head, c.trad)
  <2>1. \E q : IsWalk(q, N, c.head, c.trad)
    BY <1>1, WalkExists
  <2>2. QED
    BY <2>1, Zenon DEF IsWalk
<1>4. DOMAIN p = 0..N
  BY <1>3 DEF IsWalk
<1> HIDE DEF p
<1>5. \A n \in 0..N : p[n] \in TradAddr \cup {0}
  BY <1>1, <1>3, WalkStays
<1>6. ASSUME NEW k \in 0..N
      PROVE  good(k) <=> \A m \in 0..k : p[m] \in G
  <2>1. \A m \in 0..k : m \in 0..N
    BY <1>1
  <2>2. QED
    BY <1>1, <1>5, <2>1 DEF TradGood
<1>7. TradChain(c) = IF c.list THEN Ch ELSE {}
  BY <1>2, <1>4, <1>6
<1>8. IsChain(Ch, c.head, c.trad, G)
  <2>1. Ch = {p[n] : n \in {k \in 0..Cardinality(TradAddr) :
                              \A m \in 0..k : p[m] \in G}}
    OBVIOUS
  <2> HIDE DEF Ch, G
  <2>2. QED
    BY <1>1, <1>3, <2>1, ChainFacts
<1> HIDE DEF Ch
<1>9. QED
  BY <1>7, <1>8

HasExpress(c) == \E a \in TradChain(c) : c.trad[a].id = ExpId

LEMMA ExtChainIs ==
  ASSUME NEW c \in ConfigSpace
  PROVE  IF HasExpress(c) THEN IsChain(ExtChain(c), ExtBase, c.ext, ExtGood(c))
                   ELSE ExtChain(c) = {}
<1> DEFINE N == Cardinality(ExtAddr)
           G == ExtGood(c)
<1>1. /\ IsFiniteSet(ExtAddr) /\ 0 \notin ExtAddr /\ N \in Nat
      /\ ExtBase \in ExtAddr \cup {0}
      /\ \A a \in ExtAddr : c.ext[a].next \in ExtAddr \cup {0}
      /\ G \in SUBSET ExtAddr
  BY AddrAssumption, FS_CardinalityType DEF ConfigSpace, ExtGood
<1> DEFINE p[n \in 0..Cardinality(ExtAddr)] ==
             IF n = 0 THEN ExtBase
             ELSE IF p[n - 1] = 0 THEN 0 ELSE c.ext[p[n - 1]].next
           good(n) == \A m \in 0..n : p[m] # 0 /\ c.ext[p[m]].used
           Ch == {p[n] : n \in {k \in 0..N : \A m \in 0..k : p[m] \in G}}
<1>2. ExtChain(c) = IF HasExpress(c)
                      THEN {p[n] : n \in {k \in DOMAIN p : good(k)}} ELSE {}
  <2>1. ExtChain(c) = IF \E a \in TradChain(c) : c.trad[a].id = ExpId
                        THEN {p[n] : n \in {k \in DOMAIN p : good(k)}} ELSE {}
    BY DEF ExtChain
  <2>2. QED
    BY <2>1 DEF HasExpress
<1>3. IsWalk(p, N, ExtBase, c.ext)
  <2>1. \E q : IsWalk(q, N, ExtBase, c.ext)
    BY <1>1, WalkExists
  <2>2. QED
    BY <2>1, Zenon DEF IsWalk
<1>4. DOMAIN p = 0..N
  BY <1>3 DEF IsWalk
<1> HIDE DEF p
<1>5. \A n \in 0..N : p[n] \in ExtAddr \cup {0}
  BY <1>1, <1>3, WalkStays
<1>6. ASSUME NEW k \in 0..N
      PROVE  good(k) <=> \A m \in 0..k : p[m] \in G
  <2>1. \A m \in 0..k : m \in 0..N
    BY <1>1
  <2>2. QED
    BY <1>1, <1>5, <2>1 DEF ExtGood
<1>7. ExtChain(c) = IF HasExpress(c) THEN Ch ELSE {}
  BY <1>2, <1>4, <1>6
<1>8. IsChain(Ch, ExtBase, c.ext, G)
  <2>1. Ch = {p[n] : n \in {k \in 0..Cardinality(ExtAddr) :
                              \A m \in 0..k : p[m] \in G}}
    OBVIOUS
  <2> HIDE DEF Ch, G
  <2>2. QED
    BY <1>1, <1>3, <2>1, ChainFacts
<1> HIDE DEF Ch
<1>9. QED
  BY <1>7, <1>8

(***************************************************************************)
(* What the library reports while the hardware is quiet.  The inductive    *)
(* invariant QuietInv relates the list to the chain being scanned: what the *)
(* loop has seen is listed, lies in the chain, and is closed under links but *)
(* for the entry the loop looks at.                                        *)
(***************************************************************************)
\* The addresses of the listed capabilities of a type.
Addrs(type) == {heap[c].addr : c \in {x \in live : heap[x].type = type}}

\* How far the list has got: to the end of a chain that is known or has just
\* been scanned, and through the positions seen while it is being scanned.
TradSoFar ==
  IF CAPS \in known \/ (pc = "done" /\ CAPS \in want) THEN TradChain(cfg)
  ELSE IF pc = "trad" THEN seen ELSE {}
ExtSoFar ==
  IF EXT_CAPS \in known \/ (pc = "done" /\ EXT_CAPS \in want) THEN ExtChain(cfg)
  ELSE IF pc = "ext" THEN seen ELSE {}

\* The hardware does not change.
Quiet == cfg \notin Volatile

\* What is being scanned is what was asked for and is not known.
AskInv ==
  /\ ~nested
  /\ EXT_CAPS \in known => CAPS \in known
  /\ pc = "fill" /\ EXT_CAPS \in op.flags => CAPS \in known
  /\ pc \in {"status", "trad", "find_exp", "ext", "done"} =>
       want \cap known = {} /\ op.flags \subseteq known \cup want
  /\ pc \in {"status", "trad"} => CAPS \in want /\ EXT_CAPS \notin want
  /\ pc \in {"find_exp", "ext"} => CAPS \in known /\ EXT_CAPS \in want
  /\ pc = "done" => IF CAPS \in known THEN EXT_CAPS \in want
                                      ELSE CAPS \in want /\ EXT_CAPS \notin want
  /\ op.kind = "find" =>
       op.flags = IF op.query.type = NORMAL THEN {CAPS} ELSE {EXT_CAPS}
  /\ pc = "ret" /\ op.kind = "find" => op.flags \subseteq known

\* A listed capability is an entry of the configuration space, listed once.
EntriesInv ==
  /\ \A c \in live :
       \/ /\ heap[c].type = NORMAL
          /\ heap[c].addr \in TradAddr
          /\ heap[c].id = cfg.trad[heap[c].addr].id
       \/ /\ heap[c].type = EXTENDED
          /\ heap[c].addr \in ExtAddr
          /\ heap[c].id = cfg.ext[heap[c].addr].id
  /\ \A c, d \in live : heap[c].addr = heap[d].addr => c = d

\* What the loops have seen is closed but for the entry they look at.
Walked(S, w, chain, head, table, good) ==
  /\ S \subseteq chain
  /\ w \in good => w \in chain
  /\ head \in S \cup {w}
  /\ \A a \in S : table[a].next \in good => table[a].next \in S \cup {w}
WalkInv ==
  /\ pc = "trad" =>
       /\ cfg.list
       /\ Walked(seen, where, TradChain(cfg), cfg.head, cfg.trad, TradGood(cfg))
  /\ pc = "ext" =>
       /\ HasExpress(cfg)
       /\ Walked(seen, where, ExtChain(cfg), ExtBase, cfg.ext, ExtGood(cfg))

SoFarInv ==
  pc \notin {"free", "exit"} =>
    Addrs(NORMAL) = TradSoFar /\ Addrs(EXTENDED) = ExtSoFar

\* All this while the hardware is quiet.
QuietInv ==
  Quiet => AskInv /\ EntriesInv /\ WalkInv /\ SoFarInv /\ CountIsActual

\* A step of the loop keeps what it has seen closed ...
LEMMA WalkedOn ==
  ASSUME NEW S, NEW w, NEW C, NEW head, NEW table, NEW G,
         IsChain(C, head, table, G), Walked(S, w, C, head, table, G), w \in G
  PROVE  Walked(S \cup {w}, table[w].next, C, head, table, G)
BY DEF Walked, IsChain

\* ... and where it ends the whole chain has been seen.
LEMMA WalkEnds ==
  ASSUME NEW S, NEW w, NEW C, NEW head, NEW table, NEW G,
         IsChain(C, head, table, G), Walked(S, w, C, head, table, G),
         w \in S \/ w \notin G
  PROVE  S = C
<1>1. S \subseteq C
  BY DEF Walked
<1>2. head \in G => head \in S
  BY DEF Walked
<1>3. \A a \in S \cap G : table[a].next \in G => table[a].next \in S
  BY DEF Walked
<1>4. C \subseteq S
  BY <1>2, <1>3 DEF IsChain
<1>5. QED
  BY <1>1, <1>4

\* The chains of the configuration space the device has.
LEMMA OwnChains ==
  ASSUME TypeOK
  PROVE  /\ IF cfg.list
              THEN IsChain(TradChain(cfg), cfg.head, cfg.trad, TradGood(cfg))
              ELSE TradChain(cfg) = {}
         /\ IF HasExpress(cfg)
              THEN IsChain(ExtChain(cfg), ExtBase, cfg.ext, ExtGood(cfg))
              ELSE ExtChain(cfg) = {}
<1>1. cfg \in ConfigSpace
  BY ConfigsAssumption DEF TypeOK
<1>2. QED
  BY <1>1, TradChainIs, ExtChainIs

\* With quiet hardware the configuration space never changes.
LEMMA QuietStays ==
  ASSUME [Next]_vars, Quiet'
  PROVE  Quiet /\ cfg' = cfg /\ ~HwChange
BY DEF Quiet, HwChange, Next, Client, Library, vars, FillInfo, FindCap, FreeDev,
       FreeNext, FreeDone, Fill, ReadStatus, TradStop, TradNext, FindExpress,
       ExtStop, ExtNext, OutOfMemory, ScanReturn, Return

\* Clients ask for extended capabilities when the others are known.
LEMMA AskStep ==
  ASSUME NoRescan, TypeOK, ListInv, Quiet, AskInv, Client \/ Library
  PROVE  AskInv'
<1> USE DEF AskInv, CAPS, EXT_CAPS, RESCAN
<1>1. ASSUME NEW flags \in Requests, FillInfo(flags)
      PROVE  AskInv'
  BY <1>1 DEF FillInfo, MayAsk, Quiet, scan, NoRescan
<1>2. ASSUME NEW query \in Queries, FindCap(query)
      PROVE  AskInv'
  <2>1. op'.kind = "find" /\ op'.query = query
        /\ op'.flags = IF query.type = NORMAL THEN {CAPS} ELSE {EXT_CAPS}
    BY <1>2 DEF FindCap
  <2>2. EXT_CAPS \in op'.flags => CAPS \in known
    BY <1>2, <2>1 DEF FindCap, MayAsk, Quiet
  <2>3. pc' = "fill" /\ nested' = nested /\ known' = known
    BY <1>2 DEF FindCap, scan
  <2>4. QED
    BY <2>1, <2>2, <2>3
<1>3. CASE FreeDev
  BY <1>3 DEF FreeDev, scan
<1>4. CASE FreeNext
  BY <1>4 DEF FreeNext, scan
<1>5. CASE FreeDone
  BY <1>5 DEF FreeDone, scan, ListInv
<1>6. CASE Fill
  <2> DEFINE flags == op.flags \ known
  <2>1. EXT_CAPS \in flags => CAPS \in known
    BY <1>6 DEF Fill
  <2>2. CASE op.flags \ (known \cup {RESCAN}) # {}
             /\ flags \cap {CAPS, EXT_CAPS} # {}
    <3>1. want' = flags /\ known' = known /\ op' = op /\ nested' = nested
          /\ pc' = IF CAPS \in flags THEN "status" ELSE "find_exp"
      BY <1>6, <2>1, <2>2 DEF Fill
    <3>2. CASE CAPS \in flags
      BY <1>6, <2>1, <2>2, <3>1, <3>2
    <3>3. CASE CAPS \notin flags
      BY <1>6, <2>1, <2>2, <3>1, <3>3
    <3>4. QED
      BY <3>2, <3>3
  <2>3. CASE ~(op.flags \ (known \cup {RESCAN}) # {}
               /\ flags \cap {CAPS, EXT_CAPS} # {})
    <3>1. /\ pc' = "ret" /\ op' = op /\ nested' = nested
          /\ known \subseteq known'
          /\ known' \subseteq known \cup Supported
      BY <1>6, <2>3 DEF Fill
    <3>2. CAPS \notin Supported /\ EXT_CAPS \notin Supported
      BY FlagsAssumption
    <3>3. op.kind = "find" => op.flags \subseteq known
      BY <2>3
    <3>4. QED
      BY <3>1, <3>2, <3>3
  <2>4. QED
    BY <2>2, <2>3
<1>7. CASE ReadStatus
  BY <1>7 DEF ReadStatus, AfterTrad
<1>8. CASE TradStop
  BY <1>8 DEF TradStop, AfterTrad, scan
<1>9. CASE TradNext
  BY <1>9 DEF TradNext, AfterTrad
<1>10. CASE FindExpress
  BY <1>10 DEF FindExpress
<1>11. CASE ExtStop
  BY <1>11 DEF ExtStop, scan
<1>12. CASE ExtNext
  BY <1>12 DEF ExtNext
<1>13. CASE OutOfMemory
  BY <1>13 DEF OutOfMemory, scan
<1>14. CASE ScanReturn
  BY <1>14 DEF ScanReturn
<1>15. CASE Return
  BY <1>15 DEF Return, scan
<1>16. QED
  BY <1>1, <1>2, <1>3, <1>4, <1>5, <1>6, <1>7, <1>8, <1>9, <1>10, <1>11,
     <1>12, <1>13, <1>14, <1>15, Client \/ Library DEF Client, Library

\* What pci_add_cap() does to the listed capabilities.
LEMMA AddCapEntries ==
  ASSUME TypeOK, NEW c \in Cells, NEW addr, NEW id, NEW type,
         AddCap(c, addr, id, type)
  PROVE  /\ live' = live \cup {c} /\ c \notin live
         /\ heap'[c].addr = addr /\ heap'[c].id = id /\ heap'[c].type = type
         /\ \A x \in live : /\ heap'[x].addr = heap[x].addr
                            /\ heap'[x].id = heap[x].id
                            /\ heap'[x].type = heap[x].type
<1>1. live' = live \cup {c} /\ c \notin live
  BY DEF AddCap
<1>2. heap'[c] = [addr |-> addr, id |-> id, type |-> type, next |-> NULL]
  BY DEF AddCap
<1>3. ASSUME NEW x \in live
      PROVE  /\ heap'[x].addr = heap[x].addr
             /\ heap'[x].id = heap[x].id
             /\ heap'[x].type = heap[x].type
  <2>1. x \in Cells /\ heap[x] \in Cap /\ x # c
    BY <1>1 DEF TypeOK
  <2>2. CASE x = last
    <3>1. heap'[x] = [heap[x] EXCEPT !.next = c]
      BY <2>1, <2>2 DEF AddCap
    <3>2. QED
      BY <2>1, <3>1 DEF Cap
  <2>3. CASE x # last
    BY <2>1, <2>3 DEF AddCap
  <2>4. QED
    BY <2>2, <2>3
<1>4. QED
  BY <1>1, <1>2, <1>3

\* A new capability adds its position to those of its type.
LEMMA AddCapAddrs ==
  ASSUME TypeOK, NEW c \in Cells, NEW addr, NEW id, NEW type,
         AddCap(c, addr, id, type)
  PROVE  /\ Addrs(type)' = Addrs(type) \cup {addr}
         /\ \A t : t # type => Addrs(t)' = Addrs(t)
<1>1. /\ live' = live \cup {c} /\ c \notin live
      /\ heap'[c].addr = addr /\ heap'[c].type = type
      /\ \A x \in live : heap'[x].addr = heap[x].addr /\ heap'[x].type = heap[x].type
  BY AddCapEntries
<1>2. ASSUME NEW t
      PROVE  {heap'[x].addr : x \in {y \in live' : heap'[y].type = t}}
             = {heap[x].addr : x \in {y \in live : heap[y].type = t}}
               \cup (IF t = type THEN {addr} ELSE {})
  BY <1>1
<1>3. QED
  BY <1>2 DEF Addrs

\* The new capability is an entry of the configuration space not listed yet.
LEMMA AddCapInv ==
  ASSUME TypeOK, EntriesInv, cfg' = cfg, NEW c \in Cells, NEW addr, NEW id,
         NEW type, AddCap(c, addr, id, type), addr \notin Addrs(type),
         \/ /\ type = NORMAL /\ addr \in TradAddr /\ id = cfg.trad[addr].id
         \/ /\ type = EXTENDED /\ addr \in ExtAddr /\ id = cfg.ext[addr].id
  PROVE  EntriesInv'
<1>1. /\ live' = live \cup {c} /\ c \notin live
      /\ heap'[c].addr = addr /\ heap'[c].id = id /\ heap'[c].type = type
      /\ \A x \in live : /\ heap'[x].addr = heap[x].addr
                         /\ heap'[x].id = heap[x].id
                         /\ heap'[x].type = heap[x].type
  BY AddCapEntries
<1>2. ASSUME NEW x \in live'
      PROVE  \/ /\ heap'[x].type = NORMAL
                /\ heap'[x].addr \in TradAddr
                /\ heap'[x].id = cfg'.trad[heap'[x].addr].id
             \/ /\ heap'[x].type = EXTENDED
                /\ heap'[x].addr \in ExtAddr
                /\ heap'[x].id = cfg'.ext[heap'[x].addr].id
  <2>1. CASE x \in live
    BY <1>1, <2>1 DEF EntriesInv
  <2>2. CASE x = c
    BY <1>1, <2>2
  <2>3. QED
    BY <1>1, <2>1, <2>2
<1>3. ASSUME NEW x \in live
      PROVE  heap[x].addr # addr
  <2>1. heap[x].type = type => heap[x].addr # addr
    BY DEF Addrs
  <2>2. heap[x].type # type => heap[x].addr # addr
    BY AddrAssumption DEF EntriesInv, NORMAL, EXTENDED
  <2>3. QED
    BY <2>1, <2>2
<1>4. ASSUME NEW x \in live', NEW y \in live', heap'[x].addr = heap'[y].addr
      PROVE  x = y
  <2>1. CASE x \in live /\ y \in live
    BY <1>1, <1>4, <2>1 DEF EntriesInv
  <2>2. CASE x = c \/ y = c
    BY <1>1, <1>3, <1>4, <2>2
  <2>3. QED
    BY <1>1, <2>1, <2>2
<1>5. QED
  BY <1>2, <1>4 DEF EntriesInv

\* What the loops are about to record, in a quiet configuration space.
LEMMA NextEntry ==
  ASSUME TypeOK, Quiet, AskInv, SoFarInv
  PROVE  /\ TradNext => /\ where \in TradAddr
                        /\ where \notin Addrs(NORMAL)
                        /\ Addrs(NORMAL) = seen
                        /\ where \in TradGood(cfg)
         /\ ExtNext => /\ where \in ExtAddr
                       /\ where \notin Addrs(EXTENDED)
                       /\ Addrs(EXTENDED) = seen
                       /\ where \in ExtGood(cfg)
<1>1. ASSUME TradNext
      PROVE  /\ where \in TradAddr
             /\ where \notin Addrs(NORMAL)
             /\ Addrs(NORMAL) = seen
             /\ where \in TradGood(cfg)
  <2>1. pc = "trad" /\ where \notin seen /\ cfg.trad[where].id # BadId
    BY <1>1 DEF TradNext, TradEnds
  <2>2. CAPS \notin known
    BY <2>1 DEF AskInv
  <2>3. Addrs(NORMAL) = seen
    BY <2>1, <2>2 DEF SoFarInv, TradSoFar
  <2>4. QED
    BY <2>1, <2>3 DEF TypeOK, TradGood
<1>2. ASSUME ExtNext
      PROVE  /\ where \in ExtAddr
             /\ where \notin Addrs(EXTENDED)
             /\ Addrs(EXTENDED) = seen
             /\ where \in ExtGood(cfg)
  <2>1. pc = "ext" /\ where \notin seen /\ cfg.ext[where].used
    BY <1>2 DEF ExtNext, ExtEnds
  <2>2. EXT_CAPS \notin known
    BY <2>1 DEF AskInv
  <2>3. Addrs(EXTENDED) = seen
    BY <2>1, <2>2 DEF SoFarInv, ExtSoFar
  <2>4. QED
    BY <2>1, <2>3 DEF TypeOK, ExtGood
<1>3. QED
  BY <1>1, <1>2

\* Only what the loops record is added, and pci_free_caps() takes away.
LEMMA EntriesStep ==
  ASSUME TypeOK, ListOK, Quiet, AskInv, SoFarInv, EntriesInv, cfg' = cfg,
         Client \/ Library
  PROVE  EntriesInv'
<1>1. CASE UNCHANGED <<heap, live>>
  BY <1>1 DEF EntriesInv
<1>2. CASE TradNext
  <2>1. PICK c \in Cells : AddCap(c, where, cfg.trad[where].id, NORMAL)
    BY <1>2 DEF TradNext
  <2>2. QED
    BY <1>2, <2>1, NextEntry, AddCapInv
<1>3. CASE ExtNext
  <2>1. PICK c \in Cells : AddCap(c, where, cfg.ext[where].id, EXTENDED)
    BY <1>3 DEF ExtNext
  <2>2. QED
    BY <1>3, <2>1, NextEntry, AddCapInv
<1>4. CASE FreeNext
  <2>1. live' = live \ {first} /\ heap' = [heap EXCEPT ![first] = Blank]
    BY <1>4 DEF FreeNext
  <2>2. \A x \in live' : x \in live /\ heap'[x] = heap[x]
    BY <2>1 DEF TypeOK
  <2>3. QED
    BY <2>2 DEF EntriesInv
<1>5. UNCHANGED <<heap, live>> \/ TradNext \/ ExtNext \/ FreeNext
  BY Client \/ Library
     DEF Client, Library, dev, FillInfo, FindCap, FreeDev, FreeDone, Fill,
         ReadStatus, TradStop, FindExpress, ExtStop, OutOfMemory, ScanReturn,
         Return
<1>6. QED
  BY <1>1, <1>2, <1>3, <1>4, <1>5

\* The loop of pci_find_cap_nr() counts each capability of the list once.
LEMMA MatchesAre ==
  ASSUME TypeOK, ListOK, NEW id, NEW type
  PROVE  LET hits == {c \in live : heap[c].id = id /\ heap[c].type = type}
         IN  /\ Matches(id, type) # {} <=> hits # {}
             /\ IsFiniteSet(hits)
             /\ Cardinality(Matches(id, type)) = Cardinality(hits)
<1> DEFINE N == Cardinality(Cells)
           l == Len(order)
           hits == {c \in live : heap[c].id = id /\ heap[c].type = type}
           M == Matches(id, type)
           f == [n \in M |-> Nth[n]]
<1>1. /\ N \in Nat /\ l <= N
      /\ \A n \in 0..N : Nth[n] = IF n < l THEN order[n + 1] ELSE NULL
  BY NthIs
<1>2. order \in Seq(Cells) /\ l \in Nat /\ NULL \notin Cells
  BY CellsAssumption DEF TypeOK
<1>3. /\ live = {order[i] : i \in 1..l}
      /\ \A i, j \in 1..l : order[i] = order[j] => i = j
  BY DEF ListOK
<1> HIDE DEF N, l
<1>4. M = {n \in 0..N : /\ Nth[n] \in Cells
                        /\ heap[Nth[n]].id = id
                        /\ heap[Nth[n]].type = type}
  BY DEF Matches, N
<1>5. \A n \in M : /\ n \in 0..N /\ n < l /\ n + 1 \in 1..l
                   /\ Nth[n] = order[n + 1] /\ Nth[n] \in hits
  BY <1>1, <1>2, <1>3, <1>4
<1>6. ASSUME NEW c \in hits
      PROVE  \E n \in M : Nth[n] = c
  <2>1. PICK i \in 1..l : c = order[i]
    BY <1>3
  <2>2. i - 1 \in 0..N /\ i - 1 < l /\ (i - 1) + 1 = i
    BY <1>1, <1>2
  <2>3. Nth[i - 1] = c /\ c \in Cells
    <3>1. Nth[i - 1] = order[(i - 1) + 1]
      BY <1>1, <2>2
    <3>2. order[i] \in Cells
      BY <1>2, <2>1 DEF l
    <3>3. QED
      BY <2>1, <2>2, <3>1, <3>2
  <2>4. i - 1 \in M
    BY <1>4, <2>2, <2>3
  <2>5. QED
    BY <2>3, <2>4
<1>7. ASSUME NEW m \in M, NEW n \in M, Nth[m] = Nth[n]
      PROVE  m = n
  <2>1. m + 1 = n + 1
    BY <1>3, <1>5, <1>7
  <2>2. QED
    BY <1>5, <2>1
<1>8. IsFiniteSet(M)
  <2>1. M \subseteq 0..N
    BY <1>5
  <2>2. IsFiniteSet(0..N)
    BY <1>1, FS_Interval
  <2>3. QED
    BY <2>1, <2>2, FS_Subset
<1> HIDE DEF M, hits
<1>9. f \in Bijection(M, hits)
  <2>1. f \in [M -> hits]
    BY <1>5
  <2>2. \A m, n \in M : f[m] = f[n] => m = n
    BY <1>7
  <2>3. \A c \in hits : \E n \in M : f[n] = c
    BY <1>6
  <2> HIDE DEF f
  <2>4. QED
    BY <2>1, <2>2, <2>3, Fun_IsBij
<1>10. ExistsBijection(M, hits)
  BY <1>9 DEF ExistsBijection
<1>11. IsFiniteSet(hits) /\ Cardinality(hits) = Cardinality(M)
  BY <1>8, <1>10, FS_Bijection
<1>12. M # {} <=> hits # {}
  BY <1>5, <1>6
<1>13. QED
  BY <1>11, <1>12 DEF M, hits

\* With a complete list, capabilities are found where the chains have them.
LEMMA EntriesOfType ==
  ASSUME EntriesInv, NEW id
  PROVE  /\ \A c \in live : heap[c].type = NORMAL =>
              /\ heap[c].addr \in Addrs(NORMAL)
              /\ heap[c].id = cfg.trad[heap[c].addr].id
         /\ \A a \in Addrs(NORMAL) : \E c \in live :
              /\ heap[c].type = NORMAL /\ heap[c].addr = a
              /\ heap[c].id = cfg.trad[a].id
         /\ \A c \in live : heap[c].type = EXTENDED =>
              /\ heap[c].addr \in Addrs(EXTENDED)
              /\ heap[c].id = cfg.ext[heap[c].addr].id
         /\ \A a \in Addrs(EXTENDED) : \E c \in live :
              /\ heap[c].type = EXTENDED /\ heap[c].addr = a
              /\ heap[c].id = cfg.ext[a].id
BY DEF EntriesInv, Addrs, NORMAL, EXTENDED

\* pci_find_cap() finds PCI Express where the device has it.
LEMMA ExpressFound ==
  ASSUME TypeOK, ListOK, EntriesInv, Addrs(NORMAL) = TradChain(cfg)
  PROVE  Matches(ExpId, NORMAL) # {} <=> HasExpress(cfg)
<1>1. Matches(ExpId, NORMAL) # {}
      <=> \E c \in live : heap[c].id = ExpId /\ heap[c].type = NORMAL
  <2> DEFINE hits == {c \in live : heap[c].id = ExpId /\ heap[c].type = NORMAL}
  <2>1. Matches(ExpId, NORMAL) # {} <=> hits # {}
    BY MatchesAre
  <2>2. QED
    BY <2>1
<1>2. QED
  BY <1>1, EntriesOfType DEF HasExpress

\* The loops walk the chains.
LEMMA WalkStep ==
  ASSUME TypeOK, Quiet, AskInv, SoFarInv, EntriesInv, WalkInv, cfg' = cfg,
         ListOK, Client \/ Library
  PROVE  WalkInv'
<1> DEFINE Trad(S, w) ==
             Walked(S, w, TradChain(cfg), cfg.head, cfg.trad, TradGood(cfg))
           Ext(S, w) ==
             Walked(S, w, ExtChain(cfg), ExtBase, cfg.ext, ExtGood(cfg))
<1>1. /\ TradChain(cfg)' = TradChain(cfg) /\ TradGood(cfg)' = TradGood(cfg)
      /\ ExtChain(cfg)' = ExtChain(cfg) /\ ExtGood(cfg)' = ExtGood(cfg)
      /\ HasExpress(cfg)' = HasExpress(cfg)
  OBVIOUS
<1>2. WalkInv' <=> /\ pc' = "trad" => cfg.list /\ Trad(seen', where')
                   /\ pc' = "ext" => HasExpress(cfg) /\ Ext(seen', where')
  BY <1>1 DEF WalkInv
<1>3. CASE ReadStatus
  <2>1. pc' = "trad" => /\ cfg.list /\ where' = cfg.head /\ seen' = {}
    BY <1>3 DEF ReadStatus, AfterTrad
  <2>2. pc' # "ext"
    BY <1>3 DEF ReadStatus, AfterTrad
  <2>3. cfg.list => Trad({}, cfg.head)
    BY OwnChains DEF Walked, IsChain
  <2>4. QED
    BY <1>2, <2>1, <2>2, <2>3
<1>4. CASE TradNext
  <2>1. pc = "trad" /\ seen' = seen \cup {where} /\ where' = cfg.trad[where].next
        /\ pc' # "ext"
    BY <1>4 DEF TradNext, AfterTrad
  <2>2. cfg.list /\ Trad(seen, where)
    BY <2>1 DEF WalkInv
  <2>3. Trad(seen', where')
    BY <1>4, <2>1, <2>2, OwnChains, NextEntry, WalkedOn
  <2>4. QED
    BY <1>2, <2>1, <2>2, <2>3
<1>5. CASE FindExpress
  <2>1. pc' # "trad"
    BY <1>5 DEF FindExpress
  <2>2. CAPS \in known /\ pc = "find_exp"
    BY <1>5 DEF FindExpress, AskInv
  <2>3. pc' = "ext" => /\ Matches(ExpId, NORMAL) # {}
                       /\ where' = ExtBase /\ seen' = {}
    BY <1>5, <2>2 DEF FindExpress
  <2>4. ASSUME Matches(ExpId, NORMAL) # {}
        PROVE  HasExpress(cfg)
    <3>1. Addrs(NORMAL) = TradChain(cfg)
      BY <2>2 DEF SoFarInv, TradSoFar
    <3>2. QED
      BY <2>4, <3>1, ExpressFound
  <2>5. HasExpress(cfg) => Ext({}, ExtBase)
    BY OwnChains DEF Walked, IsChain
  <2>6. QED
    BY <1>2, <2>1, <2>3, <2>4, <2>5
<1>6. CASE ExtNext
  <2>1. pc = "ext" /\ seen' = seen \cup {where} /\ where' = cfg.ext[where].next
        /\ pc' # "trad"
    BY <1>6 DEF ExtNext
  <2>2. HasExpress(cfg) /\ Ext(seen, where)
    BY <2>1 DEF WalkInv
  <2>3. Ext(seen', where')
    BY <1>6, <2>1, <2>2, OwnChains, NextEntry, WalkedOn
  <2>4. QED
    BY <1>2, <2>1, <2>2, <2>3
<1>7. CASE pc' \notin {"trad", "ext"}
  BY <1>2, <1>7
<1>8. ReadStatus \/ TradNext \/ FindExpress \/ ExtNext \/ pc' \notin {"trad", "ext"}
  BY Client \/ Library
     DEF Client, Library, FillInfo, FindCap, FreeDev, FreeNext, FreeDone, Fill,
         TradStop, AfterTrad, ExtStop, OutOfMemory, ScanReturn, Return
<1>9. QED
  BY <1>3, <1>4, <1>5, <1>6, <1>7, <1>8

\* What is listed is what has been walked.
LEMMA SoFarStep ==
  ASSUME NoRescan, TypeOK, ListInv, ListInv', Quiet, AskInv, SoFarInv, EntriesInv, WalkInv,
         cfg' = cfg, Client \/ Library
  PROVE  SoFarInv'
<1> USE DEF CAPS, EXT_CAPS
<1>1. TradChain(cfg)' = TradChain(cfg) /\ ExtChain(cfg)' = ExtChain(cfg)
  OBVIOUS
<1>2. SoFarInv' <=>
        (pc' \notin {"free", "exit"} =>
           Addrs(NORMAL)' = TradSoFar' /\ Addrs(EXTENDED)' = ExtSoFar')
  BY DEF SoFarInv
<1>3. TradSoFar' = IF CAPS \in known' \/ (pc' = "done" /\ CAPS \in want')
                     THEN TradChain(cfg)
                     ELSE IF pc' = "trad" THEN seen' ELSE {}
  BY <1>1 DEF TradSoFar
<1>4. ExtSoFar' = IF EXT_CAPS \in known' \/ (pc' = "done" /\ EXT_CAPS \in want')
                    THEN ExtChain(cfg)
                    ELSE IF pc' = "ext" THEN seen' ELSE {}
  BY <1>1 DEF ExtSoFar
<1>5. UNCHANGED <<heap, live>> => \A t : Addrs(t)' = Addrs(t)
  BY DEF Addrs
<1>6. ASSUME UNCHANGED <<heap, live>>, pc \notin {"free", "exit"},
             TradSoFar' = TradSoFar, ExtSoFar' = ExtSoFar
      PROVE  SoFarInv'
  BY <1>2, <1>5, <1>6 DEF SoFarInv
<1>7. CASE Client
  <2>1. /\ UNCHANGED <<heap, live, seen, want>> /\ pc = "idle"
        /\ UNCHANGED known
    BY <1>7, NoRescan DEF Client, NoRescan, FillInfo, FindCap, FreeDev, dev, scan
  <2>2. pc' \in {"fill", "free"}
    BY <1>7 DEF Client, FillInfo, FindCap, FreeDev
  <2>3. QED
    BY <1>3, <1>4, <1>6, <2>1, <2>2 DEF TradSoFar, ExtSoFar
<1>8. CASE FreeNext
  BY <1>8, <1>2 DEF FreeNext
<1>9. CASE FreeDone
  <2>1. known' = {} /\ pc' = "idle" /\ first' = NULL
    BY <1>9 DEF FreeDone, ListInv
  <2>2. live' = {}
    <3>1. TypeOK'
      BY TypeLibrary, <1>9 DEF Library
    <3>2. order' \in Seq(Cells) /\ NULL \notin Cells
      BY <3>1, CellsAssumption DEF TypeOK
    <3>3. order' = <<>>
      BY <2>1, <3>2 DEF ListInv, ListOK
    <3>4. QED
      BY <3>3 DEF ListInv, ListOK
  <2>3. \A t : Addrs(t)' = {}
    BY <2>2 DEF Addrs
  <2>4. QED
    BY <1>2, <1>3, <1>4, <2>1, <2>3
<1>10. CASE Fill
  <2>1. /\ UNCHANGED <<heap, live, seen>> /\ pc = "fill"
        /\ pc' \in {"status", "find_exp", "ret"}
        /\ known \subseteq known' /\ known' \subseteq known \cup Supported
    BY <1>10 DEF Fill, dev
  <2>2. CAPS \notin Supported /\ EXT_CAPS \notin Supported
    BY FlagsAssumption
  <2>3. QED
    BY <1>3, <1>4, <1>6, <2>1, <2>2 DEF TradSoFar, ExtSoFar
<1>11. CASE ReadStatus
  <2>1. /\ UNCHANGED <<heap, live, known, want>> /\ pc = "status"
        /\ CAPS \in want /\ CAPS \notin known /\ EXT_CAPS \notin want
    BY <1>11 DEF ReadStatus, dev, AskInv
  <2>2. CASE pc' = "trad"
    <3>1. seen' = {}
      BY <1>11, <2>2 DEF ReadStatus, AfterTrad
    <3>2. QED
      BY <1>3, <1>4, <1>6, <2>1, <2>2, <3>1 DEF TradSoFar, ExtSoFar
  <2>3. CASE pc' # "trad"
    <3>1. pc' = "done" /\ (~cfg.list \/ cfg.head = 0)
      BY <1>11, <2>1, <2>3 DEF ReadStatus, AfterTrad
    <3>2. TradChain(cfg) = {}
      <4>1. CASE cfg.list
        <5>1. cfg.head \notin TradGood(cfg)
          BY <3>1, <4>1, AddrAssumption DEF TradGood
        <5>2. TradChain(cfg) \subseteq {}
          BY <4>1, <5>1, OwnChains DEF IsChain
        <5>3. QED
          BY <5>2
      <4>2. CASE ~cfg.list
        BY <4>2, OwnChains
      <4>3. QED
        BY <4>1, <4>2
    <3>3. QED
      BY <1>3, <1>4, <1>6, <2>1, <3>1, <3>2 DEF TradSoFar, ExtSoFar
  <2>4. QED
    BY <2>2, <2>3
<1>12. CASE TradStop
  <2>1. /\ UNCHANGED <<heap, live, known, want>> /\ pc = "trad"
        /\ CAPS \in want /\ CAPS \notin known /\ EXT_CAPS \notin want
        /\ pc' = "done"
    BY <1>12 DEF TradStop, dev, scan, AskInv, AfterTrad
  <2>2. seen = TradChain(cfg)
    <3>1. where \in seen \/ where \notin TradGood(cfg)
      BY <1>12 DEF TradStop, TradEnds, TradGood
    <3>2. QED
      BY <2>1, <3>1, OwnChains, WalkEnds DEF WalkInv
  <2>3. QED
    BY <1>3, <1>4, <1>6, <2>1, <2>2 DEF TradSoFar, ExtSoFar
<1>13. CASE TradNext
  <2>1. /\ UNCHANGED <<known, want>> /\ pc = "trad"
        /\ CAPS \in want /\ CAPS \notin known /\ EXT_CAPS \notin want
        /\ seen' = seen \cup {where} /\ where' = cfg.trad[where].next
        /\ pc' = IF where' = 0 THEN "done" ELSE "trad"
    BY <1>13 DEF TradNext, AskInv, AfterTrad
  <2>2. PICK c \in Cells : AddCap(c, where, cfg.trad[where].id, NORMAL)
    BY <1>13 DEF TradNext
  <2>3. /\ Addrs(NORMAL)' = Addrs(NORMAL) \cup {where}
        /\ Addrs(EXTENDED)' = Addrs(EXTENDED)
    BY <2>2, AddCapAddrs DEF NORMAL, EXTENDED
  <2>4. Addrs(NORMAL)' = seen'
    BY <1>13, <2>1, <2>3, NextEntry
  <2>5. where' = 0 => seen' = TradChain(cfg)
    <3>1. Walked(seen, where, TradChain(cfg), cfg.head, cfg.trad, TradGood(cfg))
          /\ cfg.list
      BY <2>1 DEF WalkInv
    <3>2. Walked(seen', where', TradChain(cfg), cfg.head, cfg.trad, TradGood(cfg))
      BY <1>13, <2>1, <3>1, OwnChains, NextEntry, WalkedOn
    <3>3. where' = 0 => where' \notin TradGood(cfg)
      BY AddrAssumption DEF TradGood
    <3>4. QED
      BY <3>1, <3>2, <3>3, OwnChains, WalkEnds
  <2>6. Addrs(EXTENDED) = ExtSoFar
    BY <2>1 DEF SoFarInv
  <2>7. QED
    BY <1>2, <1>3, <1>4, <2>1, <2>3, <2>4, <2>5, <2>6 DEF ExtSoFar
<1>14. CASE FindExpress
  <2>1. /\ UNCHANGED <<heap, live, known, want>> /\ pc = "find_exp"
        /\ CAPS \in known /\ EXT_CAPS \in want /\ EXT_CAPS \notin known
    BY <1>14 DEF FindExpress, dev, AskInv
  <2>2. Addrs(NORMAL) = TradChain(cfg)
    BY <2>1 DEF SoFarInv, TradSoFar
  <2>3. CASE HasExpress(cfg)
    <3>1. pc' = "ext" /\ seen' = {}
      BY <1>14, <2>1, <2>2, <2>3, ExpressFound DEF FindExpress, ListInv
    <3>2. QED
      BY <1>3, <1>4, <1>6, <2>1, <3>1 DEF TradSoFar, ExtSoFar
  <2>4. CASE ~HasExpress(cfg)
    <3>1. pc' = "done" /\ ExtChain(cfg) = {}
      BY <1>14, <2>1, <2>2, <2>4, ExpressFound, OwnChains
         DEF FindExpress, ListInv
    <3>2. QED
      BY <1>3, <1>4, <1>6, <2>1, <3>1 DEF TradSoFar, ExtSoFar
  <2>5. QED
    BY <2>3, <2>4
<1>15. CASE ExtStop
  <2>1. /\ UNCHANGED <<heap, live, known, want>> /\ pc = "ext"
        /\ CAPS \in known /\ EXT_CAPS \in want /\ EXT_CAPS \notin known
        /\ pc' = "done"
    BY <1>15 DEF ExtStop, dev, scan, AskInv
  <2>2. seen = ExtChain(cfg)
    <3>1. where \in seen \/ where \notin ExtGood(cfg)
      BY <1>15 DEF ExtStop, ExtEnds, ExtGood
    <3>2. QED
      BY <2>1, <3>1, OwnChains, WalkEnds DEF WalkInv
  <2>3. QED
    BY <1>3, <1>4, <1>6, <2>1, <2>2 DEF TradSoFar, ExtSoFar
<1>16. CASE ExtNext
  <2>1. /\ UNCHANGED <<known, want>> /\ pc = "ext"
        /\ CAPS \in known /\ EXT_CAPS \in want /\ EXT_CAPS \notin known
        /\ seen' = seen \cup {where} /\ where' = cfg.ext[where].next
        /\ pc' = IF where' = 0 THEN "done" ELSE "ext"
    BY <1>16 DEF ExtNext, AskInv
  <2>2. PICK c \in Cells : AddCap(c, where, cfg.ext[where].id, EXTENDED)
    BY <1>16 DEF ExtNext
  <2>3. /\ Addrs(EXTENDED)' = Addrs(EXTENDED) \cup {where}
        /\ Addrs(NORMAL)' = Addrs(NORMAL)
    BY <2>2, AddCapAddrs DEF NORMAL, EXTENDED
  <2>4. Addrs(EXTENDED)' = seen'
    BY <1>16, <2>1, <2>3, NextEntry
  <2>5. where' = 0 => seen' = ExtChain(cfg)
    <3>1. Walked(seen, where, ExtChain(cfg), ExtBase, cfg.ext, ExtGood(cfg))
          /\ HasExpress(cfg)
      BY <2>1 DEF WalkInv
    <3>2. Walked(seen', where', ExtChain(cfg), ExtBase, cfg.ext, ExtGood(cfg))
      BY <1>16, <2>1, <3>1, OwnChains, NextEntry, WalkedOn
    <3>3. where' = 0 => where' \notin ExtGood(cfg)
      BY AddrAssumption DEF ExtGood
    <3>4. QED
      BY <3>1, <3>2, <3>3, OwnChains, WalkEnds
  <2>6. Addrs(NORMAL) = TradSoFar
    BY <2>1 DEF SoFarInv
  <2>7. QED
    BY <1>2, <1>3, <1>4, <2>1, <2>3, <2>4, <2>5, <2>6 DEF TradSoFar
<1>17. CASE OutOfMemory
  BY <1>2, <1>17 DEF OutOfMemory
<1>18. CASE ScanReturn
  <2>1. /\ UNCHANGED <<heap, live>> /\ pc = "done" /\ pc' = "ret"
        /\ known' = known \cup want
    BY <1>18 DEF ScanReturn, dev, AskInv
  <2>2. QED
    BY <1>3, <1>4, <1>6, <2>1 DEF TradSoFar, ExtSoFar
<1>19. CASE Return
  <2>1. UNCHANGED <<heap, live, known>> /\ pc = "ret" /\ pc' = "idle"
    BY <1>19 DEF Return, dev
  <2>2. QED
    BY <1>3, <1>4, <1>6, <2>1 DEF TradSoFar, ExtSoFar
<1>20. QED
  BY <1>7, <1>8, <1>9, <1>10, <1>11, <1>12, <1>13, <1>14, <1>15, <1>16, <1>17,
     <1>18, <1>19, Client \/ Library DEF Library

\* The count pci_find_cap_nr() returns is that of the device's capabilities.
LEMMA CountStep ==
  ASSUME TypeOK, ListOK, Quiet, AskInv, SoFarInv, EntriesInv, CountIsActual,
         cfg' = cfg, Client \/ Library, ListInv
  PROVE  CountIsActual'
<1>1. CASE Return /\ op.kind = "find"
  <2> DEFINE query == op.query
             chain == IF query.type = NORMAL THEN TradChain(cfg) ELSE ExtChain(cfg)
             IdOf(a) == IF query.type = NORMAL THEN cfg.trad[a].id
                                               ELSE cfg.ext[a].id
             hits == {c \in live : /\ heap[c].id = query.id
                                   /\ heap[c].type = query.type}
             there == {a \in chain : IdOf(a) = query.id}
             f == [c \in hits |-> heap[c].addr]
  <2>1. query.type \in {NORMAL, EXTENDED} /\ query \in Queries
    BY <1>1, QueriesAssumption DEF TypeOK, Ops
  <2>2. pc = "ret" /\ ret' = FindInList(query) /\ op' = op
    BY <1>1 DEF Return
  <2>3. IF query.type = NORMAL THEN CAPS \in known ELSE EXT_CAPS \in known
    BY <1>1, <2>2 DEF AskInv
  <2>4. Addrs(query.type) = chain
    BY <2>1, <2>2, <2>3 DEF SoFarInv, TradSoFar, ExtSoFar
  <2>5. \A c \in hits : heap[c].addr \in there
    BY <2>1, <2>4, EntriesOfType DEF NORMAL, EXTENDED
  <2>6. \A a \in there : \E c \in hits : heap[c].addr = a
    BY <2>1, <2>4, EntriesOfType DEF NORMAL, EXTENDED
  <2>7. \A c, d \in hits : heap[c].addr = heap[d].addr => c = d
    BY DEF EntriesInv
  <2>8. ret'.count = Cardinality(Matches(query.id, query.type))
    BY <2>2 DEF FindInList
  <2>9. IsFiniteSet(hits) /\ ret'.count = Cardinality(hits)
    BY <2>8, MatchesAre
  <2>10. f \in Bijection(hits, there)
    <3> HIDE DEF hits, there
    <3>1. f \in [hits -> there] /\ \A c \in hits : f[c] = heap[c].addr
      BY <2>5
    <3> HIDE DEF f
    <3>2. QED
      BY <2>6, <2>7, <3>1, Fun_IsBij
  <2>11. ret'.count = Cardinality(there)
    <3> HIDE DEF hits, there, f
    <3>1. ExistsBijection(hits, there)
      BY <2>10 DEF ExistsBijection
    <3>2. QED
      BY <2>9, <3>1, FS_Bijection
  <2>12. ret'.count = IF query.type = NORMAL
                        THEN Cardinality({a \in TradChain(cfg) :
                                            cfg.trad[a].id = query.id})
                        ELSE Cardinality({a \in ExtChain(cfg) :
                                            cfg.ext[a].id = query.id})
    BY <2>11
  <2>13. QED
    BY <2>2, <2>12 DEF CountIsActual
<1>2. CASE ~(pc' = "idle" /\ op'.kind = "find")
  BY <1>2 DEF CountIsActual
<1>3. (Return /\ op.kind = "find") \/ ~(pc' = "idle" /\ op'.kind = "find")
  BY Client \/ Library
     DEF Client, Library, FillInfo, FindCap, FreeDev, FreeNext, FreeDone, Fill,
         ReadStatus, TradStop, TradNext, FindExpress, ExtStop, ExtNext,
         AfterTrad, OutOfMemory, ScanReturn, Return, ListInv
<1>4. QED
  BY <1>1, <1>2, <1>3

\* Clients do not mix fields that the back-end does not have into a request for
\* capabilities.
Unmixed ==
  \A flags \in Requests :
    flags \cap {CAPS, EXT_CAPS} # {} => flags \cap Fields \subseteq Supported

\* Known fields, and those about to be, are the back-end's.
FieldsInv == KnownIsSupported /\ want \cap Fields \subseteq Supported

LEMMA FieldsStep ==
  ASSUME Unmixed, TypeOK, FieldsInv, [Next]_vars
  PROVE  FieldsInv'
<1> USE DEF FieldsInv, KnownIsSupported
<1>1. /\ CAPS \notin Fields /\ EXT_CAPS \notin Fields /\ RESCAN \notin Fields
      /\ Supported \subseteq Fields
  BY FlagsAssumption
<1>2. CASE Fill
  <2>1. op.flags \in Requests \cup {{CAPS}, {EXT_CAPS}, {}}
    BY DEF TypeOK, Ops
  <2>2. op.flags \cap {CAPS, EXT_CAPS} # {} => op.flags \cap Fields \subseteq Supported
    BY <1>1, <2>1 DEF Unmixed
  <2>3. known' = known \/ known' = known \cup ((op.flags \ known) \cap Supported)
    BY <1>2 DEF Fill
  <2>4. \/ want' = want
        \/ /\ op.flags \cap {CAPS, EXT_CAPS} # {}
           /\ want' \subseteq op.flags \cup {CAPS}
    BY <1>2 DEF Fill
  <2>5. QED
    BY <1>1, <2>2, <2>3, <2>4
<1>3. CASE ScanReturn
  BY <1>1, <1>3 DEF ScanReturn
<1>4. CASE ~Fill /\ ~ScanReturn
  <2>1. want' = want /\ (known' = known \/ known' = {})
    BY <1>4 DEF Next, Client, Library, vars, scan, HwChange, FillInfo, FindCap,
       FreeDev, FreeNext, FreeDone, ReadStatus, TradStop, TradNext, FindExpress,
       ExtStop, ExtNext, OutOfMemory, Return
  <2>2. QED
    BY <2>1
<1>5. QED
  BY <1>2, <1>3, <1>4

LEMMA QuietInit == Init => QuietInv /\ FieldsInv
<1> SUFFICES ASSUME Init PROVE QuietInv /\ FieldsInv
  OBVIOUS
<1>1. AskInv /\ EntriesInv /\ WalkInv /\ CountIsActual /\ FieldsInv
  BY DEF Init, AskInv, EntriesInv, WalkInv, CountIsActual, FieldsInv,
         KnownIsSupported
<1>2. SoFarInv
  BY DEF Init, SoFarInv, Addrs, TradSoFar, ExtSoFar
<1>3. QED
  BY <1>1, <1>2 DEF QuietInv

LEMMA QuietStep ==
  ASSUME NoRescan, TypeOK, ListInv, ListInv', QuietInv, [Next]_vars
  PROVE  QuietInv'
<1> SUFFICES ASSUME Quiet'
             PROVE  (AskInv /\ EntriesInv /\ WalkInv /\ SoFarInv /\ CountIsActual)'
  BY DEF QuietInv
<1>1. Quiet /\ cfg' = cfg /\ ~HwChange
  BY QuietStays
<1>2. AskInv /\ EntriesInv /\ WalkInv /\ SoFarInv /\ CountIsActual
  BY <1>1 DEF QuietInv
<1>3. CASE UNCHANGED vars
  <2>1. AskInv' /\ EntriesInv' /\ WalkInv' /\ CountIsActual'
    BY <1>2, <1>3 DEF vars, dev, scan, AskInv, EntriesInv, WalkInv, CountIsActual
  <2>2. SoFarInv'
    BY <1>2, <1>3 DEF vars, dev, scan, SoFarInv, Addrs, TradSoFar, ExtSoFar
  <2>3. QED
    BY <2>1, <2>2
<1>4. CASE Client \/ Library
  <2>1. AskInv'
    BY <1>1, <1>2, <1>4, AskStep
  <2>2. EntriesInv'
    BY <1>1, <1>2, <1>4, EntriesStep DEF ListInv
  <2>3. WalkInv'
    BY <1>1, <1>2, <1>4, WalkStep DEF ListInv
  <2>4. SoFarInv'
    BY <1>1, <1>2, <1>4, SoFarStep
  <2>5. CountIsActual'
    BY <1>1, <1>2, <1>4, CountStep DEF ListInv
  <2>6. QED
    BY <2>1, <2>2, <2>3, <2>4, <2>5
<1>5. QED
  BY <1>1, <1>3, <1>4 DEF Next

LEMMA QuietIsTrue ==
  TypeOK /\ ListInv /\ QuietInv /\ FieldsInv => KnownIsTrue
<1> SUFFICES ASSUME TypeOK, ListInv, QuietInv, FieldsInv PROVE KnownIsTrue
  OBVIOUS
<1>1. Listed = live
  BY ListedIsLive DEF ListInv
<1>2. ASSUME pc = "idle", Quiet
      PROVE  KnownCapsAreThere
  <2>1. /\ EntriesInv
        /\ EXT_CAPS \in known => CAPS \in known
        /\ CAPS \in known => Addrs(NORMAL) = TradChain(cfg)
        /\ EXT_CAPS \in known => Addrs(EXTENDED) = ExtChain(cfg)
    BY <1>2 DEF QuietInv, AskInv, SoFarInv, TradSoFar, ExtSoFar
  <2>2. \A t : {heap[c].addr : c \in {x \in Listed : heap[x].type = t}} = Addrs(t)
    BY <1>1 DEF Addrs
  <2>3. ASSUME NEW a \in Addrs(NORMAL)
        PROVE  HasCap(a, cfg.trad[a].id, NORMAL)
    <3>1. PICK c \in live : /\ heap[c].type = NORMAL /\ heap[c].addr = a
                           /\ heap[c].id = cfg.trad[a].id
      BY <2>1, EntriesOfType
    <3>2. QED
      BY <1>1, <3>1 DEF HasCap
  <2>4. ASSUME NEW a \in Addrs(EXTENDED)
        PROVE  HasCap(a, cfg.ext[a].id, EXTENDED)
    <3>1. PICK c \in live : /\ heap[c].type = EXTENDED /\ heap[c].addr = a
                           /\ heap[c].id = cfg.ext[a].id
      BY <2>1, EntriesOfType
    <3>2. QED
      BY <1>1, <3>1 DEF HasCap
  <2>5. CAPS \in known =>
          /\ {heap[c].addr : c \in {x \in Listed : heap[x].type = NORMAL}}
               = TradChain(cfg)
          /\ \A a \in TradChain(cfg) : HasCap(a, cfg.trad[a].id, NORMAL)
    BY <2>1, <2>2, <2>3
  <2>6. EXT_CAPS \in known =>
          /\ CAPS \in known
          /\ {heap[c].addr : c \in {x \in Listed : heap[x].type = EXTENDED}}
               = ExtChain(cfg)
          /\ \A a \in ExtChain(cfg) : HasCap(a, cfg.ext[a].id, EXTENDED)
    BY <2>1, <2>2, <2>4
  <2>7. QED
    BY <2>5, <2>6 DEF KnownCapsAreThere
<1>3. ~(pc = "idle" /\ Quiet) => KnownCapsAreThere
  BY DEF KnownCapsAreThere, Quiet
<1>4. ListedOnce
  BY <1>1 DEF ListedOnce, QuietInv, EntriesInv, Quiet
<1>5. CountIsActual
  BY DEF QuietInv, Quiet, CountIsActual
<1>6. QED
  BY <1>2, <1>3, <1>4, <1>5 DEF KnownIsTrue, FieldsInv

\* What pci_fill_info() and pci_find_cap_nr() report is so: with quiet hardware
\* the list holds exactly the chains of the configuration space, loops in them
\* or not, each entry once, and the count is the actual one; and no field is
\* known that the back-end does not obtain.
THEOREM KnownIsSo ==
  ASSUME NoRescan, Unmixed
  PROVE  Spec => []KnownIsTrue
<1>1. Init => ListInv
  BY DEF Init, ListInv, ListOK
<1>2. TypeOK /\ ListInv /\ [Next]_vars => ListInv'
  BY NoRescan, ListStep
<1>3. TypeOK /\ ListInv /\ ListInv' /\ QuietInv /\ [Next]_vars => QuietInv'
  BY NoRescan, QuietStep
<1>4. TypeOK /\ FieldsInv /\ [Next]_vars => FieldsInv'
  BY Unmixed, FieldsStep
<1>5. QED
  BY <1>1, <1>2, <1>3, <1>4, QuietInit, QuietIsTrue, TypeCorrect, PTL DEF Spec

============================================================================
