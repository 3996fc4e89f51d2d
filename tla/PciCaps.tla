------------------------------ MODULE PciCaps ------------------------------
(***************************************************************************)
(* One struct pci_dev of libpci as its clients see it: pci_fill_info()     *)
(* with its mask of known fields (lib/access.c) and the linked list of     *)
(* capabilities that pci_scan_caps() builds from the configuration space   *)
(* (lib/caps.c), including the nested call pci_scan_ext_caps() ->          *)
(* pci_find_cap() -> pci_fill_info() and the release of the list by        *)
(* PCI_FILL_RESCAN and by pci_free_dev().                                  *)
(*                                                                         *)
(* The configuration space is read one access at a time while the hardware *)
(* may change under the reader, so every loop iteration is a step.  List   *)
(* cells are addresses handed out by malloc(): pointers may dangle.        *)
(***************************************************************************)
EXTENDS Naturals, Sequences, FiniteSets

CONSTANTS
  Cells,      \* addresses that can hold a struct pci_cap
  NULL,       \* the null pointer
  TradAddr,   \* positions of traditional capabilities, below 0x100
  ExtAddr,    \* positions of extended capabilities
  ExtBase,    \* 0x100, where the extended list starts
  CapIds,     \* capability identifiers
  ExpId,      \* PCI_CAP_ID_EXP
  BadId,      \* 0xff, what reading an absent device gives
  Fields,     \* the PCI_FILL_xxx flags other than the three named below
  Supported,  \* those of Fields the back-end's fill_info() obtains
  Requests,   \* the masks clients pass to pci_fill_info()
  Queries,    \* what clients look for: the arguments of pci_find_cap_nr()
  Configs,    \* the contents the configuration space can have
  Volatile    \* those of Configs that may change into each other while the
              \* library runs

CAPS == "CAPS"
EXT_CAPS == "EXT_CAPS"
RESCAN == "RESCAN"
Flags == Fields \cup {CAPS, EXT_CAPS, RESCAN}

NORMAL == 1    \* PCI_CAP_NORMAL
EXTENDED == 2  \* PCI_CAP_EXTENDED

Addr == TradAddr \cup ExtAddr

\* What the scanners can read: the PCI_STATUS_CAP_LIST bit, the list head, the
\* two bytes of each traditional entry and the header of each extended one;
\* "used" is FALSE where the header reads 0 or 0xffffffff.
ConfigSpace ==
  [list : BOOLEAN,
   head : TradAddr \cup {0},
   trad : [TradAddr -> [id : CapIds, next : TradAddr \cup {0}]],
   ext  : [ExtAddr -> [used : BOOLEAN, id : CapIds, next : ExtAddr \cup {0}]]]

ASSUME CellsAssumption == IsFiniteSet(Cells) /\ NULL \notin Cells
ASSUME AddrAssumption ==
  /\ TradAddr \subseteq Nat \ {0}
  /\ ExtAddr \subseteq Nat \ {0}
  /\ TradAddr \cap ExtAddr = {}
  /\ ExtBase \in ExtAddr
  /\ IsFiniteSet(TradAddr) /\ IsFiniteSet(ExtAddr)
ASSUME IdAssumption == {ExpId, BadId} \subseteq CapIds /\ ExpId # BadId
ASSUME FlagsAssumption ==
  /\ Fields \cap {CAPS, EXT_CAPS, RESCAN} = {}
  /\ Supported \subseteq Fields
  /\ Requests \subseteq SUBSET Flags
ASSUME QueriesAssumption ==
  Queries \subseteq [id : CapIds, type : {NORMAL, EXTENDED}, nr : Nat]
ASSUME ConfigsAssumption ==
  Configs \subseteq ConfigSpace /\ Volatile \subseteq Configs

VARIABLES
  cfg,     \* the device's configuration space
  known,   \* d->known_fields
  heap,    \* contents of the cells
  live,    \* cells malloc() has handed out and free() not taken back
  first,   \* d->first_cap
  last,    \* d->last_cap
  order,   \* history: the linked cells, oldest first
  pc,      \* where the library is
  op,      \* the client's call
  want,    \* want_fields of the outermost pci_scan_caps()
  nested,  \* TRUE inside the pci_fill_info() made by pci_scan_ext_caps()
  where,   \* the scanners' loop variable
  seen,    \* the scanners' been_there[]
  ret      \* what the last pci_find_cap_nr() returned

vars == <<cfg, known, heap, live, first, last, order, pc, op, want, nested,
          where, seen, ret>>
dev == <<heap, live, first, last, order>>
scan == <<want, nested, where, seen>>

Cap == [addr : Addr \cup {0}, id : CapIds, type : {0, NORMAL, EXTENDED},
        next : Cells \cup {NULL}]
Blank == [addr |-> 0, id |-> BadId, type |-> 0, next |-> NULL]

Ops == [kind : {"fill"}, flags : Requests]
       \cup [kind : {"find"}, flags : {{CAPS}, {EXT_CAPS}}, query : Queries]
       \cup [kind : {"free"}, flags : {{}}]

TypeOK ==
  /\ cfg \in Configs
  /\ known \subseteq Flags
  /\ heap \in [Cells -> Cap]
  /\ live \subseteq Cells
  /\ {first, last} \subseteq Cells \cup {NULL}
  /\ order \in Seq(Cells)
  /\ pc \in {"idle", "free", "fill", "status", "trad", "find_exp", "ext",
             "done", "ret", "exit"}
  /\ op \in Ops
  /\ want \subseteq Flags
  /\ nested \in BOOLEAN
  /\ where \in Addr \cup {0}
  /\ pc = "trad" => where \in TradAddr
  /\ pc = "ext" => where \in ExtAddr
  /\ seen \subseteq Addr
  /\ ret \in [found : Cells \cup {NULL}, count : Nat]

----------------------------------------------------------------------------
(***************************************************************************)
(* The capability list.                                                    *)
(***************************************************************************)

\* The pointers a traversal from first_cap follows: the n-th one, or NULL.
Nth[n \in 0..Cardinality(Cells)] ==
  IF n = 0 THEN first
  ELSE IF Nth[n - 1] = NULL THEN NULL ELSE heap[Nth[n - 1]].next

\* Positions of the traversal that hold a capability with this id and type.
Matches(id, type) ==
  {n \in 0..Cardinality(Cells) :
     /\ Nth[n] \in Cells
     /\ heap[Nth[n]].id = id
     /\ heap[Nth[n]].type = type}

\* The loop of pci_find_cap_nr(): the nr-th match and the number of matches.
FindInList(query) ==
  LET hits == Matches(query.id, query.type)
      isNr(n) == Cardinality({m \in hits : m < n}) = query.nr
  IN [found |-> IF \E n \in hits : isNr(n)
                  THEN Nth[CHOOSE n \in hits : isNr(n)] ELSE NULL,
      count |-> Cardinality(hits)]

\* Faults of the list: a cell that is not linked to the one before it, a tail
\* pointer that does not move, and a cell put where the head was.
AddCapUnlinked(c, addr, id, type) ==
  /\ c \notin live
  /\ live' = live \cup {c}
  /\ heap' = [heap EXCEPT ![c] = [addr |-> addr, id |-> id, type |-> type,
                                  next |-> NULL]]
  /\ first' = IF last = NULL THEN c ELSE first
  /\ last' = c
  /\ order' = Append(order, c)
AddCapStaleTail(c, addr, id, type) ==
  /\ c \notin live
  /\ live' = live \cup {c}
  /\ heap' = [x \in Cells |->
                IF x = c THEN [addr |-> addr, id |-> id, type |-> type,
                               next |-> NULL]
                ELSE IF x = last THEN [heap[x] EXCEPT !.next = c]
                ELSE heap[x]]
  /\ first' = IF last = NULL THEN c ELSE first
  /\ last' = IF last = NULL THEN c ELSE last
  /\ order' = Append(order, c)
AddCapAtHead(c, addr, id, type) ==
  /\ c \notin live
  /\ live' = live \cup {c}
  /\ heap' = [heap EXCEPT ![c] = [addr |-> addr, id |-> id, type |-> type,
                                  next |-> NULL]]
  /\ first' = c
  /\ last' = c
  /\ order' = Append(order, c)

\* pci_add_cap().  The cell comes from malloc(), so any free one may be
\* returned; last_cap->next is written whatever last_cap points to.
AddCap(c, addr, id, type) ==
  /\ c \notin live
  /\ live' = live \cup {c}
  /\ heap' = [x \in Cells |->
                IF x = c THEN [addr |-> addr, id |-> id, type |-> type,
                               next |-> NULL]
                ELSE IF x = last THEN [heap[x] EXCEPT !.next = c]
                ELSE heap[x]]
  /\ first' = IF last = NULL THEN c ELSE first
  /\ last' = c
  /\ order' = Append(order, c)

----------------------------------------------------------------------------
Init ==
  /\ cfg \in Configs
  /\ known = {}
  /\ heap = [c \in Cells |-> Blank]
  /\ live = {}
  /\ first = NULL
  /\ last = NULL
  /\ order = <<>>
  /\ pc = "idle"
  /\ op = [kind |-> "free", flags |-> {}]
  /\ want = {}
  /\ nested = FALSE
  /\ where = 0
  /\ seen = {}
  /\ ret = [found |-> NULL, count |-> 0]

\* The environment plugs, unplugs or reprograms the device.
HwChange ==
  /\ pc # "exit"
  /\ cfg \in Volatile
  /\ cfg' \in Volatile
  /\ UNCHANGED <<known, dev, pc, op, scan, ret>>

\* With quiet hardware clients know PCI_FILL_CAPS before they ask for
\* PCI_FILL_EXT_CAPS, with volatile hardware they ask in any order.
MayAsk(flags) == EXT_CAPS \in flags /\ CAPS \notin known => cfg \in Volatile

\* pci_fill_info() up to its reset: PCI_FILL_RESCAN empties known_fields and
\* then releases the list.
FillInfo(flags) ==
  /\ pc = "idle"
  /\ MayAsk(flags)
  /\ op' = [kind |-> "fill", flags |-> flags]
  /\ IF RESCAN \in flags
       THEN known' = {} /\ pc' = "free"
       ELSE pc' = "fill" /\ UNCHANGED known
  /\ UNCHANGED <<cfg, dev, scan, ret>>

\* pci_find_cap_nr() up to its call of pci_fill_info().
FindCap(query) ==
  LET flags == IF query.type = NORMAL THEN {CAPS} ELSE {EXT_CAPS}
  IN /\ pc = "idle"
     /\ MayAsk(flags)
     /\ op' = [kind |-> "find", flags |-> flags, query |-> query]
     /\ pc' = "fill"
     /\ UNCHANGED <<cfg, known, dev, scan, ret>>

\* pci_free_dev(), after which the client allocates the device anew.
FreeDev ==
  /\ pc = "idle"
  /\ op' = [kind |-> "free", flags |-> {}]
  /\ pc' = "free"
  /\ UNCHANGED <<cfg, known, dev, scan, ret>>

\* One iteration of pci_free_caps().
FreeNext ==
  /\ pc = "free"
  /\ first # NULL
  /\ first' = heap[first].next
  /\ live' = live \ {first}
  /\ heap' = [heap EXCEPT ![first] = Blank]
  /\ order' = IF order = <<>> THEN order ELSE Tail(order)
  /\ UNCHANGED <<cfg, known, last, pc, op, scan, ret>>

\* pci_free_caps() has released the list.  After a rescan the device goes on
\* with last_cap as it is; pci_alloc_dev() clears a new device.
FreeDone ==
  /\ pc = "free"
  /\ first = NULL
  /\ IF op.kind = "free"
       THEN pc' = "idle" /\ known' = {} /\ last' = NULL
       ELSE pc' = "fill" /\ UNCHANGED <<known, last>>
  /\ UNCHANGED <<cfg, heap, live, first, order, op, scan, ret>>

\* A fault: fields the back-end does not have are taken for known.
FillUnsupported ==
  LET flags == op.flags \ known
      missing == op.flags \ (known \cup {RESCAN}) # {}
      caps == flags \cap {CAPS, EXT_CAPS} # {}
      fields == IF EXT_CAPS \in flags /\ CAPS \notin known
                  THEN flags \cup {CAPS} ELSE flags
  IN /\ pc = "fill"
     /\ IF missing /\ caps
          THEN /\ want' = fields
               /\ pc' = IF CAPS \in fields THEN "status" ELSE "find_exp"
               /\ UNCHANGED known
          ELSE /\ known' = IF missing THEN known \cup (flags \ {RESCAN})
                           ELSE known
               /\ pc' = "ret"
               /\ UNCHANGED want
     /\ UNCHANGED <<cfg, dev, op, nested, where, seen, ret>>

\* pci_fill_info() and the back-end's fill_info(): what is requested and not
\* yet known is obtained; capabilities need a scan.
Fill ==
  LET flags == op.flags \ known
      missing == op.flags \ (known \cup {RESCAN}) # {}
      caps == flags \cap {CAPS, EXT_CAPS} # {}
      fields == IF EXT_CAPS \in flags /\ CAPS \notin known
                  THEN flags \cup {CAPS} ELSE flags
  IN /\ pc = "fill"
     /\ IF missing /\ caps
          THEN /\ want' = fields
               /\ pc' = IF CAPS \in fields THEN "status" ELSE "find_exp"
               /\ UNCHANGED known
          ELSE /\ known' = IF missing THEN known \cup (flags \cap Supported)
                           ELSE known
               /\ pc' = "ret"
               /\ UNCHANGED want
     /\ UNCHANGED <<cfg, dev, op, nested, where, seen, ret>>

\* Where pci_scan_caps() goes when pci_scan_trad_caps() returns.
AfterTrad == IF ~nested /\ EXT_CAPS \in want THEN "find_exp" ELSE "done"

\* pci_scan_trad_caps() reads the status register and the list head.
ReadStatus ==
  /\ pc = "status"
  /\ IF cfg.list /\ cfg.head # 0
       THEN where' = cfg.head /\ seen' = {} /\ pc' = "trad"
       ELSE pc' = AfterTrad /\ UNCHANGED <<where, seen>>
  /\ UNCHANGED <<cfg, known, dev, op, want, nested, ret>>

\* A fault: been_there[] is not looked at.
TradEndsOnBadId == cfg.trad[where].id = BadId

\* The loop of pci_scan_trad_caps() ends on a position seen before and on an
\* entry that reads 0xff ...
TradEnds == where \in seen \/ cfg.trad[where].id = BadId

TradStop ==
  /\ pc = "trad"
  /\ TradEnds
  /\ pc' = AfterTrad
  /\ UNCHANGED <<cfg, known, dev, op, scan, ret>>

\* A fault: the end of the chain is not noticed.
TradNextPastEnd ==
  LET entry == cfg.trad[where]
  IN /\ pc = "trad"
     /\ ~TradEnds
     /\ \E c \in Cells : AddCap(c, where, entry.id, NORMAL)
     /\ seen' = seen \cup {where}
     /\ where' = entry.next
     /\ UNCHANGED <<pc, cfg, known, op, want, nested, ret>>

\* ... and otherwise records the entry and follows its link.
TradNext ==
  LET entry == cfg.trad[where]
  IN /\ pc = "trad"
     /\ ~TradEnds
     /\ \E c \in Cells : AddCap(c, where, entry.id, NORMAL)
     /\ seen' = seen \cup {where}
     /\ where' = entry.next
     /\ pc' = IF entry.next = 0 THEN AfterTrad ELSE "trad"
     /\ UNCHANGED <<cfg, known, op, want, nested, ret>>

\* pci_scan_ext_caps() looks for the PCI Express capability: pci_find_cap()
\* first fills PCI_FILL_CAPS, which is a second scan while it is unknown.
FindExpress ==
  /\ pc = "find_exp"
  /\ IF CAPS \notin known
       THEN nested' = TRUE /\ pc' = "status" /\ UNCHANGED <<where, seen>>
       ELSE /\ IF Matches(ExpId, NORMAL) = {}
                 THEN pc' = "done" /\ UNCHANGED <<where, seen>>
                 ELSE pc' = "ext" /\ where' = ExtBase /\ seen' = {}
            /\ UNCHANGED nested
  /\ UNCHANGED <<cfg, known, dev, op, want, ret>>

\* The loop of pci_scan_ext_caps().
ExtEnds == ~cfg.ext[where].used \/ where \in seen

ExtStop ==
  /\ pc = "ext"
  /\ ExtEnds
  /\ pc' = "done"
  /\ UNCHANGED <<cfg, known, dev, op, scan, ret>>

ExtNext ==
  LET entry == cfg.ext[where]
  IN /\ pc = "ext"
     /\ ~ExtEnds
     /\ \E c \in Cells : AddCap(c, where, entry.id, EXTENDED)
     /\ seen' = seen \cup {where}
     /\ where' = entry.next
     /\ pc' = IF entry.next = 0 THEN "done" ELSE "ext"
     /\ UNCHANGED <<cfg, known, op, want, nested, ret>>

\* pci_malloc() reports the lack of memory through a->error(), which exits.
OutOfMemory ==
  /\ \/ pc = "trad" /\ ~TradEnds
     \/ pc = "ext" /\ ~ExtEnds
  /\ live = Cells
  /\ pc' = "exit"
  /\ UNCHANGED <<cfg, known, dev, op, scan, ret>>

\* Faults: the outer, or the nested, scan does not count as done.
ScanForgotten ==
  /\ pc = "done"
  /\ IF nested
       THEN known' = known \cup {CAPS} /\ nested' = FALSE /\ pc' = "find_exp"
       ELSE pc' = "ret" /\ UNCHANGED <<known, nested>>
  /\ UNCHANGED <<cfg, dev, op, want, where, seen, ret>>
NestedScanForgotten ==
  /\ pc = "done"
  /\ IF nested
       THEN nested' = FALSE /\ pc' = "find_exp" /\ UNCHANGED known
       ELSE known' = known \cup want /\ pc' = "ret" /\ UNCHANGED nested
  /\ UNCHANGED <<cfg, dev, op, want, where, seen, ret>>

\* pci_scan_caps() returns want_fields, all of which become known.
ScanReturn ==
  /\ pc = "done"
  /\ IF nested
       THEN known' = known \cup {CAPS} /\ nested' = FALSE /\ pc' = "find_exp"
       ELSE known' = known \cup want /\ pc' = "ret" /\ UNCHANGED nested
  /\ UNCHANGED <<cfg, dev, op, want, where, seen, ret>>

\* The call returns; pci_find_cap_nr() searches the list first.
Return ==
  /\ pc = "ret"
  /\ ret' = IF op.kind = "find" THEN FindInList(op.query) ELSE ret
  /\ pc' = "idle"
  /\ UNCHANGED <<cfg, known, dev, op, scan>>

Client ==
  \/ \E flags \in Requests : FillInfo(flags)
  \/ \E query \in Queries : FindCap(query)
  \/ FreeDev

Library ==
  \/ FreeNext \/ FreeDone \/ Fill
  \/ ReadStatus \/ TradStop \/ TradNext
  \/ FindExpress \/ ExtStop \/ ExtNext
  \/ OutOfMemory \/ ScanReturn \/ Return

Next == Client \/ Library \/ HwChange

Spec == Init /\ [][Next]_vars

\* The library runs in the caller's thread: a call that can go on does.
FairSpec == Spec /\ WF_vars(Library)
----------------------------------------------------------------------------
(***************************************************************************)
(* Properties.                                                             *)
(***************************************************************************)

\* The pointers realize the list: first_cap, the next links and last_cap run
\* through exactly the cells malloc() has handed out, in the order in which
\* pci_add_cap() linked them, so that no capability is lost, linked twice or
\* left behind by free(), and last_cap never dangles.  Only pci_free_caps()
\* leaves last_cap behind while it runs.
ListOK ==
  /\ live = {order[i] : i \in 1..Len(order)}
  /\ \A i, j \in 1..Len(order) : order[i] = order[j] => i = j
  /\ first = IF order = <<>> THEN NULL ELSE order[1]
  /\ \A i \in 1..Len(order) :
       heap[order[i]].next = IF i = Len(order) THEN NULL ELSE order[i + 1]
  /\ IF order = <<>> THEN pc = "free" \/ last = NULL
                     ELSE last = order[Len(order)]

\* "Last capability in the list" (pci.h:165), between two calls.
LastCapInList ==
  LET listed == {Nth[n] : n \in 0..Cardinality(Cells)}
  IN pc = "idle" => last \in listed

\* What a client holds stays valid: outside pci_free_caps() a capability that
\* is reachable from first_cap stays reachable, with the same contents.
Listed == {Nth[n] : n \in 0..Cardinality(Cells)} \ {NULL}
CapsStay ==
  [][pc # "free" => /\ Listed \subseteq Listed'
                    /\ \A c \in Listed : [heap'[c] EXCEPT !.next = NULL]
                                         = [heap[c] EXCEPT !.next = NULL]]_vars

\* The chains in a configuration space, defined without the scanners' loop:
\* the entries reached from the head before the first one that reads 0xff.
TradChain(c) ==
  LET p[n \in 0..Cardinality(TradAddr)] ==
        IF n = 0 THEN c.head
        ELSE IF p[n - 1] = 0 THEN 0 ELSE c.trad[p[n - 1]].next
      good(n) == \A m \in 0..n : p[m] # 0 /\ c.trad[p[m]].id # BadId
  IN IF c.list THEN {p[n] : n \in {k \in DOMAIN p : good(k)}} ELSE {}
ExtChain(c) ==
  LET p[n \in 0..Cardinality(ExtAddr)] ==
        IF n = 0 THEN ExtBase
        ELSE IF p[n - 1] = 0 THEN 0 ELSE c.ext[p[n - 1]].next
      good(n) == \A m \in 0..n : p[m] # 0 /\ c.ext[p[m]].used
  IN IF \E a \in TradChain(c) : c.trad[a].id = ExpId
       THEN {p[n] : n \in {k \in DOMAIN p : good(k)}} ELSE {}

HasCap(addr, id, type) ==
  \E c \in Listed : /\ heap[c].addr = addr
                    /\ heap[c].id = id
                    /\ heap[c].type = type

\* With quiet hardware, once a call has returned and reports the capabilities
\* as known, the list holds the chains of the configuration space: none is
\* missing, none is invented, and loops in the chain cut nothing off.
KnownCapsAreThere ==
  pc = "idle" /\ cfg \notin Volatile =>
    /\ CAPS \in known =>
         {heap[c].addr : c \in {x \in Listed : heap[x].type = NORMAL}}
           = TradChain(cfg)
    /\ CAPS \in known =>
         \A a \in TradChain(cfg) : HasCap(a, cfg.trad[a].id, NORMAL)
    /\ EXT_CAPS \in known =>
         /\ CAPS \in known
         /\ {heap[c].addr : c \in {x \in Listed : heap[x].type = EXTENDED}}
              = ExtChain(cfg)
         /\ \A a \in ExtChain(cfg) : HasCap(a, cfg.ext[a].id, EXTENDED)

\* With quiet hardware a position of the configuration space is listed once.
ListedOnce ==
  cfg \notin Volatile => \A c, d \in Listed : heap[c].addr = heap[d].addr => c = d

\* pci_find_cap_nr(): "The cap_number will be replaced by the acutal number of
\* capablities with that id" (caps.c:120).
CountIsActual ==
  pc = "idle" /\ op.kind = "find" /\ cfg \notin Volatile =>
    ret.count = IF op.query.type = NORMAL
                  THEN Cardinality({a \in TradChain(cfg) :
                                      cfg.trad[a].id = op.query.id})
                  ELSE Cardinality({a \in ExtChain(cfg) :
                                      cfg.ext[a].id = op.query.id})

\* "we never consider known fields unsupported by the current back-end"
\* (pci.h:210).
KnownIsSupported == known \cap Fields \subseteq Supported

\* What a call reports is so: capabilities known are those of the device, each
\* once, their number is the actual one, and no field is known that the
\* back-end cannot obtain.
KnownIsTrue ==
  KnownCapsAreThere /\ ListedOnce /\ CountIsActual /\ KnownIsSupported

\* Every call of the library comes back, or ends the program for lack of
\* memory, however the hardware behaves meanwhile.
CallsReturn == pc # "idle" ~> pc \in {"idle", "exit"}

============================================================================
