----------------------------- MODULE MCPciCaps -----------------------------
(***************************************************************************)
(* Instances of PciCaps for TLC: two positions for traditional             *)
(* capabilities, one or two for extended ones.                             *)
(***************************************************************************)
EXTENDS PciCaps, TLC

CONSTANTS exp, msi, ff  \* identifiers: PCI Express, another one, 0xff

Trad == {64, 80}
Ext1 == {256}
Ids == {exp, msi, ff}

TradTables(T) == [T -> [id : Ids, next : T \cup {0}]]
ExtTables(E) ==
  [E -> ([used : {TRUE}, id : {msi}, next : E \cup {0}]
         \cup {[used |-> FALSE, id |-> ff, next |-> 0]})]

\* Every configuration space over these positions and identifiers, up to the
\* exchange of the two positions and to contents that no list head leads to.
Base == [list |-> TRUE, head |-> 64,
         trad |-> [a \in Trad |-> [id |-> exp, next |-> 0]],
         ext |-> [a \in Ext1 |-> [used |-> TRUE, id |-> msi, next |-> 0]]]
AllConfigs ==
  {[Base EXCEPT !.trad = t, !.ext = e] :
     t \in TradTables(Trad), e \in ExtTables(Ext1)}
  \cup {[Base EXCEPT !.list = FALSE], [Base EXCEPT !.head = 0]}

\* A device with one capability of each kind, one whose chains loop, and an
\* absent one: the hardware changes between them.
Entry(i, n) == [id |-> i, next |-> n]
Header(n) == [used |-> TRUE, id |-> msi, next |-> n]
Small == [list |-> TRUE, head |-> 80,
          trad |-> [a \in Trad |-> Entry(exp, 0)], ext |-> (256 :> Header(0))]
Looping == [list |-> TRUE, head |-> 80,
            trad |-> (64 :> Entry(msi, 80)) @@ (80 :> Entry(exp, 64)),
            ext |-> (256 :> Header(256))]
Gone == [list |-> TRUE, head |-> 80,
         trad |-> [a \in Trad |-> Entry(ff, 80)],
         ext |-> (256 :> [used |-> FALSE, id |-> ff, next |-> 0])]
FewConfigs == {Small, Looping, Gone}
QuietAndFew == AllConfigs \cup FewConfigs
NoConfigs == {}

\* A back-end that does not obtain the physical slot (dump, proc, ports).
SomeFields == {"IDENT", "PHYS_SLOT"}
SomeSupported == {"IDENT"}

NoQueries == {}
SomeQueries == {[id |-> exp, type |-> NORMAL, nr |-> 0],
                [id |-> msi, type |-> NORMAL, nr |-> 1],
                [id |-> msi, type |-> EXTENDED, nr |-> 0]}

\* Masks that ask for capabilities only together with each other, and masks
\* with the request to forget what is known.
PlainRequests == {{"IDENT"}, {"PHYS_SLOT"}, {CAPS}, {EXT_CAPS},
                  {CAPS, EXT_CAPS}}
RescanRequests == {{CAPS}, {RESCAN, CAPS}, {RESCAN, "IDENT"}}

CellSymmetry == Permutations(Cells)
============================================================================
