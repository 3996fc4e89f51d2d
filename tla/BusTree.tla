------------------------------ MODULE BusTree ------------------------------
(***************************************************************************)
(* lspcie's tree of bridges and buses (ls-tree.c: grow_tree()), the        *)
(* climbing from a device to its parents (show_slot_path(),                *)
(* get_dmi_physlot()) and the diagram of option -t (show_forest()).        *)
(* Bridges are numbered in the order of their chain, the host bridge       *)
(* first; devices in the order sort_them() leaves them in.                 *)
(***************************************************************************)
EXTENDS Naturals, Sequences, FiniteSets, SequencesExt

CONSTANTS
  Domains,   \* PCI domains
  Buses,     \* bus numbers
  Slots,     \* device and function numbers, in one number
  Word,      \* 2^32: bus numbers in struct bridge are of type unsigned int
  Slotted,   \* addresses whose physical slot is known
  HostDev    \* TRUE if main() makes device 0000:00:00.0 stand for the host
             \* bridge: options -J or -T with -v

\* struct device, as far as the tree looks at it: the address, whether it is a
\* bridge, and the bus numbers in its configuration space.
Devices == [dom : Domains, bus : Buses, slot : Slots, bridge : BOOLEAN,
            prim : Buses, sec : Buses, sub : Buses]

ASSUME TopologyAssumption ==
  /\ Domains \subseteq Nat /\ Buses \subseteq Nat /\ Slots \subseteq Nat
  /\ Word \in Nat \ {0, 1} /\ \A b \in Buses : 2 * b < Word
  /\ HostDev \in BOOLEAN

VARIABLES
  devs,     \* the sorted list of devices
  bridges,  \* the chain of bridges: domain, range of buses, device
  child,    \* the children of each bridge, latest first
  buses,    \* the buses of each bridge, latest first, with their devices
  parent,   \* the bridge on whose bus each device has been inserted
  tpc,      \* what lspcie is doing
  i,        \* the device or bridge at hand
  at,       \* the bridge insert_dev() is at, or the device climbed to
  shown,    \* the devices of the diagram, in order
  todo      \* the devices that are to come in the diagram

tvars == <<devs, bridges, child, buses, parent, tpc, i, at, shown, todo>>

NoDevice == 0
Address(d) == <<d.dom, d.bus, d.slot>>

\* compare_them(): by domain, bus, device and function.
Before(d, e) ==
  \/ d.dom < e.dom
  \/ d.dom = e.dom /\ d.bus < e.bus
  \/ d.dom = e.dom /\ d.bus = e.bus /\ d.slot < e.slot

\* host_bridge: its range is that of the type, and its own primary number ~0 is
\* in no other bridge's range.
Host(list) ==
  [dom |-> 0, prim |-> Word - 1, sec |-> 0, sub |-> Word - 1,
   dev |-> IF HostDev THEN SelectInSeq(list, LAMBDA d : Address(d) = <<0, 0, 0>>)
                      ELSE NoDevice]

TreeInit ==
  /\ devs = <<>> /\ bridges = <<>> /\ child = <<>> /\ buses = <<>>
  /\ parent = <<>> /\ tpc = "start" /\ i = 1 /\ at = 1
  /\ shown = <<>> /\ todo = <<>>

\* The orders of the devices in which qsort() may leave them.
Sorted(list) ==
  {s \in [DOMAIN list -> ToSet(list)] :
     /\ \A j, k \in DOMAIN s : j < k => ~Before(s[k], s[j])
     /\ ToSet(s) = ToSet(list)}

\* sort_them() and the call of grow_tree().
GrowTree(list) ==
  /\ tpc = "start"
  /\ devs' \in Sorted(list)
  /\ bridges' = <<Host(devs')>>
  /\ tpc' = "bridges"
  /\ UNCHANGED <<child, buses, parent, i, at, shown, todo>>

\* A fault: the device pointer is the next one.
CollectBridgeNext ==
  LET d == devs[i]
  IN /\ tpc = "bridges" /\ i <= Len(devs)
     /\ bridges' = IF d.bridge
                     THEN Append(bridges, [dom |-> d.dom, prim |-> d.prim,
                                           sec |-> d.sec, sub |-> d.sub,
                                           dev |-> i + 1])
                     ELSE bridges
     /\ i' = i + 1
     /\ UNCHANGED <<devs, child, buses, parent, tpc, at, shown, todo>>

\* "Build list of bridges": one device.
CollectBridge ==
  LET d == devs[i]
  IN /\ tpc = "bridges" /\ i <= Len(devs)
     /\ bridges' = IF d.bridge
                     THEN Append(bridges, [dom |-> d.dom, prim |-> d.prim,
                                           sec |-> d.sec, sub |-> d.sub,
                                           dev |-> i])
                     ELSE bridges
     /\ i' = i + 1
     /\ UNCHANGED <<devs, child, buses, parent, tpc, at, shown, todo>>

BridgesBuilt ==
  /\ tpc = "bridges" /\ i > Len(devs)
  /\ child' = [b \in DOMAIN bridges |-> <<>>]
  /\ buses' = [b \in DOMAIN bridges |-> <<>>]
  /\ parent' = [d \in DOMAIN devs |-> 0]
  /\ tpc' = "children" /\ i' = 1
  /\ UNCHANGED <<devs, bridges, at, shown, todo>>

\* The bridges whose range has the primary bus of b, and the first one among
\* them for which subordinate - primary, in unsigned int, is least.
Span(c) == (bridges[c].sub + Word - bridges[c].prim) % Word
Upstream(b) ==
  {c \in DOMAIN bridges \ {b} :
     /\ c = 1 \/ bridges[c].dom = bridges[b].dom
     /\ bridges[c].sec <= bridges[b].prim
     /\ bridges[b].prim <= bridges[c].sub}
Best(b) ==
  CHOOSE c \in Upstream(b) :
    \A e \in Upstream(b) \ {c} :
      Span(c) < Span(e) \/ (Span(c) = Span(e) /\ c < e)

\* "Create a bridge tree": one bridge.
LinkBridge ==
  /\ tpc = "children" /\ i <= Len(bridges)
  /\ child' = IF Upstream(i) = {} THEN child
              ELSE [child EXCEPT ![Best(i)] = <<i>> \o @]
  /\ i' = i + 1
  /\ UNCHANGED <<devs, bridges, buses, parent, tpc, at, shown, todo>>

BridgesLinked ==
  /\ tpc = "children" /\ i > Len(bridges)
  /\ tpc' = "buses" /\ i' = 1
  /\ UNCHANGED <<devs, bridges, child, buses, parent, at, shown, todo>>

\* A fault: the domain is not compared.
FindBusNumber(b, dom, num) ==
  SelectInSeq(buses[b], LAMBDA u : u.num = num)

\* find_bus(): the position among the buses of bridge b, or 0.
FindBus(b, dom, num) ==
  SelectInSeq(buses[b], LAMBDA u : u.dom = dom /\ u.num = num)

NewBus(b, dom, num, ds) ==
  [buses EXCEPT ![b] = <<[dom |-> dom, num |-> num, devs |-> ds]>> \o @]

\* "Insert secondary bus for each bridge": one bridge.
SecondaryBus ==
  LET b == bridges[i]
  IN /\ tpc = "buses" /\ i <= Len(bridges)
     /\ buses' = IF FindBus(i, b.dom, b.sec) = 0
                   THEN NewBus(i, b.dom, b.sec, <<>>) ELSE buses
     /\ i' = i + 1
     /\ UNCHANGED <<devs, bridges, child, parent, tpc, at, shown, todo>>

BusesInserted ==
  /\ tpc = "buses" /\ i > Len(bridges)
  /\ tpc' = "insert" /\ i' = 1 /\ at' = 1
  /\ UNCHANGED <<devs, bridges, child, buses, parent, shown, todo>>

\* Faults: the domain is not compared, and the range is taken to begin with the
\* primary bus.
DescendAnyDomain(d, b) ==
  SelectInSeq(child[b],
              LAMBDA c : bridges[c].sec <= d.bus /\ d.bus <= bridges[c].sub)
DescendPrimary(d, b) ==
  SelectInSeq(child[b],
              LAMBDA c : /\ bridges[c].dom = d.dom
                         /\ bridges[c].prim <= d.bus
                         /\ d.bus <= bridges[c].sub)

\* The child insert_dev() descends to, as a position among the children, or 0.
Descend(d, b) ==
  SelectInSeq(child[b],
              LAMBDA c : /\ bridges[c].dom = d.dom
                         /\ bridges[c].sec <= d.bus
                         /\ d.bus <= bridges[c].sub)

\* insert_dev(): a recursive call for the first child whose range has the bus of
\* the device ...
InsertBelow ==
  LET d == devs[i]
  IN /\ tpc = "insert" /\ i <= Len(devs)
     /\ FindBus(at, d.dom, d.bus) = 0 /\ Descend(d, at) # 0
     /\ at' = child[at][Descend(d, at)]
     /\ UNCHANGED <<devs, bridges, child, buses, parent, tpc, i, shown, todo>>

\* A fault: the device goes to the front of the bus.
InsertFirst ==
  LET d == devs[i]
      u == FindBus(at, d.dom, d.bus)
  IN /\ tpc = "insert" /\ i <= Len(devs)
     /\ u # 0 \/ Descend(d, at) = 0
     /\ buses' = IF u # 0 THEN [buses EXCEPT ![at][u].devs = <<i>> \o @]
                 ELSE NewBus(at, d.dom, d.bus, <<i>>)
     /\ parent' = [parent EXCEPT ![i] = at]
     /\ i' = i + 1 /\ at' = 1
     /\ UNCHANGED <<devs, bridges, child, tpc, shown, todo>>

\* ... unless the bridge has the bus, or there is no such child: then the device
\* goes to the end of the bridge's bus.
InsertHere ==
  LET d == devs[i]
      u == FindBus(at, d.dom, d.bus)
  IN /\ tpc = "insert" /\ i <= Len(devs)
     /\ u # 0 \/ Descend(d, at) = 0
     /\ buses' = IF u # 0 THEN [buses EXCEPT ![at][u].devs = Append(@, i)]
                 ELSE NewBus(at, d.dom, d.bus, <<i>>)
     /\ parent' = [parent EXCEPT ![i] = at]
     /\ i' = i + 1 /\ at' = 1
     /\ UNCHANGED <<devs, bridges, child, tpc, shown, todo>>

TreeBuilt ==
  /\ tpc = "insert" /\ i > Len(devs)
  /\ tpc' = "built"
  /\ UNCHANGED <<devs, bridges, child, buses, parent, i, at, shown, todo>>

\* show_slot_path() and get_dmi_physlot() for device d.
Climb(kind, d) ==
  /\ tpc = "built" /\ tpc' = kind /\ at' = d
  /\ UNCHANGED <<devs, bridges, child, buses, parent, i, shown, todo>>

\* Both recur to the device of the parent bridge, if it has one; the search for
\* a slot ends where one is known.
Above(d) == bridges[parent[d]].dev
ClimbStep ==
  /\ tpc \in {"path", "slot"}
  /\ IF Above(at) = NoDevice \/ (tpc = "slot" /\ Address(devs[at]) \in Slotted)
       THEN tpc' = "built" /\ UNCHANGED at
       ELSE at' = Above(at) /\ UNCHANGED tpc
  /\ UNCHANGED <<devs, bridges, child, buses, parent, i, shown, todo>>

\* show_forest() and show_tree_bridge() of the host bridge.
DevicesBelow(b) ==
  FlattenSeq([u \in DOMAIN buses[b] |-> buses[b][u].devs])
ShowForest ==
  /\ tpc = "built" /\ tpc' = "show"
  /\ shown' = <<>> /\ todo' = DevicesBelow(1)
  /\ UNCHANGED <<devs, bridges, child, buses, parent, i, at>>

\* A fault: what is below a bridge replaces the rest of its bus.
ShowDevLast ==
  LET d == Head(todo)
      b == SelectInSeq(bridges, LAMBDA c : c.dev = d)
  IN /\ tpc = "show" /\ todo # <<>>
     /\ shown' = Append(shown, d)
     /\ todo' = IF b = 0 THEN Tail(todo) ELSE DevicesBelow(b)
     /\ UNCHANGED <<devs, bridges, child, buses, parent, tpc, i, at>>

\* show_tree_dev(): what is below a bridge follows the bridge.
ShowDev ==
  LET d == Head(todo)
      b == SelectInSeq(bridges, LAMBDA c : c.dev = d)
  IN /\ tpc = "show" /\ todo # <<>>
     /\ shown' = Append(shown, d)
     /\ todo' = (IF b = 0 THEN <<>> ELSE DevicesBelow(b)) \o Tail(todo)
     /\ UNCHANGED <<devs, bridges, child, buses, parent, tpc, i, at>>

ForestShown ==
  /\ tpc = "show" /\ todo = <<>>
  /\ tpc' = "shown"
  /\ UNCHANGED <<devs, bridges, child, buses, parent, i, at, shown, todo>>

Lspcie ==
  \/ CollectBridge \/ BridgesBuilt \/ LinkBridge \/ BridgesLinked
  \/ SecondaryBus \/ BusesInserted \/ InsertBelow \/ InsertHere \/ TreeBuilt
  \/ ClimbStep \/ ShowDev \/ ForestShown

User ==
  \/ \E d \in DOMAIN devs, kind \in {"path", "slot"} : Climb(kind, d)
  \/ ShowForest
----------------------------------------------------------------------------
\* A well-formed topology, as firmware and kernel leave it: a bridge is on its
\* primary bus, the buses below it have higher numbers, and ranges are nested
\* as the bridges are.
BusRange(d) == d.sec..d.sub
WellFormed ==
  /\ \A d, e \in DOMAIN devs : Address(devs[d]) = Address(devs[e]) => d = e
  /\ \A d \in ToSet(devs) :
       d.bridge => d.prim = d.bus /\ d.bus < d.sec /\ d.sec <= d.sub
  /\ \A d, e \in ToSet(devs) :
       /\ d.bridge /\ e.bridge /\ d # e /\ d.dom = e.dom
       /\ BusRange(d) \cap BusRange(e) # {}
       => \/ d.bus \in BusRange(e) /\ d.sub <= e.sub
          \/ e.bus \in BusRange(d) /\ e.sub <= d.sub

\* The bridges a device is behind, and the closest one.
Behind(d) ==
  {b \in 2..Len(bridges) : /\ bridges[b].dom = devs[d].dom
                           /\ devs[d].bus \in BusRange(bridges[b])}
Closest(d) ==
  IF Behind(d) = {} THEN 1
  ELSE CHOOSE b \in Behind(d) :
         \A c \in Behind(d) : BusRange(bridges[b]) \subseteq BusRange(bridges[c])

TreeTypeOK ==
  /\ \A d \in DOMAIN devs : devs[d] \in Devices
  /\ tpc \in {"start", "bridges", "children", "buses", "insert", "built",
              "path", "slot", "show", "shown"}
  /\ i \in 1..(Len(devs) + 2)
  /\ at \in 1..(Len(devs) + 1)
  /\ parent \in [DOMAIN parent -> 0..Len(bridges)]
  /\ \A c \in DOMAIN bridges : bridges[c].dev \in 0..Len(devs)

Built == tpc \in {"built", "path", "slot", "show", "shown"}

\* However wrong the bus numbers in the bridges are, every device is on one bus,
\* which has its number, and the devices of a bus are in the order of the list
\* without a sort: "Simple insertion at the end _does_ guarantee the correct
\* order" (ls-tree.c:60).
OnOneBus ==
  Built =>
    \A d \in DOMAIN devs :
      /\ \E u \in DOMAIN buses[parent[d]] :
           LET bus == buses[parent[d]][u]
           IN /\ d \in ToSet(bus.devs)
              /\ bus.dom = devs[d].dom /\ bus.num = devs[d].bus
      /\ \A b \in DOMAIN buses : \A u \in DOMAIN buses[b] :
           d \in ToSet(buses[b][u].devs) =>
             b = parent[d] /\ buses[b][u].num = devs[d].bus
BusesSorted ==
  \A b \in DOMAIN buses : \A u \in DOMAIN buses[b] :
    LET l == buses[b][u].devs
    IN \A j, k \in DOMAIN l : j < k => Before(devs[l[j]], devs[l[k]])

\* In a well-formed topology a device is below the closest bridge it is behind,
\* although find_bus() and the ranges are tried in an order that depends on the
\* chain, and although no bridge but the host bridge gets children: so the
\* paths option -P shows are those through the hardware.
RightParent ==
  Built /\ WellFormed => \A d \in DOMAIN devs : parent[d] = Closest(d)

\* "Show a tree-like diagram containing all buses, bridges, devices and
\* connections between them" (lspci.man:52), for a well-formed topology: every
\* device is in it once, after the bridge it is behind.
AllShown ==
  tpc = "shown" /\ WellFormed =>
    /\ Len(shown) = Len(devs) /\ ToSet(shown) = DOMAIN devs
    /\ \A j \in DOMAIN shown :
         LET bridge == bridges[Closest(shown[j])].dev
         IN bridge # NoDevice => bridge \in {shown[k] : k \in 1..(j - 1)}

\* A climb to the root ends in a well-formed topology.
ClimbsReturn == WellFormed /\ tpc \in {"path", "slot"} ~> tpc = "built"
============================================================================
