------------------------------ MODULE Topology ------------------------------
(***************************************************************************)
(* What lspcie does from the registers to the tree: pci_scan_bus() lists   *)
(* the devices, by direct access (BusScan) or as the kernel does, in any   *)
(* order (sysfs, proc), then scan_devices(), sort_them() and grow_tree()   *)
(* make the tree of them (BusTree).                                        *)
(***************************************************************************)
EXTENDS BusScan, BusTree

CONSTANT Listings  \* what the kernel may list

ASSUME OneNumbering ==
  /\ Buses = BusNumbers /\ 0 \in Domains
  /\ \A a \in Addresses : a[2] * (MaxFunc + 1) + a[3] \in Slots

\* The kernel lists a device once.
ASSUME ListingAssumption ==
  \A l \in Listings :
    /\ l \in Seq(Devices)
    /\ \A j, k \in DOMAIN l : Address(l[j]) = Address(l[k]) => j = k

vars == <<tvars, svars>>

Init == TreeInit /\ ScanInit

\* struct device of a function found on the bus by direct access, where all is
\* in domain 0.
Device(a) ==
  LET fn == hw[a]
  IN [dom |-> 0, bus |-> a[1], slot |-> a[2] * (MaxFunc + 1) + a[3],
      bridge |-> fn.kind = "bridge", prim |-> fn.prim, sec |-> fn.sec,
      sub |-> fn.sub]

\* scan_devices() turns the list around.
ScanDevices(l) == GrowTree(Reverse(l))

Scan == tpc = "start" /\ ScanBus /\ UNCHANGED tvars

Replug == tpc = "start" /\ HwChange /\ UNCHANGED tvars

ScannedTree ==
  /\ stack = <<>>
  /\ ScanDevices([n \in DOMAIN list |-> Device(list[n])])
  /\ UNCHANGED svars

\* The scan is one of sysfs_scan() or proc_scan() instead, and the registers do
\* not matter: any contents may stand for the others.
ListedTree ==
  /\ list = <<>> /\ stack = <<Frame(0)>> /\ reg = "id"
  /\ hw = CHOOSE h \in Hardware : TRUE
  /\ \E l \in Listings : ScanDevices(l)
  /\ UNCHANGED svars

Tree == Lspcie /\ UNCHANGED svars

Show == User /\ UNCHANGED svars

Next == Scan \/ Replug \/ ScannedTree \/ ListedTree \/ Tree \/ Show

\* lspcie and the library run in one thread.
Spec == Init /\ [][Next]_vars /\ WF_vars(Scan \/ ScannedTree \/ Tree)
----------------------------------------------------------------------------
TypeOK == TreeTypeOK /\ ScanTypeOK

\* The tree is that of the hardware: each device once, on its bus, in order, and
\* as far as the bridges are well-formed behind the right one.
TreeRight == TypeOK /\ OnOneBus /\ BusesSorted /\ RightParent

\* From the first register to the last device: the scan ends and the tree is
\* built, and shown, whatever the bridges claim and however they change; all of
\* it is in the diagram as far as the bridges are well-formed.
TreeIsShown ==
  /\ []AllShown
  /\ tpc \notin {"built", "shown", "path", "slot"} ~> tpc \in {"built", "shown"}
============================================================================
