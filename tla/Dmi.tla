--------------------------------- MODULE Dmi ---------------------------------
(***************************************************************************)
(* Physical slots from the DMI tables (dmi_phy_slots/), which lspcie -v    *)
(* with -T or -J takes instead of the kernel's: where the table is found,  *)
(* the walk over its structures, and show() with find_dmi_physlot(),       *)
(* get_dmi_physlot() and get_geo_id() (lspcie.c), which stores what it has *)
(* found in the devices it goes through.                                   *)
(*                                                                         *)
(* A structure is [type, form, slot, addr]: form is "short", "nameless",   *)
(* "unaddressed" or "full" by its length, or "cut" if it does not fit.     *)
(***************************************************************************)
EXTENDS Integers, Sequences, FiniteSets

CONSTANTS
  Structures,  \* the structures there are in tables
  Firmwares,   \* [entry, efi, low]: the kernel's entry point, the address the
               \* EFI has for one, and the entry points of low memory, see Points
  DevOrder,    \* devices of lspcie in the order they are shown
  Bridged,     \* [parent, at]: the device of the bridge above each device,
               \* "none" for none, and the address of each
  GeoId(_)     \* get_geo_id(): the part of a string that is a location, or NoSlot

VARIABLES
  dmi,         \* "idle", "sysfs", "efi", "memory", "table", "show", "done", or
               \* "overflow": get_dmi_physlot() recurs without end
  firmware,    \* one of Firmwares
  bridged,     \* one of Bridged
  point,       \* the entry point whose table is decoded
  place,       \* structures that have been looked at
  pairs,       \* struct dmi_physlot_bus_pair: a sequence of [addr, slot]
  ret,         \* result of dmi_fill_physlot_bus_pairs()
  showing,     \* devices that have been shown
  phy_slot     \* device -> dev->phy_slot

dmiVars == <<dmi, firmware, bridged, point, place, pairs, ret, showing, phy_slot>>

NoSlot == "NULL"
Endless == "endless"
NoAddr == "no address"         \* all ones
ZeroAddr == "0000:00:00.0"     \* of an item that calloc() has made
NoPoint == [type |-> "none", sum |-> FALSE, num |-> 0, table |-> <<>>]

\* An entry point: its type or why there is none, whether its checksum is right,
\* the number of structures it gives (0 for any), and what its table has.
Points ==
  [type : {"SM3", "SM", "DMI", "none", "not found", "no smbios", "unreadable"},
   sum : BOOLEAN, num : Nat, table : Seq(Structures)]
Good(p) == p.type \in {"SM3", "SM", "DMI"} /\ p.sum

DmiDevices == {DevOrder[i] : i \in 1..Len(DevOrder)}

Known(d) == d \in DmiDevices

ASSUME FirmwareAssumption ==
  Firmwares \subseteq [entry : Points, efi : Points, low : Seq(Points)]

\* A location is the rest of a name from where one begins, so it is its own.
ASSUME GeoAssumption ==
  \A s \in Structures :
    /\ Endless \notin {s.slot, GeoId(s.slot)}
    /\ GeoId(s.slot) # NoSlot => GeoId(GeoId(s.slot)) = GeoId(s.slot)

\* The bridges form a tree, but device 0000:00:00.0 may be above itself.
ASSUME TreeAssumption ==
  /\ DevOrder \in Seq(DmiDevices)
  /\ \A m \in Bridged : \E depth \in [DmiDevices -> 0..Len(DevOrder)] :
       \A d \in DmiDevices :
         Known(m.parent[d]) =>
           \/ depth[m.parent[d]] < depth[d]
           \/ m.parent[d] = d /\ m.at[d] = ZeroAddr /\ depth[d] = 0

DmiInit ==
  /\ dmi = "idle" /\ firmware = <<>> /\ point = NoPoint /\ place = 0
  /\ pairs = <<>> /\ ret = 0 /\ showing = 0
  /\ bridged = <<>> /\ phy_slot = [d \in DmiDevices |-> NoSlot]

StartDmi ==
  /\ dmi = "idle" /\ dmi' = "sysfs"
  /\ firmware' \in Firmwares /\ bridged' \in Bridged
  /\ UNCHANGED <<point, place, pairs, ret, showing, phy_slot>>

Decode(p) == dmi' = "table" /\ point' = p /\ UNCHANGED ret
NoTable(r) == dmi' = "show" /\ ret' = r /\ UNCHANGED point

\* The kernel's entry point counts if it is of a known type and good.
TrySysfs ==
  /\ dmi = "sysfs"
  /\ IF Good(firmware.entry) THEN Decode(firmware.entry)
     ELSE dmi' = "efi" /\ UNCHANGED <<point, ret>>
  /\ UNCHANGED <<firmware, bridged, place, pairs, showing, phy_slot>>

\* address_from_efi(): without an EFI the memory is searched; an EFI that has no
\* entry point, or one that cannot be read, is an error; the table of a bad one
\* is just empty.
TryEfi ==
  /\ dmi = "efi"
  /\ CASE firmware.efi.type = "not found" -> dmi' = "memory" /\ UNCHANGED <<point, ret>>
       [] firmware.efi.type \in {"no smbios", "unreadable"} -> NoTable(1)
       [] OTHER -> IF firmware.efi.type # "DMI" /\ Good(firmware.efi)
                   THEN Decode(firmware.efi) ELSE NoTable(0)
  /\ UNCHANGED <<firmware, bridged, place, pairs, showing, phy_slot>>

\* The first good entry point among some of those in low memory.
FirstPoint(types) ==
  LET at == {i \in 1..Len(firmware.low) :
               firmware.low[i].type \in types /\ Good(firmware.low[i])}
  IN IF at = {} THEN NoPoint
     ELSE firmware.low[CHOOSE i \in at : \A j \in at : i <= j]

\* The search of low memory, for a 64-bit entry point first.
ScanMemory ==
  /\ dmi = "memory"
  /\ IF firmware.low = <<NoPoint>> THEN NoTable(1)   \* no access to it
     ELSE IF FirstPoint({"SM3"}) # NoPoint THEN Decode(FirstPoint({"SM3"}))
     ELSE IF FirstPoint({"SM", "DMI"}) # NoPoint THEN Decode(FirstPoint({"SM", "DMI"}))
     ELSE NoTable(0)
  /\ UNCHANGED <<firmware, bridged, place, pairs, showing, phy_slot>>

\* dmi_decode() into an item that is zero.
Item(s) ==
  [addr |-> IF s.form = "full" /\ s.addr # NoAddr THEN s.addr ELSE ZeroAddr,
   slot |-> IF s.form = "nameless" THEN NoSlot ELSE s.slot]

\* A fault: a structure that does not fit is decoded.
BrokenShort(s) == s.form = "short"

\* A structure that ends the walk before it is decoded.
Broken(s) == s.form \in {"short", "cut"}

\* Whether dmi_table_decode() looks at another structure.
MoreStructures ==
  /\ place < Len(point.table)
  /\ point.num > 0 /\ point.type # "SM3" => place < point.num

\* One round of dmi_table_decode().
DecodeStructure ==
  /\ dmi = "table" /\ MoreStructures
  /\ LET s == point.table[place + 1]
         end == s.type = 127 /\ point.type = "SM3"
     IN IF Broken(s) THEN dmi' = "show" /\ UNCHANGED <<place, pairs>>
        ELSE /\ place' = place + 1
             /\ pairs' = IF s.type = 9 THEN Append(pairs, Item(s)) ELSE pairs
             /\ dmi' = IF end THEN "show" ELSE "table"
  /\ UNCHANGED <<firmware, bridged, point, ret, showing, phy_slot>>

EndOfTable ==
  /\ dmi = "table" /\ ~MoreStructures
  /\ dmi' = "show"
  /\ UNCHANGED <<firmware, bridged, point, place, pairs, ret, showing, phy_slot>>

\* A fault: the last item of the address counts.
FindSlotLast(d) ==
  LET at == {i \in 1..Len(pairs) : pairs[i].addr = bridged.at[d]}
  IN IF phy_slot[d] # NoSlot THEN phy_slot[d]
     ELSE IF at = {} THEN NoSlot
     ELSE pairs[CHOOSE i \in at : \A j \in at : i >= j].slot

\* find_dmi_physlot(): the first item of the address counts even without a name.
FindSlot(d) ==
  LET at == {i \in 1..Len(pairs) : pairs[i].addr = bridged.at[d]}
  IN IF phy_slot[d] # NoSlot THEN phy_slot[d]
     ELSE IF at = {} THEN NoSlot
     ELSE pairs[CHOOSE i \in at : \A j \in at : i <= j].slot

\* get_dmi_physlot().  Climbing more often than there are devices never ends:
\* device 0000:00:00.0 stands for the host bridge above it.
NearestSlot[n \in 0..Len(DevOrder)] ==
  [d \in DmiDevices |->
     IF FindSlot(d) # NoSlot THEN FindSlot(d)
     ELSE IF ~Known(bridged.parent[d]) THEN NoSlot
     ELSE IF n = 0 THEN Endless ELSE NearestSlot[n - 1][bridged.parent[d]]]

\* What show() stores in a device.
Stored(slot) == IF slot = NoSlot THEN NoSlot ELSE GeoId(slot)

\* show() for one device.  Without a table (ret # 0) nothing is stored.
ShowSlot ==
  /\ dmi = "show" /\ showing < Len(DevOrder)
  /\ LET d == DevOrder[showing + 1]
         slot == IF ret = 0 THEN NearestSlot[Len(DevOrder)][d] ELSE phy_slot[d]
     IN IF slot = Endless
        THEN dmi' = "overflow" /\ UNCHANGED <<showing, phy_slot>>
        ELSE /\ phy_slot' = IF ret = 0 THEN [phy_slot EXCEPT ![d] = Stored(slot)]
                            ELSE phy_slot
             /\ showing' = showing + 1
             /\ UNCHANGED dmi
  /\ UNCHANGED <<firmware, bridged, point, place, pairs, ret>>

ShownAll ==
  /\ dmi = "show" /\ showing = Len(DevOrder)
  /\ dmi' = "done"
  /\ UNCHANGED <<firmware, bridged, point, place, pairs, ret, showing, phy_slot>>

DmiNext ==
  \/ StartDmi \/ TrySysfs \/ TryEfi \/ ScanMemory \/ DecodeStructure \/ EndOfTable
  \/ ShowSlot \/ ShownAll

DmiSpec == DmiInit /\ [][DmiNext]_dmiVars

----------------------------------------------------------------------------
\* Structures of a table that count: up to the first broken one, up to the
\* number the entry point gives, or, for SMBIOS 3, to the end mark.
Counted(p) ==
  {n \in 1..Len(p.table) :
     /\ \A i \in 1..n : ~(p.table[i].form \in {"short", "cut"})
     /\ p.type = "SM3" => \A i \in 1..n - 1 : p.table[i].type # 127
     /\ p.type # "SM3" /\ p.num > 0 => n <= p.num}

\* The items of the list are the slots (type 9) of those structures, in order.
PairsAreSlots ==
  dmi \in {"show", "done"} /\ point # NoPoint =>
    LET slots == {n \in Counted(point) : point.table[n].type = 9}
    IN /\ Len(pairs) = Cardinality(slots)
       /\ \A n \in slots :
            LET k == Cardinality({m \in slots : m <= n})
            IN /\ point.table[n].form = "full" /\ point.table[n].addr # NoAddr
                    => pairs[k].addr = point.table[n].addr
               /\ point.table[n].form # "nameless" => pairs[k].slot = point.table[n].slot

\* The name of the first slot at an address, NoSlot for none.
SlotAt(addr) ==
  LET at == {i \in 1..Len(pairs) : pairs[i].addr = addr}
  IN IF at = {} THEN NoSlot
     ELSE pairs[CHOOSE i \in at : \A j \in at : i <= j].slot

\* The name of the first slot on the way up, or NoSlot.
NearestBySlots[n \in 0..Len(DevOrder)] ==
  [d \in DmiDevices |->
     IF SlotAt(bridged.at[d]) # NoSlot \/ ~Known(bridged.parent[d]) \/ n = 0
     THEN SlotAt(bridged.at[d])
     ELSE NearestBySlots[n - 1][bridged.parent[d]]]

\* Whichever devices were shown before it and had their fields changed, a device
\* gets the location in the name of the nearest slot above it in the tree; a
\* name without a location gives none.  The search fails to end only for a
\* device with no slot on its way up to device 0000:00:00.0.
SlotIsNearest ==
  /\ ret = 0 => \A i \in 1..showing :
       LET d == DevOrder[i]
           slot == NearestBySlots[Len(DevOrder)][d]
       IN phy_slot[d] = IF slot = NoSlot THEN NoSlot ELSE GeoId(slot)
  /\ dmi = "overflow" =>
       /\ NearestBySlots[Len(DevOrder)][DevOrder[showing + 1]] = NoSlot
       /\ \E d \in DmiDevices : bridged.at[d] = ZeroAddr

\* The list is that of the tables, and a device's location is that of the list.
SlotsRight == PairsAreSlots /\ SlotIsNearest
============================================================================
