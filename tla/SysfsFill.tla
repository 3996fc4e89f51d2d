------------------------------ MODULE SysfsFill ------------------------------
(***************************************************************************)
(* What the sysfs back-end tells of a device besides its registers         *)
(* (lib/sysfs.c): strings the kernel has of it, kept as properties of the  *)
(* object (lib/access.c), some of them also behind a pointer of struct     *)
(* pci_dev.  One request for the slot of a device fills in the slots of    *)
(* all the devices of the list.                                            *)
(***************************************************************************)
EXTENDS Integers, Sequences, FiniteSets, FiniteSetsExt, SequencesExt

CONSTANTS
  Listed,       \* devices that the scan has found, in one list
  Loose,        \* objects of pci_get_dev(), in no list
  AddressOf,    \* object -> its domain, bus and device
  SlotLists,    \* sequences of [name, at]: the kernel's slots in the order of
                \* readdir(); at is "none" for a slot without a device
  FileLists,    \* object -> [ident, alias, group]: whether the mandatory files
                \* are there, and values of two others, "" for those that are not
  FillRequests  \* sets of fields a client may ask for

Objects == Listed \cup Loose

Keys == {"PHYS_SLOT", "MODULE_ALIAS", "IOMMU_GROUP"}
Pointers == {"PHYS_SLOT", "MODULE_ALIAS"}   \* keys with a field of their own

Nobody == "nobody"

\* What the kernel's files hold; "free" marks a block that holds nothing.
Values == STRING \ {"free"}

ASSUME SysfsFillAssumption ==
  /\ Listed \cap Loose = {} /\ Nobody \notin Objects
  /\ IsFiniteSet(Objects)
  /\ SlotLists \subseteq Seq([name : Values, at : STRING])
  /\ FileLists \subseteq
       [Objects -> [ident : BOOLEAN, alias : Values, group : Values]]
  /\ FillRequests \subseteq SUBSET (Keys \cup {"IDENT", "RESCAN"})

VARIABLES
  known,        \* d->known_fields
  strings,      \* the properties and pointers of all objects, see NoStrings
  slots, files, \* what the kernel has
  kernelChanged,\* history: the kernel's slots or files have changed
  rescanned,    \* history: the object the last call has scanned anew, or Nobody
  fillable      \* "idle", "ready"; "died": a->error() has ended the client

fillVars == <<known, strings, slots, files, kernelChanged, rescanned, fillable>>

\* Addresses of malloc'ed blocks, 0 for NULL.
Addresses == 1..Cardinality(Objects) * Cardinality(Keys)

NoStrings ==
  [property |-> [o \in Objects |-> [k \in Keys |-> 0]],
   pointer |-> [o \in Objects |-> [k \in Pointers |-> 0]],
   block |-> [a \in Addresses |-> "free"]]

FillInit ==
  /\ known = [o \in Objects |-> {}]
  /\ strings = NoStrings
  /\ slots = <<>> /\ files = <<>>
  /\ kernelChanged = FALSE /\ fillable = "idle"
  /\ rescanned = Nobody

StartFill ==
  /\ fillable = "idle" /\ fillable' = "ready"
  /\ slots' \in SlotLists /\ files' \in FileLists
  /\ UNCHANGED <<known, strings, kernelChanged, rescanned>>

Freed(m, o, k) ==
  IF m.property[o][k] = 0 THEN m
  ELSE [m EXCEPT !.block[m.property[o][k]] = "free", !.property[o][k] = 0]

\* pci_set_property(), and the assignment of its result.
SetProperty(m, o, k, value) ==
  LET f == Freed(m, o, k)
      a == Min({x \in Addresses : f.block[x] = "free"})
      n == [f EXCEPT !.block[a] = value, !.property[o][k] = a]
  IN IF k \in Pointers THEN [n EXCEPT !.pointer[o][k] = a] ELSE n

\* A fault: the pointers are left as they are.
ResetStringsOnly(m, o) ==
  FoldSet(LAMBDA k, n : Freed(n, o, k), m, Keys)

\* pci_reset_properties()
ResetStrings(m, o) ==
  [FoldSet(LAMBDA k, n : Freed(n, o, k), m, Keys)
     EXCEPT !.pointer[o] = [k \in Pointers |-> 0]]

\* A fault: the last slot counts.
GetsSlotAlways(m, o, slot) == AddressOf[o] = slot.at

\* Whether an entry of the kernel's list gives a device its slot.
GetsSlot(m, o, slot) == AddressOf[o] = slot.at /\ m.pointer[o]["PHYS_SLOT"] = 0

\* sysfs_fill_slots()
FillSlots(m) ==
  FoldLeft(LAMBDA n, slot :
             FoldSet(LAMBDA o, p : IF GetsSlot(p, o, slot)
                                   THEN SetProperty(p, o, "PHYS_SLOT", slot.name)
                                   ELSE p,
                     n, Listed),
           m, slots)

Filled(m, o, k, value) == IF value = "" THEN m ELSE SetProperty(m, o, k, value)

\* sysfs_fill_info(): the strings after a request for flags.
FillStrings(m, o, flags) ==
  LET s == IF "PHYS_SLOT" \in flags THEN FillSlots(m) ELSE m
      a == IF "MODULE_ALIAS" \in flags
           THEN Filled(s, o, "MODULE_ALIAS", files[o].alias) ELSE s
  IN IF "IOMMU_GROUP" \in flags
     THEN Filled(a, o, "IOMMU_GROUP", files[o].group) ELSE a

\* The devices whose slots are known after a request of one.
SlotKnown(o) == Listed \cup {o}

\* A fault: a rescan forgets the strings but not what is known.
KnownAfterResetAll(o) == known[o]

\* Fields known of an object that is scanned anew.
KnownAfterReset(o) == {}

\* pci_fill_info()
FillInfo(o, fields) ==
  LET rescan == "RESCAN" \in fields
      m == IF rescan THEN ResetStrings(strings, o) ELSE strings
      before == IF rescan THEN KnownAfterReset(o) ELSE known[o]
      flags == (fields \ {"RESCAN"}) \ before
  IN /\ fillable = "ready"
     /\ rescanned' = IF rescan THEN o ELSE Nobody
     /\ IF "IDENT" \in flags /\ ~files[o].ident
        THEN fillable' = "died" /\ strings' = m /\ known' = [known EXCEPT ![o] = before]
        ELSE /\ strings' = FillStrings(m, o, flags)
             /\ known' = [x \in Objects |->
                  (IF x = o THEN before \cup flags ELSE known[x])
                  \cup (IF "PHYS_SLOT" \in flags /\ x \in SlotKnown(o)
                        THEN {"PHYS_SLOT"} ELSE {})]
             /\ UNCHANGED fillable
     /\ UNCHANGED <<slots, files, kernelChanged>>

\* Hardware is added or removed; drivers give a device another group.  Bound:
\* once, so that there is a state before it and one after it.
KernelChange ==
  /\ fillable = "ready" /\ ~kernelChanged
  /\ slots' \in SlotLists /\ files' \in FileLists
  /\ kernelChanged' = TRUE
  /\ UNCHANGED <<known, strings, rescanned, fillable>>

FillNext ==
  \/ StartFill \/ KernelChange
  \/ \E o \in Objects, fields \in FillRequests : FillInfo(o, fields)

----------------------------------------------------------------------------
\* Slot number i of the kernel is the first one at the address of a device.
IsFirstSlot(o, i) ==
  /\ slots[i].at = AddressOf[o]
  /\ \A j \in 1..i - 1 : slots[j].at # AddressOf[o]

\* While the kernel's slots stay what they are, a device of the list whose slot
\* is known, be it from a request for another device, has the first slot that
\* names it, or none if there is no such slot.
SlotIsFirst ==
  ~kernelChanged =>
    \A o \in Listed : "PHYS_SLOT" \in known[o] =>
      LET a == strings.pointer[o]["PHYS_SLOT"]
      IN /\ a = 0 => \A i \in 1..Len(slots) : slots[i].at # AddressOf[o]
         /\ a # 0 => \E i \in 1..Len(slots) :
                      IsFirstSlot(o, i) /\ strings.block[a] = slots[i].name

\* No pointer of an object dangles, no block belongs to two properties, and
\* none is lost, in every order of requests, rescans and changes.
StringsAreOwned ==
  LET owned == {p \in Objects \X Keys : strings.property[p[1]][p[2]] # 0}
  IN /\ \A o \in Objects, k \in Pointers :
          strings.pointer[o][k] \in {0, strings.property[o][k]}
     /\ \A p, q \in owned :
          strings.property[p[1]][p[2]] = strings.property[q[1]][q[2]] => p = q
     /\ {a \in Addresses : strings.block[a] # "free"} =
          {strings.property[p[1]][p[2]] : p \in owned}

\* A string a client was given stays where it is until the client has the same
\* device scanned anew: requests for other devices, and others for this one,
\* never move or change it.
StringsStay ==
  [][\A o \in Objects, k \in Pointers :
       LET a == strings.pointer[o][k]
       IN a # 0 /\ rescanned' # o =>
            strings'.pointer[o][k] = a /\ strings'.block[a] = strings.block[a]]_fillVars

\* The strings of devices are right, owned once, and stay while they are used.
StringsRight == [](SlotIsFirst /\ StringsAreOwned) /\ StringsStay
============================================================================
