------------------------------- MODULE Filter -------------------------------
(***************************************************************************)
(* Device filters of libpci (lib/filter.c): the parsers of the arguments   *)
(* of -s and -d, which add to a struct pci_filter what the user has given, *)
(* and the match.                                                          *)
(*                                                                         *)
(* An argument is the record of its components.  A component is a number,  *)
(* or one of Empty, Star and Bad, which stands for text that is no number  *)
(* (strtol() takes a sign, so negative numbers are as bad).                *)
(***************************************************************************)
EXTENDS Integers, Sequences

Empty == -1   \* the component is omitted
Star == -2    \* "*"
Bad == -3

ANY == -1     \* a field of struct pci_filter that is not set

Locations == {"domain", "bus", "slot", "func"}
Identities == {"vendor", "device", "super", "sub"}

\* pci_filter_init(), memset() in lib/filter_array.c
NoFilter == [x \in Locations \cup Identities |-> ANY]

Given(x) == x \notin {Empty, Star}

\* The largest values of the components of a location and of an identity.
MaxOf == [domain |-> 2147483647, bus |-> 255, slot |-> 31, func |-> 7]
MaxId == 65535

\* A component that is given has to lie in its range.
InRange(x, max) == Given(x) => x \in 0..max

\* A component becomes a field unless an earlier one has ended the parser.
Field(ok, x, old) == IF ok /\ Given(x) THEN x ELSE old

\* The fields that have new values, and those that keep theirs.
Updated(f, new) == [x \in DOMAIN f |-> IF x \in DOMAIN new THEN new[x] ELSE f[x]]

\* pci_filter_parse_slot(): the filter and whether there was no error.
ParseSlot(f, s) ==
  LET domain == InRange(s.domain, MaxOf.domain)
      bus == domain /\ InRange(s.bus, MaxOf.bus)
      slot == bus /\ InRange(s.slot, MaxOf.slot)
      func == slot /\ InRange(s.func, MaxOf.func)
  IN [ok |-> func,
      filter |-> Updated(f, [domain |-> Field(domain, s.domain, f.domain),
                             bus |-> Field(bus, s.bus, f.bus),
                             slot |-> Field(slot, s.slot, f.slot),
                             func |-> Field(func, s.func, f.func)])]

\* Whether the class of an argument of -d is looked at: the code compares the
\* device with "*" once more.
ClassUsed(s) == s.class # Empty /\ s.device # Star

\* A fault: the class is split at the wrong place.
ParseIdSwapped(f, s) ==
  LET vendor == s.text = "ids" /\ InRange(s.vendor, MaxId)
      device == vendor /\ InRange(s.device, MaxId)
      class == device /\ (ClassUsed(s) => s.class \in 0..MaxId)
      set == class /\ ClassUsed(s)
  IN [ok |-> s.text = "empty" \/ class,
      filter |-> Updated(f, [vendor |-> Field(vendor, s.vendor, f.vendor),
                             device |-> Field(device, s.device, f.device),
                             super |-> Field(set, s.class % 256, f.super),
                             sub |-> Field(set, s.class \div 256, f.sub)])]

\* pci_filter_parse_id(); an empty text asks for nothing.
ParseId(f, s) ==
  LET vendor == s.text = "ids" /\ InRange(s.vendor, MaxId)
      device == vendor /\ InRange(s.device, MaxId)
      class == device /\ (ClassUsed(s) => s.class \in 0..MaxId)
      set == class /\ ClassUsed(s)
  IN [ok |-> s.text = "empty" \/ class,
      filter |-> Updated(f, [vendor |-> Field(vendor, s.vendor, f.vendor),
                             device |-> Field(device, s.device, f.device),
                             super |-> Field(set, s.class \div 256, f.super),
                             sub |-> Field(set, s.class % 256, f.sub)])]

\* pci_filter_match()
Match(f, d) ==
  LET agrees(x, value) == f[x] >= 0 => f[x] = value
  IN /\ \A x \in {"domain", "bus", "slot", "func", "vendor", "device"} :
          agrees(x, d[x])
     /\ agrees("super", d.class \div 256)
     /\ agrees("sub", d.class % 256)
============================================================================
