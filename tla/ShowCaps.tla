------------------------------ MODULE ShowCaps ------------------------------
(***************************************************************************)
(* What lspcie's decoders of capabilities (ls-caps.c, ls-caps-vendor.c and *)
(* ls-ecaps.c) read.  A decoder is modelled as the set of its scripts, one *)
(* for each combination of register contents that makes a difference.  A   *)
(* script is a sequence of steps: config_fetch() of some bytes, and the    *)
(* bytes that are looked at before the next fetch.  When a fetch fails the *)
(* decoder gives up, or, where "goOn" is TRUE, continues with the next.    *)
(* Positions count from the capability's own.  What registers say is not   *)
(* modelled beyond that, so a script may look at registers that exclude    *)
(* each other: the order of looks between two fetches does not matter.     *)
(***************************************************************************)
EXTENDS ConfigFetch, Sequences

CONSTANTS
  Entries,    \* the entries of Enhanced Allocation: their size in dwords and
              \* whether base and maximum offset have a high part
  MaxRepeat   \* bound: rounds of the loops over entries, links, channels, BARs

ASSUME EntriesAssumption ==
  Entries \subseteq [dwords : 0..7, baseHigh : BOOLEAN, maxHigh : BOOLEAN]
ASSUME RepeatAssumption == MaxRepeat \in Nat

Fetch(pos, len, looks) ==
  [pos |-> pos, len |-> len, looks |-> looks, goOn |-> FALSE]
TryFetch(pos, len, looks) ==
  [pos |-> pos, len |-> len, looks |-> looks, goOn |-> TRUE]

\* Decoders that print one line only below verbosity 2.
IfVerbose(verbose, scripts) == IF verbose >= 2 THEN scripts ELSE {<<>>}

\* The part of a script that a condition calls for.
When(cond, script) == IF cond THEN script ELSE <<>>

\* n rounds of a loop whose i-th round is step Round(i).
Rounds(n, Round(_)) == [i \in 1..n |-> Round(i - 1)]

----------------------------------------------------------------------------
(***************************************************************************)
(* Traditional capabilities.                                               *)
(***************************************************************************)
CapPm == {<<Fetch(4, 4, Word(4) \cup Byte(6))>>}
CapAgp == {<<Fetch(4, 8, Longs(4, 8))>>}

CapPcix(htype) ==
  CASE htype = "normal" -> {<<Fetch(4, 4, Word(2) \cup Long(4))>>}
    [] htype = "bridge" -> {<<Fetch(4, 12, Word(2) \cup Longs(4, 12))>>}
    [] OTHER -> {<<>>}

HtPri == <<Fetch(4, 24, UNION {Word(4), Word(6), Word(8), Word(10), Byte(12),
                               Byte(13), Byte(14), Byte(16), Byte(17),
                               Byte(18), Word(22), Byte(24), Byte(25),
                               Byte(26)})>>
HtSec == <<Fetch(4, 20, UNION {Word(4), Word(6), Byte(8), Byte(9), Byte(10),
                               Word(12), Word(18), Byte(20), Byte(21)})>>
HtMsiMapping == <<Fetch(4, 8, Longs(4, 8))>>
CapHt == {HtPri, HtSec, HtMsiMapping, <<>>}

\* The 64-bit form moves everything behind the address by four bytes.
CapMsi ==
  {<<Fetch(4, data - 2, Long(4) \cup Word(data) \cup
                          (IF data = 12 THEN Long(8) ELSE {}))>>
     \o When(mask, <<Fetch(data + 4, 8, Longs(data + 4, data + 8))>>) :
     data \in {8, 12}, mask \in BOOLEAN}

CapMsix == {<<Fetch(4, 8, Longs(4, 8))>>}
CapSsvid == {<<Fetch(0, 8, Word(4) \cup Word(6))>>}
CapAf == {<<Fetch(3, 3, 3..5)>>}
CapSata == {<<Fetch(4, 4, Long(4))>>}

\* The kinds of Express capabilities: the port's type as far as it matters
\* later, and whether it has a link and a slot.
ExpressKinds ==
  {k \in [type : {"root", "endpoint", "other"}, link : BOOLEAN, slot : BOOLEAN] :
     /\ k.slot => k.link /\ k.type # "endpoint"
     /\ k.type = "other" => k.link}

\* A fault: slots are left out of the length.
ExpressSizeNoSlot(k) == IF k.type = "root" THEN 32 ELSE 16

ExpressSize(k) ==
  IF k.type = "root" THEN 32 ELSE IF k.slot THEN 24 ELSE 16

ExpressDev == UNION {Long(4), Word(8), Word(10)}
ExpressLink == UNION {Long(12), Word(16), Word(18)}
ExpressSlot == UNION {Long(20), Word(24), Word(26)}
ExpressRoot == UNION {Word(28), Word(30), Long(32)}
ExpressDev2 == Long(36) \cup Word(40)
ExpressLink2 == UNION {Long(44), Word(48), Word(50)}

ExpressLooks(k) ==
  UNION {ExpressDev,
         IF k.link THEN ExpressLink ELSE {},
         IF k.slot THEN ExpressSlot ELSE {},
         IF k.type = "root" THEN ExpressRoot ELSE {}}
Express2Looks(k) == ExpressDev2 \cup IF k.link THEN ExpressLink2 ELSE {}

\* Version 2 adds a second set of registers.
CapExpress(k) ==
  {<<Fetch(4, ExpressSize(k), ExpressLooks(k))>>
     \o When(v2, <<Fetch(36, IF k.slot THEN 24 ELSE 16, Express2Looks(k))>>) :
     v2 \in BOOLEAN}

\* Enhanced Allocation: a list of entries of varying size, behind two bus
\* numbers in a bridge.
EntryLooks(e, at) ==
  UNION {Longs(at + 4, at + 8),
         IF e.baseHigh \/ e.maxHigh THEN Long(at + 12) ELSE {},
         IF e.baseHigh /\ e.maxHigh THEN Long(at + 16) ELSE {}}

EntrySteps(e, at) ==
  <<Fetch(at, 4, Long(at)), Fetch(at + 4, 4 * e.dwords, EntryLooks(e, at))>>

EntryLists == UNION {[1..n -> Entries] : n \in 0..MaxRepeat}

EaEntries(list, first) ==
  LET at[i \in 1..Len(list)] ==
        IF i = 1 THEN first ELSE at[i - 1] + 4 + 4 * list[i - 1].dwords
  IN [j \in 1 .. 2 * Len(list) |->
        LET i == (j + 1) \div 2 IN EntrySteps(list[i], at[i])[2 - (j % 2)]]

CapEa(verbose, htype) ==
  LET bridge == htype = "bridge"
  IN {When(bridge, <<Fetch(4, 2, 4..5)>>)
        \o When(verbose >= 2, EaEntries(list, IF bridge THEN 8 ELSE 4)) :
        list \in EntryLists}

\* VirtIO: a length of 16 at least, of 20 if there is a multiplier.
CapVirtio(verbose) ==
  {<<Fetch(0, len, IF verbose < 2 THEN {}
                   ELSE UNION {Byte(4), Longs(8, 12),
                               IF len >= 20 THEN Long(16) ELSE {}})>> :
     len \in {16, 255}} \cup {<<>>}

----------------------------------------------------------------------------
\* What showing a capability may come to: the script, whether the function can
\* have extended capabilities then, and the type of an Express capability.
Decoded(scripts, ext, type) ==
  [script : scripts, ext : {ext}, type : {type}]

\* The switch over identifiers.
StandardCaps(verbose, htype) ==
  UNION {
    Decoded(IfVerbose(verbose, UNION {CapPm, CapAgp, CapMsi, CapMsix, CapAf,
                                      CapSata, CapHt}), FALSE, "none"),
    Decoded(UNION {CapSsvid, CapVirtio(verbose), CapEa(verbose, htype), {<<>>}},
            FALSE, "none"),
    Decoded(IfVerbose(verbose, CapPcix(htype)), TRUE, "none"),
    UNION {Decoded(IfVerbose(verbose, CapExpress(k)), TRUE, k.type) :
             k \in ExpressKinds}}
============================================================================
