---------------------------- MODULE MCShowDevice ----------------------------
(***************************************************************************)
(* Instances of ShowDevice for TLC: capabilities in the first place behind *)
(* the header and in the last one, an extended configuration space of 384  *)
(* bytes.                                                                  *)
(***************************************************************************)
EXTENDS ShowDevice, TLC

\* Entries as the standard has them: long enough for their high parts.
Entry(n, b, m) == [dwords |-> n, baseHigh |-> b, maxHigh |-> m]
GoodEntries == {Entry(2, FALSE, FALSE), Entry(3, FALSE, TRUE),
                Entry(4, TRUE, TRUE)}

\* An entry of size 0 as well, which a cleared register gives.
AnyEntries == GoodEntries \cup {Entry(0, FALSE, FALSE)}
============================================================================
