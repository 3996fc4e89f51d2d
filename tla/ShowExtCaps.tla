---------------------------- MODULE ShowExtCaps ----------------------------
(***************************************************************************)
(* The decoders of extended capabilities (ls-ecaps.c), as sets of scripts  *)
(* like those of ShowCaps.  Some depend on the type of the port, which the *)
(* Express capability has told.                                            *)
(***************************************************************************)
EXTENDS ShowCaps

CapTph == {<<Fetch(4, 4, Long(4))>>}
CapLtr == {<<Fetch(4, 4, Word(4) \cup Word(6))>>}
CapSec == {<<Fetch(4, 12, Word(4) \cup Word(8))>>}
CapDsn == {<<Fetch(4, 8, Longs(4, 8))>>}

CapAer(type) ==
  {<<Fetch(4, 40, Longs(4, 40))>>
     \o When(type = "root",
             <<Fetch(44, 12, UNION {Longs(44, 48), Word(52), Word(54)})>>)}

CapDpc == {<<Fetch(4, 8, UNION {Word(4), Word(6), Word(8), Word(10)})>>}
CapAcs == {<<Fetch(4, 4, Word(4) \cup Word(6))>>}
CapAri == CapAcs
CapAts == CapAcs
CapPasid == CapAcs
CapPri == {<<Fetch(4, 12, UNION {Word(4), Word(6), Longs(8, 12)})>>}

\* Six addresses; a 64-bit one in the sixth place also looks at the register
\* behind them.
CapSriov ==
  {<<Fetch(4, 60, UNION {Long(4), Word(8), Word(10), Word(12), Word(14),
                         Word(16), Byte(18), Word(20), Word(22), Word(26),
                         Longs(28, 60)})>>}

CapMulticast(type) ==
  {<<Fetch(4, 48, UNION {Word(4), Word(6), Longs(8, 36),
                         IF type = "endpoint" THEN {} ELSE Longs(40, 44)})>>}

\* Virtual channels: one more than the count says; an unreadable one is passed
\* over.
CapVc ==
  {<<Fetch(4, 24, UNION {Longs(4, 8), Word(12), Word(14)})>>
     \o Rounds(n, LAMBDA i : TryFetch(16 + 12 * i, 12,
                               Longs(16 + 12 * i, 20 + 12 * i)
                                 \cup Word(26 + 12 * i))) :
     n \in 1..MaxRepeat}

CapRclink ==
  {<<Fetch(4, 12, Long(4))>>
     \o Rounds(n, LAMBDA i : Fetch(16 + 16 * i, 16,
                               Long(16 + 16 * i)
                                 \cup Longs(24 + 16 * i, 28 + 16 * i))) :
     n \in 0..MaxRepeat}

\* The Compute Express Link registers are decoded when verbose only.
CapDvsec(verbose) ==
  {<<Fetch(4, 8, Longs(4, 8))>>
     \o When(cxl, <<Fetch(10, 12, UNION {Word(10), Word(12), Word(14)})>>) :
     cxl \in IF verbose >= 2 THEN BOOLEAN ELSE {FALSE}}

CapEvendor == {<<Fetch(4, 4, Long(4))>>}
CapL1pm == {<<Fetch(4, 12, Longs(4, 12))>>}
CapPtm == {<<Fetch(4, 8, Longs(4, 8))>>}

\* Resizable BARs: a count outside 1..6 ends the loop in its first round.
CapRebar ==
  {Rounds(n, LAMBDA i : Fetch(4 + 8 * i, 8, Longs(4 + 8 * i, 8 + 8 * i))) :
     n \in 1..MaxRepeat}

\* The switch over identifiers.
ExtendedCaps(verbose, type) ==
  Decoded(
    IfVerbose(verbose,
      UNION {CapTph, CapLtr, CapSec, CapAer(type), CapDpc, CapAcs, CapAri,
             CapAts, CapPasid, CapPri, CapSriov, CapMulticast(type), CapVc,
             CapRclink, CapL1pm, CapPtm, CapRebar})
      \cup UNION {CapDsn, CapDvsec(verbose), CapEvendor, {<<>>}},
    TRUE, type)
============================================================================
