----------------------------- MODULE MCTopology -----------------------------
(***************************************************************************)
(* Instances of Topology for TLC: three buses with two devices of two      *)
(* functions each, of which six addresses are populated in all ways that   *)
(* matter; and listings of up to three devices in two domains.             *)
(***************************************************************************)
EXTENDS Topology, TLC

Fn(kind, multi, p, s, u) ==
  [kind |-> kind, multi |-> multi, prim |-> p, sec |-> s, sub |-> u]
None == Fn("none", FALSE, 0, 0, 0)
Normal(multi) == Fn("normal", multi, 0, 0, 0)
Bridge(multi, p, s, u) == Fn("bridge", multi, p, s, u)

\* Bridges of bus 0 lead to bus 1, to bus 2 and back to bus 0; those of bus 1
\* to bus 2, to themselves and upwards; that of bus 2 to bus 1.
Population ==
  [f000 : {None, Normal(FALSE), Normal(TRUE), Bridge(FALSE, 0, 1, 1),
           Bridge(TRUE, 0, 1, 2), Bridge(TRUE, 0, 2, 2), Bridge(TRUE, 0, 0, 0)},
   f001 : {None, Fn("unknown", FALSE, 0, 0, 0), Bridge(FALSE, 0, 1, 2),
           Bridge(FALSE, 0, 2, 2)},
   f010 : {None, Normal(FALSE)},
   f011 : {None, Normal(FALSE)},
   f100 : {None, Normal(FALSE), Bridge(FALSE, 1, 2, 2), Bridge(FALSE, 1, 1, 1),
           Bridge(FALSE, 0, 0, 1)},
   f210 : {None, Normal(FALSE), Bridge(FALSE, 2, 1, 1)}]
Wired(p) ==
  [a \in Addresses |->
     CASE a = <<0, 0, 0>> -> p.f000 [] a = <<0, 0, 1>> -> p.f001
       [] a = <<0, 1, 0>> -> p.f010 [] a = <<0, 1, 1>> -> p.f011
       [] a = <<1, 0, 0>> -> p.f100 [] a = <<2, 1, 0>> -> p.f210
       [] OTHER -> None]
AllHardware == {Wired(p) : p \in Population}

\* Hardware that changes while it is scanned: a bridge that moves from bus to
\* bus and another one that goes away.
Changing ==
  {Wired([f000 |-> x, f001 |-> None, f010 |-> None, f011 |-> None,
          f100 |-> y, f210 |-> None]) :
     x \in {None, Bridge(FALSE, 0, 1, 1), Bridge(TRUE, 0, 2, 2)},
     y \in {None, Bridge(FALSE, 1, 2, 2)}}

\* A machine with one bridge and a device below it.
OneMachine ==
  {Wired([f000 |-> Normal(TRUE), f001 |-> Bridge(FALSE, 0, 1, 1),
          f010 |-> None, f011 |-> None, f100 |-> Normal(FALSE),
          f210 |-> None])}

Dev(d, b, s) == [dom |-> d, bus |-> b, slot |-> s, bridge |-> FALSE,
                 prim |-> 0, sec |-> 0, sub |-> 0]
BridgeDev(d, b, s, sec, sub) == [dom |-> d, bus |-> b, slot |-> s,
                 bridge |-> TRUE, prim |-> b, sec |-> sec, sub |-> sub]
Pool == {Dev(0, 0, 0), BridgeDev(0, 0, 1, 1, 2), BridgeDev(0, 1, 0, 2, 2),
         Dev(0, 2, 0), Dev(1, 0, 0), BridgeDev(1, 0, 1, 1, 1), Dev(1, 1, 0),
         BridgeDev(1, 0, 2, 0, 0)}
SomeListings ==
  {l \in UNION {[1..n -> Pool] : n \in 1..3} : IsInjective(l)}
============================================================================
