------------------------------ MODULE FreeGuard ------------------------------
(***************************************************************************)
(* The set of addresses that keeps free() from being called twice          *)
(* (garbage_collector/free_guard.c), and delete_tree() (ls-tree.c), which  *)
(* frees the buses and bridges through it.                                 *)
(***************************************************************************)
EXTENDS Integers, Sequences, FiniteSets, SequencesExt

CONSTANTS
  Chains,       \* sequences of bridges [bridge, buses], the host bridge first
  Lists         \* other sequences of addresses a program may free

VARIABLES
  freeing,      \* addresses that are still to be freed
  given,        \* history: those fg_free() was called for
  guard,        \* contents of the list, 0 for NULL
  freed,        \* how often free() was called
  guarding      \* "idle", "set up", "cleaned up"

guardVars == <<freeing, given, guard, freed, guarding>>

Addrs == UNION {ToSet(l) : l \in Lists}
         \cup UNION {UNION {{b.bridge} \cup ToSet(b.buses) : b \in ToSet(c)} : c \in Chains}

\* The order of delete_tree(): the buses of a bridge, then the bridge, but not
\* the host bridge, which is not on the heap.
DeleteOrder(chain) ==
  FoldLeft(LAMBDA order, i : order \o chain[i].buses
                             \o IF i = 1 THEN <<>> ELSE <<chain[i].bridge>>,
           <<>>, [i \in 1..Len(chain) |-> i])

\* No address is NULL.
ASSUME AddressAssumption ==
  /\ 0 \notin Addrs
  /\ Lists \cup {DeleteOrder(c) : c \in Chains} \subseteq Seq(Addrs)

GuardInit ==
  /\ freeing = <<>> /\ given = <<>> /\ guard = <<>>
  /\ freed = [a \in Addrs |-> 0] /\ guarding = "idle"

\* fg_setup()
SetUpGuard ==
  /\ guarding = "idle" /\ guarding' = "set up"
  /\ freeing' \in {DeleteOrder(c) : c \in Chains} \cup Lists
  /\ UNCHANGED <<given, guard, freed>>

\* A fault: no address but the first is stored.
InsertedFirst(a) == IF guard = <<>> THEN <<a>> ELSE Append(guard, 0)

\* address_set_insert(); its second case forgets the address.
Inserted(a) == IF Len(guard) = 1 THEN Append(guard, 0) ELSE Append(guard, a)

\* fg_free()
FgFree ==
  /\ guarding = "set up" /\ freeing # <<>>
  /\ LET a == Head(freeing)
     IN /\ IF \E i \in 1..Len(guard) : guard[i] = a
           THEN UNCHANGED <<guard, freed>>
           ELSE guard' = Inserted(a) /\ freed' = [freed EXCEPT ![a] = @ + 1]
        /\ given' = Append(given, a)
  /\ freeing' = Tail(freeing)
  /\ UNCHANGED guarding

\* fg_cleanup()
CleanUpGuard ==
  /\ guarding = "set up" /\ freeing = <<>>
  /\ guarding' = "cleaned up" /\ guard' = <<>>
  /\ UNCHANGED <<freeing, given, freed>>

GuardNext == SetUpGuard \/ FgFree \/ CleanUpGuard

----------------------------------------------------------------------------
\* The second address of a list that differs from the first.
Second(a) ==
  \E i \in 1..Len(given) : /\ given[i] = a /\ a # given[1]
                           /\ \A j \in 1..i - 1 : given[j] = given[1]

\* Each address that was passed to fg_free() has been freed, and once, however
\* often it is passed, except for the second one, which the set forgets and a
\* second call frees again; so delete_tree(), which passes each address once,
\* frees all of them once.
FreedOnce ==
  \A a \in Addrs :
    LET times == Cardinality({i \in 1..Len(given) : given[i] = a})
    IN IF times = 0 THEN freed[a] = 0
       ELSE freed[a] = IF times > 1 /\ Second(a) THEN 2 ELSE 1
============================================================================
