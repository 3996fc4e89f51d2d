----------------------------- MODULE PartsProofs -----------------------------
(***************************************************************************)
(* Proofs about the parts of lspcie and libpci that do not interact with   *)
(* others, each for a specification of its own.                            *)
(***************************************************************************)
EXTENDS FilterArray, KernelModules, Vpd, BaseRegs, FreeGuard, VersionFiles,
        NameList, Dmi, FiniteSetTheorems, FunctionTheorems, SequenceTheorems,
        WellFoundedInduction, TLAPS

----------------------------------------------------------------------------
(***************************************************************************)
(* FreeGuard, for any addresses in any order: the guard frees each address *)
(* it is given once, but for the second one, which it forgets.             *)
(***************************************************************************)
GuardSpec == GuardInit /\ [][GuardNext]_guardVars

Times(g, a) == Cardinality({i \in 1..Len(g) : g[i] = a})
SecondIn(g, a) ==
  \E i \in 1..Len(g) : /\ g[i] = a /\ a # g[1]
                       /\ \A j \in 1..i - 1 : g[j] = g[1]
AllAlike(g) == \A i \in 1..Len(g) : g[i] = g[1]
StoredIn(s, a) == \E i \in 1..Len(s) : s[i] = a

GuardTypes ==
  /\ freeing \in Seq(Addrs) /\ given \in Seq(Addrs)
  /\ guard \in Seq(Addrs \cup {0})
  /\ freed \in [Addrs -> Nat]

\* What the list has stored of the addresses given: the first one, then NULL for
\* the second, and all others, be it the second one when it is given again.
GuardInv(g, s) ==
  /\ s = <<>> <=> g = <<>>
  /\ g # <<>> => s[1] = g[1] /\ (Len(s) = 1 <=> AllAlike(g))
  /\ \A a \in Addrs :
       StoredIn(s, a) <=> Times(g, a) # 0 /\ ~(SecondIn(g, a) /\ Times(g, a) = 1)

FreedInv(g, f) ==
  \A a \in Addrs :
    f[a] = IF Times(g, a) = 0 THEN 0
           ELSE IF Times(g, a) # 1 /\ SecondIn(g, a) THEN 2 ELSE 1

GuardedInv ==
  /\ GuardTypes
  /\ guarding \in {"idle", "set up", "cleaned up"}
  /\ guarding = "idle" => given = <<>>
  /\ guarding # "cleaned up" => GuardInv(given, guard)
  /\ FreedInv(given, freed)

----------------------------------------------------------------------------
LEMMA TimesNat ==
  ASSUME NEW g \in Seq(Addrs), NEW a
  PROVE  /\ Times(g, a) \in Nat
         /\ IsFiniteSet({i \in 1..Len(g) : g[i] = a})
         /\ Times(g, a) = 0 <=> \A i \in 1..Len(g) : g[i] # a
<1> DEFINE S == {i \in 1..Len(g) : g[i] = a}
<1>1. IsFiniteSet(1..Len(g))
  BY FS_Interval
<1>2. IsFiniteSet(S)
  BY <1>1, FS_Subset
<1>3. Cardinality(S) \in Nat /\ (Cardinality(S) = 0 <=> S = {})
  BY <1>2, FS_CardinalityType, FS_EmptySet
<1>4. QED
  BY <1>2, <1>3 DEF Times

\* One more address.
LEMMA TimesAppend ==
  ASSUME NEW g \in Seq(Addrs), NEW a \in Addrs, NEW b
  PROVE  Times(Append(g, a), b) = IF a = b THEN Times(g, b) + 1 ELSE Times(g, b)
<1> DEFINE S == {i \in 1..Len(g) : g[i] = b}
           n == Len(g) + 1
           T == {i \in 1..Len(Append(g, a)) : Append(g, a)[i] = b}
<1>1. T = IF a = b THEN S \cup {n} ELSE S
  OBVIOUS
<1>2. n \notin S /\ IsFiniteSet(S)
  <2>1. n \notin 1..Len(g)
    BY LenProperties
  <2>2. IsFiniteSet(S)
    BY TimesNat
  <2>3. QED
    BY <2>1, <2>2
<1>3. Cardinality(S \cup {n}) = Cardinality(S) + 1
  BY <1>2, FS_AddElement
<1>4. QED
  BY <1>1, <1>3 DEF Times

LEMMA SecondAppend ==
  ASSUME NEW g \in Seq(Addrs), NEW a \in Addrs, NEW b
  PROVE  SecondIn(Append(g, a), b)
           <=> SecondIn(g, b) \/ (g # <<>> /\ AllAlike(g) /\ a = b /\ a # g[1])
<1>1. CASE g = <<>>
  BY <1>1 DEF SecondIn
<1>2. CASE g # <<>>
  <2> DEFINE h == Append(g, a)
  <2>1. /\ Len(g) \in Nat /\ Len(g) >= 1
        /\ Len(h) = Len(g) + 1 /\ h[Len(g) + 1] = a
        /\ \A i \in 1..Len(g) : h[i] = g[i]
    BY <1>2
  <2> HIDE DEF h
  <2>2. ASSUME SecondIn(g, b) PROVE SecondIn(h, b)
    BY <2>1, <2>2 DEF SecondIn
  <2>3. ASSUME AllAlike(g), a = b, a # g[1] PROVE SecondIn(h, b)
    BY <2>1, <2>3 DEF SecondIn, AllAlike
  <2>4. ASSUME SecondIn(h, b)
        PROVE  SecondIn(g, b) \/ (AllAlike(g) /\ a = b /\ a # g[1])
    <3>1. PICK i \in 1..Len(h) : /\ h[i] = b /\ b # h[1]
                                 /\ \A j \in 1..i - 1 : h[j] = h[1]
      BY <2>4 DEF SecondIn
    <3>2. CASE i \in 1..Len(g)
      BY <2>1, <3>1, <3>2 DEF SecondIn
    <3>3. CASE i = Len(g) + 1
      BY <2>1, <3>1, <3>3 DEF AllAlike
    <3>4. QED
      BY <2>1, <3>2, <3>3
  <2>5. QED
    BY <1>2, <2>2, <2>3, <2>4 DEF h
<1>3. QED
  BY <1>1, <1>2

LEMMA AlikeAppend ==
  ASSUME NEW g \in Seq(Addrs), NEW a \in Addrs
  PROVE  /\ Append(g, a) # <<>> /\ Append(g, a) \in Seq(Addrs)
         /\ g # <<>> => Append(g, a)[1] = g[1]
         /\ AllAlike(Append(g, a)) <=> g = <<>> \/ (AllAlike(g) /\ a = g[1])
<1> DEFINE h == Append(g, a)
<1>1. /\ h # <<>> /\ h \in Seq(Addrs)
      /\ Len(g) \in Nat /\ Len(h) = Len(g) + 1 /\ h[Len(g) + 1] = a
      /\ \A i \in 1..Len(g) : h[i] = g[i]
  BY AppendProperties, LenProperties
<1>2. g = <<>> <=> Len(g) = 0
  BY EmptySeq
<1> HIDE DEF h
<1>3. g # <<>> => 1 \in 1..Len(g) /\ h[1] = g[1]
  BY <1>1, <1>2
<1>4. g = <<>> => AllAlike(h)
  BY <1>1, <1>2 DEF AllAlike
<1>5. ASSUME g # <<>> PROVE AllAlike(h) <=> AllAlike(g) /\ a = g[1]
  <2>1. ASSUME AllAlike(h) PROVE AllAlike(g) /\ a = g[1]
    BY <1>1, <1>3, <1>5, <2>1 DEF AllAlike
  <2>2. ASSUME AllAlike(g), a = g[1] PROVE AllAlike(h)
    BY <1>1, <1>3, <1>5, <2>2 DEF AllAlike
  <2>3. QED
    BY <2>1, <2>2
<1>6. QED
  BY <1>1, <1>3, <1>4, <1>5 DEF h

\* A second address has been given and is not the first.
LEMMA SecondGiven ==
  ASSUME NEW g \in Seq(Addrs), NEW a, SecondIn(g, a)
  PROVE  Times(g, a) # 0 /\ g # <<>> /\ ~AllAlike(g) /\ a # g[1]
<1>1. PICK i \in 1..Len(g) : g[i] = a /\ a # g[1]
  BY DEF SecondIn
<1>2. Times(g, a) # 0
  BY <1>1, TimesNat
<1>3. g # <<>>
  BY <1>1, EmptySeq
<1>4. QED
  BY <1>1, <1>2, <1>3 DEF AllAlike

\* fg_free() of an address the list has.
LEMMA KnownAddress ==
  ASSUME NEW g \in Seq(Addrs), NEW s \in Seq(Addrs \cup {0}), NEW f \in [Addrs -> Nat],
         NEW a \in Addrs, GuardInv(g, s), FreedInv(g, f), StoredIn(s, a)
  PROVE  GuardInv(Append(g, a), s) /\ FreedInv(Append(g, a), f)
<1> DEFINE h == Append(g, a)
<1>1. Times(g, a) # 0 /\ ~(SecondIn(g, a) /\ Times(g, a) = 1)
  BY DEF GuardInv
<1>2. g # <<>> /\ s # <<>>
  BY DEF GuardInv, StoredIn
<1>3. AllAlike(g) => a = g[1]
  BY <1>1, TimesNat DEF AllAlike
<1>4. ASSUME NEW b
      PROVE  /\ SecondIn(h, b) <=> SecondIn(g, b)
             /\ Times(h, b) = IF a = b THEN Times(g, b) + 1 ELSE Times(g, b)
             /\ Times(g, b) \in Nat
  <2>1. Times(h, b) = IF a = b THEN Times(g, b) + 1 ELSE Times(g, b)
    BY TimesAppend
  <2>2. SecondIn(h, b) <=> SecondIn(g, b)
    BY <1>3, SecondAppend
  <2>3. QED
    BY <2>1, <2>2, TimesNat
<1>5. h # <<>> /\ h[1] = g[1] /\ (AllAlike(h) <=> AllAlike(g))
  BY <1>2, <1>3, AlikeAppend
<1> HIDE DEF h
<1>6. GuardInv(h, s)
  BY <1>1, <1>2, <1>4, <1>5 DEF GuardInv
<1>7. FreedInv(h, f)
  BY <1>1, <1>4 DEF FreedInv
<1>8. QED
  BY <1>6, <1>7 DEF h

\* fg_free() of an address the list does not have.
LEMMA NewAddress ==
  ASSUME NEW g \in Seq(Addrs), NEW s \in Seq(Addrs \cup {0}), NEW f \in [Addrs -> Nat],
         NEW a \in Addrs, GuardInv(g, s), FreedInv(g, f), ~StoredIn(s, a)
  PROVE  LET t == IF Len(s) = 1 THEN Append(s, 0) ELSE Append(s, a)
         IN GuardInv(Append(g, a), t) /\ FreedInv(Append(g, a), [f EXCEPT ![a] = @ + 1])
<1> DEFINE h == Append(g, a)
           t == IF Len(s) = 1 THEN Append(s, 0) ELSE Append(s, a)
           e == [f EXCEPT ![a] = @ + 1]
<1>1. Times(g, a) = 0 \/ (SecondIn(g, a) /\ Times(g, a) = 1)
  BY DEF GuardInv
<1>2. ASSUME NEW b
      PROVE  /\ Times(h, b) = IF a = b THEN Times(g, b) + 1 ELSE Times(g, b)
             /\ Times(g, b) \in Nat
             /\ SecondIn(g, b) => Times(g, b) # 0
             /\ SecondIn(h, b) <=> \/ SecondIn(g, b)
                                   \/ g # <<>> /\ AllAlike(g) /\ a = b /\ a # g[1]
  <2>1. Times(h, b) = IF a = b THEN Times(g, b) + 1 ELSE Times(g, b)
    BY TimesAppend
  <2>2. SecondIn(g, b) => Times(g, b) # 0
    BY SecondGiven
  <2>3. SecondIn(h, b) <=> \/ SecondIn(g, b)
                           \/ g # <<>> /\ AllAlike(g) /\ a = b /\ a # g[1]
    BY SecondAppend
  <2>4. Times(g, b) \in Nat
    BY TimesNat
  <2>5. QED
    BY <2>1, <2>2, <2>3, <2>4
<1>3. /\ h # <<>> /\ (g # <<>> => h[1] = g[1])
      /\ AllAlike(h) <=> g = <<>> \/ (AllAlike(g) /\ a = g[1])
      /\ g = <<>> => h[1] = a
  BY AlikeAppend
<1>4. a # 0
  BY AddressAssumption
<1>5. e[a] = f[a] + 1 /\ \A b \in Addrs : b # a => e[b] = f[b]
  OBVIOUS
<1>6. g # <<>> => s # <<>> /\ s[1] = g[1] /\ a # g[1] /\ (Len(s) = 1 <=> AllAlike(g))
  BY DEF GuardInv, StoredIn
<1>7. g = <<>> => s = <<>>
  BY DEF GuardInv
<1>8. /\ t # <<>> /\ Len(t) = Len(s) + 1 /\ Len(s) \in Nat
      /\ s # <<>> => t[1] = s[1]
      /\ s = <<>> => t[1] = a
      /\ \A b \in Addrs : StoredIn(t, b) <=> StoredIn(s, b) \/ (b = a /\ Len(s) # 1)
  <2> DEFINE x == IF Len(s) = 1 THEN 0 ELSE a
  <2>1. t = Append(s, x) /\ x \in Addrs \cup {0}
    OBVIOUS
  <2>2. Len(s) \in Nat /\ (s = <<>> <=> Len(s) = 0)
    BY EmptySeq, LenProperties
  <2> HIDE DEF t
  <2>3. /\ t # <<>> /\ Len(t) = Len(s) + 1 /\ t[Len(s) + 1] = x
        /\ \A i \in 1..Len(s) : t[i] = s[i]
    <3> HIDE DEF x
    <3>1. QED
      BY <2>1, AppendProperties
  <2>4. \A b \in Addrs : StoredIn(t, b) <=> StoredIn(s, b) \/ b = x
    <3> HIDE DEF x
    <3> SUFFICES ASSUME NEW b \in Addrs PROVE StoredIn(t, b) <=> StoredIn(s, b) \/ b = x
      OBVIOUS
    <3>1. ASSUME StoredIn(s, b) PROVE StoredIn(t, b)
      BY <2>2, <2>3, <3>1 DEF StoredIn
    <3>2. ASSUME b = x PROVE StoredIn(t, b)
      BY <2>2, <2>3, <3>2 DEF StoredIn
    <3>3. ASSUME StoredIn(t, b), b # x PROVE StoredIn(s, b)
      <4>1. PICK i \in 1..Len(t) : t[i] = b
        BY <3>3 DEF StoredIn
      <4>2. i \in 1..Len(s)
        BY <2>2, <2>3, <3>3, <4>1
      <4>3. QED
        BY <2>3, <4>1, <4>2 DEF StoredIn
    <3>4. QED
      BY <3>1, <3>2, <3>3
  <2>5. \A b \in Addrs : b = x <=> b = a /\ Len(s) # 1
    BY <1>4, AddressAssumption
  <2>6. (s # <<>> => t[1] = s[1]) /\ (s = <<>> => t[1] = a)
    <3>1. CASE s = <<>>
      BY <2>2, <2>3, <3>1
    <3>2. CASE s # <<>>
      <4>1. 1 \in 1..Len(s)
        BY <2>2, <3>2
      <4>2. QED
        BY <2>3, <3>2, <4>1
    <3>3. QED
      BY <3>1, <3>2
  <2>7. QED
    BY <2>2, <2>3, <2>4, <2>5, <2>6
<1> HIDE DEF h, t, e
<1>9. FreedInv(h, e)
  BY <1>1, <1>2, <1>5, <1>6 DEF FreedInv
<1>10. \A b \in Addrs : StoredIn(t, b) <=> Times(h, b) # 0 /\ ~(SecondIn(h, b) /\ Times(h, b) = 1)
  <2> SUFFICES ASSUME NEW b \in Addrs
               PROVE StoredIn(t, b) <=> Times(h, b) # 0 /\ ~(SecondIn(h, b) /\ Times(h, b) = 1)
    OBVIOUS
  <2>1. StoredIn(s, b) <=> Times(g, b) # 0 /\ ~(SecondIn(g, b) /\ Times(g, b) = 1)
    BY DEF GuardInv
  <2>2. CASE b # a
    BY <1>2, <1>8, <2>1, <2>2
  <2>3. CASE b = a /\ SecondIn(g, a)
    BY <1>1, <1>2, <1>6, <1>8, <2>1, <2>3, SecondGiven
  <2>4. CASE b = a /\ ~SecondIn(g, a)
    <3>1. Times(h, a) = 1 /\ ~StoredIn(s, a)
      BY <1>1, <1>2, <2>4
    <3>2. StoredIn(t, a) <=> Len(s) # 1
      BY <1>8, <3>1
    <3>3. CASE g = <<>>
      <4>1. Len(s) = 0
        BY <1>7, <3>3
      <4>2. ~SecondIn(h, a)
        BY <1>2, <2>4, <3>3
      <4>3. QED
        BY <2>4, <3>1, <3>2, <4>1, <4>2
    <3>4. CASE g # <<>>
      <4>1. SecondIn(h, a) <=> Len(s) = 1
        BY <1>2, <1>6, <2>4, <3>4
      <4>2. QED
        BY <2>4, <3>1, <3>2, <4>1
    <3>5. QED
      BY <3>3, <3>4
  <2>5. QED
    BY <2>2, <2>3, <2>4
<1>11. t[1] = h[1] /\ (Len(t) = 1 <=> AllAlike(h))
  BY <1>3, <1>6, <1>7, <1>8
<1>12. GuardInv(h, t)
  BY <1>3, <1>8, <1>10, <1>11 DEF GuardInv
<1>13. QED
  BY <1>9, <1>12 DEF h, t, e

----------------------------------------------------------------------------
LEMMA GuardInitKeeps == GuardInit => GuardedInv
<1> SUFFICES ASSUME GuardInit PROVE GuardedInv
  OBVIOUS
<1>1. ASSUME NEW a PROVE Times(<<>>, a) = 0
  <2>1. <<>> \in Seq(Addrs) /\ Len(<<>>) = 0
    BY EmptySeq
  <2>2. \A i \in 1..Len(<<>>) : FALSE
    BY <2>1
  <2>3. QED
    BY <2>1, <2>2, TimesNat
<1>2. GuardInv(<<>>, <<>>)
  BY <1>1 DEF GuardInv, StoredIn
<1>3. FreedInv(<<>>, freed)
  BY <1>1 DEF FreedInv, GuardInit
<1>4. QED
  BY <1>2, <1>3 DEF GuardInit, GuardedInv, GuardTypes

LEMMA SetUpKeeps == GuardedInv /\ SetUpGuard => GuardedInv'
BY AddressAssumption DEF GuardedInv, SetUpGuard, GuardTypes, GuardInv, FreedInv

LEMMA FreeKeeps == GuardedInv /\ FgFree => GuardedInv'
<1> SUFFICES ASSUME GuardedInv, FgFree PROVE GuardedInv'
  OBVIOUS
<1> DEFINE a == Head(freeing)
<1>1. /\ a \in Addrs /\ freeing' \in Seq(Addrs)
      /\ given \in Seq(Addrs) /\ given' = Append(given, a)
      /\ guard \in Seq(Addrs \cup {0}) /\ freed \in [Addrs -> Nat]
      /\ GuardInv(given, guard) /\ FreedInv(given, freed)
      /\ guarding' = "set up"
  <2>1. freeing \in Seq(Addrs) /\ freeing # <<>> /\ freeing' = Tail(freeing)
    BY DEF FgFree, GuardedInv, GuardTypes
  <2>2. a \in Addrs /\ freeing' \in Seq(Addrs)
    BY <2>1, HeadTailProperties
  <2>3. given' = Append(given, a) /\ guarding = "set up" /\ guarding' = "set up"
    BY DEF FgFree
  <2>4. QED
    BY <2>2, <2>3 DEF GuardedInv, GuardTypes
<1>2. IF StoredIn(guard, a) THEN UNCHANGED <<guard, freed>>
      ELSE guard' = Inserted(a) /\ freed' = [freed EXCEPT ![a] = @ + 1]
  BY DEF FgFree, StoredIn
<1> HIDE DEF a
<1>3. given' \in Seq(Addrs)
  BY <1>1, AppendProperties
<1>4. CASE StoredIn(guard, a)
  <2>1. GuardInv(given', guard) /\ FreedInv(given', freed)
    BY <1>1, <1>4, KnownAddress
  <2>2. QED
    BY <1>1, <1>2, <1>3, <1>4, <2>1 DEF GuardedInv, GuardTypes
<1>5. CASE ~StoredIn(guard, a)
  <2>1. /\ guard' = IF Len(guard) = 1 THEN Append(guard, 0) ELSE Append(guard, a)
        /\ freed' = [freed EXCEPT ![a] = @ + 1]
    BY <1>2, <1>5 DEF Inserted
  <2>2. GuardInv(given', guard') /\ FreedInv(given', freed')
    BY <1>1, <1>5, <2>1, NewAddress
  <2>3. guard' \in Seq(Addrs \cup {0}) /\ freed' \in [Addrs -> Nat]
    <3>1. guard' \in Seq(Addrs \cup {0})
      BY <1>1, <2>1, AppendProperties
    <3>2. freed' \in [Addrs -> Nat]
      <4>1. freed \in [Addrs -> Nat] /\ freed[a] + 1 \in Nat
        <5>1. freed \in [Addrs -> Nat] /\ a \in Addrs
          BY <1>1
        <5>2. QED
          BY <5>1
      <4>2. freed' = [freed EXCEPT ![a] = @ + 1]
        BY <2>1
      <4>3. QED
        BY <4>1, <4>2
    <3>3. QED
      BY <3>1, <3>2
  <2>4. QED
    BY <1>1, <1>3, <2>2, <2>3 DEF GuardedInv, GuardTypes
<1>6. QED
  BY <1>4, <1>5

LEMMA CleanUpKeeps == GuardedInv /\ CleanUpGuard => GuardedInv'
<1> SUFFICES ASSUME GuardedInv, CleanUpGuard PROVE GuardedInv'
  OBVIOUS
<1>1. GuardTypes'
  BY EmptySeq DEF GuardedInv, CleanUpGuard, GuardTypes
<1>2. FreedInv(given', freed')
  BY DEF GuardedInv, CleanUpGuard
<1>3. QED
  BY <1>1, <1>2 DEF GuardedInv, CleanUpGuard

LEMMA GuardedAlways == GuardSpec => []GuardedInv
<1>1. GuardedInv /\ UNCHANGED guardVars => GuardedInv'
  BY DEF GuardedInv, guardVars, GuardTypes, GuardInv, FreedInv
<1>2. GuardedInv /\ [GuardNext]_guardVars => GuardedInv'
  BY <1>1, SetUpKeeps, FreeKeeps, CleanUpKeeps DEF GuardNext
<1>3. QED
  BY <1>2, GuardInitKeeps, PTL DEF GuardSpec

\* fg_free() calls free() once for each address it is given, however often, and
\* twice at most for the second address: delete_tree(), which gives it each
\* address once, frees all of the tree and nothing twice.
THEOREM EachFreedOnce == GuardSpec => []FreedOnce
<1>1. ASSUME GuardedInv PROVE FreedOnce
  <2>1. \A a : Times(given, a) = Cardinality({i \in 1..Len(given) : given[i] = a})
    BY DEF Times
  <2>2. \A a : Second(a) <=> SecondIn(given, a)
    BY DEF Second, SecondIn
  <2>3. \A a : Times(given, a) \in Nat
    BY <1>1, TimesNat DEF GuardedInv, GuardTypes
  <2>4. FreedInv(given, freed)
    BY <1>1 DEF GuardedInv
  <2>5. QED
    BY <2>1, <2>2, <2>3, <2>4 DEF FreedOnce, FreedInv
<1>2. QED
  BY <1>1, GuardedAlways, PTL

----------------------------------------------------------------------------
(***************************************************************************)
(* Vpd, for data of any size and any buffer, whatever lengths the device   *)
(* claims and whichever reads fail: cap_vpd() reads nothing outside the    *)
(* data and the buffer, and the checksum it computes for the first item RV *)
(* is over all bytes up to that one if nothing was left out.               *)
(***************************************************************************)
VpdSpec == VpdInit /\ [][VpdNext]_vpdVars

Within == {"name", "fields", "item", "next"}   \* a resource

VpdTypes ==
  /\ vpd \in Within \cup {"idle", "resource", "done"}
  /\ res_addr \in Nat /\ res_len \in Nat /\ part_pos \in Nat
  /\ part_len \in 0..BufSize - 1
  /\ counted \in [Places -> 0..Often]
  /\ skipped \in BOOLEAN

\* What the code has checked of the lengths where it uses them.
LengthsInv ==
  /\ vpd = "idle" => res_addr = 0
  /\ vpd = "resource" => res_addr <= Mask
  /\ vpd \in Within => res_addr + res_len <= Mask + 1 /\ part_pos <= res_len
  /\ vpd = "item" => part_pos + part_len <= res_len
  /\ vpd = "next" => part_pos = res_len \/ skipped

\* Where the walk has come to.
Frontier == IF vpd \in Within THEN res_addr + part_pos ELSE res_addr

\* As long as nothing is left out and no RV found, the walk has read the bytes
\* before the place it has come to, once each, and no others.
CountedInv ==
  ~skipped /\ verdict = None /\ vpd # "done" =>
    \A x \in Places : counted[x] = IF x < Frontier THEN 1 ELSE 0

VpdInv == VpdTypes /\ LengthsInv /\ CountedInv /\ VpdInside /\ ChecksumCovers

----------------------------------------------------------------------------
\* A read of len bytes from pos on, all there.
LEMMA CountOnce ==
  ASSUME VpdTypes, NEW pos \in Nat, NEW len \in Nat, Count(pos, len),
         \A x \in Places : counted[x] = IF x < pos THEN 1 ELSE 0
  PROVE  \A x \in Places : counted'[x] = IF x < pos + len THEN 1 ELSE 0
BY VpdAssumption DEF VpdTypes, Count, Places, Often

LEMMA CountTyped ==
  ASSUME VpdTypes, NEW pos, NEW len, Count(pos, len)
  PROVE  counted' \in [Places -> 0..Often]
<1>1. ASSUME NEW x \in Places
      PROVE  (IF x \in pos..pos + len - 1 /\ counted[x] < Often
              THEN counted[x] + 1 ELSE counted[x]) \in 0..Often
  <2>1. counted[x] \in 0..Often
    BY DEF VpdTypes
  <2>2. QED
    BY <2>1 DEF Often
<1>2. QED
  BY <1>1 DEF Count

LEMMA VpdInitKeeps == VpdInit => VpdInv
<1> SUFFICES ASSUME VpdInit PROVE VpdInv
  OBVIOUS
<1>1. VpdTypes
  <2>1. counted \in [Places -> 0..Often]
    BY DEF VpdInit, Often
  <2>2. part_len \in 0..BufSize - 1
    BY VpdAssumption DEF VpdInit
  <2>3. QED
    BY <2>1, <2>2 DEF VpdInit, VpdTypes
<1>2. LengthsInv
  BY DEF VpdInit, LengthsInv, Within
<1>3. CountedInv
  BY VpdAssumption DEF VpdInit, CountedInv, Frontier, Within, Places
<1>4. VpdInside /\ ChecksumCovers
  BY VpdAssumption DEF VpdInit, VpdInside, ChecksumCovers, None
<1>5. QED
  BY <1>1, <1>2, <1>3, <1>4 DEF VpdInv

LEMMA StartKeeps == VpdInv /\ StartVpd => VpdInv'
BY VpdAssumption
DEF VpdInv, StartVpd, VpdTypes, LengthsInv, CountedInv, Frontier, Within, VpdInside,
    ChecksumCovers

LEMMA EndOfDataKeeps == VpdInv /\ EndOfData => VpdInv'
BY DEF VpdInv, EndOfData, VpdDone, VpdTypes, LengthsInv, CountedInv, Frontier, Within, VpdInside,
       ChecksumCovers

LEMMA ReadResourceKeeps == VpdInv /\ ReadResource => VpdInv'
<1> SUFFICES ASSUME VpdInv, ReadResource PROVE VpdInv'
  OBVIOUS
<1>1. PICK len \in 0..Mask - 2 - res_addr : res_len' = len /\ res_addr' = res_addr + 3
  BY DEF ReadResource
<1>2. /\ vpd = "resource" /\ vpd' \in {"name", "fields"} /\ part_pos' = 0
      /\ Count(res_addr, 3)
      /\ part_len' = part_len /\ skipped' = skipped /\ verdict' = verdict
  BY DEF ReadResource
<1>3. VpdTypes'
  BY <1>1, <1>2, CountTyped, VpdAssumption DEF VpdInv, VpdTypes, Within
<1>4. LengthsInv'
  BY <1>1, <1>2, VpdAssumption DEF VpdInv, VpdTypes, LengthsInv, Within
<1>5. CountedInv'
  <2> SUFFICES ASSUME ~skipped, verdict = None PROVE CountedInv'
    BY <1>2 DEF CountedInv
  <2>1. \A x \in Places : counted[x] = IF x < res_addr THEN 1 ELSE 0
    BY <1>2 DEF VpdInv, CountedInv, Frontier, Within
  <2>2. \A x \in Places : counted'[x] = IF x < res_addr + 3 THEN 1 ELSE 0
    BY <1>2, <2>1, CountOnce DEF VpdInv, VpdTypes
  <2>3. Frontier' = res_addr + 3
    BY <1>1, <1>2 DEF Frontier, Within, VpdInv, VpdTypes
  <2>4. QED
    BY <2>2, <2>3 DEF CountedInv
<1>6. VpdInside' /\ ChecksumCovers'
  BY <1>1, <1>2, VpdAssumption DEF VpdInv, VpdTypes, LengthsInv, Count, VpdInside, ChecksumCovers
<1>7. QED
  BY <1>3, <1>4, <1>5, <1>6 DEF VpdInv

LEMMA ReadNameKeeps == VpdInv /\ ReadName => VpdInv'
<1> SUFFICES ASSUME VpdInv, ReadName PROVE VpdInv'
  OBVIOUS
<1>1. /\ vpd = "name" /\ part_pos < res_len
      /\ Count(res_addr + part_pos, NamePiece) /\ part_pos' = part_pos + NamePiece
      /\ vpd' = vpd /\ res_addr' = res_addr /\ res_len' = res_len
      /\ part_len' = part_len /\ skipped' = skipped /\ verdict' = verdict
  BY DEF ReadName
<1>2. NamePiece \in 1..BufSize /\ part_pos + NamePiece <= res_len
      /\ res_addr + part_pos \in Nat
  BY <1>1, VpdAssumption DEF VpdInv, VpdTypes, NamePiece
<1>3. VpdTypes'
  BY <1>1, <1>2, CountTyped, VpdAssumption DEF VpdInv, VpdTypes
<1>4. LengthsInv'
  BY <1>1, <1>2, VpdAssumption DEF VpdInv, VpdTypes, LengthsInv, Within
<1>5. CountedInv'
  <2> SUFFICES ASSUME ~skipped, verdict = None PROVE CountedInv'
    BY <1>1 DEF CountedInv
  <2>1. \A x \in Places : counted[x] = IF x < res_addr + part_pos THEN 1 ELSE 0
    BY <1>1 DEF VpdInv, CountedInv, Frontier, Within
  <2>2. \A x \in Places :
          counted'[x] = IF x < res_addr + part_pos + NamePiece THEN 1 ELSE 0
    BY <1>1, <1>2, <2>1, CountOnce, VpdAssumption DEF VpdInv
  <2>3. Frontier' = res_addr + part_pos + NamePiece
    BY <1>1, <1>2, VpdAssumption DEF Frontier, Within, VpdInv, VpdTypes
  <2>4. QED
    BY <2>2, <2>3 DEF CountedInv
<1>6. VpdInside' /\ ChecksumCovers'
  BY <1>1, <1>2, VpdAssumption
  DEF VpdInv, VpdTypes, LengthsInv, Within, Count, VpdInside, ChecksumCovers
<1>7. QED
  BY <1>3, <1>4, <1>5, <1>6 DEF VpdInv

LEMMA ReadItemHeadKeeps == VpdInv /\ ReadItemHead => VpdInv'
<1> SUFFICES ASSUME VpdInv, ReadItemHead PROVE VpdInv'
  OBVIOUS
<1>1. /\ vpd = "fields" /\ part_pos + 3 <= res_len
      /\ Count(res_addr + part_pos, 3) /\ part_pos' = part_pos + 3
      /\ res_addr' = res_addr /\ res_len' = res_len /\ verdict' = verdict
      /\ skipped' = (skipped \/ (vpd' = "next" /\ part_pos' < res_len))
  BY DEF ReadItemHead
<1>2. /\ part_len' \in 0..BufSize - 1
      /\ vpd' = IF part_len' > res_len - part_pos' THEN "next" ELSE "item"
  BY VpdAssumption DEF ReadItemHead
<1>3. res_addr + part_pos \in Nat /\ res_addr \in Nat /\ res_len \in Nat /\ part_pos \in Nat
      /\ part_pos' \in Nat
  BY <1>1 DEF VpdInv, VpdTypes
<1>4. VpdTypes'
  <2>1. counted' \in [Places -> 0..Often]
    BY <1>1, CountTyped DEF VpdInv
  <2>2. skipped' \in BOOLEAN /\ vpd' \in {"next", "item"}
    BY <1>1, <1>2
  <2>3. QED
    BY <1>1, <1>2, <1>3, <2>1, <2>2 DEF VpdTypes, Within
<1>5. LengthsInv'
  <2>1. vpd' = "next" => part_pos' = res_len \/ skipped'
    <3>1. CASE part_pos' < res_len
      BY <1>1, <3>1
    <3>2. CASE ~(part_pos' < res_len)
      BY <1>1, <1>3, <3>2
    <3>3. QED
      BY <3>1, <3>2
  <2>2. vpd' \in {"next", "item"} /\ part_pos' <= res_len
    BY <1>1, <1>2, <1>3
  <2>3. res_addr + res_len <= Mask + 1
    BY <1>1 DEF VpdInv, LengthsInv, Within
  <2>4. vpd' = "item" => part_pos' + part_len' <= res_len
    <3>1. PICK len \in 0..BufSize - 1 : part_len' = len
      BY <1>2
    <3>2. vpd' = "item" => ~(len > res_len - (part_pos + 3))
      BY <1>1, <1>2, <3>1
    <3>3. vpd' = "item" => part_pos + 3 + len <= res_len
      BY <1>3, <3>2, VpdAssumption
    <3>4. QED
      BY <1>1, <3>1, <3>3
  <2>5. QED
    BY <1>1, <2>1, <2>2, <2>3, <2>4 DEF LengthsInv, Within
<1>6. CountedInv'
  <2> SUFFICES ASSUME ~skipped, verdict = None PROVE CountedInv'
    BY <1>1 DEF CountedInv
  <2>1. \A x \in Places : counted[x] = IF x < res_addr + part_pos THEN 1 ELSE 0
    BY <1>1 DEF VpdInv, CountedInv, Frontier, Within
  <2>2. \A x \in Places : counted'[x] = IF x < res_addr + part_pos + 3 THEN 1 ELSE 0
    BY <1>1, <1>3, <2>1, CountOnce DEF VpdInv
  <2>3. Frontier' = res_addr + part_pos + 3
    BY <1>1, <1>2, <1>3 DEF Frontier, Within
  <2>4. QED
    BY <2>2, <2>3 DEF CountedInv
<1>7. VpdInside' /\ ChecksumCovers'
  BY <1>1, <1>3, VpdAssumption
  DEF VpdInv, LengthsInv, Within, Count, VpdInside, ChecksumCovers
<1>8. QED
  BY <1>4, <1>5, <1>6, <1>7 DEF VpdInv

LEMMA ReadItemKeeps == VpdInv /\ ReadItem => VpdInv'
<1> SUFFICES ASSUME VpdInv, ReadItem PROVE VpdInv'
  OBVIOUS
<1>1. /\ vpd = "item" /\ vpd' = "fields"
      /\ Count(res_addr + part_pos, part_len) /\ part_pos' = part_pos + part_len
      /\ res_addr' = res_addr /\ res_len' = res_len /\ part_len' = part_len
      /\ skipped' = skipped /\ verdict' = verdict
  BY DEF ReadItem, ItemEnd
<1>2. res_addr \in Nat /\ part_pos \in Nat /\ part_len \in Nat /\ res_len \in Nat
      /\ part_len <= BufSize /\ res_addr + part_pos \in Nat
  BY VpdAssumption DEF VpdInv, VpdTypes
<1>3. VpdTypes'
  BY <1>1, <1>2, CountTyped DEF VpdInv, VpdTypes, Within
<1>4. LengthsInv'
  BY <1>1, <1>2 DEF VpdInv, LengthsInv, Within
<1>5. CountedInv'
  <2> SUFFICES ASSUME ~skipped, verdict = None PROVE CountedInv'
    BY <1>1 DEF CountedInv
  <2>1. \A x \in Places : counted[x] = IF x < res_addr + part_pos THEN 1 ELSE 0
    BY <1>1 DEF VpdInv, CountedInv, Frontier, Within
  <2>2. \A x \in Places :
          counted'[x] = IF x < res_addr + part_pos + part_len THEN 1 ELSE 0
    BY <1>1, <1>2, <2>1, CountOnce DEF VpdInv
  <2>3. Frontier' = res_addr + part_pos + part_len
    BY <1>1, <1>2 DEF Frontier, Within
  <2>4. QED
    BY <2>2, <2>3 DEF CountedInv
<1>6. VpdInside' /\ ChecksumCovers'
  <2>1. VpdInside'
    BY <1>1, <1>2, VpdAssumption DEF VpdInv, LengthsInv, Within, Count, VpdInside
  <2>2. ChecksumCovers'
    BY <1>1, <1>2, VpdAssumption DEF VpdInv, ChecksumCovers
  <2>3. QED
    BY <2>1, <2>2
<1>7. QED
  BY <1>3, <1>4, <1>5, <1>6 DEF VpdInv

\* Where the first RV is found with nothing left out, its byte is the first one
\* that was not counted yet.
LEMMA ReadChecksumKeeps == VpdInv /\ ReadChecksum => VpdInv'
<1> SUFFICES ASSUME VpdInv, ReadChecksum PROVE VpdInv'
  OBVIOUS
<1> DEFINE pos == res_addr + part_pos
           sum == {x \in Places : counted'[x] = 1}
<1>1. /\ vpd = "item" /\ vpd' = "fields"
      /\ Count(pos, 1) /\ part_pos' = part_pos + part_len
      /\ res_addr' = res_addr /\ res_len' = res_len /\ part_len' = part_len
      /\ verdict' = [at |-> pos, sum |-> sum, first |-> verdict = None /\ ~skipped]
      /\ skipped' = (skipped \/ part_len # 1)
  BY DEF ReadChecksum, ItemEnd, ChecksumLen
<1>2. res_addr \in Nat /\ part_pos \in Nat /\ part_len \in Nat /\ res_len \in Nat
      /\ part_len <= BufSize /\ pos \in Nat /\ pos <= Mask + 1
  BY <1>1, VpdAssumption DEF VpdInv, VpdTypes, LengthsInv, Within
<1>3. VpdTypes'
  <2>1. counted' \in [Places -> 0..Often]
    BY <1>1, CountTyped DEF VpdInv
  <2>2. skipped' \in BOOLEAN
    BY <1>1
  <2>3. QED
    BY <1>1, <1>2, <2>1, <2>2 DEF VpdInv, VpdTypes, Within
<1>4. LengthsInv'
  BY <1>1, <1>2 DEF VpdInv, LengthsInv, Within
<1>5. verdict'.at = pos /\ verdict'.sum = sum /\ verdict'.first = (verdict = None /\ ~skipped)
  BY <1>1
<1>6. CountedInv'
  <2>1. verdict' # None
    BY <1>2, <1>5 DEF None
  <2>2. QED
    BY <2>1 DEF CountedInv
<1>7. VpdInside'
  <2>1. lastRead' = [pos |-> pos, len |-> 1]
    BY <1>1 DEF Count
  <2>2. QED
    BY <1>2, <1>5, <2>1, VpdAssumption DEF VpdInside
<1>8. ChecksumCovers'
  <2> SUFFICES ASSUME verdict = None, ~skipped PROVE sum = 0..pos
    BY <1>5 DEF ChecksumCovers
  <2>1. \A x \in Places : counted[x] = IF x < pos THEN 1 ELSE 0
    BY <1>1 DEF VpdInv, CountedInv, Frontier, Within
  <2>2. \A x \in Places : counted'[x] = IF x < pos + 1 THEN 1 ELSE 0
    BY <1>1, <1>2, <2>1, CountOnce DEF VpdInv
  <2>3. QED
    BY <1>2, <2>2, VpdAssumption DEF Places
<1>9. QED
  BY <1>3, <1>4, <1>6, <1>7, <1>8 DEF VpdInv

LEMMA LeaveKeeps == VpdInv /\ (LeaveResource \/ EndOfResource) => VpdInv'
<1> SUFFICES ASSUME VpdInv, LeaveResource \/ EndOfResource PROVE VpdInv'
  OBVIOUS
<1>1. /\ vpd \in Within /\ vpd' = "next"
      /\ res_addr' = res_addr /\ res_len' = res_len /\ part_pos' = part_pos
      /\ part_len' = part_len /\ counted' = counted /\ lastRead' = lastRead
      /\ verdict' = verdict /\ skipped' = (skipped \/ part_pos < res_len)
  BY DEF LeaveResource, EndOfResource, Within
<1>2. skipped' \in BOOLEAN
  BY <1>1
<1>3. VpdTypes'
  BY <1>1, <1>2 DEF VpdInv, VpdTypes, Within
<1>4. LengthsInv'
  <2>1. /\ res_addr + res_len <= Mask + 1 /\ part_pos <= res_len
        /\ part_pos \in Nat /\ res_len \in Nat
    BY <1>1 DEF VpdInv, VpdTypes, LengthsInv
  <2>2. part_pos = res_len \/ skipped'
    <3>1. CASE part_pos < res_len
      BY <1>1, <3>1
    <3>2. CASE ~(part_pos < res_len)
      BY <2>1, <3>2
    <3>3. QED
      BY <3>1, <3>2
  <2>3. QED
    BY <1>1, <2>1, <2>2 DEF LengthsInv, Within
<1>5. CountedInv'
  BY <1>1 DEF VpdInv, CountedInv, Frontier, Within
<1>6. VpdInside' /\ ChecksumCovers'
  BY <1>1 DEF VpdInv, VpdInside, ChecksumCovers
<1>7. QED
  BY <1>3, <1>4, <1>5, <1>6 DEF VpdInv

LEMMA NextResourceKeeps == VpdInv /\ NextResource => VpdInv'
<1> SUFFICES ASSUME VpdInv, NextResource PROVE VpdInv'
  OBVIOUS
<1>1. /\ vpd = "next" /\ res_addr' = res_addr + res_len
      /\ vpd' = IF res_addr' <= Mask THEN "resource" ELSE "done"
      /\ res_len' = res_len /\ part_pos' = part_pos /\ part_len' = part_len
      /\ counted' = counted /\ skipped' = skipped /\ lastRead' = lastRead
      /\ verdict' = verdict
  BY DEF NextResource
<1>2. VpdTypes' /\ LengthsInv'
  BY <1>1 DEF VpdInv, VpdTypes, LengthsInv, Within
<1>3. CountedInv'
  BY <1>1 DEF VpdInv, VpdTypes, LengthsInv, CountedInv, Frontier, Within
<1>4. VpdInside' /\ ChecksumCovers'
  BY <1>1 DEF VpdInv, VpdInside, ChecksumCovers
<1>5. QED
  BY <1>2, <1>3, <1>4 DEF VpdInv

LEMMA VpdStepKeeps == VpdInv /\ [VpdNext]_vpdVars => VpdInv'
<1> SUFFICES ASSUME VpdInv, [VpdNext]_vpdVars PROVE VpdInv'
  OBVIOUS
<1>1. CASE UNCHANGED vpdVars
  BY <1>1 DEF vpdVars, VpdInv, VpdTypes, LengthsInv, CountedInv, Frontier, Within, VpdInside,
              ChecksumCovers
<1>2. QED
  BY <1>1, StartKeeps, EndOfDataKeeps, ReadResourceKeeps, ReadNameKeeps, ReadItemHeadKeeps,
     ReadItemKeeps, ReadChecksumKeeps, LeaveKeeps, NextResourceKeeps
  DEF VpdNext, VpdWalk

----------------------------------------------------------------------------
LEMMA VpdAlways == VpdSpec => []VpdInv
BY VpdInitKeeps, VpdStepKeeps, PTL DEF VpdSpec

\* cap_vpd() reads nothing outside the data and its buffer, but for the byte an
\* empty item RV at the very end makes it read, whatever the device claims.
THEOREM ReadsInside == VpdSpec => []VpdInside
<1>1. VpdInv => VpdInside
  BY DEF VpdInv
<1>2. QED
  BY <1>1, VpdAlways, PTL

\* The checksum found at the first item RV is that of all bytes up to it, each
\* counted once, if nothing before it was left out.
THEOREM ChecksumIsRight == VpdSpec => []ChecksumCovers
<1>1. VpdInv => ChecksumCovers
  BY DEF VpdInv
<1>2. QED
  BY <1>1, VpdAlways, PTL
----------------------------------------------------------------------------
(***************************************************************************)
(* BaseRegs, for any contents of the registers: the loop pairs the halves  *)
(* of 64-bit addresses as a reader who knows the whole run of registers    *)
(* would, although it looks at one register at a time.                     *)
(***************************************************************************)
BaseSpec == BaseInit /\ [][BaseNext]_baseVars

\* UpperHalf, for the registers read.
Run(s, k) == {n \in 0..k : \A j \in k - n..k - 1 : s[j + 1] = "mem64"}
Upper(s, k) == \E n \in Run(s, k) : n % 2 = 1 /\ \A m \in Run(s, k) : m <= n

\* The addresses the first n registers should have given.
Singles(s, n) ==
  {{k} : k \in {j \in 0..n - 1 : ~Upper(s, j) /\ s[j + 1] \in {"io", "mem"}}}
Pairs(s, n, all) ==
  {{k, k + 1} : k \in {j \in 0..n - 1 : /\ j < all - 1 /\ ~Upper(s, j)
                                        /\ s[j + 1] = "mem64"}}

\* The loop is never at the upper half of an address.
BaseInv ==
  /\ bars \in RegisterCounts /\ registers \in Seq(RegisterKinds)
  /\ bar \in Int
  /\ bar = -1 => bars = 0 /\ registers = <<>> /\ base_addr = {}
  /\ bar # -1 => /\ bar \in 0..bars /\ Len(registers) = bar
                 /\ bar < bars => ~Upper(registers, bar)
                 /\ base_addr = Singles(registers, bar) \cup Pairs(registers, bar, bars)

\* A set of lengths has a longest one.
LEMMA LongestRun ==
  ASSUME NEW k \in Nat, NEW S \in SUBSET (0..k), 0 \in S
  PROVE  \E n \in S : \A m \in S : m <= n
<1> DEFINE R == {k - n : n \in S}
<1>1. R \subseteq Nat /\ k \in R
  <2>1. k - 0 = k
    OBVIOUS
  <2>2. QED
    BY <2>1
<1>2. PICK r \in R : \A q \in R : r <= q
  <2> DEFINE L == OpToRel(<, Nat)
  <2>1. \A x, y \in Nat : <<x, y>> \in L <=> x < y
    BY DEF OpToRel
  <2>2. IsWellFoundedOn(L, Nat)
    BY NatLessThanWellFounded
  <2> HIDE DEF L, R
  <2>3. R # {}
    BY <1>1
  <2>4. PICK r \in R : \A q \in R : ~(<<q, r>> \in L)
    BY <1>1, <2>2, <2>3, WFMin
  <2>5. \A q \in R : ~(q < r)
    BY <1>1, <2>1, <2>4
  <2>6. QED
    BY <1>1, <2>4, <2>5
<1>3. PICK n \in S : r = k - n
  BY <1>2
<1>4. \A m \in S : m <= n
  BY <1>2, <1>3
<1>5. QED
  BY <1>3, <1>4

\* The run before a register is the run before the previous one and this one,
\* or empty.
LEMMA UpperNext ==
  ASSUME NEW s, NEW k \in Nat
  PROVE  Upper(s, k + 1) <=> s[k + 1] = "mem64" /\ ~Upper(s, k)
<1>1. 0 \in Run(s, k) /\ 0 \in Run(s, k + 1) /\ Run(s, k) \subseteq Nat
  BY DEF Run
<1>2. CASE s[k + 1] # "mem64"
  <2>1. Run(s, k + 1) = {0}
    <3> SUFFICES ASSUME NEW n \in Run(s, k + 1), n # 0 PROVE FALSE
      BY <1>1
    <3>1. n \in 0..k + 1 /\ k \in (k + 1) - n..(k + 1) - 1
      BY DEF Run
    <3>2. QED
      BY <1>2, <3>1 DEF Run
  <2>2. QED
    BY <1>2, <2>1 DEF Upper
<1>3. CASE s[k + 1] = "mem64"
  <2>1. \A n \in Nat : n + 1 \in Run(s, k + 1) <=> n \in Run(s, k)
    <3> SUFFICES ASSUME NEW n \in Nat
                 PROVE  n + 1 \in Run(s, k + 1) <=> n \in Run(s, k)
      OBVIOUS
    <3>1. ASSUME n + 1 \in Run(s, k + 1) PROVE n \in Run(s, k)
      <4>1. n \in 0..k /\ \A j \in k - n..k : s[j + 1] = "mem64"
        BY <3>1 DEF Run
      <4>2. QED
        BY <4>1 DEF Run
    <3>2. ASSUME n \in Run(s, k) PROVE n + 1 \in Run(s, k + 1)
      <4>1. n \in 0..k /\ \A j \in k - n..k - 1 : s[j + 1] = "mem64"
        BY <3>2 DEF Run
      <4>2. \A j \in (k + 1) - (n + 1)..(k + 1) - 1 : s[j + 1] = "mem64"
        BY <1>3, <4>1
      <4>3. QED
        BY <4>1, <4>2 DEF Run
    <3>3. QED
      BY <3>1, <3>2
  <2>2. \A m \in Run(s, k + 1) : m = 0 \/ (m - 1 \in Nat /\ m - 1 \in Run(s, k))
    <3> SUFFICES ASSUME NEW m \in Run(s, k + 1), m # 0
                 PROVE  m - 1 \in Nat /\ m - 1 \in Run(s, k)
      OBVIOUS
    <3>1. m - 1 \in Nat /\ (m - 1) + 1 = m
      BY DEF Run
    <3>2. QED
      BY <2>1, <3>1
\* There is a longest run, and its length is even or odd.
  <2>3. PICK n \in Run(s, k) : \A m \in Run(s, k) : m <= n
    <3>1. Run(s, k) \subseteq 0..k
      BY DEF Run
    <3>2. QED
      BY <1>1, <3>1, LongestRun
  <2>4. n \in Nat /\ n + 1 \in Run(s, k + 1)
    BY <1>1, <2>1, <2>3
  <2>5. \A m \in Run(s, k + 1) : m <= n + 1
    BY <2>2, <2>3, <2>4, <1>1
  <2>6. Upper(s, k) <=> n % 2 = 1
    <3>1. \A p \in Run(s, k) : (\A m \in Run(s, k) : m <= p) => p = n
      BY <1>1, <2>3
    <3>2. QED
      BY <2>3, <3>1 DEF Upper
  <2>7. Upper(s, k + 1) <=> (n + 1) % 2 = 1
    <3>1. \A p \in Run(s, k + 1) : (\A m \in Run(s, k + 1) : m <= p) => p = n + 1
      <4>1. Run(s, k + 1) \subseteq Nat
        BY DEF Run
      <4>2. QED
        BY <2>4, <2>5, <4>1
    <3>2. QED
      BY <2>4, <2>5, <3>1 DEF Upper
  <2>8. QED
    BY <1>3, <2>4, <2>6, <2>7
<1>4. QED
  BY <1>2, <1>3

LEMMA UpperFirst == ASSUME NEW s PROVE ~Upper(s, 0)
<1>1. Run(s, 0) = {0}
  BY DEF Run
<1>2. QED
  BY <1>1 DEF Upper

\* What is read later does not matter to a register.
LEMMA UpperStays ==
  ASSUME NEW s, NEW t, NEW k \in Nat, \A j \in 1..k : s[j] = t[j]
  PROVE  Upper(s, k) <=> Upper(t, k)
<1>1. Run(s, k) = Run(t, k)
  <2>1. \A n \in 0..k : \A j \in k - n..k - 1 : j + 1 \in 1..k
    OBVIOUS
  <2>2. QED
    BY <2>1 DEF Run
<1>2. QED
  BY <1>1 DEF Upper

\* One more register that is no first half.
LEMMA OneRead ==
  ASSUME NEW s \in Seq(RegisterKinds), NEW all \in Int, NEW x \in RegisterKinds,
         ~Upper(s, Len(s)), x = "mem64" => ~(Len(s) < all - 1)
  PROVE  LET t == Append(s, x)
             n == Len(s)
         IN /\ Singles(t, n + 1) = Singles(s, n) \cup
                 (IF x \in {"io", "mem"} THEN {{n}} ELSE {})
            /\ Pairs(t, n + 1, all) = Pairs(s, n, all)
            /\ x # "mem64" => ~Upper(t, n + 1)
<1> DEFINE t == Append(s, x)
           n == Len(s)
<1>1. n \in Nat /\ t[n + 1] = x /\ \A j \in 1..n : t[j] = s[j]
  OBVIOUS
<1> HIDE DEF t, n
<1>2. \A k \in 0..n : Upper(t, k) <=> Upper(s, k)
  <2> SUFFICES ASSUME NEW k \in 0..n PROVE Upper(t, k) <=> Upper(s, k)
    OBVIOUS
  <2>1. k \in Nat /\ \A j \in 1..k : t[j] = s[j]
    BY <1>1
  <2>2. QED
    BY <2>1, UpperStays
<1>3. ~Upper(t, n)
  BY <1>1, <1>2 DEF n
<1>4. {j \in 0..n : ~Upper(t, j) /\ t[j + 1] \in {"io", "mem"}} =
        {j \in 0..n - 1 : ~Upper(s, j) /\ s[j + 1] \in {"io", "mem"}}
          \cup (IF x \in {"io", "mem"} THEN {n} ELSE {})
  BY <1>1, <1>2, <1>3
<1>5. {j \in 0..n : j < all - 1 /\ ~Upper(t, j) /\ t[j + 1] = "mem64"} =
        {j \in 0..n - 1 : j < all - 1 /\ ~Upper(s, j) /\ s[j + 1] = "mem64"}
  BY <1>1, <1>2, <1>3 DEF n
<1>6. 0..(n + 1) - 1 = 0..n
  BY <1>1
<1>7. Singles(t, n + 1) = Singles(s, n) \cup (IF x \in {"io", "mem"} THEN {{n}} ELSE {})
  BY <1>4, <1>6 DEF Singles
<1>8. Pairs(t, n + 1, all) = Pairs(s, n, all)
  BY <1>5, <1>6 DEF Pairs
<1>9. x # "mem64" => ~Upper(t, n + 1)
  BY <1>1, UpperNext
<1>10. QED
  BY <1>7, <1>8, <1>9 DEF t, n

\* The two halves of an address.
WithPair(s, y) == s \o <<"mem64", y>>

LEMMA TwoRead ==
  ASSUME NEW s \in Seq(RegisterKinds), NEW all \in Int, NEW y \in RegisterKinds,
         NEW n, n = Len(s), ~Upper(s, n), n < all - 1,
         NEW t, t = WithPair(s, y)
  PROVE  /\ Singles(t, n + 2) = Singles(s, n)
         /\ Pairs(t, n + 2, all) = Pairs(s, n, all) \cup {{n, n + 1}}
         /\ ~Upper(t, n + 2)
<1>1. n \in Nat /\ t[n + 1] = "mem64" /\ t[n + 2] = y /\ \A j \in 1..n : t[j] = s[j]
  BY DEF WithPair
<1>2. n < all - 1 /\ ~Upper(s, n)
  OBVIOUS
<1>3. \A k \in 0..n : Upper(t, k) <=> Upper(s, k)
  <2> SUFFICES ASSUME NEW k \in 0..n PROVE Upper(t, k) <=> Upper(s, k)
    OBVIOUS
  <2>1. k \in Nat /\ \A j \in 1..k : t[j] = s[j]
    BY <1>1
  <2>2. QED
    BY <2>1, UpperStays
<1>4. ~Upper(t, n)
  BY <1>1, <1>2, <1>3
<1>5. Upper(t, n + 1)
  BY <1>1, <1>4, UpperNext
<1>6. ~Upper(t, n + 2)
  <2>1. Upper(t, (n + 1) + 1) <=> t[(n + 1) + 1] = "mem64" /\ ~Upper(t, n + 1)
    <3>1. n + 1 \in Nat
      BY <1>1
    <3>2. QED
      BY <3>1, UpperNext
  <2>2. (n + 1) + 1 = n + 2
    BY <1>1
  <2>3. QED
    BY <1>5, <2>1, <2>2
<1>7. 0..(n + 2) - 1 = (0..n - 1) \cup {n, n + 1}
  BY <1>1
<1>8. {j \in 0..(n + 2) - 1 : ~Upper(t, j) /\ t[j + 1] \in {"io", "mem"}} =
        {j \in 0..n - 1 : ~Upper(s, j) /\ s[j + 1] \in {"io", "mem"}}
  <2>1. \A j \in 0..n - 1 : t[j + 1] = s[j + 1] /\ j \in 0..n
    BY <1>1
  <2>2. QED
    BY <1>1, <1>3, <1>5, <1>7, <2>1
<1>9. {j \in 0..(n + 2) - 1 : j < all - 1 /\ ~Upper(t, j) /\ t[j + 1] = "mem64"} =
        {j \in 0..n - 1 : j < all - 1 /\ ~Upper(s, j) /\ s[j + 1] = "mem64"} \cup {n}
  <2>1. \A j \in 0..n - 1 : t[j + 1] = s[j + 1] /\ j \in 0..n
    BY <1>1
  <2>2. QED
    BY <1>1, <1>2, <1>3, <1>4, <1>5, <1>7, <2>1
<1>10. Singles(t, n + 2) = Singles(s, n)
  BY <1>8 DEF Singles
<1>11. Pairs(t, n + 2, all) = Pairs(s, n, all) \cup {{n, n + 1}}
  BY <1>9 DEF Pairs
<1>12. QED
  BY <1>6, <1>10, <1>11

LEMMA StartBasesKeeps == BaseInv /\ StartBases => BaseInv'
<1> SUFFICES ASSUME BaseInv, StartBases PROVE BaseInv'
  OBVIOUS
<1>1. bar' = 0 /\ bars' \in RegisterCounts /\ registers' = <<>> /\ base_addr' = {}
  BY DEF BaseInv, StartBases
<1>2. Singles(<<>>, 0) = {} /\ Pairs(<<>>, 0, bars') = {}
  BY DEF Singles, Pairs
<1>3. bar' \in 0..bars'
  BY <1>1 DEF RegisterCounts
<1>4. QED
  BY <1>1, <1>2, <1>3, UpperFirst DEF BaseInv

LEMMA ReadBaseKeeps == BaseInv /\ ReadBase => BaseInv'
<1> SUFFICES ASSUME BaseInv, ReadBase PROVE BaseInv'
  OBVIOUS
<1>1. /\ bar \in 0..bars - 1 /\ bars' = bars /\ bars \in Nat
      /\ registers \in Seq(RegisterKinds) /\ Len(registers) = bar
      /\ ~Upper(registers, bar)
      /\ base_addr = Singles(registers, bar) \cup Pairs(registers, bar, bars)
  BY DEF ReadBase, BaseInv, RegisterCounts
<1>2. PICK x \in RegisterKinds :
        IF x = "mem64" /\ SecondHalf
        THEN \E y \in RegisterKinds :
               /\ registers' = registers \o <<x, y>>
               /\ base_addr' = base_addr \cup {{bar, bar + 1}}
               /\ bar' = bar + 2
        ELSE /\ registers' = Append(registers, x)
             /\ base_addr' = IF x \in {"io", "mem"} THEN base_addr \cup {{bar}}
                             ELSE base_addr
             /\ bar' = bar + 1
  BY DEF ReadBase
<1>3. CASE x = "mem64" /\ SecondHalf
  <2>1. PICK y \in RegisterKinds :
          /\ registers' = registers \o <<"mem64", y>>
          /\ base_addr' = base_addr \cup {{bar, bar + 1}}
          /\ bar' = bar + 2
    BY <1>2, <1>3
  <2>2. bar < bars - 1 /\ bars \in Int
    BY <1>1, <1>3 DEF SecondHalf
  <2>3. /\ Singles(registers', bar + 2) = Singles(registers, bar)
        /\ Pairs(registers', bar + 2, bars) =
             Pairs(registers, bar, bars) \cup {{bar, bar + 1}}
        /\ ~Upper(registers', bar + 2)
    <3>1. registers' = WithPair(registers, y)
      BY <2>1 DEF WithPair
    <3>2. y \in RegisterKinds /\ registers \in Seq(RegisterKinds) /\ bars \in Int
      BY <1>1, <2>2
    <3>3. bar = Len(registers) /\ ~Upper(registers, bar) /\ bar < bars - 1
      BY <1>1, <2>2
    <3>4. Singles(registers', bar + 2) = Singles(registers, bar)
      BY <3>1, <3>2, <3>3, TwoRead, SMTT(30)
    <3>5. Pairs(registers', bar + 2, bars) =
             Pairs(registers, bar, bars) \cup {{bar, bar + 1}}
      BY <3>1, <3>2, <3>3, TwoRead, SMTT(30)
    <3>6. ~Upper(registers', bar + 2)
      BY <3>1, <3>2, <3>3, TwoRead
    <3>7. QED
      BY <3>4, <3>5, <3>6
  <2>4. registers' \in Seq(RegisterKinds) /\ Len(registers') = bar + 2
    BY <1>1, <2>1 DEF RegisterKinds
  <2>5. bar' \in 0..bars /\ bar' # -1 /\ bar' \in Int
    BY <1>1, <2>1, <2>2
  <2>6. base_addr' = Singles(registers', bar') \cup Pairs(registers', bar', bars')
    BY <1>1, <2>1, <2>3
  <2>7. QED
    BY <1>1, <2>1, <2>3, <2>4, <2>5, <2>6 DEF BaseInv
<1>4. CASE ~(x = "mem64" /\ SecondHalf)
  <2>1. /\ registers' = Append(registers, x) /\ bar' = bar + 1
        /\ base_addr' = base_addr \cup (IF x \in {"io", "mem"} THEN {{bar}} ELSE {})
    BY <1>2, <1>4
  <2>2. x = "mem64" => ~(bar < bars - 1)
    BY <1>4 DEF SecondHalf
  <2>3. /\ Singles(registers', bar + 1) = Singles(registers, bar) \cup
             (IF x \in {"io", "mem"} THEN {{bar}} ELSE {})
        /\ Pairs(registers', bar + 1, bars) = Pairs(registers, bar, bars)
        /\ x # "mem64" => ~Upper(registers', bar + 1)
    BY <1>1, <2>1, <2>2, OneRead
  <2>4. registers' \in Seq(RegisterKinds) /\ Len(registers') = bar + 1
    BY <1>1, <2>1
  <2>5. bar' \in 0..bars /\ bar' # -1 /\ bar' \in Int
    BY <1>1, <2>1
  <2>6. bar' < bars => ~Upper(registers', bar')
    BY <1>1, <2>1, <2>2, <2>3
  <2>7. base_addr' = Singles(registers', bar') \cup Pairs(registers', bar', bars')
    BY <1>1, <2>1, <2>3
  <2>8. QED
    BY <1>1, <2>1, <2>4, <2>5, <2>6, <2>7 DEF BaseInv
<1>5. QED
  BY <1>3, <1>4

LEMMA BaseInvRight == BaseInv => BasesRight
<1> SUFFICES ASSUME BaseInv, bar >= bars, bar >= 0
             PROVE  /\ Len(registers) = bars
                    /\ base_addr =
                        {{k} : k \in {j \in 0..bars - 1 :
                                        ~UpperHalf(j) /\ registers[j + 1] \in {"io", "mem"}}}
                        \cup
                        {{k, k + 1} : k \in {j \in 0..bars - 2 :
                                        ~UpperHalf(j) /\ registers[j + 1] = "mem64"}}
  BY DEF BasesRight
<1>1. bar = bars /\ bars \in Nat /\ Len(registers) = bars
  BY DEF BaseInv, RegisterCounts
<1>2. base_addr = Singles(registers, bars) \cup Pairs(registers, bars, bars)
  BY <1>1 DEF BaseInv
<1>3. \A j : UpperHalf(j) <=> Upper(registers, j)
  BY DEF UpperHalf, Upper, Run
<1>4. {j \in 0..bars - 1 : j < bars - 1 /\ ~Upper(registers, j)
                            /\ registers[j + 1] = "mem64"} =
        {j \in 0..bars - 2 : ~UpperHalf(j) /\ registers[j + 1] = "mem64"}
  BY <1>1, <1>3
<1>5. {j \in 0..bars - 1 : ~Upper(registers, j) /\ registers[j + 1] \in {"io", "mem"}} =
        {j \in 0..bars - 1 : ~UpperHalf(j) /\ registers[j + 1] \in {"io", "mem"}}
  BY <1>3
<1>6. QED
  BY <1>1, <1>2, <1>4, <1>5 DEF Singles, Pairs

\* pci_generic_fill_info() pairs the halves of 64-bit addresses rightly whatever
\* the registers hold, an upper half that looks like a lower one included, and
\* reads none beyond those of the header type.
THEOREM BasesAreRight == BaseSpec => []BasesRight
<1>1. BaseInit => BaseInv
  BY DEF BaseInit, BaseInv, RegisterCounts
<1>2. BaseInv /\ [BaseNext]_baseVars => BaseInv'
  <2>1. BaseInv /\ UNCHANGED baseVars => BaseInv'
    BY DEF BaseInv, baseVars
  <2>2. QED
    BY <2>1, StartBasesKeeps, ReadBaseKeeps DEF BaseNext
<1>3. BaseInv => BasesRight
  BY BaseInvRight
<1>4. QED
  BY <1>1, <1>2, <1>3, PTL DEF BaseSpec

----------------------------------------------------------------------------
(***************************************************************************)
(* FilterArray, for any options and devices.  While only -s and -d have    *)
(* come, the one filter has of each component what the last option said    *)
(* that gave it; after a file there is one filter for each element.        *)
(***************************************************************************)
FilterSpec == FilterInit /\ [][FilterNext]_filterVars

\* Elements of a file whose fields are all known, different, and few enough to
\* be read.
PlainElement(e) ==
  /\ Len(e) <= FieldsRead
  /\ \A j \in 1..Len(e) : e[j].name \in FileFields
  /\ \A j, k \in 1..Len(e) : e[j].name = e[k].name => j = k

\* The code does not look at a class behind a device that is "*", and not at a
\* fifth field.
PlainOption(o) ==
  /\ o.opt = "d" => (o.id.device = Star => o.id.class \in {Empty, Star})
  /\ o.opt = "f" => \A i \in 1..Len(o.file) : PlainElement(o.file[i])
PlainOptions == \A line \in CommandLines : \A i \in 1..Len(line) : PlainOption(line[i])

Goods == {o \in Options : PlainOption(o)}

\* What an option says of a component.
Components == Locations \cup {"vendor", "device", "class"}
GivesBy(o, x) == IF o.opt = "s" THEN x \in Locations /\ Given(o.slot[x])
                 ELSE x \notin Locations /\ Given(o.id[x])
SaidOf(o, x) == IF x \in Locations THEN o.slot[x] ELSE o.id[x]

\* What the last option said, or ANY.
IsLast(s, x, v) ==
  \/ v = ANY /\ \A i \in 1..Len(s) : ~GivesBy(s[i], x)
  \/ \E i \in 1..Len(s) :
       /\ GivesBy(s[i], x) /\ v = SaidOf(s[i], x) /\ v \in Nat
       /\ \A j \in 1..Len(s) : GivesBy(s[j], x) => j <= i

\* A class and the two fields it is kept in.
IsClass(f, c) ==
  IF c = ANY THEN f["super"] = ANY /\ f["sub"] = ANY
  ELSE c \in Nat /\ f["super"] = c \div 256 /\ f["sub"] = c % 256

Fields == Locations \cup Identities
IsMerge(s, f) ==
  /\ \A x \in Locations \cup {"vendor", "device"} : IsLast(s, x, f[x])
  /\ \E c \in Int : IsLast(s, "class", c) /\ IsClass(f, c)

\* The array while there was no file.
Merged ==
  IF seen = <<>> THEN filters = <<>> /\ cmdLine = 0
  ELSE /\ Len(filters) = 1 /\ cmdLine = 1 /\ room = SizeOfFilter
       /\ filters[1] \in [Fields -> Int] /\ IsMerge(seen, filters[1])

HasFile(s) == \E i \in 1..Len(s) : s[i].opt = "f"

\* The array after a file.
IsFileArray(file) ==
  /\ filters = FileArray(file)
  /\ \A i \in 1..Len(file) : GoodElement(file[i])

FiltersInv ==
  /\ seen \in Seq(Goods)
  /\ filtering # "idle" => options \in Seq(Goods)
  /\ filtering = "idle" => seen = <<>> /\ filters = <<>> /\ cmdLine = 0
  /\ filtering \in {"idle", "parsing", "ready"} =>
       /\ ~HasFile(seen) => Merged
       /\ HasFile(seen) /\ seen[Len(seen)].opt = "f" =>
            IsFileArray(seen[Len(seen)].file)
  /\ OverrunNeedsFile

----------------------------------------------------------------------------
\* One more option.
LEMMA LastOfMore ==
  ASSUME NEW s \in Seq(Goods), NEW o \in Goods, NEW x, NEW v, IsLast(s, x, v),
         GivesBy(o, x) => SaidOf(o, x) \in Nat
  PROVE  IsLast(Append(s, o), x, IF GivesBy(o, x) THEN SaidOf(o, x) ELSE v)
<1> DEFINE t == Append(s, o)
           n == Len(s) + 1
<1>1. /\ Len(s) \in Nat /\ Len(t) = n /\ t[n] = o /\ n \in 1..Len(t)
      /\ \A i \in 1..Len(s) : t[i] = s[i] /\ i \in 1..Len(t) /\ i <= n
      /\ \A i \in 1..Len(t) : i = n \/ i \in 1..Len(s)
  OBVIOUS
<1> HIDE DEF t, n
<1>2. CASE GivesBy(o, x)
  <2>1. \A i \in 1..Len(t) : i <= n
    BY <1>1
  <2>2. IsLast(t, x, SaidOf(o, x))
    BY <1>1, <1>2, <2>1 DEF IsLast
  <2>3. QED
    BY <1>2, <2>2 DEF t
<1>3. CASE ~GivesBy(o, x)
  <2>1. ASSUME v = ANY, \A i \in 1..Len(s) : ~GivesBy(s[i], x) PROVE IsLast(t, x, v)
    BY <1>1, <1>3, <2>1 DEF IsLast
  <2>2. ASSUME NEW i \in 1..Len(s), GivesBy(s[i], x), v = SaidOf(s[i], x), v \in Nat,
               \A j \in 1..Len(s) : GivesBy(s[j], x) => j <= i
        PROVE  IsLast(t, x, v)
    <3>1. i \in 1..Len(t) /\ t[i] = s[i]
      BY <1>1
    <3>2. \A j \in 1..Len(t) : GivesBy(t[j], x) => j <= i
      BY <1>1, <1>3, <2>2
    <3>3. QED
      BY <2>2, <3>1, <3>2 DEF IsLast
  <2>3. IsLast(t, x, v)
    BY <2>1, <2>2 DEF IsLast
  <2>4. QED
    BY <1>3, <2>3 DEF t
<1>4. QED
  BY <1>2, <1>3

\* Of the first options.
LEMMA LastOfNone == ASSUME NEW x PROVE IsLast(<<>>, x, ANY)
BY DEF IsLast

LEMMA ClassOfFields ==
  ASSUME NEW c \in Nat, NEW d \in Nat, c \div 256 = d \div 256, c % 256 = d % 256
  PROVE  c = d
OBVIOUS

\* The parsers set the fields of the components that are given.
LEMMA SlotParsed ==
  ASSUME NEW f \in [Fields -> Int], NEW s \in [Locations -> Int], ParseSlot(f, s).ok
  PROVE  LET g == ParseSlot(f, s).filter
         IN /\ g \in [Fields -> Int]
            /\ \A x \in Locations : g[x] = IF Given(s[x]) THEN s[x] ELSE f[x]
            /\ \A x \in Identities : g[x] = f[x]
            /\ \A x \in Locations : Given(s[x]) => s[x] \in Nat
<1> DEFINE new == [domain |-> IF Given(s["domain"]) THEN s["domain"] ELSE f["domain"],
                   bus |-> IF Given(s["bus"]) THEN s["bus"] ELSE f["bus"],
                   slot |-> IF Given(s["slot"]) THEN s["slot"] ELSE f["slot"],
                   func |-> IF Given(s["func"]) THEN s["func"] ELSE f["func"]]
           g == ParseSlot(f, s).filter
<1>1. /\ InRange(s["domain"], MaxOf["domain"]) /\ InRange(s["bus"], MaxOf["bus"])
      /\ InRange(s["slot"], MaxOf["slot"]) /\ InRange(s["func"], MaxOf["func"])
  BY Zenon DEF ParseSlot
<1>2. g = Updated(f, new)
  BY <1>1, Zenon DEF ParseSlot, Field
<1>3. \A x \in Locations : Given(s[x]) => s[x] \in Nat
  BY <1>1 DEF InRange, Locations
<1>4. DOMAIN new = Locations
  BY DEF Locations
<1>5. \A x \in Locations : new[x] = IF Given(s[x]) THEN s[x] ELSE f[x]
  BY DEF Locations
<1> HIDE DEF new
<1>6. g = [x \in Fields |-> IF x \in Locations THEN new[x] ELSE f[x]]
  BY <1>2, <1>4 DEF Updated
<1>7. \A x \in Identities : x \in Fields /\ x \notin Locations
  BY DEF Identities, Locations, Fields
<1>8. \A x \in Locations : x \in Fields /\ new[x] \in Int
  BY <1>5 DEF Fields
<1> HIDE DEF g
<1>9. QED
  BY <1>3, <1>5, <1>6, <1>7, <1>8 DEF g

LEMMA IdParsed ==
  ASSUME NEW f \in [Fields -> Int], NEW o \in Goods, o.opt = "d", ParseId(f, o.id).ok
  PROVE  LET s == o.id
             g == ParseId(f, s).filter
         IN /\ g \in [Fields -> Int]
            /\ \A x \in Locations : g[x] = f[x]
            /\ \A x \in {"vendor", "device"} :
                 g[x] = IF Given(s[x]) THEN s[x] ELSE f[x]
            /\ g["super"] = IF Given(s["class"]) THEN s["class"] \div 256 ELSE f["super"]
            /\ g["sub"] = IF Given(s["class"]) THEN s["class"] % 256 ELSE f["sub"]
            /\ \A x \in {"vendor", "device", "class"} : Given(s[x]) => s[x] \in Nat
<1> DEFINE s == o.id
           g == ParseId(f, s).filter
           new == [vendor |-> IF Given(s["vendor"]) THEN s["vendor"] ELSE f["vendor"],
                   device |-> IF Given(s["device"]) THEN s["device"] ELSE f["device"],
                   super |-> IF Given(s["class"]) THEN s["class"] \div 256 ELSE f["super"],
                   sub |-> IF Given(s["class"]) THEN s["class"] % 256 ELSE f["sub"]]
<1>1. /\ s \in [text : {"ids", "empty", "other"}, vendor : Int, device : Int, class : Int]
      /\ s.text = "empty" => s.vendor = Empty /\ s.device = Empty /\ s.class = Empty
      /\ s.device = Star => s.class \in {Empty, Star}
  BY DEF Goods, Options, IdOptions, SlotOptions, FileOptions, PlainOption
<1>2. ParseId(f, s).ok
  OBVIOUS
<1> HIDE DEF s
<1>3. ASSUME s.text = "empty" PROVE g = Updated(f, new)
  <2>1. ~Given(s["vendor"]) /\ ~Given(s["device"]) /\ ~Given(s["class"])
    BY <1>1, <1>3 DEF Given
  <2>2. QED
    BY <1>3, <2>1 DEF ParseId, Field
<1>4. ASSUME s.text # "empty"
      PROVE  /\ g = Updated(f, new)
             /\ InRange(s.vendor, MaxId) /\ InRange(s.device, MaxId)
             /\ ClassUsed(s) => s.class \in 0..MaxId
  <2>1. /\ s.text = "ids" /\ InRange(s.vendor, MaxId) /\ InRange(s.device, MaxId)
        /\ ClassUsed(s) => s.class \in 0..MaxId
    BY <1>2, <1>4, Zenon DEF ParseId
  <2>2. ClassUsed(s) <=> Given(s["class"])
    BY <1>1, <2>1 DEF ClassUsed, Given, Star, Empty
  <2>3. Given(s["class"]) => Given(s["class"] \div 256) /\ Given(s["class"] % 256)
    <3>1. Given(s["class"]) => s["class"] \in Nat
      BY <2>1, <2>2
    <3>2. QED
      BY <3>1 DEF Given, Empty, Star
  <2> DEFINE set == Field(ClassUsed(s), s.class \div 256, f.super)
             low == Field(ClassUsed(s), s.class % 256, f.sub)
             parts == [vendor |-> Field(TRUE, s.vendor, f.vendor),
                       device |-> Field(TRUE, s.device, f.device),
                       super |-> set, sub |-> low]
  <2>4. /\ set = IF Given(s["class"]) THEN s["class"] \div 256 ELSE f["super"]
        /\ low = IF Given(s["class"]) THEN s["class"] % 256 ELSE f["sub"]
    BY <2>2, <2>3 DEF Field
  <2>5. g = Updated(f, parts)
    <3> DEFINE vendor == s.text = "ids" /\ InRange(s.vendor, MaxId)
               device == vendor /\ InRange(s.device, MaxId)
               class == device /\ (ClassUsed(s) => s.class \in 0..MaxId)
               used == class /\ ClassUsed(s)
    <3>1. g = Updated(f, [vendor |-> Field(vendor, s.vendor, f.vendor),
                          device |-> Field(device, s.device, f.device),
                          super |-> Field(used, s.class \div 256, f.super),
                          sub |-> Field(used, s.class % 256, f.sub)])
      BY DEF ParseId
    <3>2. vendor /\ device /\ (used <=> ClassUsed(s))
      BY <2>1
    <3> HIDE DEF vendor, device, used, g
    <3>3. Field(vendor, s.vendor, f.vendor) = Field(TRUE, s.vendor, f.vendor)
      BY <3>2 DEF Field
    <3>4. Field(device, s.device, f.device) = Field(TRUE, s.device, f.device)
      BY <3>2 DEF Field
    <3>5. Field(used, s.class \div 256, f.super) = set
      BY <3>2 DEF Field
    <3>6. Field(used, s.class % 256, f.sub) = low
      BY <3>2 DEF Field
    <3> HIDE DEF set, low
    <3>7. QED
      BY <3>1, <3>3, <3>4, <3>5, <3>6, Zenon
  <2> HIDE DEF set, low
  <2>6. parts = new
    BY <2>4 DEF Field
  <2> HIDE DEF g, parts, new
  <2>7. QED
    BY <2>1, <2>5, <2>6
<1>5. g = Updated(f, new)
  BY <1>3, <1>4
<1>6. \A x \in {"vendor", "device", "class"} : Given(s[x]) => s[x] \in Nat
  <2>1. CASE s.text = "empty"
    BY <1>1, <2>1 DEF Given
  <2>2. CASE s.text # "empty"
    <3>2. Given(s["class"]) => ClassUsed(s)
      BY <1>1 DEF ClassUsed, Given
    <3>3. QED
      BY <1>4, <2>2, <3>2 DEF InRange
  <2>3. QED
    BY <2>1, <2>2
<1>7. DOMAIN new = Identities /\ \A x \in Identities : new[x] \in Int
  BY <1>1 DEF Identities, Fields
<1>8. /\ new["super"] = IF Given(s["class"]) THEN s["class"] \div 256 ELSE f["super"]
      /\ new["sub"] = IF Given(s["class"]) THEN s["class"] % 256 ELSE f["sub"]
      /\ \A x \in {"vendor", "device"} : new[x] = IF Given(s[x]) THEN s[x] ELSE f[x]
  OBVIOUS
<1> HIDE DEF new
<1>9. g = [x \in Fields |-> IF x \in Identities THEN new[x] ELSE f[x]]
  BY <1>5, <1>7 DEF Updated
<1>10. \A x \in Locations : x \in Fields /\ x \notin Identities
  BY DEF Identities, Locations, Fields
<1>11. {"vendor", "device", "super", "sub"} \subseteq Identities /\ Identities \subseteq Fields
  BY DEF Identities, Fields
<1> HIDE DEF g
<1>12. QED
  BY <1>6, <1>7, <1>8, <1>9, <1>10, <1>11 DEF g, s

\* A filter matches a device if the fields that are set are those of the device.
LEMMA MatchIs ==
  ASSUME NEW f \in [Fields -> Int], NEW d
  PROVE  Match(f, d) <=> \A x \in Fields : f[x] >= 0 => f[x] = FieldOf(d, x)
<1> DEFINE six == {"domain", "bus", "slot", "func", "vendor", "device"}
<1>1. Fields = six \cup {"super", "sub"}
  BY DEF Fields, Locations, Identities
<1>2. \A x \in six : FieldOf(d, x) = d[x]
  BY DEF FieldOf
<1>3. FieldOf(d, "super") = d.class \div 256 /\ FieldOf(d, "sub") = d.class % 256
  BY DEF FieldOf
<1>4. Match(f, d) <=>
        /\ \A x \in six : f[x] >= 0 => f[x] = FieldOf(d, x)
        /\ f["super"] >= 0 => f["super"] = FieldOf(d, "super")
        /\ f["sub"] >= 0 => f["sub"] = FieldOf(d, "sub")
  BY <1>2, <1>3, SMTT(30) DEF Match
<1> HIDE DEF six
<1>5. QED
  BY <1>1, <1>4

\* The start, and one more option that is not a file.
LEMMA MergeStarts == NoFilter \in [Fields -> Int] /\ IsMerge(<<>>, NoFilter)
<1>1. \A x \in Fields : NoFilter[x] = ANY
  BY DEF NoFilter, Fields
<1>2. Locations \cup {"vendor", "device", "super", "sub"} \subseteq Fields
  BY DEF Fields, Identities
<1>3. ANY \in Int /\ IsClass(NoFilter, ANY)
  BY <1>1, <1>2 DEF IsClass, ANY
<1>4. QED
  BY <1>1, <1>2, <1>3, LastOfNone DEF IsMerge, NoFilter, Fields

Parsed(f, o) == IF o.opt = "s" THEN ParseSlot(f, o.slot) ELSE ParseId(f, o.id)

LEMMA MergeGrows ==
  ASSUME NEW s \in Seq(Goods), NEW o \in Goods, o.opt # "f",
         NEW f \in [Fields -> Int], IsMerge(s, f), Parsed(f, o).ok
  PROVE  /\ Parsed(f, o).filter \in [Fields -> Int]
         /\ IsMerge(Append(s, o), Parsed(f, o).filter)
<1> DEFINE g == Parsed(f, o).filter
           t == Append(s, o)
<1>1. PICK c \in Int : IsLast(s, "class", c) /\ IsClass(f, c)
  BY DEF IsMerge
<1>2. \A x \in Locations \cup {"vendor", "device"} : IsLast(s, x, f[x])
  BY DEF IsMerge
<1>3. \A x \in {"vendor", "device", "class", "super", "sub"} : x \notin Locations
  BY DEF Locations
<1>4. ASSUME NEW x, NEW v, IsLast(s, x, v), ~GivesBy(o, x) PROVE IsLast(t, x, v)
  BY <1>4, LastOfMore
<1>5. ASSUME NEW x, NEW v, IsLast(s, x, v), GivesBy(o, x), SaidOf(o, x) \in Nat
      PROVE  IsLast(t, x, SaidOf(o, x))
  BY <1>5, LastOfMore
<1> HIDE DEF t
<1>6. CASE o.opt = "s"
  <2>1. o.slot \in [Locations -> Int]
    BY <1>6 DEF Goods, Options, IdOptions, SlotOptions, FileOptions
  <2>2. g = ParseSlot(f, o.slot).filter /\ ParseSlot(f, o.slot).ok
    BY <1>6 DEF Parsed
  <2> HIDE DEF g
  <2>3. /\ g \in [Fields -> Int]
        /\ \A x \in Locations : g[x] = IF Given(o.slot[x]) THEN o.slot[x] ELSE f[x]
        /\ \A x \in Identities : g[x] = f[x]
        /\ \A x \in Locations : Given(o.slot[x]) => o.slot[x] \in Nat
    BY <2>1, <2>2, SlotParsed
  <2>4. \A x : GivesBy(o, x) <=> x \in Locations /\ Given(o.slot[x])
    BY <1>6 DEF GivesBy
  <2>5. \A x \in Locations : SaidOf(o, x) = o.slot[x]
    BY DEF SaidOf
  <2>6. ASSUME NEW x \in Locations PROVE IsLast(t, x, g[x])
    BY <1>2, <1>4, <1>5, <2>3, <2>4, <2>5
  <2>7. ASSUME NEW x \in {"vendor", "device"} PROVE IsLast(t, x, g[x])
    <3>1. x \in Identities
      BY DEF Identities
    <3>2. QED
      BY <1>2, <1>3, <1>4, <2>3, <2>4, <3>1
  <2>8. IsLast(t, "class", c)
    BY <1>1, <1>3, <1>4, <2>4
  <2>9. IsClass(g, c)
    <3>1. "super" \in Identities /\ "sub" \in Identities
      BY DEF Identities
    <3>2. g["super"] = f["super"] /\ g["sub"] = f["sub"]
      BY <2>3, <3>1
    <3>3. QED
      BY <1>1, <3>2, Zenon DEF IsClass
  <2>10. QED
    BY <2>3, <2>6, <2>7, <2>8, <2>9 DEF IsMerge, g, t
<1>7. CASE o.opt = "d"
  <2>1. g = ParseId(f, o.id).filter /\ ParseId(f, o.id).ok
    BY <1>7 DEF Parsed
  <2> DEFINE s1 == o.id
  <2> HIDE DEF g
  <2>2. /\ g \in [Fields -> Int]
        /\ \A x \in Locations : g[x] = f[x]
        /\ \A x \in {"vendor", "device"} :
             g[x] = IF Given(s1[x]) THEN s1[x] ELSE f[x]
        /\ g["super"] = IF Given(s1["class"]) THEN s1["class"] \div 256 ELSE f["super"]
        /\ g["sub"] = IF Given(s1["class"]) THEN s1["class"] % 256 ELSE f["sub"]
        /\ \A x \in {"vendor", "device", "class"} : Given(s1[x]) => s1[x] \in Nat
    BY <1>7, <2>1, IdParsed, Zenon
  <2>3. \A x : GivesBy(o, x) <=> x \notin Locations /\ Given(s1[x])
    BY <1>7, Zenon DEF GivesBy
  <2>4. \A x : x \notin Locations => SaidOf(o, x) = s1[x]
    BY DEF SaidOf
  <2> HIDE DEF s1
  <2>5. ASSUME NEW x \in Locations PROVE IsLast(t, x, g[x])
    BY <1>2, <1>4, <2>2, <2>3
  <2>6. ASSUME NEW x \in {"vendor", "device"} PROVE IsLast(t, x, g[x])
    <3>1. x \notin Locations /\ x \in {"vendor", "device", "class"}
      BY <1>3
    <3>2. CASE Given(s1[x])
      <4>1. s1[x] \in Nat
        BY <2>2, <3>1, <3>2
      <4>2. GivesBy(o, x) /\ SaidOf(o, x) = s1[x]
        BY <2>3, <2>4, <3>1, <3>2
      <4>3. IsLast(t, x, s1[x])
        BY <1>2, <1>5, <4>1, <4>2
      <4>4. QED
        BY <2>2, <3>2, <4>3
    <3>3. CASE ~Given(s1[x])
      <4>1. IsLast(t, x, f[x])
        BY <1>2, <1>4, <2>3, <3>3
      <4>2. QED
        BY <2>2, <3>3, <4>1
    <3>4. QED
      BY <3>2, <3>3
  <2>7. \E v \in Int : IsLast(t, "class", v) /\ IsClass(g, v)
    <3>1. CASE Given(s1["class"])
      <4>1. s1["class"] \in Nat /\ s1["class"] \in Int /\ s1["class"] # ANY
        BY <2>2, <3>1 DEF ANY
      <4>2. GivesBy(o, "class") /\ SaidOf(o, "class") = s1["class"]
        BY <1>3, <2>3, <2>4, <3>1
      <4>3. IsLast(t, "class", s1["class"])
        BY <1>1, <1>5, <4>1, <4>2
      <4>4. IsClass(g, s1["class"])
        BY <2>2, <3>1, <4>1, Zenon DEF IsClass
      <4>5. QED
        BY <4>1, <4>3, <4>4
    <3>2. CASE ~Given(s1["class"])
      <4>1. IsLast(t, "class", c)
        BY <1>1, <1>4, <2>3, <3>2
      <4>2. g["super"] = f["super"] /\ g["sub"] = f["sub"]
        BY <2>2, <3>2
      <4>3. IsClass(g, c)
        BY <1>1, <4>2, Zenon DEF IsClass
      <4>4. QED
        BY <4>1, <4>3
    <3>3. QED
      BY <3>1, <3>2
  <2>8. QED
    BY <2>2, <2>5, <2>6, <2>7 DEF IsMerge, g, t
<1>8. o.opt \in {"s", "d"}
  BY DEF Goods, Options, IdOptions, SlotOptions, FileOptions
<1>9. QED
  BY <1>6, <1>7, <1>8

\* What the one filter means.
LEMMA LastMeans ==
  ASSUME NEW x, NEW v \in Int, NEW w, IsLast(seen, x, v)
  PROVE  LastAgrees(x, w) <=> (v >= 0 => v = w)
<1>1. /\ \A i : Gives(i, x) <=> GivesBy(seen[i], x)
      /\ \A i : (IF x \in Locations THEN seen[i].slot[x] ELSE seen[i].id[x])
                  = SaidOf(seen[i], x)
  BY DEF Gives, GivesBy, SaidOf
<1>2. LastAgrees(x, w) <=>
        \A i \in 1..Len(seen) :
          GivesBy(seen[i], x) /\ (\A j \in 1..Len(seen) : GivesBy(seen[j], x) => j <= i)
            => SaidOf(seen[i], x) = w
  BY <1>1 DEF LastAgrees
<1>3. CASE v = ANY /\ \A i \in 1..Len(seen) : ~GivesBy(seen[i], x)
  BY <1>2, <1>3 DEF ANY
<1>4. ASSUME NEW i \in 1..Len(seen), GivesBy(seen[i], x), v = SaidOf(seen[i], x), v \in Nat,
             \A j \in 1..Len(seen) : GivesBy(seen[j], x) => j <= i
      PROVE  LastAgrees(x, w) <=> (v >= 0 => v = w)
  <2>1. \A k \in 1..Len(seen) :
          GivesBy(seen[k], x) /\ (\A j \in 1..Len(seen) : GivesBy(seen[j], x) => j <= k)
            => k = i
    BY <1>4
  <2>2. QED
    BY <1>2, <1>4, <2>1
<1>5. QED
  BY <1>3, <1>4 DEF IsLast

LEMMA MergeMatches ==
  ASSUME NEW f \in [Fields -> Int], IsMerge(seen, f), NEW d \in Visitors
  PROVE  Match(f, d) <=> AskedByOptions(d)
<1>1. PICK c \in Int : IsLast(seen, "class", c) /\ IsClass(f, c)
  BY DEF IsMerge
<1>2. d["class"] \in Nat
  BY VisitorAssumption
<1>3. LastAgrees("class", d["class"]) <=> (c >= 0 => c = d["class"])
  BY <1>1, LastMeans
<1>4. (c >= 0 => c = d["class"]) <=>
        /\ f["super"] >= 0 => f["super"] = FieldOf(d, "super")
        /\ f["sub"] >= 0 => f["sub"] = FieldOf(d, "sub")
  <2>1. FieldOf(d, "super") = d["class"] \div 256 /\ FieldOf(d, "sub") = d["class"] % 256
    BY DEF FieldOf
  <2>2. CASE c = ANY
    BY <1>1, <2>2 DEF IsClass, ANY
  <2>3. CASE c # ANY
    <3>1. c \in Nat /\ f["super"] = c \div 256 /\ f["sub"] = c % 256
      BY <1>1, <2>3 DEF IsClass
    <3>2. c \div 256 >= 0 /\ c % 256 >= 0
      BY <3>1
    <3>3. c = d["class"] <=> c \div 256 = d["class"] \div 256 /\ c % 256 = d["class"] % 256
      BY <1>2, <3>1, ClassOfFields
    <3>4. QED
      BY <2>1, <3>1, <3>2, <3>3
  <2>4. QED
    BY <2>2, <2>3
<1>5. ASSUME NEW x \in Locations \cup {"vendor", "device"}
      PROVE  LastAgrees(x, d[x]) <=> (f[x] >= 0 => f[x] = FieldOf(d, x))
  <2>1. f[x] \in Int /\ IsLast(seen, x, f[x])
    BY DEF IsMerge, Fields, Identities
  <2>2. FieldOf(d, x) = d[x]
    BY DEF FieldOf, Locations
  <2>3. QED
    BY <2>1, <2>2, LastMeans
<1>6. Fields = (Locations \cup {"vendor", "device"}) \cup {"super", "sub"}
  BY DEF Fields, Identities
<1>7. AskedByOptions(d) <=>
        /\ \A x \in Locations \cup {"vendor", "device"} : LastAgrees(x, d[x])
        /\ LastAgrees("class", d["class"])
  BY DEF AskedByOptions
<1>8. QED
  BY <1>3, <1>4, <1>5, <1>6, <1>7, MatchIs

\* What a filter of a file means.
FileFilter(e) == [x \in FileFields |-> ElementField(e, x)]

LEMMA ElementMatches ==
  ASSUME NEW e \in Elements, PlainElement(e), GoodElement(e), NEW d
  PROVE  Match(FileFilter(e), d) <=> FileMeans(e, d)
<1>1. Len(e) \in Nat /\ Len(e) <= FieldsRead /\ FieldsRead \in Nat
  BY DEF Elements, PlainElement, FieldsRead
<1>2. \A j \in 1..Len(e) :
        e[j].name \in FileFields /\ e[j].value \in Int /\ e[j].value >= 0
  <2> SUFFICES ASSUME NEW j \in 1..Len(e)
               PROVE  e[j].name \in FileFields /\ e[j].value \in Int /\ e[j].value >= 0
    OBVIOUS
  <2>1. e[j].name \in FileFields
    BY DEF PlainElement
  <2>2. e[j] \in FileField
    BY DEF Elements
  <2>3. e[j].value \in 0..FileMax[e[j].name]
    BY <1>1, <2>1 DEF GoodElement
  <2>6. e[j].value \in Int
    BY <2>2 DEF FileField
  <2>4. FileMax[e[j].name] \in Int
    BY <2>1 DEF FileMax, FileFields, Identities, Locations, MaxId
  <2>5. QED
    BY <2>1, <2>6, <2>3, <2>4
<1>3. ASSUME NEW j \in 1..Len(e) PROVE ElementField(e, e[j].name) = e[j].value
  <2>1. \A k \in 1..Len(e) : e[k].name = e[j].name <=> k = j
    BY DEF PlainElement
  <2>2. {k \in 1..Len(e) : k <= FieldsRead /\ e[k].name = e[j].name} = {j}
    BY <1>1, <2>1
  <2>3. (CHOOSE k \in {j} : \A m \in {j} : m <= k) = j
    OBVIOUS
  <2>4. QED
    BY <2>2, <2>3 DEF ElementField
<1>4. ASSUME NEW x, \A j \in 1..Len(e) : e[j].name # x PROVE ElementField(e, x) = ANY
  <2>1. {k \in 1..Len(e) : k <= FieldsRead /\ e[k].name = x} = {}
    BY <1>4
  <2>2. QED
    BY <2>1 DEF ElementField
<1>5. \A x \in FileFields : FileFilter(e)[x] = ElementField(e, x)
  BY DEF FileFilter
<1>6. Fields = FileFields
  BY DEF Fields, FileFields
<1>7. \A x \in FileFields : ElementField(e, x) \in Int
  <2> SUFFICES ASSUME NEW x \in FileFields PROVE ElementField(e, x) \in Int
    OBVIOUS
  <2>1. CASE \A j \in 1..Len(e) : e[j].name # x
    BY <1>4, <2>1 DEF ANY
  <2>2. ASSUME NEW j \in 1..Len(e), e[j].name = x PROVE ElementField(e, x) \in Int
    BY <1>2, <1>3, <2>2
  <2>3. QED
    BY <2>1, <2>2
<1>8. FileFilter(e) \in [Fields -> Int]
  BY <1>6, <1>7 DEF FileFilter
<1>9. Match(FileFilter(e), d) <=>
        \A x \in FileFields : ElementField(e, x) >= 0 => ElementField(e, x) = FieldOf(d, x)
  BY <1>5, <1>6, <1>8, MatchIs
<1>10. ASSUME FileMeans(e, d), NEW x \in FileFields, ElementField(e, x) >= 0
       PROVE  ElementField(e, x) = FieldOf(d, x)
  <2>1. PICK j \in 1..Len(e) : e[j].name = x
    BY <1>4, <1>10 DEF ANY
  <2>2. QED
    BY <1>3, <1>10, <2>1 DEF FileMeans
<1>11. ASSUME \A x \in FileFields :
                ElementField(e, x) >= 0 => ElementField(e, x) = FieldOf(d, x),
              NEW j \in 1..Len(e)
       PROVE  FieldOf(d, e[j].name) = e[j].value
  <2>1. ElementField(e, e[j].name) = e[j].value
    BY <1>3
  <2>2. QED
    BY <1>2, <1>11, <2>1
<1>12. QED
  BY <1>9, <1>10, <1>11 DEF FileMeans

LEMMA FileMatches ==
  ASSUME NEW file \in Seq(Elements), filters = FileArray(file),
         \A i \in 1..Len(file) : PlainElement(file[i]) /\ GoodElement(file[i]), NEW d
  PROVE  ArrayMatches(d) <=>
           file = <<>> \/ \E i \in 1..Len(file) : FileMeans(file[i], d)
<1>1. filters = [i \in 1..Len(file) |-> FileFilter(file[i])]
  BY DEF FileArray, FileFilter
<1>2. Len(file) \in Nat /\ \A i \in 1..Len(file) : file[i] \in Elements
  OBVIOUS
<1>3. DOMAIN filters = 1..Len(file) /\ Len(filters) = Len(file)
  BY <1>1, <1>2
<1>4. \A i \in 1..Len(file) : Match(filters[i], d) <=> FileMeans(file[i], d)
  BY <1>1, <1>2, ElementMatches
<1>5. filters = <<>> <=> file = <<>>
  BY <1>1, <1>2, <1>3
<1>6. QED
  BY <1>3, <1>4, <1>5 DEF ArrayMatches

----------------------------------------------------------------------------
\* The steps.
LEMMA FileAmongMore ==
  ASSUME NEW s \in Seq(Goods), NEW o
  PROVE  /\ HasFile(Append(s, o)) <=> HasFile(s) \/ o.opt = "f"
         /\ Append(s, o) # <<>> /\ Append(s, o)[Len(Append(s, o))] = o
<1> DEFINE t == Append(s, o)
<1>1. /\ Len(s) \in Nat /\ Len(t) = Len(s) + 1 /\ t[Len(s) + 1] = o
      /\ \A i \in 1..Len(s) : t[i] = s[i] /\ i \in 1..Len(t)
      /\ \A i \in 1..Len(t) : i = Len(s) + 1 \/ i \in 1..Len(s)
      /\ Len(s) + 1 \in 1..Len(t)
  OBVIOUS
<1>2. t # <<>>
  BY <1>1
<1> HIDE DEF t
<1>3. HasFile(t) <=> HasFile(s) \/ o.opt = "f"
  BY <1>1 DEF HasFile
<1>4. QED
  BY <1>1, <1>2, <1>3 DEF t

LEMMA GoodLines ==
  ASSUME PlainOptions, NEW line \in CommandLines PROVE line \in Seq(Goods)
<1>1. line \in Seq(Options)
  BY OptionAssumption
<1>2. \A i \in 1..Len(line) : line[i] \in Options /\ PlainOption(line[i])
  BY <1>1 DEF PlainOptions
<1>3. \A i \in 1..Len(line) : line[i] \in Goods
  BY <1>2 DEF Goods
<1>4. QED
  BY <1>1, <1>3

LEMMA OptionMerges ==
  ASSUME seen \in Seq(Goods), NEW o \in Goods, o.opt # "f", Merged,
         CommandLineOption(o), seen' = Append(seen, o)
  PROVE  filtering' = "died" \/ (filtering' = "parsing" /\ Merged')
<1> DEFINE t == Target(Len(filters))
           bytes == IF ~t.new THEN room
                    ELSE IF filters = <<>> THEN SizeOfFilter ELSE Len(filters) + 1
           old == IF t.new THEN Append(filters, NoFilter) ELSE filters
           inside == t.at * SizeOfFilter <= bytes
           parsed == Parsed(old[t.at], o)
<1>1. /\ cmdLine' = t.at
      /\ room' = bytes
      /\ filtering' = IF ~inside THEN "undefined"
                      ELSE IF parsed.ok THEN "parsing" ELSE "died"
      /\ filters' = IF inside /\ parsed.ok THEN [old EXCEPT ![t.at] = parsed.filter]
                    ELSE filters
  BY Zenon DEF CommandLineOption, Parsed
<1>2. /\ t.at = 1 /\ bytes = SizeOfFilter
      /\ Len(old) = 1 /\ DOMAIN old = 1..1
      /\ old[1] \in [Fields -> Int] /\ IsMerge(seen, old[1])
  <2>1. CASE seen = <<>>
    <3>1. filters = <<>> /\ cmdLine = 0
      BY <2>1 DEF Merged
    <3>2. t = [at |-> 1, new |-> TRUE]
      BY <3>1 DEF Target
    <3>3. old = <<NoFilter>>
      BY <3>1, <3>2
    <3>4. bytes = SizeOfFilter
      BY <3>1, <3>2
    <3>5. QED
      BY <2>1, <3>2, <3>3, <3>4, MergeStarts
  <2>2. CASE seen # <<>>
    <3>1. /\ Len(filters) = 1 /\ cmdLine = 1 /\ room = SizeOfFilter
          /\ filters[1] \in [Fields -> Int] /\ IsMerge(seen, filters[1])
          /\ DOMAIN filters = 1..1
      BY <2>2 DEF Merged
    <3>2. t = [at |-> 1, new |-> FALSE]
      BY <3>1 DEF Target
    <3>3. old = filters /\ bytes = room
      BY <3>2
    <3>4. QED
      BY <3>1, <3>2, <3>3
  <2>3. QED
    BY <2>1, <2>2
<1>3. inside
  BY <1>2 DEF SizeOfFilter
<1>4. ASSUME parsed.ok PROVE filtering' = "parsing" /\ Merged'
  <2>1. /\ cmdLine' = 1 /\ room' = SizeOfFilter /\ filtering' = "parsing"
        /\ filters' = [old EXCEPT ![1] = parsed.filter]
    BY <1>1, <1>2, <1>3, <1>4
  <2>2. /\ parsed.filter \in [Fields -> Int]
        /\ IsMerge(seen', parsed.filter)
    BY <1>2, <1>4, MergeGrows
  <2> HIDE DEF t, bytes, inside, parsed
  <2>3. Len(filters') = 1 /\ filters'[1] = parsed.filter
    BY <1>2, <2>1
  <2>4. seen' # <<>>
    BY FileAmongMore
  <2>5. QED
    BY <2>1, <2>2, <2>3, <2>4 DEF Merged
<1>5. QED
  BY <1>1, <1>3, <1>4

LEMMA FiltersStart == ASSUME FilterInit PROVE FiltersInv
BY DEF FilterInit, FiltersInv, HasFile, Merged, OverrunNeedsFile

LEMMA FiltersStep ==
  ASSUME PlainOptions, FiltersInv, [FilterNext]_filterVars
  PROVE  FiltersInv'
<1>1. CASE StartFilters
  <2>1. options' \in Seq(Goods)
    BY <1>1, GoodLines DEF StartFilters
  <2>2. seen = <<>> /\ seen' = <<>>
    BY <1>1 DEF StartFilters, FiltersInv
  <2>3. filters' = <<>> /\ cmdLine' = 0 /\ filtering' = "parsing"
    BY <1>1 DEF StartFilters, FiltersInv
  <2>4. ~HasFile(seen') /\ Merged' /\ OverrunNeedsFile'
    BY <2>2, <2>3 DEF HasFile, Merged, OverrunNeedsFile
  <2>5. QED
    BY <2>1, <2>2, <2>3, <2>4 DEF FiltersInv
<1>2. CASE ParseFilterOption
  <2> DEFINE o == Head(options)
  <2>1. /\ filtering = "parsing" /\ seen \in Seq(Goods) /\ options \in Seq(Goods)
        /\ options # <<>> /\ options' = Tail(options) /\ seen' = Append(seen, o)
    BY <1>2 DEF ParseFilterOption, FiltersInv
  <2>2. o \in Goods /\ options' \in Seq(Goods)
    BY <2>1
  <2>3. IF o.opt = "f" THEN FileOption(o) ELSE CommandLineOption(o)
    BY <1>2 DEF ParseFilterOption
  <2> HIDE DEF o
  <2>4. seen' \in Seq(Goods)
    BY <2>1, <2>2
  <2>5. /\ HasFile(seen') <=> HasFile(seen) \/ o.opt = "f"
        /\ seen' # <<>> /\ seen'[Len(seen')] = o
    BY <2>1, FileAmongMore
  <2>6. ASSUME o.opt = "f"
        PROVE  /\ filtering' \in {"parsing", "died"}
               /\ filtering' = "parsing" =>
                    /\ filters' = FileArray(o.file)
                    /\ \A i \in 1..Len(o.file) : GoodElement(o.file[i])
    <3>1. FileOption(o)
      BY <2>3, <2>6
    <3>2. CASE \A i \in 1..Len(o.file) : GoodElement(o.file[i])
      <4>1. filtering' = "parsing" /\ filters' = FileArray(o.file)
        BY <3>1, <3>2 DEF FileOption
      <4>2. QED
        BY <3>2, <4>1
    <3>3. CASE ~ \A i \in 1..Len(o.file) : GoodElement(o.file[i])
      BY <3>1, <3>3 DEF FileOption
    <3>4. QED
      BY <3>2, <3>3
  <2>7. ASSUME o.opt # "f"
        PROVE  /\ filtering' \in {"parsing", "died", "undefined"}
               /\ ~HasFile(seen) => filtering' # "undefined"
               /\ ~HasFile(seen) /\ filtering' = "parsing" => Merged'
    <3>1. CommandLineOption(o)
      BY <2>3, <2>7
    <3>2. filtering' \in {"parsing", "died", "undefined"}
      BY <3>1, Zenon DEF CommandLineOption
    <3>3. ASSUME ~HasFile(seen) 
             PROVE filtering' = "died" \/ (filtering' = "parsing" /\ Merged')
      <4>1. Merged
        BY <2>1, <3>3 DEF FiltersInv
      <4>2. QED
        BY <2>1, <2>2, <2>7, <3>1, <4>1, OptionMerges
    <3>4. QED
      BY <3>2, <3>3
  <2>8. OverrunNeedsFile'
    <3> SUFFICES ASSUME filtering' = "undefined"
                 PROVE  \E i, j \in 1..Len(seen') :
                          i < j /\ seen'[i].opt = "f" /\ seen'[j].opt # "f"
      BY DEF OverrunNeedsFile
    <3>1. o.opt # "f" /\ HasFile(seen)
      BY <2>6, <2>7
    <3>2. PICK i \in 1..Len(seen) : seen[i].opt = "f"
      BY <3>1 DEF HasFile
    <3>3. /\ i \in 1..Len(seen') /\ seen'[i] = seen[i] /\ i < Len(seen')
          /\ Len(seen') \in 1..Len(seen')
      BY <2>1
    <3>4. QED
      BY <2>5, <3>1, <3>2, <3>3
  <2>9. filtering' # "idle"
    BY <2>6, <2>7
  <2>10. filtering' = "parsing" /\ ~HasFile(seen') => Merged'
    BY <2>5, <2>7
  <2>11. filtering' = "parsing" /\ HasFile(seen') /\ seen'[Len(seen')].opt = "f"
           => /\ filters' = FileArray(seen'[Len(seen')].file)
              /\ \A i \in 1..Len(seen'[Len(seen')].file) :
                   GoodElement(seen'[Len(seen')].file[i])
    BY <2>5, <2>6
  <2>12. filtering' # "ready"
    BY <2>6, <2>7
  <2>13. QED
    BY <2>2, <2>4, <2>8, <2>9, <2>10, <2>11, <2>12
    DEF FiltersInv, IsFileArray
<1>3. CASE FiltersReady
  <2>1. /\ filtering = "parsing" /\ filtering' = "ready"
        /\ options' = options /\ seen' = seen /\ filters' = filters
        /\ cmdLine' = cmdLine /\ room' = room
    BY <1>3 DEF FiltersReady
  <2>2. Merged' <=> Merged
    BY <2>1 DEF Merged
  <2>3. \A file : IsFileArray(file)' <=> IsFileArray(file)
    BY <2>1 DEF IsFileArray
  <2>4. OverrunNeedsFile'
    BY <2>1 DEF OverrunNeedsFile
  <2>5. QED
    BY <2>1, <2>2, <2>3, <2>4 DEF FiltersInv
<1>4. CASE UNCHANGED filterVars
  <2>1. /\ filtering' = filtering
        /\ options' = options /\ seen' = seen /\ filters' = filters
        /\ cmdLine' = cmdLine /\ room' = room
    BY <1>4 DEF filterVars
  <2>2. Merged' <=> Merged
    BY <2>1 DEF Merged
  <2>3. \A file : IsFileArray(file)' <=> IsFileArray(file)
    BY <2>1 DEF IsFileArray
  <2>4. OverrunNeedsFile' <=> OverrunNeedsFile
    BY <2>1 DEF OverrunNeedsFile
  <2>5. QED
    BY <2>1, <2>2, <2>3, <2>4 DEF FiltersInv
<1>5. QED
  BY <1>1, <1>2, <1>3, <1>4 DEF FilterNext

LEMMA FiltersInvRight == ASSUME FiltersInv PROVE FiltersRight
<1>1. OverrunNeedsFile
  BY DEF FiltersInv
<1>2. ASSUME filtering = "ready", HasFile(seen), seen[Len(seen)].opt = "f", NEW d
      PROVE  ArrayMatches(d) <=>
               \/ seen[Len(seen)].file = <<>>
               \/ \E i \in 1..Len(seen[Len(seen)].file) :
                    FileMeans(seen[Len(seen)].file[i], d)
  <2> DEFINE o == seen[Len(seen)]
  <2>1. seen \in Seq(Goods) /\ IsFileArray(o.file)
    BY <1>2 DEF FiltersInv
  <2>2. PICK i \in 1..Len(seen) : seen[i].opt = "f"
    BY <1>2 DEF HasFile
  <2>3. o \in Goods
    BY <2>1, <2>2
  <2>4. o.opt = "f"
    BY <1>2
  <2> HIDE DEF o
  <2>5. o.file \in Seq(Elements) /\ \A j \in 1..Len(o.file) : PlainElement(o.file[j])
    BY <2>3, <2>4
    DEF Goods, Options, IdOptions, SlotOptions, FileOptions, PlainOption
  <2>6. filters = FileArray(o.file) /\ \A j \in 1..Len(o.file) : GoodElement(o.file[j])
    BY <2>1 DEF IsFileArray
  <2>7. QED
    BY <2>5, <2>6, FileMatches DEF o
<1>3. ASSUME filtering = "ready", ~HasFile(seen), NEW d \in Visitors
      PROVE  ArrayMatches(d) <=> AskedByOptions(d)
  <2>1. Merged
    BY <1>3 DEF FiltersInv
  <2>2. CASE seen = <<>>
    BY <2>1, <2>2 DEF Merged, ArrayMatches, AskedByOptions, LastAgrees
  <2>3. CASE seen # <<>>
    <3>1. Len(filters) = 1 /\ filters[1] \in [Fields -> Int] /\ IsMerge(seen, filters[1])
      BY <2>1, <2>3 DEF Merged
    <3>2. Match(filters[1], d) <=> AskedByOptions(d)
      BY <3>1, MergeMatches
    <3>3. filters # <<>> /\ \A i \in 1..Len(filters) : i = 1
      BY <3>1
    <3>4. 1 \in 1..Len(filters)
      BY <3>1
    <3>5. QED
      BY <3>2, <3>3, <3>4 DEF ArrayMatches
  <2>4. QED
    BY <2>2, <2>3
<1>4. ArraySelects
  BY <1>2, <1>3 DEF ArraySelects, HasFile
<1>5. QED
  BY <1>1, <1>4 DEF FiltersRight

\* lib/filter_array.c selects what the options -s and -d together ask for, or
\* what the file that comes last describes, and writes behind its block only
\* when one of -s and -d comes after a file.
THEOREM FiltersAreRight == ASSUME PlainOptions PROVE FilterSpec => []FiltersRight
<1>1. FilterInit => FiltersInv
  BY FiltersStart
<1>2. FiltersInv /\ [FilterNext]_filterVars => FiltersInv'
  BY FiltersStep
<1>3. FiltersInv => FiltersRight
  BY FiltersInvRight
<1>4. QED
  BY <1>1, <1>2, <1>3, PTL DEF FilterSpec

----------------------------------------------------------------------------
(***************************************************************************)
(* VersionFiles, for any directories, files and patterns.  The search only *)
(* tries the first entry that matches a level; the invariant says of each  *)
(* alternative what that is enough for.                                    *)
(***************************************************************************)
VersionSpec == VersionInit /\ [][VersionNext]_versionVars

DirEntries == [name : STRING \ {"/"}, kind : {"file", "dir", "link"}]
Levels == {"host*", "scsi_host", "net", "e*", "ib*", "driver", "module", "nvme",
           "nvme*"}
EntryAt(dir, name, pattern) ==
  \E j \in 1..Len(tree[dir]) : /\ tree[dir][j].name = name
                               /\ tree[dir][j].kind # "file"
                               /\ Fits(name, pattern)

\* A level of alternative a matches two entries of a directory.
Ambiguous(a) ==
  \E q \in DOMAIN tree, n \in 1..Len(Dirs[a]) :
    Cardinality({e \in ToSet(tree[q]) :
                   e.kind # "file" /\ Fits(e.name, Dirs[a][n])}) > 1

\* Alternative a describes no directory, or the search cannot be trusted.
GivenUp(a) == Described(Dirs[a]) # {} => Ambiguous(a)

\* The first levels of an alternative have led to cwd, where all the directories
\* lie that it describes.
WalkedTo(d) ==
  /\ cwd \in Seq(STRING \ {"/"}) /\ Len(cwd) <= Len(d)
  /\ \A n \in 1..Len(cwd) : /\ SubSeq(cwd, 1, n - 1) \in DOMAIN tree
                            /\ EntryAt(SubSeq(cwd, 1, n - 1), cwd[n], d[n])
Remaining(d) ==
  /\ left \in Seq(Levels) /\ Len(left) = Len(d) - Len(cwd)
  /\ \A n \in 1..Len(left) : left[n] = d[n + Len(cwd)]
OnlyWay(a) ==
  ~Ambiguous(a) =>
    \A p \in Described(Dirs[a]) : \A n \in 1..Len(cwd) : p[n] = cwd[n]

Searched == Reader(asks.class, asks.info) # "none"
Asks ==
  [class : {1, 2, 3, 12}, info : {"driver", "firmware", "option"},
   layout : {"table", "json"}]

DirectoryInv ==
  /\ vf # "idle" => asks \in Asks
  /\ vf \in {"idle", "search", "read", "print", "done", "crashed"}
  /\ IF vf = "idle" THEN trying = 0 ELSE tree \in Trees
  /\ vf # "idle" /\ Searched =>
       /\ trying \in 1..Len(Dirs)
       /\ \A a \in 1..trying - 1 : GivenUp(a)
       /\ vf = "search" =>
            IF cwd = NoPath THEN GivenUp(trying)
            ELSE WalkedTo(Dirs[trying]) /\ Remaining(Dirs[trying]) /\ OnlyWay(trying)
       /\ vf # "search" /\ cwd # NoPath => cwd \in Described(Dirs[trying])
  /\ vf # "idle" /\ ~Searched => trying = 0 /\ vf # "search"

\* The items up to count have versions, the next one has none.
Read(k) == items[k].data = VersionIn(items[k].name) /\ items[k].data # NoData
Unread(k) == items[k].data = NoData

ItemsInv ==
  /\ vf # "idle" => asks \in Asks
  /\ vf \in {"idle", "search"} => items = <<>> /\ count = 0 /\ printed = <<>>
  /\ vf \in {"read", "print"} => printed = <<>>
  /\ Len(items) \in Nat /\ count \in 0..Len(items)
  /\ items = [k \in 1..Len(items) |-> [name |-> items[k].name, data |-> items[k].data]]
  /\ vf \in {"read", "print", "done", "crashed"} =>
       /\ Reader(asks.class, asks.info) = "none" => items = <<>> /\ vf # "read"
       /\ Reader(asks.class, asks.info) = "ethtool" =>
            /\ vf # "read" /\ count = Len(items) /\ count \in 0..1
            /\ count = 1 => ~Unread(1)
       /\ Reader(asks.class, asks.info) = "files" =>
            /\ \A k \in 1..count : Read(k)
            /\ \A k \in count + 1..Len(items) : Unread(k)
            /\ vf = "read" => reading = count + 1 /\ reading <= Len(items)
            /\ vf # "read" /\ count < Len(items) =>
                 VersionIn(items[count + 1].name) = NoData
  /\ vf = "done" /\ printed # <<>> =>
       /\ count > 0
       /\ printed = IF asks.layout = "json" THEN items ELSE TablePart
       /\ asks.layout = "json" => \A k \in 1..Len(items) : ~Unread(k)
  /\ vf = "crashed" => 0 < count /\ \E k \in 1..Len(items) : Unread(k)

----------------------------------------------------------------------------
LEMMA ReaderIs ==
  ASSUME NEW class, NEW info
  PROVE  /\ Reader(class, info) \in {"none", "files", "ethtool"}
         /\ class \in {1, 12} => Reader(class, info) = "files"
<1>1. CASE class \in {1, 12}
  <2>1. ~(class = 2 /\ info # "option")
    BY <1>1
  <2>3. Reader(class, info) = "files"
    BY <1>1, <2>1, Zenon DEF Reader
  <2>2. QED
    BY <2>3
<1>2. CASE class \notin {1, 12}
  <2>1. CASE class = 2 /\ info # "option"
    <3>1. Reader(class, info) = "ethtool"
      BY <1>2, <2>1, Zenon DEF Reader
    <3>2. QED
      BY <1>2, <3>1
  <2>2. CASE ~(class = 2 /\ info # "option")
    <3>1. Reader(class, info) = "none"
      BY <1>2, <2>2, Zenon DEF Reader
    <3>2. QED
      BY <1>2, <3>1
  <2>3. QED
    BY <2>1, <2>2
<1>3. QED
  BY <1>1, <1>2

LEMMA ShortTuples ==
  ASSUME NEW S, NEW x \in S, NEW y \in S, NEW z \in S
  PROVE  /\ <<x, y>> \in Seq(S) /\ Len(<<x, y>>) = 2
         /\ <<x, y, z>> \in Seq(S) /\ Len(<<x, y, z>>) = 3
OBVIOUS

LEMMA AlternativesTyped ==
  ASSUME NEW dirs \in {DriverDirs, FirmwareDirs}
  PROVE  /\ dirs \in Seq(Seq(Levels)) /\ Len(dirs) \in Nat /\ Len(dirs) >= 1
         /\ \A a \in 1..Len(dirs) : Len(dirs[a]) >= 1
<1>1. PICK a : a = <<"host*", "scsi_host", "host*">>
  OBVIOUS
<1>2. PICK b : b = <<"net", "e*">>
  OBVIOUS
<1>3. PICK c : c = <<"net", "ib*">>
  OBVIOUS
<1>4. PICK d : d = <<"driver", "module">>
  OBVIOUS
<1>5. PICK e : e = <<"nvme", "nvme*">>
  OBVIOUS
<1>6. a \in Seq(Levels) /\ Len(a) >= 1
  <2>1. "host*" \in Levels /\ "scsi_host" \in Levels
    BY DEF Levels
  <2>2. QED
    BY <2>1, <1>1, ShortTuples
<1>7. /\ b \in Seq(Levels) /\ Len(b) >= 1 /\ c \in Seq(Levels) /\ Len(c) >= 1
      /\ d \in Seq(Levels) /\ Len(d) >= 1 /\ e \in Seq(Levels) /\ Len(e) >= 1
  <2>1. /\ "net" \in Levels /\ "e*" \in Levels /\ "ib*" \in Levels
        /\ "driver" \in Levels /\ "module" \in Levels
        /\ "nvme" \in Levels /\ "nvme*" \in Levels
    BY DEF Levels
  <2>2. b \in Seq(Levels) /\ Len(b) >= 1 /\ c \in Seq(Levels) /\ Len(c) >= 1
    BY <2>1, <1>2, <1>3, ShortTuples
  <2>3. d \in Seq(Levels) /\ Len(d) >= 1 /\ e \in Seq(Levels) /\ Len(e) >= 1
    BY <2>1, <1>4, <1>5, ShortTuples
  <2>4. QED
    BY <2>2, <2>3
<1>8. DriverDirs = <<a, b, c, d>> /\ FirmwareDirs = <<a, e>>
  BY <1>1, <1>2, <1>3, <1>4, <1>5, Zenon DEF DriverDirs, FirmwareDirs
<1>9. CASE dirs = <<a, b, c, d>>
  BY <1>6, <1>7, <1>9
<1>10. CASE dirs = <<a, e>>
  BY <1>6, <1>7, <1>10
<1>11. QED
  BY <1>8, <1>9, <1>10

LEMMA DirsTyped ==
  /\ Dirs \in Seq(Seq(Levels)) /\ Len(Dirs) \in Nat /\ Len(Dirs) >= 1
  /\ \A a \in 1..Len(Dirs) : Len(Dirs[a]) >= 1
<1>1. Dirs \in {DriverDirs, FirmwareDirs}
  BY DEF Dirs, Alternatives
<1>2. QED
  BY <1>1, AlternativesTyped

LEMMA DirsTypedNext ==
  /\ Dirs' \in Seq(Seq(Levels)) /\ Len(Dirs') \in Nat /\ Len(Dirs') >= 1
  /\ \A a \in 1..Len(Dirs') : Len((Dirs')[a]) >= 1
<1>1. Dirs' \in {DriverDirs, FirmwareDirs}
  BY DEF Dirs, Alternatives
<1>2. QED
  BY <1>1, AlternativesTyped

LEMMA LeastExists ==
  ASSUME NEW S \in SUBSET Nat, S # {}
  PROVE  \E i \in S : \A j \in S : i <= j
<1> DEFINE L == OpToRel(<, Nat)
<1>1. \A x, y \in Nat : <<x, y>> \in L <=> x < y
  BY DEF OpToRel
<1>2. IsWellFoundedOn(L, Nat)
  BY NatLessThanWellFounded
<1> HIDE DEF L
<1>3. PICK i \in S : \A j \in S : ~(<<j, i>> \in L)
  BY <1>2, WFMin
<1>4. \A j \in S : ~(j < i)
  BY <1>1, <1>3
<1>5. QED
  BY <1>4

LEMMA TreeTyped ==
  ASSUME tree \in Trees, NEW q \in DOMAIN tree
  PROVE  tree[q] \in Seq(DirEntries) /\ q \in Seq(STRING \ {"/"})
BY VersionAssumption DEF DirEntries

\* Two elements are one if there are not more than one.
LEMMA FewElements ==
  ASSUME NEW S, IsFiniteSet(S), ~(Cardinality(S) > 1), NEW x \in S, NEW y \in S
  PROVE  x = y
<1>1. Cardinality(S) \in Nat /\ Cardinality(S) # 0
  BY FS_CardinalityType, FS_EmptySet
<1>2. Cardinality(S) = 1
  BY <1>1
<1>3. PICK z : S = {z}
  BY <1>2, FS_Singleton, Zenon
<1>4. QED
  BY <1>3

\* The first levels of a described directory are directories.
LEMMA DescribedLevel ==
  ASSUME NEW d, NEW p \in Described(d), NEW n \in 1..Len(d)
  PROVE  /\ Len(p) = Len(d)
         /\ SubSeq(p, 1, n - 1) \in DOMAIN tree
         /\ EntryAt(SubSeq(p, 1, n - 1), p[n], d[n])
BY DEF Described, EntryAt

LEMMA DescribedTyped ==
  ASSUME tree \in Trees, NEW d, NEW p \in Described(d)
  PROVE  p \in Seq(STRING \ {"/"})
<1>1. PICK q \in DOMAIN tree : \E e \in ToSet(tree[q]) : p = Append(q, e.name)
  BY DEF Described, Paths
<1>5. PICK e \in ToSet(tree[q]) : p = Append(q, e.name)
  BY <1>1
<1>2. e \in DirEntries
  BY <1>5, TreeTyped DEF ToSet
<1>3. e.name \in STRING \ {"/"}
  BY <1>2 DEF DirEntries
<1>4. q \in Seq(STRING \ {"/"})
  BY TreeTyped
<1>6. QED
  BY <1>3, <1>4, <1>5, AppendProperties

LEMMA WalkedIsDescribed ==
  ASSUME tree \in Trees, NEW d \in Seq(Levels), Len(d) >= 1,
         WalkedTo(d), Len(cwd) = Len(d)
  PROVE  cwd \in Described(d)
<1> DEFINE m == Len(d)
           q == SubSeq(cwd, 1, m - 1)
<1>1. m \in Nat \ {0} /\ cwd \in Seq(STRING \ {"/"}) /\ Len(cwd) = m
  BY DEF WalkedTo
<1>2. q \in DOMAIN tree /\ EntryAt(q, cwd[m], d[m])
  BY <1>1 DEF WalkedTo
<1>3. PICK j \in 1..Len(tree[q]) : tree[q][j].name = cwd[m]
  BY <1>2 DEF EntryAt
<1>4. tree[q] \in Seq(DirEntries)
  BY <1>2, TreeTyped
<1>5. tree[q][j] \in ToSet(tree[q])
  BY <1>3, <1>4 DEF ToSet
<1>6. cwd = Append(q, tree[q][j].name)
  <2>1. cwd[m] \in STRING \ {"/"}
    BY <1>1
  <2>2. q \in Seq(STRING \ {"/"}) /\ Len(q) = m - 1
        /\ \A n \in 1..m - 1 : q[n] = cwd[n]
    BY <1>1, SubSeqProperties
  <2>3. Append(q, cwd[m]) \in Seq(STRING \ {"/"}) /\ Len(Append(q, cwd[m])) = m
        /\ \A n \in 1..m : Append(q, cwd[m])[n] = cwd[n]
    BY <1>1, <2>1, <2>2, AppendProperties
  <2>4. cwd = Append(q, cwd[m])
    BY <1>1, <2>3, SeqEqual
  <2>5. QED
    BY <2>4, <1>3
<1>7. cwd \in {Append(q, e.name) : e \in ToSet(tree[q])}
  BY <1>5, <1>6
<1>9. cwd \in Paths
  BY <1>2, <1>7 DEF Paths
<1>10. ASSUME NEW n \in 1..Len(cwd)
       PROVE  LET r == SubSeq(cwd, 1, n - 1)
              IN /\ r \in DOMAIN tree
                 /\ \E i \in 1..Len(tree[r]) :
                      /\ tree[r][i].name = cwd[n] /\ tree[r][i].kind # "file"
                      /\ Fits(cwd[n], d[n])
  BY DEF WalkedTo, EntryAt
<1>11. QED
  BY <1>1, <1>9, <1>10, Zenon DEF Described

\* What alternatives describe does not change.
LEMMA SearchStays ==
  ASSUME asks' = asks, tree' = tree
  PROVE  /\ Dirs' = Dirs /\ (Searched' <=> Searched)
         /\ \A a : GivenUp(a)' <=> GivenUp(a)
         /\ \A a : Ambiguous(a)' <=> Ambiguous(a)
         /\ \A d : Described(d)' = Described(d)
<1>1. Dirs' = Dirs /\ (Searched' <=> Searched)
  BY DEF Dirs, Searched
<1>2. \A a : Ambiguous(a)' <=> Ambiguous(a)
  BY <1>1 DEF Ambiguous
<1>3. \A d : Described(d)' = Described(d)
  BY DEF Described, Paths
<1>4. \A a : GivenUp(a)' <=> GivenUp(a)
  BY <1>1, <1>2, <1>3 DEF GivenUp
<1>5. QED
  BY <1>1, <1>2, <1>3, <1>4

\* At the next level of a directory that an unambiguous alternative describes,
\* there is an entry of cwd that matches, and its name is that of any other.
LEMMA NextLevel ==
  ASSUME tree \in Trees, NEW a \in 1..Len(Dirs), WalkedTo(Dirs[a]),
         OnlyWay(a), ~Ambiguous(a), Len(cwd) < Len(Dirs[a]),
         NEW p \in Described(Dirs[a])
  PROVE  /\ cwd \in DOMAIN tree
         /\ Matching(cwd, Dirs[a][Len(cwd) + 1]) # {}
         /\ \A i \in Matching(cwd, Dirs[a][Len(cwd) + 1]) :
              tree[cwd][i].name = p[Len(cwd) + 1]
<1> DEFINE d == Dirs[a]
           m == Len(cwd)
           e(j) == tree[cwd][j]
<1>1. d \in Seq(Levels) /\ Len(d) \in Nat /\ m \in Nat /\ m + 1 \in 1..Len(d)
  BY DirsTyped DEF WalkedTo
<1>2. /\ Len(p) = Len(d) /\ SubSeq(p, 1, m) \in DOMAIN tree
      /\ EntryAt(SubSeq(p, 1, m), p[m + 1], d[m + 1])
  <2>1. (m + 1) - 1 = m
    BY <1>1
  <2>2. QED
    BY <1>1, <2>1, DescribedLevel
<1>3. SubSeq(p, 1, m) = cwd
  <2>1. \A n \in 1..m : p[n] = cwd[n]
    BY DEF OnlyWay
  <2>2. cwd \in Seq(STRING \ {"/"}) /\ cwd = [n \in 1..m |-> cwd[n]]
    BY DEF WalkedTo
  <2>3. SubSeq(p, 1, m) = [n \in 1..m |-> p[n]]
    BY <1>1, <1>2, DescribedTyped
  <2>4. QED
    BY <2>1, <2>2, <2>3
<1>4. PICK j \in 1..Len(tree[cwd]) :
        /\ e(j).name = p[m + 1] /\ e(j).kind # "file" /\ Fits(p[m + 1], d[m + 1])
  BY <1>2, <1>3 DEF EntryAt
<1>5. cwd \in DOMAIN tree /\ tree[cwd] \in Seq(DirEntries)
  BY <1>2, <1>3, TreeTyped
<1>6. j \in Matching(cwd, d[m + 1])
  <2>1. e(j) \in DirEntries
    BY <1>4, <1>5
  <2>2. e(j).kind \in {"dir", "link"}
    BY <2>1, <1>4 DEF DirEntries
  <2>3. QED
    BY <1>4, <2>2 DEF Matching
<1>7. ASSUME NEW i \in Matching(cwd, d[m + 1])
      PROVE  e(i).name = p[m + 1]
  <2> DEFINE S == {x \in ToSet(tree[cwd]) : x.kind # "file" /\ Fits(x.name, d[m + 1])}
  <2>1. i \in 1..Len(tree[cwd]) /\ e(i).kind # "file" /\ Fits(e(i).name, d[m + 1])
    BY DEF Matching
  <2>2. e(i) \in S /\ e(j) \in S
    BY <2>1, <1>4, <1>5 DEF ToSet
  <2>3. IsFiniteSet(S)
    <3>1. IsFiniteSet(ToSet(tree[cwd]))
      <4>1. PICK s : s = tree[cwd]
        OBVIOUS
      <4>2. s \in Seq(DirEntries)
        BY <1>5, <4>1
      <4>3. s \in Surjection(1..Len(s), ToSet(s))
        BY <4>2 DEF Surjection, ToSet
      <4>4. IsFiniteSet(1..Len(s))
        <5>1. 1 \in Int /\ Len(s) \in Int
          BY ONLY <4>2
        <5>2. QED
          BY ONLY <5>1, FS_Interval
      <4>5. QED
        BY <4>1, <4>3, <4>4, FS_Surjection
    <3>2. QED
      BY <3>1, FS_Subset
  <2>4. ~(Cardinality(S) > 1)
    BY <1>1, <1>5 DEF Ambiguous
  <2>5. e(i) = e(j)
    BY <2>2, <2>3, <2>4, FewElements
  <2>6. QED
    BY <2>5, <1>4
<1>8. QED
  BY <1>5, <1>6, <1>7

----------------------------------------------------------------------------
LEMMA AskDirectory == DirectoryInv /\ AskVersion => DirectoryInv'
<1> SUFFICES ASSUME DirectoryInv, AskVersion PROVE DirectoryInv'
  OBVIOUS
<1>1. /\ asks' \in Asks /\ tree' \in Trees /\ vf' \in {"search", "print"}
      /\ Searched' => vf' = "search" /\ trying' = 1 /\ cwd' = <<>>
      /\ ~Searched' => vf' = "print" /\ trying' = trying
  BY DEF AskVersion, Asks, Searched
<1>2. Searched' => left' = (Dirs')[1]
  BY DEF AskVersion, Searched, Dirs
<1>3. ~Searched' => trying' = 0
  BY <1>1 DEF DirectoryInv, AskVersion
<1>4. ASSUME Searched'
      PROVE  /\ WalkedTo(Dirs[trying])' /\ Remaining(Dirs[trying])' /\ OnlyWay(trying)'
             /\ trying' \in 1..Len(Dirs')
  <2>1. /\ cwd' = <<>> /\ trying' = 1 /\ left' = (Dirs')[1]
    BY <1>1, <1>2, <1>4
  <2>2. /\ (Dirs')[1] \in Seq(Levels) /\ Len((Dirs')[1]) \in Nat
        /\ Len(Dirs') >= 1 /\ Len(Dirs') \in Nat
    BY DirsTypedNext
  <2>3. WalkedTo(Dirs[trying])'
    BY <2>1, <2>2 DEF WalkedTo
  <2>4. Remaining(Dirs[trying])'
    BY <2>1, <2>2 DEF Remaining
  <2>5. OnlyWay(trying)'
    BY <2>1 DEF OnlyWay
  <2>6. QED
    BY <2>1, <2>2, <2>3, <2>4, <2>5
<1>5. cwd' # NoPath \/ ~Searched'
  BY <1>1 DEF NoPath
<1>6. QED
  BY <1>1, <1>3, <1>4, <1>5 DEF DirectoryInv

LEMMA SearchKeepsDirectory == DirectoryInv /\ SearchLevel => DirectoryInv'
<1> SUFFICES ASSUME DirectoryInv, SearchLevel PROVE DirectoryInv'
  OBVIOUS
<1> DEFINE d == Dirs[trying]
           m == Len(cwd)
           at == IF cwd \in DOMAIN tree THEN Matching(cwd, Head(left)) ELSE {}
<1>1. /\ vf = "search" /\ vf' = vf /\ cwd # NoPath /\ left # <<>>
      /\ asks' = asks /\ tree' = tree /\ trying' = trying
  BY DEF SearchLevel
<1>2. /\ asks \in Asks /\ tree \in Trees
      /\ Searched => /\ trying \in 1..Len(Dirs)
                     /\ \A a \in 1..trying - 1 : GivenUp(a)
                     /\ WalkedTo(d) /\ Remaining(d) /\ OnlyWay(trying)
      /\ ~Searched => trying = 0
  BY <1>1 DEF DirectoryInv
<1>3. /\ Dirs' = Dirs /\ (Searched' <=> Searched)
      /\ \A a : (GivenUp(a)' <=> GivenUp(a)) /\ (Ambiguous(a)' <=> Ambiguous(a))
      /\ \A x : Described(x)' = Described(x)
  BY <1>1, SearchStays
<1>7. Dirs' = Dirs /\ (Dirs[trying])' = d
  BY <1>1, SearchStays
<1>4. CASE ~Searched
  <2>1. ~Searched'
    BY <1>3, <1>4
  <2>2. QED
    BY <1>1, <1>2, <1>4, <2>1 DEF DirectoryInv
<1>5. CASE Searched
  <2>1. /\ m \in Nat /\ m < Len(d) /\ Head(left) = d[m + 1] /\ Len(d) \in Nat
        /\ d \in Seq(Levels) /\ left \in Seq(Levels) /\ Len(left) >= 1
        /\ Len(left) = Len(d) - m
    <3>1. /\ d \in Seq(Levels) /\ Len(d) \in Nat
      BY <1>2, <1>5, DirsTyped
    <3>2. left \in Seq(Levels) /\ Len(left) \in Nat /\ Len(left) # 0
          /\ Len(left) = Len(d) - m /\ m \in Nat
      BY <1>1, <1>2, <1>5 DEF Remaining, WalkedTo
    <3>3. Head(left) = left[1] /\ left[1] = d[1 + m]
      BY <3>2, <1>2, <1>5 DEF Remaining
    <3>4. QED
      BY <3>1, <3>2, <3>3
  <2>2. CASE at = {}
    <3>1. cwd' = NoPath
      BY <2>2 DEF SearchLevel
    <3>2. GivenUp(trying)
      <4>1. ASSUME ~Ambiguous(trying), NEW p \in Described(d) PROVE FALSE
        BY <1>2, <1>5, <2>1, <2>2, <4>1, NextLevel
      <4>2. QED
        BY <4>1 DEF GivenUp
    <3>3. GivenUp(trying)'
      <4>1. PICK t : t = trying
        OBVIOUS
      <4>2. GivenUp(t)' /\ trying' = t
        BY <1>1, <1>3, <3>2, <4>1
      <4>3. QED
        BY <4>2 DEF GivenUp
    <3>4. QED
      BY <1>1, <1>2, <1>3, <1>5, <3>1, <3>3 DEF DirectoryInv
  <2>3. CASE at # {}
    <3>1. PICK i \in at : cwd' = Append(cwd, tree[cwd][i].name)
      <4>1. cwd' = Append(cwd, tree[cwd][CHOOSE i \in at : \A j \in at : i <= j].name)
        BY <2>3 DEF SearchLevel
      <4>2. (CHOOSE i \in at : \A j \in at : i <= j) \in at
        <5>1. at \subseteq Nat /\ at # {}
          BY <2>3 DEF Matching
        <5>2. PICK S : S = at
          OBVIOUS
        <5>3. \E i \in S : \A j \in S : i <= j
          BY <5>1, <5>2, LeastExists
        <5>4. QED
          BY <5>2, <5>3, Zenon
      <4>3. QED
        BY <4>1, <4>2
    <3>2. left' = Tail(left) /\ cwd \in DOMAIN tree
      BY <2>3 DEF SearchLevel
    <3> DEFINE name == tree[cwd][i].name
    <3>3. /\ i \in 1..Len(tree[cwd]) /\ tree[cwd][i].kind # "file"
          /\ Fits(name, d[m + 1]) /\ i \in Matching(cwd, d[m + 1])
      BY <2>1, <2>3, <3>1 DEF Matching
    <3>4. name \in STRING \ {"/"} /\ cwd \in Seq(STRING \ {"/"})
      <4>1. tree[cwd][i] \in DirEntries /\ cwd \in Seq(STRING \ {"/"})
        BY <1>2, <3>2, <3>3, TreeTyped
      <4>2. QED
        BY <4>1 DEF DirEntries
    <3>5. /\ cwd' \in Seq(STRING \ {"/"}) /\ Len(cwd') = m + 1
          /\ cwd'[m + 1] = name /\ \A n \in 1..m : cwd'[n] = cwd[n]
      BY <3>1, <3>4, AppendProperties
    <3>6. SubSeq(cwd', 1, m) = cwd
          /\ \A n \in 1..m : SubSeq(cwd', 1, n - 1) = SubSeq(cwd, 1, n - 1)
      <4>1. ASSUME NEW n \in 0..m
            PROVE  SubSeq(cwd', 1, n) = SubSeq(cwd, 1, n)
        BY <3>4, <3>5, <2>1
      <4>2. SubSeq(cwd, 1, m) = cwd
        BY <3>4, SubSeqFull
      <4>3. \A n \in 1..m : n - 1 \in 0..m
        BY <2>1
      <4>4. QED
        BY <4>1, <4>2, <4>3, <2>1
    <3>7. WalkedTo(Dirs[trying])'
      <4>1. ASSUME NEW n \in 1..(m + 1)
            PROVE  /\ SubSeq(cwd', 1, n - 1) \in DOMAIN tree
                   /\ EntryAt(SubSeq(cwd', 1, n - 1), cwd'[n], d[n])
        <5>1. CASE n = m + 1
          <6>1. SubSeq(cwd', 1, n - 1) = cwd
            BY <3>6, <5>1, <2>1
          <6>2. EntryAt(cwd, cwd'[n], d[n])
            BY <3>3, <3>5, <5>1 DEF EntryAt
          <6>3. QED
            BY <6>1, <6>2, <3>2
        <5>2. CASE n \in 1..m
          BY <1>2, <1>5, <3>5, <3>6, <5>2 DEF WalkedTo
        <5>3. QED
          BY <5>1, <5>2, <2>1
      <4>2. \A q, x, y : EntryAt(q, x, y)' <=> EntryAt(q, x, y)
        BY <1>1 DEF EntryAt
      <4>3. PICK l : l = d
        OBVIOUS
      <4>4. ASSUME NEW n \in 1..Len(cwd')
            PROVE  /\ SubSeq(cwd', 1, n - 1) \in DOMAIN tree'
                   /\ EntryAt(SubSeq(cwd, 1, n - 1), cwd[n], l[n])'
        <5>1. n \in 1..(m + 1)
          BY <3>5
        <5>2. PICK q, x : q = SubSeq(cwd', 1, n - 1) /\ x = cwd'[n]
          OBVIOUS
        <5>3. EntryAt(q, x, l[n])' /\ q \in DOMAIN tree
          BY <4>1, <4>2, <4>3, <5>1, <5>2
        <5>4. QED
          BY <1>1, <5>2, <5>3 DEF EntryAt
      <4>5. Len(cwd') <= Len(l)
        BY <2>1, <3>5, <4>3
      <4>6. WalkedTo(l)'
        BY <3>5, <4>4, <4>5 DEF WalkedTo
      <4>7. QED
        BY <4>3, <4>6, <1>7 DEF WalkedTo
    <3>8. Remaining(Dirs[trying])'
      <4>1. /\ left' \in Seq(Levels) /\ Len(left') = Len(left) - 1
            /\ \A n \in 1..Len(left') : left'[n] = left[n + 1]
        BY <2>1, <3>2, HeadTailProperties
      <4>2. \A n \in 1..Len(left') : left'[n] = d[n + (m + 1)]
        BY <4>1, <1>2, <1>5, <2>1 DEF Remaining
      <4>3. (Dirs[trying])' = d
        BY <1>7
      <4>4. QED
        BY <4>1, <4>2, <4>3, <2>1, <3>5 DEF Remaining
    <3>9. OnlyWay(trying)'
      <4>1. ASSUME ~Ambiguous(trying), NEW p \in Described(d), NEW n \in 1..(m + 1)
            PROVE  p[n] = cwd'[n]
        <5>1. CASE n = m + 1
          <6>1. name = p[m + 1]
            BY <1>2, <1>5, <2>1, <3>3, <4>1, NextLevel
          <6>2. QED
            BY <5>1, <6>1, <3>5
        <5>2. CASE n \in 1..m
          BY <1>2, <1>5, <3>5, <4>1, <5>2 DEF OnlyWay
        <5>3. QED
          BY <5>1, <5>2, <2>1
      <4>2. PICK t : t = trying
        OBVIOUS
      <4>5. Ambiguous(t)' <=> Ambiguous(t)
        BY <1>3
      <4>6. Described(Dirs[t])' = Described(Dirs[t])
        <5>1. PICK x : x = Dirs[t]
          OBVIOUS
        <5>2. Described(x)' = Described(x)
          BY <1>3
        <5>3. (Dirs')[t] = x
          BY <1>7, <5>1
        <5>4. QED
          BY <1>1, <5>1, <5>2, <5>3 DEF Described, Paths
      <4>3. /\ Ambiguous(t)' <=> Ambiguous(trying)
            /\ Described(Dirs[t])' = Described(d) /\ trying' = t
        BY <1>1, <4>2, <4>5, <4>6
      <4>4. ~Ambiguous(t)' =>
              \A p \in Described(Dirs[t])' : \A n \in 1..Len(cwd') : p[n] = cwd'[n]
        BY <4>1, <4>3, <3>5
      <4>8. OnlyWay(t)'
        BY <4>4 DEF OnlyWay
      <4>7. QED
        BY <4>3, <4>8 DEF OnlyWay
    <3>10. cwd' # NoPath
      <4>1. ASSUME cwd' = <<"/">> PROVE FALSE
        <5>1. cwd'[1] \in STRING \ {"/"} /\ cwd'[1] = "/"
          BY <4>1, <3>5
        <5>2. QED
          BY <5>1
      <4>2. QED
        BY <4>1 DEF NoPath
    <3>11. QED
      BY <1>1, <1>2, <1>3, <1>5, <3>7, <3>8, <3>9, <3>10 DEF DirectoryInv
  <2>4. QED
    BY <2>2, <2>3
<1>6. QED
  BY <1>4, <1>5

LEMMA RestKeepsDirectory ==
  DirectoryInv /\ (NextAlternative \/ SetFiles \/ ReadFile \/ ReadEthtool
                   \/ PrintVersions \/ UNCHANGED versionVars) => DirectoryInv'
<1>1. ASSUME DirectoryInv, NextAlternative PROVE DirectoryInv'
  <2>1. /\ vf = "search" /\ cwd = NoPath /\ asks' = asks /\ tree' = tree
    BY <1>1 DEF NextAlternative
  <2>2. /\ asks \in Asks /\ tree \in Trees
        /\ Searched => /\ trying \in 1..Len(Dirs)
                       /\ \A a \in 1..trying - 1 : GivenUp(a)
                       /\ GivenUp(trying)
        /\ Searched
    BY <1>1, <2>1 DEF DirectoryInv
  <2>3. Dirs' = Dirs /\ (Searched' <=> Searched)
    BY <2>1, SearchStays
  <2>4. \A a : GivenUp(a)' <=> GivenUp(a)
    BY <2>1, SearchStays
  <2>5. Len(Dirs) \in Nat /\ Dirs \in Seq(Seq(Levels))
    BY DirsTyped
  <2>6. CASE trying < Len(Dirs)
    <3>1. /\ vf' = vf /\ cwd' = <<>> /\ trying' = trying + 1
          /\ left' = Dirs[trying + 1]
      BY <1>1, <2>6 DEF NextAlternative
    <3>2. CASE Searched
      <4>1. /\ trying' \in 1..Len(Dirs)
            /\ \A a \in 1..trying' - 1 : GivenUp(a)
        BY <2>2, <2>5, <2>6, <3>1, <3>2
      <4>2. (Dirs[trying])' = Dirs[trying + 1]
        BY <2>3, <3>1
      <4>3. left' \in Seq(Levels) /\ Len(left') \in Nat
        BY <2>5, <3>1, <4>1
      <4>4. WalkedTo(Dirs[trying])'
        BY <3>1, <4>2, <4>3 DEF WalkedTo
      <4>5. Remaining(Dirs[trying])'
        BY <3>1, <4>2, <4>3 DEF Remaining
      <4>6. OnlyWay(trying)'
        BY <3>1 DEF OnlyWay
      <4>7. cwd' # NoPath
        BY <3>1 DEF NoPath
      <4>8. \A a \in 1..trying' - 1 : GivenUp(a)'
        BY <2>4, <4>1
      <4>9. QED
        BY <2>1, <2>2, <2>3, <3>1, <3>2, <4>1, <4>4, <4>5, <4>6, <4>7, <4>8
           DEF DirectoryInv
    <3>3. QED
      BY <2>2, <3>2
  <2>7. CASE ~(trying < Len(Dirs))
    <3>1. /\ vf' = "print" /\ cwd' = cwd /\ trying' = trying
      BY <1>1, <2>7 DEF NextAlternative
    <3>2. QED
      BY <2>1, <2>2, <2>3, <2>4, <3>1 DEF DirectoryInv
  <2>8. QED
    BY <2>6, <2>7
<1>2. ASSUME DirectoryInv, SetFiles \/ ReadEthtool PROVE DirectoryInv'
  <2>1. /\ vf = "search" /\ cwd # NoPath /\ left = <<>> /\ vf' \in {"print", "read"}
        /\ asks' = asks /\ tree' = tree /\ trying' = trying /\ cwd' = cwd /\ Searched
    BY <1>2 DEF SetFiles, ReadEthtool, Searched
  <2>2. /\ asks \in Asks /\ tree \in Trees /\ trying \in 1..Len(Dirs)
        /\ \A a \in 1..trying - 1 : GivenUp(a)
        /\ WalkedTo(Dirs[trying]) /\ Remaining(Dirs[trying])
    BY <1>2, <2>1 DEF DirectoryInv
  <2>3. Dirs' = Dirs /\ (Searched' <=> Searched)
    BY <2>1, SearchStays
  <2>4. \A a : GivenUp(a)' <=> GivenUp(a)
    BY <2>1, SearchStays
  <2>5. cwd \in Described(Dirs[trying])
    <3>1. Dirs[trying] \in Seq(Levels) /\ Len(Dirs[trying]) \in Nat
          /\ Len(Dirs[trying]) >= 1
      BY <2>2, DirsTyped
    <3>2. Len(cwd) = Len(Dirs[trying])
      BY <2>1, <2>2, <3>1 DEF Remaining, WalkedTo
    <3>3. QED
      BY <2>2, <3>1, <3>2, WalkedIsDescribed
  <2>6. (cwd \in Described(Dirs[trying]))'
    BY <2>1, <2>3, <2>5 DEF Described, Paths
  <2>7. QED
    BY <2>1, <2>2, <2>3, <2>4, <2>6 DEF DirectoryInv
<1>3. ASSUME DirectoryInv, ReadFile \/ PrintVersions PROVE DirectoryInv'
  <2>1. /\ vf \in {"read", "print"} /\ vf' \in {"read", "print", "done", "crashed"}
        /\ asks' = asks /\ tree' = tree /\ trying' = trying /\ cwd' = cwd
    BY <1>3 DEF ReadFile, PrintVersions
  <2>2. /\ asks \in Asks /\ tree \in Trees
        /\ Searched => /\ trying \in 1..Len(Dirs)
                       /\ \A a \in 1..trying - 1 : GivenUp(a)
                       /\ cwd # NoPath => cwd \in Described(Dirs[trying])
        /\ ~Searched => trying = 0
        /\ vf # "search"
    BY <1>3, <2>1 DEF DirectoryInv
  <2>3. /\ Dirs' = Dirs /\ (Searched' <=> Searched)
        /\ Described(Dirs[trying])' = Described(Dirs[trying])
    BY <2>1 DEF Dirs, Searched, Described, Paths
  <2>4. \A a : GivenUp(a)' <=> GivenUp(a)
    BY <2>1, SearchStays
  <2>5. QED
    BY <2>1, <2>2, <2>3, <2>4 DEF DirectoryInv
<1>4. ASSUME DirectoryInv, UNCHANGED versionVars PROVE DirectoryInv'
  <2>1. /\ vf' = vf /\ asks' = asks /\ tree' = tree /\ trying' = trying
        /\ cwd' = cwd /\ left' = left
    BY <1>4 DEF versionVars
  <2>2. /\ Dirs' = Dirs /\ (Searched' <=> Searched)
        /\ Described(Dirs[trying])' = Described(Dirs[trying])
    BY <2>1 DEF Dirs, Searched, Described, Paths
  <2>3. \A a : GivenUp(a)' <=> GivenUp(a)
    BY <2>1, SearchStays
  <2>4. GivenUp(trying)' <=> GivenUp(trying)
    BY <2>1, <2>2 DEF GivenUp, Ambiguous
  <2>5. /\ WalkedTo(Dirs[trying])' <=> WalkedTo(Dirs[trying])
        /\ Remaining(Dirs[trying])' <=> Remaining(Dirs[trying])
    BY <2>1, <2>2 DEF WalkedTo, Remaining, EntryAt
  <2>6. OnlyWay(trying)' <=> OnlyWay(trying)
    BY <2>1, <2>2 DEF OnlyWay, Ambiguous
  <2>7. QED
    BY <1>4, <2>1, <2>2, <2>3, <2>4, <2>5, <2>6, Zenon DEF DirectoryInv
<1>5. QED
  BY <1>1, <1>2, <1>3, <1>4

----------------------------------------------------------------------------
LEMMA StartKeepsItems ==
  ItemsInv /\ (AskVersion \/ SearchLevel \/ NextAlternative) => ItemsInv'
<1>1. ASSUME ItemsInv, AskVersion PROVE ItemsInv'
  <2>1. /\ vf = "idle" /\ items' = items /\ count' = count /\ printed' = printed
        /\ asks' \in Asks /\ vf' \in {"search", "print"}
    BY <1>1 DEF AskVersion, Asks
  <2>2. items = <<>> /\ count = 0 /\ printed = <<>>
    BY <1>1, <2>1 DEF ItemsInv
  <2>3. QED
    BY <2>1, <2>2 DEF ItemsInv, Read, Unread
<1>2. ASSUME ItemsInv, SearchLevel \/ NextAlternative PROVE ItemsInv'
  <2>1. /\ vf = "search" /\ items' = items /\ count' = count /\ printed' = printed
        /\ asks' = asks /\ vf' \in {"search", "print"}
    BY <1>2 DEF SearchLevel, NextAlternative
  <2>2. items = <<>> /\ count = 0 /\ printed = <<>> /\ asks \in Asks
    BY <1>2, <2>1 DEF ItemsInv
  <2>3. QED
    BY <2>1, <2>2 DEF ItemsInv, Read, Unread
<1>3. QED
  BY <1>1, <1>2

LEMMA SetKeepsItems == DirectoryInv /\ ItemsInv /\ SetFiles => ItemsInv'
<1> SUFFICES ASSUME DirectoryInv, ItemsInv, SetFiles PROVE ItemsInv'
  OBVIOUS
<1> DEFINE dir == IF cwd \in DOMAIN tree THEN tree[cwd] ELSE <<>>
           at == {i \in 1..Len(dir) : /\ dir[i].kind = "file"
                                      /\ Fits(dir[i].name, FilePattern(asks.info))}
           N == Cardinality(at)
<1>1. /\ vf = "search" /\ asks' = asks /\ reading' = 1 /\ count' = count
      /\ printed' = printed /\ Reader(asks.class, asks.info) = "files"
      /\ vf' = IF at = {} THEN "print" ELSE "read"
  BY DEF SetFiles
<1>2. items' = [n \in 1..N |-> [name |-> dir[Nth(at, n)].name, data |-> NoData]]
  BY DEF SetFiles
<1>3. count = 0 /\ printed = <<>> /\ asks \in Asks
  BY <1>1 DEF ItemsInv
<1>4. N \in Nat /\ (N = 0 <=> at = {})
  <2>1. tree \in Trees
    BY <1>1 DEF DirectoryInv
  <2>2. Len(dir) \in Nat
    BY <2>1, TreeTyped
  <2>3. IsFiniteSet(1..Len(dir)) /\ at \subseteq 1..Len(dir)
    BY <2>2, FS_Interval
  <2>4. IsFiniteSet(at)
    BY <2>3, FS_Subset, Zenon
  <2> HIDE DEF at
  <2>5. QED
    BY <2>4, FS_CardinalityType, FS_EmptySet
<1> HIDE DEF at, dir
<1>5. /\ Len(items') = N /\ \A k \in 1..N : items'[k].data = NoData
      /\ items' = [k \in 1..N |-> [name |-> items'[k].name, data |-> items'[k].data]]
  BY <1>2, <1>4
<1>6. QED
  BY <1>1, <1>3, <1>4, <1>5 DEF ItemsInv, Read, Unread

LEMMA ReadKeepsItems == ItemsInv /\ ReadFile => ItemsInv'
<1> SUFFICES ASSUME ItemsInv, ReadFile PROVE ItemsInv'
  OBVIOUS
<1> DEFINE data == VersionIn(items[reading].name)
<1>1. /\ vf = "read" /\ asks' = asks /\ text' = text /\ printed' = printed
      /\ items' = [items EXCEPT ![reading].data = data]
      /\ reading' = reading + 1
      /\ count' = (IF ReadOn(data) THEN reading ELSE reading - 1)
      /\ vf' = (IF ReadOn(data) /\ ~(reading = Len(items)) THEN "read" ELSE "print")
  BY DEF ReadFile
<1>2. /\ asks \in Asks /\ printed = <<>> /\ Len(items) \in Nat
      /\ count \in 0..Len(items)
      /\ Reader(asks.class, asks.info) = "files"
      /\ \A k \in 1..count : Read(k)
      /\ \A k \in count + 1..Len(items) : Unread(k)
      /\ reading = count + 1 /\ reading <= Len(items)
  <2>1. Reader(asks.class, asks.info) = "files"
    BY <1>1, ReaderIs DEF ItemsInv
  <2>2. QED
    BY <1>1, <2>1 DEF ItemsInv
<1>10. /\ items = [k \in 1..Len(items) |-> [name |-> items[k].name, data |-> items[k].data]]
       /\ reading \in 1..Len(items)
  <2>1. items = [k \in 1..Len(items) |-> [name |-> items[k].name, data |-> items[k].data]]
    BY DEF ItemsInv
  <2>2. QED
    BY <1>2, <2>1
<1> HIDE DEF data
<1>3. /\ Len(items') = Len(items) /\ items'[reading].data = data
      /\ \A k \in 1..Len(items) : items'[k].name = items[k].name
      /\ \A k \in 1..Len(items) : k # reading => items'[k] = items[k]
      /\ items' = [k \in 1..Len(items') |-> [name |-> items'[k].name,
                                             data |-> items'[k].data]]
  <2>1. PICK f : f = items /\ Len(f) \in Nat
    BY <1>2
  <2>2. PICK r : r = [name |-> f[reading].name, data |-> data]
    OBVIOUS
  <2>3. [f[reading] EXCEPT !.data = data] = r
    <3>1. f[reading] = [name |-> f[reading].name, data |-> f[reading].data]
      BY <1>10, <2>1
    <3>2. QED
      BY <2>2, <3>1
  <2>4. items' = [f EXCEPT ![reading] = r]
    BY <1>1, <2>1, <2>3
  <2>5. items' = [k \in 1..Len(f) |-> IF k = reading THEN r ELSE f[k]]
    BY <1>10, <2>1, <2>4
  <2>6. Len(items') = Len(f)
    BY <2>1, <2>5
  <2>7. /\ items'[reading] = r /\ \A k \in 1..Len(f) : k # reading => items'[k] = f[k]
    BY <1>10, <2>1, <2>5
  <2>8. /\ items'[reading].name = f[reading].name /\ items'[reading].data = data
    BY <2>2, <2>7
  <2>9. \A k \in 1..Len(f) :
          items'[k] = [name |-> items'[k].name, data |-> items'[k].data]
    BY <1>10, <2>1, <2>2, <2>7
  <2>10. QED
    BY <2>1, <2>5, <2>6, <2>7, <2>8, <2>9
<1>4. \A n : VersionIn(n)' = VersionIn(n)
  BY <1>1 DEF VersionIn
<1>5. ASSUME NEW k \in 1..count PROVE Read(k)'
  <2>1. Read(k) /\ items'[k] = items[k]
    BY <1>2, <1>3
  <2>2. QED
    BY <1>1, <2>1 DEF Read, VersionIn
<1>6. \A k \in reading + 1..Len(items) : Unread(k)'
  BY <1>2, <1>3 DEF Unread
<1>7. CASE data # NoData
  <2>1. PICK r : r = reading
    OBVIOUS
  <2>2. VersionIn(items'[r].name) = data
    BY <1>3, <1>10, <2>1 DEF data
  <2>3. Read(r)'
    <3>1. VersionIn(items[r].name)' = VersionIn(items'[r].name)
      BY <1>1 DEF VersionIn
    <3>2. QED
      BY <1>3, <1>7, <2>1, <2>2, <3>1 DEF Read
  <2>4. count' = r /\ reading' = r + 1
        /\ vf' = IF r = Len(items) THEN "print" ELSE "read"
    BY <1>1, <1>7, <2>1 DEF ReadOn
  <2>5. /\ \A k \in 1..count' : Read(k)'
        /\ \A k \in count' + 1..Len(items') : Unread(k)'
    BY <1>2, <1>3, <1>5, <1>6, <2>1, <2>3, <2>4
  <2>6. QED
    BY <1>1, <1>2, <1>3, <1>10, <2>1, <2>4, <2>5 DEF ItemsInv
<1>8. CASE data = NoData
  <2>1. PICK r : r = reading
    OBVIOUS
  <2>2. VersionIn(items'[r].name) = NoData
    BY <1>3, <1>8, <1>10, <2>1 DEF data
  <2>3. Unread(r)'
    BY <1>3, <1>8, <2>1 DEF Unread
  <2>4. count' = count /\ vf' = "print" /\ r = count + 1
    BY <1>1, <1>2, <1>8, <2>1 DEF ReadOn
  <2>5. /\ \A k \in 1..count' : Read(k)'
        /\ \A k \in count' + 1..Len(items') : Unread(k)'
    BY <1>2, <1>3, <1>5, <1>6, <2>1, <2>3, <2>4
  <2>6. VersionIn(items[count + 1].name)' = NoData
    <3>1. count' + 1 = r
      BY <2>4
    <3>2. QED
      BY <1>1, <2>2, <3>1 DEF VersionIn
  <2>7. QED
    BY <1>1, <1>2, <1>3, <1>10, <2>4, <2>5, <2>6 DEF ItemsInv
<1>9. QED
  BY <1>7, <1>8

LEMMA EndKeepsItems ==
  ItemsInv /\ (ReadEthtool \/ PrintVersions \/ UNCHANGED versionVars) => ItemsInv'
<1>1. ASSUME ItemsInv, ReadEthtool PROVE ItemsInv'
  <2>1. /\ vf = "search" /\ vf' = "print" /\ asks' = asks /\ printed' = printed
        /\ Reader(asks.class, asks.info) = "ethtool"
        /\ \/ items' = items /\ count' = count
           \/ \E answer \in Fresh :
                items' = <<[name |-> "Ethtool", data |-> answer]>> /\ count' = 1
    BY <1>1 DEF ReadEthtool
  <2>2. items = <<>> /\ count = 0 /\ printed = <<>> /\ asks \in Asks
    BY <1>1, <2>1 DEF ItemsInv
  <2>3. /\ count' = Len(items') /\ count' \in 0..1
        /\ count' = 1 => items'[1].data # NoData
        /\ items' = [k \in 1..Len(items') |-> [name |-> items'[k].name,
                                               data |-> items'[k].data]]
    <3>1. CASE items' = items /\ count' = count
      BY <2>2, <3>1
    <3>2. ASSUME NEW answer \in Fresh, count' = 1,
                 items' = <<[name |-> "Ethtool", data |-> answer]>>
          PROVE  /\ Len(items') = 1 /\ items'[1].data # NoData
                 /\ items' = [k \in 1..Len(items') |-> [name |-> items'[k].name,
                                                        data |-> items'[k].data]]
      BY <3>2, VersionAssumption
    <3>3. QED
      BY <2>1, <3>1, <3>2
  <2>4. QED
    BY <2>1, <2>2, <2>3 DEF ItemsInv, Unread
<1>2. ASSUME ItemsInv, PrintVersions PROVE ItemsInv'
  <2>1. /\ vf = "print" /\ vf' \in {"done", "crashed"} /\ asks' = asks
        /\ items' = items /\ text' = text /\ count' = count
    BY <1>2 DEF PrintVersions
  <2>2. /\ printed = <<>> /\ asks \in Asks
        /\ Reader(asks.class, asks.info) = "ethtool" =>
            /\ count = Len(items) /\ count \in 0..1
            /\ count = 1 => ~Unread(1)
        /\ Reader(asks.class, asks.info) = "none" => items = <<>>
        /\ count \in 0..Len(items) /\ Len(items) \in Nat
    BY <1>2, <2>1 DEF ItemsInv
  <2>3. vf' = "crashed" => 0 < count /\ \E k \in 1..Len(items) : Unread(k)
    BY <1>2, <2>2 DEF PrintVersions, Unread
  <2>4. vf' = "done" /\ printed' # <<>> =>
          /\ count > 0
          /\ printed' = IF asks.layout = "json" THEN items ELSE TablePart
          /\ asks.layout = "json" => \A k \in 1..Len(items) : ~Unread(k)
    BY <1>2, <2>2 DEF PrintVersions, Unread
  <2>5. /\ \A k : Read(k)' <=> Read(k)
        /\ \A k : Unread(k)' <=> Unread(k)
        /\ TablePart' = TablePart
        /\ VersionIn(items[count + 1].name)' = VersionIn(items[count + 1].name)
    BY <2>1 DEF Read, Unread, TablePart, VersionIn
  <2>6. Reader(asks.class, asks.info) = "files" =>
            /\ \A k \in 1..count : Read(k)
            /\ \A k \in count + 1..Len(items) : Unread(k)
            /\ count < Len(items) => VersionIn(items[count + 1].name) = NoData
    BY <1>2, <2>1 DEF ItemsInv
  <2>7. items = [k \in 1..Len(items) |-> [name |-> items[k].name, data |-> items[k].data]]
    BY <1>2 DEF ItemsInv
  <2>8. QED
    BY <2>1, <2>2, <2>3, <2>4, <2>5, <2>6, <2>7 DEF ItemsInv
<1>3. ASSUME ItemsInv, UNCHANGED versionVars PROVE ItemsInv'
  BY <1>3 DEF ItemsInv, versionVars, Read, Unread, VersionIn, TablePart
<1>4. QED
  BY <1>1, <1>2, <1>3

----------------------------------------------------------------------------
LEMMA VersionsFromItems == ItemsInv => VersionsAreRead
<1> SUFFICES ASSUME ItemsInv PROVE VersionsAreRead
  OBVIOUS
<1>1. Len(items) \in Nat /\ count \in 0..Len(items)
  BY DEF ItemsInv
<1>2. ASSUME vf = "done", asks.class \in {1, 12}, printed # <<>>
      PROVE  /\ items[1].data # NoData
             /\ \A i \in 1..Len(printed) :
                  printed[i].name = items[i].name
                  /\ printed[i].data = VersionIn(items[i].name)
             /\ asks.layout = "json" => Len(printed) = Len(items)
  <2>1. Reader(asks.class, asks.info) = "files"
    BY <1>2, ReaderIs
  <2>2. /\ \A k \in 1..count : Read(k)
        /\ \A k \in count + 1..Len(items) : Unread(k)
    BY <1>2, <2>1 DEF ItemsInv
  <2>3. /\ count > 0
        /\ printed = IF asks.layout = "json" THEN items ELSE TablePart
        /\ asks.layout = "json" => \A k \in 1..Len(items) : ~Unread(k)
    BY <1>2 DEF ItemsInv
  <2>4. Read(1)
    BY <1>1, <2>2, <2>3
  <2>5. CASE asks.layout = "json"
    <3>1. printed = items /\ \A k \in 1..Len(items) : ~Unread(k)
      BY <2>3, <2>5
    <3>2. \A k \in 1..Len(items) : Read(k)
      BY <1>1, <2>2, <3>1
    <3>3. QED
      BY <2>4, <3>1, <3>2 DEF Read
  <2>6. CASE asks.layout # "json"
    <3>1. printed = <<items[1]>>
      BY <1>2, <2>3, <2>6 DEF TablePart
    <3>2. Len(printed) = 1 /\ printed[1] = items[1]
      BY <3>1
    <3>3. QED
      BY <2>4, <2>6, <3>2 DEF Read
  <2>7. QED
    BY <2>5, <2>6
<1>3. ASSUME vf = "crashed"
      PROVE  \E i \in 2..Len(items) : VersionIn(items[i].name) = NoData
  <2>1. PICK k \in 1..Len(items) : 0 < count /\ Unread(k)
    BY <1>3 DEF ItemsInv
  <2>2. Reader(asks.class, asks.info) = "files"
    <3>1. Reader(asks.class, asks.info) # "none"
      BY <1>3, <2>1 DEF ItemsInv
    <3>2. ASSUME Reader(asks.class, asks.info) = "ethtool" PROVE FALSE
      <4>1. count = Len(items) /\ count \in 0..1 /\ (count = 1 => ~Unread(1))
        BY <1>3, <3>2 DEF ItemsInv
      <4>2. k = 1 /\ count = 1
        BY <2>1, <4>1
      <4>3. QED
        BY <2>1, <4>1, <4>2
    <3>3. QED
      BY <3>1, <3>2, ReaderIs
  <2>3. \A j \in 1..count : Read(j)
    BY <1>3, <2>2 DEF ItemsInv
  <2>4. count < Len(items)
    <3>1. ~(k \in 1..count)
      BY <2>1, <2>3 DEF Read, Unread
    <3>2. QED
      BY <1>1, <3>1
  <2>5. VersionIn(items[count + 1].name) = NoData
    BY <1>3, <2>2, <2>4 DEF ItemsInv
  <2>6. count + 1 \in 2..Len(items)
    BY <1>1, <2>1, <2>4
  <2>7. QED
    BY <2>5, <2>6
<1>4. QED
  BY <1>2, <1>3 DEF VersionsAreRead

\* If sysfs has files, directories and links only, what lspcie prints of
\* versions are those of files of a directory the patterns describe, for any
\* tree: the first alternative that describes one, unless a level matches more
\* than one entry, and all versions up to the first file without one.
THEOREM VersionsAreRight == VersionSpec => []VersionsRight
<1>1. VersionInit => DirectoryInv /\ ItemsInv
  BY DEF VersionInit, DirectoryInv, ItemsInv
<1>2. DirectoryInv /\ ItemsInv /\ [VersionNext]_versionVars
        => (DirectoryInv /\ ItemsInv)'
  BY AskDirectory, SearchKeepsDirectory, RestKeepsDirectory, StartKeepsItems,
     SetKeepsItems, ReadKeepsItems, EndKeepsItems DEF VersionNext
<1>3. DirectoryInv => DirectoryIsDescribed
  <2> SUFFICES ASSUME DirectoryInv, Found, asks.class \in {1, 2, 12}, trying > 0
               PROVE  /\ cwd \in Described(Dirs[trying])
                      /\ \A a \in 1..trying - 1 : GivenUp(a)
    BY DEF DirectoryIsDescribed, GivenUp, Ambiguous
  <2>1. QED
    BY DEF DirectoryInv, Found
<1>4. ItemsInv => VersionsAreRead
  BY VersionsFromItems
<1>5. DirectoryInv /\ ItemsInv => VersionsRight
  BY <1>3, <1>4 DEF VersionsRight
<1>6. QED
  BY <1>1, <1>2, <1>5, PTL DEF VersionSpec

----------------------------------------------------------------------------
(***************************************************************************)
(* NameList, for any list of identifiers and any questions.                *)
(***************************************************************************)
ListSpec == ListInit /\ [][ListNext]_listVars

Words == DOMAIN Hex \cup {TooLong}
TypedQuestion(q) ==
  /\ q.ids \in Seq(Nat)
  /\ \/ /\ q.type \in {"VENDOR", "SUBSYSTEM VENDOR", "CLASS"}
        /\ Len(q.ids) = 1
     \/ /\ q.type \in {"DEVICE", "VENDOR DEVICE", "PROGIF"}
        /\ Len(q.ids) = 2
     \/ /\ q.type \in {"SUBSYSTEM DEVICE", "SUBSYSTEM VENDOR DEVICE"}
        /\ Len(q.ids) = 4

EntriesNamed == \A e \in entries : e.name # NoName

\* The lines above one that are said and on a level; the last of some lines.
Above(i, n) == {j \in 1..i - 1 : Said(j) /\ list[j].nest = n}
LastOf(S) == CHOOSE j \in S : \A k \in S : k <= j

\* The block a line k would be in, and its parent there, were it below the others.
BlockAt(k) == Over(k, 0)
ParentAt(k) == IF Over(k, 1) > BlockAt(k) THEN Over(k, 1) ELSE 0
Head1(b) == list[b].words[1]

\* What id_parse_list() remembers before line k is where that line will stand.
Context(k, c, ids) ==
  LET b == BlockAt(k)
      p == ParentAt(k)
      id2 == IF p = 0 THEN 0 ELSE Num(p, 1)
  IN c # "none" =>
       /\ b \in 1..k - 1
       /\ c \in Vendors \cup Classes \cup {"GEN_SUBSYSTEM", "UNKNOWN"}
       /\ c = "UNKNOWN" => Head1(b) \in {"A", "B"}
       /\ c = "GEN_SUBSYSTEM" => Head1(b) = "S" /\ ids[1] = Num(b, 2)
       /\ c \in Classes => /\ Head1(b) = "C"
                           /\ ids[1] = Num(b, 2) /\ ids[2] = id2
       /\ c \in Vendors => /\ Head1(b) \notin Blocks
                           /\ ids[1] = Num(b, 1) /\ ids[2] = id2
                           /\ c # "VENDOR" => p # 0

Meant(S) == {i \in S : Meaning(i) # Nothing}
FilesOfLines == Seq([nest : Nat, words : Seq(Words)])

ParseTypes ==
  /\ listing \in {"off", "idle", "reading", "answer", "quit"}
  /\ list \in FilesOfLines /\ lino \in 0..Len(list)
  /\ listing = "quit" => lino # 0 /\ error # ""
  /\ listing # "quit" => error = ""
  /\ listing = "off" => lino = 0
  /\ DOMAIN id = 1..4

EntriesInv ==
  /\ entries = {Meaning(i) : i \in Meant(Taken)}
  /\ \A i, j \in Meant(Taken) : Meaning(i).key = Meaning(j).key => i = j
  /\ \A i \in Meant(Taken) : Meaning(i).name # NoName
  /\ error = "Duplicate entry" =>
       \E i \in Meant(Taken) : Meaning(i).key = Meaning(lino).key

ParseInv ==
  /\ ParseTypes /\ EntriesInv
  /\ listing = "reading" => Context(lino + 1, cat, id)

----------------------------------------------------------------------------
Named(k) == (CHOOSE e \in entries : e.key = k).name

LEMMA LookupIs ==
  ASSUME EntriesNamed, NEW c, NEW ids
  PROVE  /\ InList(Key(c, ids)) => /\ Lookup(c, ids) = Named(Key(c, ids))
                                   /\ Lookup(c, ids) # NoName
         /\ ~InList(Key(c, ids)) => Lookup(c, ids) = NoName
<1>1. ASSUME InList(Key(c, ids))
      PROVE  Named(Key(c, ids)) # NoName
  <2>1. \E e \in entries : e.key = Key(c, ids)
    BY <1>1 DEF InList
  <2>2. (CHOOSE e \in entries : e.key = Key(c, ids)) \in entries
    BY <2>1, Zenon
  <2>3. QED
    BY <2>2 DEF Named, EntriesNamed
<1>2. QED
  BY <1>1, Zenon DEF Lookup, Named

\* The first of some identities that is in the list gives the name.
LEMMA BestIsFirst ==
  ASSUME NEW q, NEW n, NEW i \in 1..Len(NamesFor(q, n)),
         Len(NamesFor(q, n)) \in Nat,
         InList(NamesFor(q, n)[i]),
         \A j \in 1..Len(NamesFor(q, n)) : j < i => ~InList(NamesFor(q, n)[j])
  PROVE  BestName(q, n) = Named(NamesFor(q, n)[i])
<1> DEFINE keys == NamesFor(q, n)
           at == {j \in 1..Len(keys) : InList(keys[j])}
<1>1. i \in at /\ at # {} /\ \A j \in at : i <= j
  OBVIOUS
<1>2. \A k \in at : (\A j \in at : k <= j) => k = i
  BY <1>1
<1>3. (CHOOSE k \in at : \A j \in at : k <= j) = i
  BY <1>1, <1>2
<1>4. QED
  BY <1>1, <1>3 DEF BestName, Named

LEMMA BestIsNone ==
  ASSUME NEW q, NEW n, \A i \in 1..Len(NamesFor(q, n)) : ~InList(NamesFor(q, n)[i])
  PROVE  BestName(q, n) = NoName
BY DEF BestName

LEMMA BestOfOne ==
  ASSUME EntriesNamed, NEW q, NEW n, NEW c, NEW ids,
         NamesFor(q, n) = <<Key(c, ids)>>
  PROVE  BestName(q, n) = Lookup(c, ids)
<1>1. Len(NamesFor(q, n)) = 1 /\ NamesFor(q, n)[1] = Key(c, ids)
  OBVIOUS
<1>2. CASE InList(Key(c, ids))
  <2>1. BestName(q, n) = Named(Key(c, ids))
    BY <1>1, <1>2, BestIsFirst
  <2>2. QED
    BY <1>2, <2>1, LookupIs
<1>3. CASE ~InList(Key(c, ids))
  <2>1. BestName(q, n) = NoName
    BY <1>1, <1>3, BestIsNone
  <2>2. QED
    BY <1>3, <2>1, LookupIs
<1>4. QED
  BY <1>2, <1>3

LEMMA TwoIsNotOne == 2 # 1
OBVIOUS

LEMMA ShortConcats ==
  ASSUME NEW s, NEW g, NEW d
  PROVE  /\ <<s>> \o <<g>> \o <<d>> = <<s, g, d>> /\ <<s>> \o <<g>> \o <<>> = <<s, g>>
         /\ <<>> \o <<g>> \o <<d>> = <<g, d>> /\ <<>> \o <<g>> \o <<>> = <<g>>
<1> DEFINE S == {s, g, d}
<1>1. /\ <<s>> \in Seq(S) /\ <<g>> \in Seq(S) /\ <<s, g>> \in Seq(S)
      /\ s \in S /\ g \in S /\ d \in S
  OBVIOUS
<1>2. Append(<<s>>, g) = <<s, g>> /\ Append(<<g>>, d) = <<g, d>>
      /\ Append(<<s, g>>, d) = <<s, g, d>>
  <2>1. ASSUME NEW x, NEW y PROVE Append(<<x>>, y) = <<x, y>>
    <3>1. PICK T : T = {x, y}
      OBVIOUS
    <3>2. PICK t : t = Append(<<x>>, y)
      OBVIOUS
    <3>3. <<x>> \in Seq(T) /\ y \in T /\ Len(<<x>>) = 1 /\ <<x>>[1] = x
      BY <3>1
    <3>4. t \in Seq(T) /\ Len(t) = 2 /\ t[1] = x /\ t[2] = y
      BY <3>2, <3>3, AppendProperties
    <3>5. PICK u : u = <<x, y>>
      OBVIOUS
    <3>6. u \in Seq(T) /\ Len(u) = 2 /\ u[1] = x /\ u[2] = y
      BY <3>1, <3>5
    <3>7. \A i \in 1..Len(t) : t[i] = u[i]
      BY <3>4, <3>6
    <3>8. t = u
      BY <3>4, <3>6, <3>7, SeqEqual
    <3>9. QED
      BY <3>2, <3>5, <3>8
  <2>2. Append(<<s, g>>, d) = <<s, g, d>>
    <3>1. PICK t : t = Append(<<s, g>>, d)
      OBVIOUS
    <3>2. t \in Seq(S) /\ Len(t) = 3 /\ t[1] = s /\ t[2] = g /\ t[3] = d
      BY <1>1, <3>1, AppendProperties
    <3>3. PICK u : u = <<s, g, d>>
      OBVIOUS
    <3>4. u \in Seq(S) /\ Len(u) = 3 /\ u[1] = s /\ u[2] = g /\ u[3] = d
      BY <1>1, <3>3
    <3>5. \A i \in 1..Len(t) : t[i] = u[i]
      BY <3>2, <3>4
    <3>6. t = u
      BY <3>2, <3>4, <3>5, SeqEqual
    <3>7. QED
      BY <3>1, <3>3, <3>6
  <2>3. QED
    BY <2>1, <2>2
<1> HIDE DEF S
<1>3. <<s>> \o <<g>> = <<s, g>> /\ <<g>> \o <<d>> = <<g, d>>
      /\ <<s, g>> \o <<d>> = <<s, g, d>>
  BY <1>1, <1>2, AppendIsConcat
<1>4. <<s, g>> \o <<>> = <<s, g>> /\ <<>> \o <<g>> = <<g>> /\ <<g>> \o <<>> = <<g>>
  BY <1>1, ConcatEmptySeq
<1>5. QED
  BY <1>3, <1>4

\* The identities of a subsystem, in the order in which they are tried.
SubsysKeys(x1, x2, x3, x4) ==
  (IF x1 > 0 /\ x2 > 0 THEN <<Key("SUBSYSTEM", <<x1, x2, x3, x4>>)>> ELSE <<>>)
  \o <<Key("GEN_SUBSYSTEM", <<x3, x4, 0, 0>>)>>
  \o (IF x1 = x3 /\ x2 = x4 THEN <<Key("DEVICE", <<x1, x2, 0, 0>>)>> ELSE <<>>)

LEMMA BestOfSubsystem ==
  ASSUME EntriesNamed, NEW q, NEW n, NEW x1, NEW x2, NEW x3, NEW x4,
         NamesFor(q, n) = SubsysKeys(x1, x2, x3, x4)
  PROVE  BestName(q, n) = SubsysName(x1, x2, x3, x4)
<1>1. PICK s, g, d : /\ s = Key("SUBSYSTEM", <<x1, x2, x3, x4>>)
                     /\ g = Key("GEN_SUBSYSTEM", <<x3, x4, 0, 0>>)
                     /\ d = Key("DEVICE", <<x1, x2, 0, 0>>)
  OBVIOUS
<1> DEFINE keys == NamesFor(q, n)
           A == x1 > 0 /\ x2 > 0
           B == x1 = x3 /\ x2 = x4
           own == IF A THEN Lookup("SUBSYSTEM", <<x1, x2, x3, x4>>) ELSE NoName
           gen == Lookup("GEN_SUBSYSTEM", <<x3, x4, 0, 0>>)
           same == IF B THEN Lookup("DEVICE", <<x1, x2, 0, 0>>) ELSE NoName
<1>2. SubsysName(x1, x2, x3, x4) =
        IF own # NoName THEN own ELSE IF gen # NoName THEN gen ELSE same
  BY DEF SubsysName, Else
<1>3. /\ keys = (IF A THEN <<s>> ELSE <<>>) \o <<g>> \o (IF B THEN <<d>> ELSE <<>>)
  BY <1>1, Zenon DEF SubsysKeys
<1>4. /\ own # NoName <=> A /\ InList(s) /\ own # NoName
      /\ own # NoName => own = Named(s)
      /\ A /\ InList(s) => own # NoName
  BY <1>1, LookupIs
<1>5. /\ InList(g) => gen = Named(g) /\ gen # NoName
      /\ ~InList(g) => gen = NoName
  BY <1>1, LookupIs
<1>6. /\ B /\ InList(d) => same = Named(d)
      /\ ~(B /\ InList(d)) => same = NoName
  BY <1>1, LookupIs
<1> HIDE DEF own, gen, same, A, B, keys
<1>7. CASE A
  <2>1. keys[1] = s /\ keys[2] = g /\ Len(keys) = (IF B THEN 3 ELSE 2)
        /\ (B => keys[3] = d)
    <3>1. CASE B
      <4>3. keys = <<s>> \o <<g>> \o <<d>>
        BY <1>3, <1>7, <3>1
      <4>1. keys = <<s, g, d>>
        <5>1. <<s>> \o <<g>> \o <<d>> = <<s, g, d>>
          BY ShortConcats
        <5>2. QED
          BY <4>3, <5>1
      <4>2. QED
        BY <3>1, <4>1
    <3>2. CASE ~B
      <4>1. keys = <<s, g>>
        BY <1>3, <1>7, <3>2, ShortConcats
      <4>2. QED
        BY <3>2, <4>1
    <3>3. QED
      BY <3>1, <3>2
  <2>2. CASE InList(s)
    <3>1. BestName(q, n) = Named(s)
      BY <2>1, <2>2, BestIsFirst DEF keys
    <3>2. QED
      BY <1>2, <1>4, <1>7, <2>2, <3>1
  <2>3. CASE ~InList(s) /\ InList(g)
    <3>1. BestName(q, n) = Named(g)
      BY <2>1, <2>3, BestIsFirst DEF keys
    <3>2. QED
      BY <1>2, <1>4, <1>5, <2>3, <3>1
  <2>4. CASE ~InList(s) /\ ~InList(g) /\ B /\ InList(d)
    <3>1. BestName(q, n) = Named(d)
      BY <2>1, <2>4, BestIsFirst DEF keys
    <3>2. QED
      BY <1>2, <1>4, <1>5, <1>6, <2>4, <3>1
  <2>5. CASE ~InList(s) /\ ~InList(g) /\ ~(B /\ InList(d))
    <3>1. BestName(q, n) = NoName
      BY <2>1, <2>5, BestIsNone DEF keys
    <3>2. QED
      BY <1>2, <1>4, <1>5, <1>6, <2>5, <3>1
  <2>6. QED
    BY <2>2, <2>3, <2>4, <2>5
<1>8. CASE ~A
  <2>1. keys[1] = g /\ Len(keys) = (IF B THEN 2 ELSE 1) /\ (B => keys[2] = d)
    <3>1. CASE B
      <4>1. keys = <<g, d>>
        BY <1>3, <1>8, <3>1, ShortConcats
      <4>2. QED
        BY <3>1, <4>1
    <3>2. CASE ~B
      <4>1. keys = <<g>>
        BY <1>3, <1>8, <3>2, ShortConcats
      <4>2. QED
        BY <3>2, <4>1
    <3>3. QED
      BY <3>1, <3>2
  <2>2. own = NoName
    BY <1>8 DEF own
  <2>3. CASE InList(g)
    <3>1. BestName(q, n) = Named(g)
      BY <2>1, <2>3, BestIsFirst DEF keys
    <3>2. QED
      BY <1>2, <1>5, <2>2, <2>3, <3>1
  <2>4. CASE ~InList(g) /\ B /\ InList(d)
    <3>1. BestName(q, n) = Named(d)
      BY <2>1, <2>4, BestIsFirst DEF keys
    <3>2. QED
      BY <1>2, <1>5, <1>6, <2>2, <2>4, <3>1
  <2>5. CASE ~InList(g) /\ ~(B /\ InList(d))
    <3>1. BestName(q, n) = NoName
      BY <2>1, <2>5, BestIsNone DEF keys
    <3>2. QED
      BY <1>2, <1>5, <1>6, <2>2, <2>5, <3>1
  <2>6. QED
    BY <2>3, <2>4, <2>5
<1>9. QED
  BY <1>7, <1>8

\* What an answer of one or two names tells.
Tells(r, num) == num \in {r.nums[i] : i \in 1..Len(r.nums)}

LEMMA TellsOnes ==
  ASSUME NEW r, NEW x, NEW y
  PROVE  /\ r.nums = <<x>> => Tells(r, x)
         /\ r.nums = <<x, y>> => Tells(r, x) /\ Tells(r, y)
<1>1. ASSUME r.nums = <<x>> PROVE Tells(r, x)
  <2>1. 1 \in 1..Len(r.nums) /\ r.nums[1] = x
    BY <1>1
  <2>2. QED
    BY <2>1 DEF Tells
<1>2. ASSUME r.nums = <<x, y>> PROVE Tells(r, x) /\ Tells(r, y)
  <2>1. /\ 1 \in 1..Len(r.nums) /\ r.nums[1] = x
        /\ 2 \in 1..Len(r.nums) /\ r.nums[2] = y
    BY <1>2
  <2>2. QED
    BY <2>1 DEF Tells
<1>3. QED
  BY <1>1, <1>2

LEMMA FormatTells ==
  ASSUME NEW flags, NEW name, NEW num, NEW unknown
  PROVE  LET r == FormatName(flags, name, num, unknown)
         IN /\ r # NoReply => \/ Tells(r, num)
                              \/ Len(r.names) = 1 /\ r.names[1] = name /\ name # NoName
            /\ "NUMERIC" \notin flags /\ name # NoName => r.names = <<name>>
            /\ "MIXED" \in flags /\ r # NoReply => Tells(r, num)
            /\ name = NoName /\ r # NoReply => Tells(r, num)
<1>1. PICK r : r = FormatName(flags, name, num, unknown)
  OBVIOUS
<1>2. CASE "NO_NUMBERS" \in flags /\ name = NoName
  <2>1. r = NoReply
    BY <1>1, <1>2 DEF FormatName
  <2>2. QED
    BY <1>1, <1>2, <2>1
<1>3. CASE "NUMERIC" \in flags /\ ~("NO_NUMBERS" \in flags /\ name = NoName)
  <2>1. r.nums = <<num>>
    BY <1>1, <1>3 DEF FormatName
  <2>2. Tells(r, num)
    BY <2>1, TellsOnes
  <2>3. QED
    BY <1>1, <1>3, <2>2
<1>4. CASE "NUMERIC" \notin flags /\ "NO_NUMBERS" \notin flags /\ name = NoName
  <2>1. r.nums = <<num>>
    BY <1>1, <1>4 DEF FormatName
  <2>2. Tells(r, num)
    BY <2>1, TellsOnes
  <2>3. QED
    BY <1>1, <1>4, <2>2
<1>5. CASE "NUMERIC" \notin flags /\ name # NoName
  <2>1. r.names = <<name>> /\ ("MIXED" \in flags => r.nums = <<num>>)
    BY <1>1, <1>5 DEF FormatName
  <2>2. "MIXED" \in flags => Tells(r, num)
    BY <2>1, TellsOnes
  <2>3. Len(r.names) = 1 /\ r.names[1] = name
    BY <2>1
  <2>4. QED
    BY <1>1, <1>5, <2>1, <2>2, <2>3
<1>6. QED
  BY <1>2, <1>3, <1>4, <1>5

LEMMA PairTells ==
  ASSUME NEW flags, NEW v, NEW d, NEW x, NEW y
  PROVE  LET r == FormatPair(flags, v, d, <<x, y>>)
         IN /\ r # NoReply => \/ Tells(r, x)
                              \/ 1 <= Len(r.names) /\ r.names[1] = v
            /\ r # NoReply => \/ Tells(r, y)
                              \/ 2 <= Len(r.names) /\ r.names[2] = d
            /\ "NUMERIC" \notin flags /\ v # NoName /\ d # NoName
                 => r.names = <<v, d>>
<1>1. PICK r : r = FormatPair(flags, v, d, <<x, y>>)
  OBVIOUS
<1>2. CASE "NO_NUMBERS" \in flags /\ NoName \in {v, d}
  <2>1. r = NoReply
    BY <1>1, <1>2 DEF FormatPair
  <2>2. QED
    BY <1>1, <1>2, <2>1
<1>3. CASE "NUMERIC" \in flags /\ ~("NO_NUMBERS" \in flags /\ NoName \in {v, d})
  <2>1. r.nums = <<x, y>>
    BY <1>1, <1>3 DEF FormatPair
  <2>2. Tells(r, x) /\ Tells(r, y)
    BY <2>1, TellsOnes
  <2>3. QED
    BY <1>1, <1>3, <2>2
<1>4. CASE "NUMERIC" \notin flags /\ NoName \notin {v, d}
  <2>1. r.names = <<v, d>>
    BY <1>1, <1>4 DEF FormatPair
  <2>2. Len(r.names) = 2 /\ r.names[1] = v /\ r.names[2] = d
    BY <2>1
  <2>3. QED
    BY <1>1, <1>4, <2>1, <2>2
<1>5. CASE "NUMERIC" \notin flags /\ "NO_NUMBERS" \notin flags /\ v = NoName
  <2>1. r.nums = <<x, y>>
    BY <1>1, <1>5 DEF FormatPair
  <2>2. Tells(r, x) /\ Tells(r, y)
    BY <2>1, TellsOnes
  <2>3. QED
    BY <1>1, <1>5, <2>2
<1>6. CASE /\ "NUMERIC" \notin flags /\ "NO_NUMBERS" \notin flags
           /\ v # NoName /\ d = NoName
  <2>1. r.names = <<v>> /\ (r.nums = <<x, y>> \/ r.nums = <<y>>)
    <3>1. <<x, y>>[2] = y
      OBVIOUS
    <3>2. QED
      BY <1>1, <1>6, <3>1 DEF FormatPair
  <2>2. Tells(r, y) /\ Len(r.names) = 1 /\ r.names[1] = v
    BY <2>1, TellsOnes
  <2>3. QED
    BY <1>1, <1>6, <2>2
<1>7. QED
  BY <1>2, <1>3, <1>4, <1>5, <1>6

Identifies(q, r) ==
  r # NoReply =>
    \A n \in 1..Len(NumbersOf(q)) :
      \/ Tells(r, NumbersOf(q)[n])
      \/ n <= Len(r.names) /\ r.names[n] = BestName(q, n)
      \/ q.type = "PROGIF" /\ q.ids[1] = 257 /\ r.names = <<IdeModes(q.ids[2])>>
GivesNames(q, r) ==
  /\ "NUMERIC" \notin q.flags
  /\ \A n \in 1..Len(NumbersOf(q)) : BestName(q, n) # NoName
  => r.names = [n \in 1..Len(NumbersOf(q)) |-> BestName(q, n)]

LEMMA OneIsRight ==
  ASSUME NEW q, NEW num, NEW unknown, NumbersOf(q) = <<num>>
  PROVE  LET r == FormatName(q.flags, BestName(q, 1), num, unknown)
         IN Identifies(q, r) /\ GivesNames(q, r)
<1>1. PICK r : r = FormatName(q.flags, BestName(q, 1), num, unknown)
  OBVIOUS
<1>2. Len(NumbersOf(q)) = 1 /\ NumbersOf(q)[1] = num
  OBVIOUS
<1>3. /\ r # NoReply => \/ Tells(r, num)
                        \/ Len(r.names) = 1 /\ r.names[1] = BestName(q, 1)
      /\ "NUMERIC" \notin q.flags /\ BestName(q, 1) # NoName
           => r.names = <<BestName(q, 1)>>
  BY <1>1, FormatTells
<1>4. Identifies(q, r)
  BY <1>2, <1>3 DEF Identifies
<1>5. GivesNames(q, r)
  <2> SUFFICES ASSUME "NUMERIC" \notin q.flags, BestName(q, 1) # NoName
               PROVE  r.names = [n \in 1..1 |-> BestName(q, n)]
    BY <1>2 DEF GivesNames
  <2>1. r.names = <<BestName(q, 1)>>
    BY <1>3
  <2>2. <<BestName(q, 1)>> = [n \in 1..1 |-> BestName(q, n)]
    OBVIOUS
  <2>3. QED
    BY <2>1, <2>2
<1>6. QED
  BY <1>1, <1>4, <1>5

LEMMA TwoAreRight ==
  ASSUME NEW q, NEW x, NEW y, NumbersOf(q) = <<x, y>>
  PROVE  LET r == FormatPair(q.flags, BestName(q, 1), BestName(q, 2), <<x, y>>)
         IN Identifies(q, r) /\ GivesNames(q, r)
<1>1. PICK r : r = FormatPair(q.flags, BestName(q, 1), BestName(q, 2), <<x, y>>)
  OBVIOUS
<1>2. Len(NumbersOf(q)) = 2 /\ NumbersOf(q)[1] = x /\ NumbersOf(q)[2] = y
  OBVIOUS
<1>3. /\ r # NoReply => Tells(r, x) \/ (1 <= Len(r.names) /\ r.names[1] = BestName(q, 1))
      /\ r # NoReply => Tells(r, y) \/ (2 <= Len(r.names) /\ r.names[2] = BestName(q, 2))
  BY <1>1, PairTells
<1>4. Identifies(q, r)
  BY <1>2, <1>3 DEF Identifies
<1>5. GivesNames(q, r)
  <2> SUFFICES ASSUME "NUMERIC" \notin q.flags,
                      BestName(q, 1) # NoName, BestName(q, 2) # NoName
               PROVE  r.names = [n \in 1..2 |-> BestName(q, n)]
    BY <1>2 DEF GivesNames
  <2>1. r.names = <<BestName(q, 1), BestName(q, 2)>>
    BY <1>1, PairTells
  <2>2. <<BestName(q, 1), BestName(q, 2)>> = [n \in 1..2 |-> BestName(q, n)]
    OBVIOUS
  <2>3. QED
    BY <2>1, <2>2
<1>6. QED
  BY <1>1, <1>4, <1>5

LEMMA ClassIsRight ==
  ASSUME EntriesNamed, NEW q, NEW class, NumbersOf(q) = <<class>>,
         BestName(q, 1) = Lookup("SUBCLASS", <<class \div 256, class % 256, 0, 0>>)
  PROVE  LET r == ClassReply(q.flags, class)
         IN Identifies(q, r) /\ GivesNames(q, r)
<1> DEFINE sub == Lookup("SUBCLASS", <<class \div 256, class % 256, 0, 0>>)
           base == Lookup("CLASS", <<class \div 256, 0, 0, 0>>)
           more == IF sub = NoName /\ base # NoName /\ "NUMERIC" \notin q.flags
                   THEN {"MIXED"} ELSE {}
           flags == q.flags \cup more
           r == FormatName(flags, Else(sub, base), class, "Class")
<1>1. r = ClassReply(q.flags, class)
  BY DEF ClassReply
<1>2. Len(NumbersOf(q)) = 1 /\ NumbersOf(q)[1] = class /\ BestName(q, 1) = sub
  OBVIOUS
<1> HIDE DEF sub, base
<1>3. CASE sub # NoName
  <2>1. flags = q.flags /\ r = FormatName(q.flags, BestName(q, 1), class, "Class")
    BY <1>2, <1>3 DEF Else
  <2>2. QED
    BY <1>1, <2>1, OneIsRight
<1>4. CASE sub = NoName
  <2>1. r # NoReply => Tells(r, class)
    <3>1. CASE base = NoName
      BY <1>4, <3>1, FormatTells DEF Else
    <3>2. CASE base # NoName /\ "NUMERIC" \notin q.flags
      <4>1. "MIXED" \in flags
        BY <1>4, <3>2
      <4>2. QED
        BY <4>1, FormatTells
    <3>3. CASE base # NoName /\ "NUMERIC" \in q.flags
      <4>1. r.nums = <<class>>
        BY <1>4, <3>3 DEF FormatName, Else
      <4>2. QED
        BY <4>1, TellsOnes
    <3>4. QED
      BY <3>1, <3>2, <3>3
  <2> HIDE DEF r
  <2>2. Identifies(q, r)
    BY <1>2, <2>1 DEF Identifies
  <2>3. GivesNames(q, r)
    BY <1>2, <1>4 DEF GivesNames
  <2>4. QED
    BY <1>1, <2>2, <2>3
<1>5. QED
  BY <1>3, <1>4

LEMMA ProgIfIsRight ==
  ASSUME EntriesNamed, NEW q, NEW class, NEW pif, NumbersOf(q) = <<pif>>,
         q.type = "PROGIF", q.ids[1] = class, q.ids[2] = pif,
         BestName(q, 1) = Lookup("PROGIF", <<class \div 256, class % 256, pif, 0>>)
  PROVE  LET r == ProgIfReply(q.flags, class, pif)
         IN Identifies(q, r) /\ GivesNames(q, r)
<1> DEFINE known == Lookup("PROGIF", <<class \div 256, class % 256, pif, 0>>)
           ide == class = 257 /\ (pif \div 16) % 8 = 0
           name == IF known = NoName /\ ide THEN IdeModes(pif) ELSE known
           r == FormatName(q.flags, name, pif, "ProgIf")
<1>1. r = ProgIfReply(q.flags, class, pif)
  BY DEF ProgIfReply
<1>2. Len(NumbersOf(q)) = 1 /\ NumbersOf(q)[1] = pif /\ BestName(q, 1) = known
  OBVIOUS
<1> HIDE DEF known
<1>3. CASE ~(known = NoName /\ ide)
  <2>1. r = FormatName(q.flags, BestName(q, 1), pif, "ProgIf")
    BY <1>2, <1>3
  <2>2. QED
    BY <1>1, <2>1, OneIsRight
<1>4. CASE known = NoName /\ ide
  <2>1. r = FormatName(q.flags, IdeModes(pif), pif, "ProgIf")
    BY <1>4
  <2>2. r # NoReply => Tells(r, pif) \/ r.names = <<IdeModes(pif)>>
    <3>1. CASE "NUMERIC" \in q.flags \/ IdeModes(pif) = NoName
      <4>1. r = NoReply \/ r.nums = <<pif>>
        BY <2>1, <3>1 DEF FormatName
      <4>2. QED
        BY <4>1, TellsOnes
    <3>2. CASE ~("NUMERIC" \in q.flags \/ IdeModes(pif) = NoName)
      BY <2>1, <3>2 DEF FormatName
    <3>3. QED
      BY <3>1, <3>2
  <2> HIDE DEF r
  <2>3. Identifies(q, r)
    BY <1>2, <1>4, <2>2 DEF Identifies
  <2>4. GivesNames(q, r)
    BY <1>2, <1>4 DEF GivesNames
  <2>5. QED
    BY <1>1, <2>3, <2>4
<1>5. QED
  BY <1>3, <1>4

LEMMA PairIs ==
  ASSUME NEW x \in Seq(Nat), Len(x) = 2
  PROVE  x = <<x[1], x[2]>>
OBVIOUS

LEMMA FourAre ==
  ASSUME NEW x \in Seq(Nat), Len(x) = 4
  PROVE  x = <<x[1], x[2], x[3], x[4]>>
OBVIOUS

LEMMA ReplyIsRight ==
  ASSUME EntriesNamed, TypedQuestion(question)
  PROVE  LET r == Reply(question.type, question.ids, question.flags)
         IN Identifies(question, r) /\ GivesNames(question, r)
<1> DEFINE q == question
           x == q.ids
           R == Reply(q.type, q.ids, q.flags)
<1>1. CASE q.type \in {"VENDOR", "SUBSYSTEM VENDOR"}
  <2>1. NumbersOf(q) = <<x[1]>>
    BY <1>1, Zenon DEF NumbersOf
  <2>2. NamesFor(q, 1) = <<Key("VENDOR", <<x[1], 0, 0, 0>>)>>
    BY <1>1, Zenon DEF NamesFor
  <2>3. BestName(q, 1) = Lookup("VENDOR", <<x[1], 0, 0, 0>>)
    BY <2>2, BestOfOne
  <2>4. \/ R = FormatName(q.flags, Lookup("VENDOR", <<x[1], 0, 0, 0>>), x[1], "Vendor")
        \/ R = FormatName(q.flags, Lookup("VENDOR", <<x[1], 0, 0, 0>>), x[1],
                          "Unknown vendor")
    BY <1>1, Zenon DEF Reply
  <2>5. QED
    BY <2>1, <2>3, <2>4, OneIsRight
<1>2. CASE q.type = "DEVICE"
  <2>1. NumbersOf(q) = <<x[2]>>
    BY <1>2, Zenon DEF NumbersOf
  <2>2. NamesFor(q, 1) = <<Key("DEVICE", <<x[1], x[2], 0, 0>>)>>
    BY <1>2, Zenon DEF NamesFor
  <2>3. BestName(q, 1) = Lookup("DEVICE", <<x[1], x[2], 0, 0>>)
    BY <2>2, BestOfOne
  <2>4. R = FormatName(q.flags, Lookup("DEVICE", <<x[1], x[2], 0, 0>>), x[2], "Device")
    BY <1>2, Zenon DEF Reply
  <2>5. QED
    BY <2>1, <2>3, <2>4, OneIsRight
<1>3. CASE q.type = "VENDOR DEVICE"
  <2>0. x \in Seq(Nat) /\ Len(x) = 2
    BY <1>3 DEF TypedQuestion
  <2>1. NumbersOf(q) = x
    BY <1>3, Zenon DEF NumbersOf
  <2>2. x = <<x[1], x[2]>>
    BY <2>0, PairIs
  <2>3. NamesFor(q, 1) = <<Key("VENDOR", <<x[1], 0, 0, 0>>)>>
    BY <1>3, Zenon DEF NamesFor
  <2>4. NamesFor(q, 2) = <<Key("DEVICE", <<x[1], x[2], 0, 0>>)>>
    BY <1>3, TwoIsNotOne, Zenon DEF NamesFor
  <2>5. /\ BestName(q, 1) = Lookup("VENDOR", <<x[1], 0, 0, 0>>)
        /\ BestName(q, 2) = Lookup("DEVICE", <<x[1], x[2], 0, 0>>)
    BY <2>3, <2>4, BestOfOne
  <2>6. R = FormatPair(q.flags, Lookup("VENDOR", <<x[1], 0, 0, 0>>),
                       Lookup("DEVICE", <<x[1], x[2], 0, 0>>), x)
    BY <1>3, Zenon DEF Reply
  <2>7. NumbersOf(q) = <<x[1], x[2]>>
    BY <2>1, <2>2
  <2>8. R = FormatPair(q.flags, BestName(q, 1), BestName(q, 2), <<x[1], x[2]>>)
    BY <2>2, <2>5, <2>6
  <2>9. QED
    BY <2>7, <2>8, TwoAreRight
<1>4. CASE q.type \in {"SUBSYSTEM DEVICE", "SUBSYSTEM VENDOR DEVICE"}
  <2>1. x = <<x[1], x[2], x[3], x[4]>>
    BY <1>4, FourAre DEF TypedQuestion
  <2>2. CASE q.type = "SUBSYSTEM DEVICE"
    <3>1. NumbersOf(q) = <<x[4]>>
      BY <2>2, Zenon DEF NumbersOf
    <3>2. NamesFor(q, 1) = SubsysKeys(x[1], x[2], x[3], x[4])
      <4>1. NamesFor(q, 1) =
              (IF x[1] > 0 /\ x[2] > 0 THEN <<Key("SUBSYSTEM", x)>> ELSE <<>>)
              \o <<Key("GEN_SUBSYSTEM", <<x[3], x[4], 0, 0>>)>>
              \o (IF x[1] = x[3] /\ x[2] = x[4]
                  THEN <<Key("DEVICE", <<x[1], x[2], 0, 0>>)>> ELSE <<>>)
        BY <2>2, Zenon DEF NamesFor
      <4>2. Key("SUBSYSTEM", x) = Key("SUBSYSTEM", <<x[1], x[2], x[3], x[4]>>)
        BY <2>1, Zenon
      <4>3. QED
        BY <4>1, <4>2, Zenon DEF SubsysKeys
    <3>3. BestName(q, 1) = SubsysName(x[1], x[2], x[3], x[4])
      BY <3>2, BestOfSubsystem
    <3>4. R = FormatName(q.flags, SubsysName(x[1], x[2], x[3], x[4]), x[4], "Device")
      BY <2>2, Zenon DEF Reply
    <3>5. QED
      BY <3>1, <3>3, <3>4, OneIsRight
  <2>3. CASE q.type = "SUBSYSTEM VENDOR DEVICE"
    <3>1. NumbersOf(q) = <<x[3], x[4]>>
      BY <2>3, Zenon DEF NumbersOf
    <3>2. NamesFor(q, 1) = <<Key("VENDOR", <<x[3], 0, 0, 0>>)>>
      BY <2>3, Zenon DEF NamesFor
    <3>3. NamesFor(q, 2) = SubsysKeys(x[1], x[2], x[3], x[4])
      <4>1. NamesFor(q, 2) =
              (IF x[1] > 0 /\ x[2] > 0 THEN <<Key("SUBSYSTEM", x)>> ELSE <<>>)
              \o <<Key("GEN_SUBSYSTEM", <<x[3], x[4], 0, 0>>)>>
              \o (IF x[1] = x[3] /\ x[2] = x[4]
                  THEN <<Key("DEVICE", <<x[1], x[2], 0, 0>>)>> ELSE <<>>)
        BY <2>3, TwoIsNotOne, Zenon DEF NamesFor
      <4>2. Key("SUBSYSTEM", x) = Key("SUBSYSTEM", <<x[1], x[2], x[3], x[4]>>)
        BY <2>1, Zenon
      <4>3. QED
        BY <4>1, <4>2, Zenon DEF SubsysKeys
    <3>4. BestName(q, 1) = Lookup("VENDOR", <<x[3], 0, 0, 0>>)
      BY <3>2, BestOfOne
    <3>5. BestName(q, 2) = SubsysName(x[1], x[2], x[3], x[4])
      BY <3>3, BestOfSubsystem
    <3>6. R = FormatPair(q.flags, Lookup("VENDOR", <<x[3], 0, 0, 0>>),
                         SubsysName(x[1], x[2], x[3], x[4]), <<x[3], x[4]>>)
      BY <2>3, Zenon DEF Reply
    <3>7. QED
      BY <3>1, <3>4, <3>5, <3>6, TwoAreRight
  <2>4. QED
    BY <1>4, <2>2, <2>3
<1>5. CASE q.type = "CLASS"
  <2>1. NumbersOf(q) = <<x[1]>>
    BY <1>5, Zenon DEF NumbersOf
  <2>2. NamesFor(q, 1) = <<Key("SUBCLASS", <<x[1] \div 256, x[1] % 256, 0, 0>>)>>
    BY <1>5, Zenon DEF NamesFor
  <2>3. BestName(q, 1) = Lookup("SUBCLASS", <<x[1] \div 256, x[1] % 256, 0, 0>>)
    BY <2>2, BestOfOne
  <2>4. R = ClassReply(q.flags, x[1])
    BY <1>5, Zenon DEF Reply
  <2>5. QED
    BY <2>1, <2>3, <2>4, ClassIsRight
<1>6. CASE q.type = "PROGIF"
  <2>1. NumbersOf(q) = <<x[2]>>
    BY <1>6, Zenon DEF NumbersOf
  <2>2. NamesFor(q, 1) = <<Key("PROGIF", <<x[1] \div 256, x[1] % 256, x[2], 0>>)>>
    BY <1>6, Zenon DEF NamesFor
  <2>3. BestName(q, 1) = Lookup("PROGIF", <<x[1] \div 256, x[1] % 256, x[2], 0>>)
    BY <2>2, BestOfOne
  <2>4. R = ProgIfReply(q.flags, x[1], x[2])
    BY <1>6, Zenon DEF Reply
  <2>5. QED
    BY <1>6, <2>1, <2>3, <2>4, ProgIfIsRight
<1>7. QED
  BY <1>1, <1>2, <1>3, <1>4, <1>5, <1>6 DEF TypedQuestion

\* A client that has asked has been told what the list says.
AnswerInv ==
  /\ \A q \in questions : TypedQuestion(q)
  /\ question # NoQuestion => TypedQuestion(question)
  /\ listing = "off" => question = NoQuestion /\ reply = NoReply
  /\ listing \in {"reading", "answer"} => question # NoQuestion
  /\ listing = "idle" =>
       IF question = NoQuestion THEN reply = NoReply
       ELSE Identifies(question, reply) /\ GivesNames(question, reply)

LEMMA AnswersAreRight == AnswerInv => AnswerIdentifies /\ AnswerNames
<1> SUFFICES ASSUME AnswerInv, listing = "idle"
             PROVE  AnswerIdentifies /\ AnswerNames
  BY DEF AnswerIdentifies, AnswerNames
<1>1. CASE question = NoQuestion
  <2>1. reply = NoReply
    BY <1>1 DEF AnswerInv
  <2>2. QED
    BY <1>1, <2>1 DEF AnswerIdentifies, AnswerNames
<1>2. CASE question # NoQuestion
  <2>1. Identifies(question, reply) /\ GivesNames(question, reply)
    BY <1>2 DEF AnswerInv
  <2>2. AnswerIdentifies
    BY <2>1 DEF AnswerIdentifies, Identifies, Tells
  <2>3. AnswerNames
    BY <2>1 DEF AnswerNames, GivesNames
  <2>4. QED
    BY <2>2, <2>3
<1>3. QED
  BY <1>1, <1>2

----------------------------------------------------------------------------
LEMMA OverIs ==
  ASSUME NEW i, NEW n
  PROVE  Over(i, n) = IF Above(i, n) = {} THEN 0 ELSE LastOf(Above(i, n))
BY Zenon DEF Over, Above, LastOf

LEMMA AboveStays ==
  ASSUME list' = list, NEW i, NEW n
  PROVE  Over(i, n)' = Over(i, n)
<1>1. Above(i, n)' = Above(i, n)
  BY DEF Above, Said
<1>2. Over(i, n)' = IF Above(i, n)' = {} THEN 0 ELSE LastOf(Above(i, n)')
  BY Zenon DEF Over, Above, LastOf
<1>3. QED
  BY <1>1, <1>2, OverIs, Zenon

\* Meaning, of the lines l, the block b and the parent p.
NumIn(l, i, k) == Hex[l[i].words[k]].value
MeaningIn(l, i, b, p) ==
  LET n == l[i].nest
      head == l[b].words[1]
      Rest(k) == SubSeq(l[i].words, k + 1, Len(l[i].words))
      Makes(c, ids, k) == [key |-> Key(c, ids), name |-> Rest(k)]
  IN IF head \in {"A", "B"} \/ (head = "S" /\ n = 0) THEN Nothing
     ELSE IF head = "S"
     THEN Makes("GEN_SUBSYSTEM", <<NumIn(l, b, 2), NumIn(l, i, 1), 0, 0>>, 1)
     ELSE IF head = "C"
     THEN CASE n = 0 -> Makes("CLASS", <<NumIn(l, b, 2), 0, 0, 0>>, 2)
            [] n = 1 -> Makes("SUBCLASS", <<NumIn(l, b, 2), NumIn(l, i, 1), 0, 0>>, 1)
            [] n = 2 -> Makes("PROGIF", <<NumIn(l, b, 2), IF p = 0 THEN 0 ELSE NumIn(l, p, 1),
                                          NumIn(l, i, 1), 0>>, 1)
     ELSE CASE n = 0 -> Makes("VENDOR", <<NumIn(l, b, 1), 0, 0, 0>>, 1)
            [] n = 1 -> Makes("DEVICE", <<NumIn(l, b, 1), NumIn(l, i, 1), 0, 0>>, 1)
            [] n = 2 -> Makes("SUBSYSTEM", <<NumIn(l, b, 1), NumIn(l, p, 1),
                                             NumIn(l, i, 1), NumIn(l, i, 2)>>, 2)

LEMMA MeaningIs ==
  ASSUME NEW i
  PROVE  Meaning(i) = MeaningIn(list, i, BlockOf(i), Parent(i))
BY Zenon DEF Meaning, MeaningIn, BlockHead, Num, NumIn

LEMMA MeaningStays ==
  ASSUME list' = list, NEW i
  PROVE  Meaning(i)' = Meaning(i)
<1>1. Over(i, 0)' = Over(i, 0) /\ Over(i, 1)' = Over(i, 1)
  BY AboveStays
<1>2. BlockOf(i)' = BlockOf(i) /\ Parent(i)' = Parent(i)
  BY <1>1 DEF BlockOf, Parent
<1>3. Meaning(i)' = MeaningIn(list', i, BlockOf(i)', Parent(i)')
  BY Zenon DEF Meaning, MeaningIn, BlockHead, Num, NumIn, Nothing, Key
<1>4. QED
  BY <1>2, <1>3, MeaningIs, Zenon

LEMMA LastExists ==
  ASSUME NEW i \in Nat, NEW S \in SUBSET (1..i - 1), S # {}
  PROVE  LastOf(S) \in S /\ \A k \in S : k <= LastOf(S)
<1>1. PICK T : T = {i - j : j \in S}
  OBVIOUS
<1>2. T \in SUBSET Nat /\ T # {}
  <2>1. \A j \in S : j \in 1..i - 1
    OBVIOUS
  <2>2. \A j \in 1..i - 1 : i - j \in Nat
    OBVIOUS
  <2>3. QED
    BY <1>1, <2>1, <2>2
<1>3. PICK t \in T : \A u \in T : t <= u
  BY <1>2, LeastExists
<1>4. PICK j \in S : t = i - j
  BY <1>1, <1>3
<1>5. \A k \in S : k <= j
  <2>1. ASSUME NEW k \in S PROVE k <= j
    <3>1. i - k \in T
      BY <1>1
    <3>2. i - j <= i - k
      BY <1>3, <1>4, <3>1
    <3>3. i \in Int /\ j \in Int /\ k \in Int
      OBVIOUS
    <3>4. QED
      BY <3>2, <3>3
  <2>2. QED
    BY <2>1
<1>6. QED
  BY <1>4, <1>5 DEF LastOf

LEMMA OverBelow ==
  ASSUME NEW i \in Nat \ {0}, NEW n
  PROVE  Over(i, n) \in 0..i - 1
<1>1. Above(i, n) \in SUBSET (1..i - 1)
  BY DEF Above
<1>2. CASE Above(i, n) = {}
  <2>1. Over(i, n) = 0
    BY <1>2, OverIs
  <2>2. QED
    BY <2>1
<1>3. CASE Above(i, n) # {}
  <2>1. LastOf(Above(i, n)) \in 1..i - 1
    BY <1>1, <1>3, LastExists
  <2>2. Over(i, n) = LastOf(Above(i, n))
    BY <1>3, OverIs
  <2>3. QED
    BY <2>1, <2>2
<1>4. QED
  BY <1>2, <1>3

\* The last line on a level, one line further down.
LEMMA OverNext ==
  ASSUME NEW i \in Nat \ {0}, NEW n
  PROVE  Over(i + 1, n) = IF Said(i) /\ list[i].nest = n THEN i ELSE Over(i, n)
<1>1. (i + 1) - 1 = i /\ i + 1 \in Nat
  OBVIOUS
<1>2. CASE Said(i) /\ list[i].nest = n
  <2>1. PICK S : S = Above(i + 1, n)
    OBVIOUS
  <2>2. S \in SUBSET (1..i) /\ i \in S
    BY <1>1, <1>2, <2>1 DEF Above
  <2>3. LastOf(S) \in S /\ \A k \in S : k <= LastOf(S)
    BY <1>1, <2>2, LastExists
  <2>4. LastOf(S) = i
    <3>1. LastOf(S) \in 1..i /\ i <= LastOf(S)
      BY <2>2, <2>3
    <3>2. QED
      BY <3>1
  <2>5. QED
    BY <1>2, <2>1, <2>2, <2>4, OverIs
<1>3. CASE ~(Said(i) /\ list[i].nest = n)
  <2>1. Above(i + 1, n) = Above(i, n)
    <3>1. \A j \in 1..i : j \in 1..i - 1 \/ j = i
      OBVIOUS
    <3>2. 1..i - 1 \subseteq 1..i
      OBVIOUS
    <3>3. QED
      BY <1>1, <1>3, <3>1, <3>2 DEF Above
  <2>2. QED
    BY <1>3, <2>1, OverIs
<1>4. QED
  BY <1>2, <1>3

LEMMA PlaceNext ==
  ASSUME NEW i \in Nat \ {0}
  PROVE  /\ Said(i) /\ list[i].nest = 0
              => BlockAt(i + 1) = i /\ ParentAt(i + 1) = 0 /\ BlockOf(i) = i
         /\ Said(i) /\ list[i].nest = 1
              => BlockAt(i + 1) = BlockAt(i) /\ ParentAt(i + 1) = i
         /\ ~(Said(i) /\ list[i].nest \in {0, 1})
              => BlockAt(i + 1) = BlockAt(i) /\ ParentAt(i + 1) = ParentAt(i)
         /\ list[i].nest # 0 => BlockOf(i) = BlockAt(i) /\ Parent(i) = ParentAt(i)
<1>1. Over(i, 0) \in 0..i - 1 /\ Over(i, 1) \in 0..i - 1
  BY OverBelow
<1>2. Over(i + 1, 0) = IF Said(i) /\ list[i].nest = 0 THEN i ELSE Over(i, 0)
  BY OverNext
<1>3. Over(i + 1, 1) = IF Said(i) /\ list[i].nest = 1 THEN i ELSE Over(i, 1)
  BY OverNext
<1>4. ASSUME Said(i), list[i].nest = 0
      PROVE  BlockAt(i + 1) = i /\ ParentAt(i + 1) = 0 /\ BlockOf(i) = i
  BY <1>1, <1>2, <1>3, <1>4 DEF BlockAt, ParentAt, BlockOf
<1>5. ASSUME Said(i), list[i].nest = 1
      PROVE  BlockAt(i + 1) = BlockAt(i) /\ ParentAt(i + 1) = i
  BY <1>1, <1>2, <1>3, <1>5 DEF BlockAt, ParentAt
<1>6. ASSUME ~(Said(i) /\ list[i].nest \in {0, 1})
      PROVE  BlockAt(i + 1) = BlockAt(i) /\ ParentAt(i + 1) = ParentAt(i)
  BY <1>2, <1>3, <1>6 DEF BlockAt, ParentAt
<1>7. ASSUME list[i].nest # 0
      PROVE  BlockOf(i) = BlockAt(i) /\ Parent(i) = ParentAt(i)
  BY <1>7 DEF BlockAt, ParentAt, BlockOf, Parent
<1>8. QED
  BY <1>4, <1>5, <1>6, <1>7

Steps == Reading /\ list' = list /\ lino' = lino + 1

LEMMA TakenNext ==
  ASSUME ParseInv, Steps
  PROVE  /\ Taken = {i \in 1..lino : Said(i)}
         /\ lino + 1 \notin Taken
         /\ Taken' = IF Said(lino + 1) /\ error' = "" THEN Taken \cup {lino + 1} ELSE Taken
         /\ \A i : Meaning(i)' = Meaning(i)
         /\ lino \in Nat
<1>1. error = "" /\ lino \in Nat
  <2>1. ParseTypes /\ listing = "reading"
    BY DEF ParseInv, Steps, Reading
  <2>2. list \in FilesOfLines /\ lino \in 0..Len(list)
    BY <2>1 DEF ParseTypes
  <2>3. Len(list) \in Nat
    BY <2>2, LenProperties DEF FilesOfLines
  <2>4. lino \in Nat
    BY <2>2, <2>3
  <2>5. error = ""
    BY <2>1 DEF ParseTypes
  <2>6. QED
    BY <2>4, <2>5
<1>2. Taken = {i \in 1..lino : Said(i)}
  BY <1>1 DEF Taken
<1>3. Taken' = {i \in 1..lino + 1 : Said(i) /\ (i = lino + 1 => error' = "")}
  BY DEF Taken, Steps, Said
<1>4. 1..lino + 1 = 1..lino \cup {lino + 1} /\ lino + 1 \notin 1..lino
  <2>1. PICK k \in Nat : k = lino
    BY <1>1
  <2>2. 1..k + 1 = 1..k \cup {k + 1} /\ k + 1 \notin 1..k
    OBVIOUS
  <2>3. QED
    BY <2>1, <2>2
<1>5. Taken' = IF Said(lino + 1) /\ error' = "" THEN Taken \cup {lino + 1} ELSE Taken
  BY <1>2, <1>3, <1>4
<1>6. \A i : Meaning(i)' = Meaning(i)
  BY MeaningStays DEF Steps
<1>7. QED
  BY <1>1, <1>2, <1>4, <1>5, <1>6

LEMMA NothingAdded ==
  ASSUME ParseInv, Steps, UNCHANGED <<entries, error>>,
         ~Said(lino + 1) \/ Meaning(lino + 1) = Nothing
  PROVE  EntriesInv'
<1>1. EntriesInv /\ error = ""
  BY DEF ParseInv, ParseTypes, Steps, Reading
<1>2. \A i : Meaning(i)' = Meaning(i)
  BY TakenNext
<1>3. Meant(Taken)' = {i \in Taken' : Meaning(i) # Nothing}
  BY <1>2 DEF Meant, Nothing, Key
<1>4. Meant(Taken)' = Meant(Taken)
  BY <1>3, TakenNext DEF Meant
<1>5. QED
  BY <1>1, <1>2, <1>4 DEF EntriesInv

LEMMA NotTaken ==
  ASSUME ParseInv, Steps, entries' = entries, error' # "",
         error' = "Duplicate entry" =>
           \E i \in Meant(Taken) : Meaning(i).key = Meaning(lino + 1).key
  PROVE  EntriesInv'
<1>1. EntriesInv
  BY DEF ParseInv
<1>2. \A i : Meaning(i)' = Meaning(i)
  BY TakenNext
<1>3. Meant(Taken)' = {i \in Taken' : Meaning(i) # Nothing}
  BY <1>2 DEF Meant, Nothing, Key
<1>4. Meant(Taken)' = Meant(Taken)
  BY <1>3, TakenNext DEF Meant
<1>5. QED
  BY <1>1, <1>2, <1>4 DEF EntriesInv, Steps

LEMMA NamesAreWords ==
  ASSUME NEW w \in Seq(Words), NEW n \in Nat
  PROVE  SubSeq(w, n + 1, Len(w)) # NoName
<1> SUFFICES ASSUME SubSeq(w, n + 1, Len(w)) = NoName
             PROVE  FALSE
  OBVIOUS
<1>1. PICK s : s = SubSeq(w, n + 1, Len(w))
  OBVIOUS
<1>0. s = NoName
  BY <1>1
<1>2. Len(s) = 1 /\ s[1] = ""
  BY <1>0 DEF NoName
<1>3. /\ s \in Seq(Words)
      /\ Len(s) = IF n + 1 <= Len(w) THEN Len(w) - (n + 1) + 1 ELSE 0
  BY <1>1, SubSeqProperties
<1>4. "" \in Words
  <2>0. 1 \in 1..Len(s)
    <3>1. 1 \in 1..1
      OBVIOUS
    <3>2. QED
      BY <1>2, <3>1
  <2>1. s[1] \in Words
    BY <2>0, <1>3, ElementOfSeq
  <2>2. QED
    BY <1>2, <2>1
<1>5. QED
  BY <1>4, ListAssumption DEF Words, TooLong

LEMMA LineTyped ==
  ASSUME ParseInv, Steps
  PROVE  /\ lino + 1 \in 1..Len(list) /\ Len(list) \in Nat /\ lino + 1 \in Nat \ {0}
         /\ Line.words \in Seq(Words) /\ Line.nest \in Nat
         /\ Line = list[lino + 1]
         /\ (Said(lino + 1) <=> Line.words # <<>>)
<1>1. list \in FilesOfLines /\ lino \in 0..Len(list) /\ lino < Len(list)
  BY DEF ParseInv, ParseTypes, Steps, Reading
<1>2. Len(list) \in Nat
  BY <1>1, LenProperties DEF FilesOfLines
<1>3. lino + 1 \in 1..Len(list) /\ lino + 1 \in Nat \ {0}
  BY <1>1, <1>2
<1>4. list[lino + 1] \in [nest : Nat, words : Seq(Words)]
  BY <1>1, <1>3, ElementOfSeq DEF FilesOfLines
<1>5. QED
  BY <1>2, <1>3, <1>4 DEF Line, Said

LEMMA Bounds ==
  ASSUME NEW m \in Nat, NEW k \in 1..m
  PROVE  k \in 0..m /\ k # 0
OBVIOUS

LEMMA FirstOfFour == 1 \in 1..4
OBVIOUS

LEMMA LevelsDiffer == 0 # 1 /\ 0 # 2 /\ 1 # 0 /\ 1 # 2 /\ 2 # 0 /\ 2 # 1
OBVIOUS

LEMMA UpToNext ==
  ASSUME NEW i \in Nat \ {0}
  PROVE  1..i - 1 \subseteq 1..(i + 1) - 1 /\ i \in 1..(i + 1) - 1
OBVIOUS

LEMMA TypesStay ==
  ASSUME ParseInv, Steps, DOMAIN id' = 1..4,
         \/ UNCHANGED <<error, listing>>
         \/ error' # "" /\ listing' = "quit"
  PROVE  ParseTypes'
<1>1. ParseTypes /\ listing = "reading" /\ list' = list /\ lino' = lino + 1
  BY DEF ParseInv, Steps, Reading
<1>2. lino' \in 0..Len(list') /\ lino' # 0
  <2>1. lino + 1 \in 1..Len(list) /\ Len(list) \in Nat
    BY LineTyped
  <2>2. PICK k : k = lino + 1
    OBVIOUS
  <2>3. PICK m \in Nat : m = Len(list)
    BY <2>1
  <2>4. k \in 1..m
    BY <2>1, <2>2, <2>3
  <2>5. k \in 0..m /\ k # 0
    BY <2>4, Bounds
  <2>6. QED
    BY <1>1, <2>2, <2>3, <2>5
<1>3. QED
  BY <1>1, <1>2 DEF ParseTypes

\* An entry that does not go in stops the program, one that goes in is what the
\* line means.
LEMMA Added ==
  ASSUME ParseInv, Steps, NEW c, NEW ids, NEW n \in Nat, Add(c, ids, n),
         c # "none", DOMAIN ids = 1..4, Said(lino + 1),
         Meaning(lino + 1) =
           [key |-> Key(c, ids), name |-> SubSeq(Line.words, n + 1, Len(Line.words))]
  PROVE  /\ ParseTypes' /\ EntriesInv'
         /\ listing' = "reading" => cat' = c /\ id' = ids
<1> DEFINE name == SubSeq(Line.words, n + 1, Len(Line.words))
<1>1. ParseTypes /\ EntriesInv /\ listing = "reading" /\ error = ""
  BY DEF ParseInv, ParseTypes, Steps, Reading
<1>2. name # NoName
  BY LineTyped, NamesAreWords
<1>3. Meaning(lino + 1).key = Key(c, ids) /\ Meaning(lino + 1).name = name
  OBVIOUS
<1>4. Meaning(lino + 1) # Nothing
  BY <1>3 DEF Nothing, Key
<1> HIDE DEF name
<1>5. CASE name = <<>>
  <2>1. Stop("Parse error")
    BY <1>5 DEF Add, name
  <2>2. EntriesInv'
    BY <2>1, NotTaken DEF Stop
  <2>3. ParseTypes'
    BY <1>1, <2>1, TypesStay DEF Stop, ParseTypes
  <2>4. QED
    BY <2>1, <2>2, <2>3 DEF Stop
<1>6. CASE name # <<>> /\ InList(Key(c, ids))
  <2>1. Stop("Duplicate entry")
    BY <1>6 DEF Add, name
  <2>2. PICK e \in entries : e.key = Key(c, ids)
    BY <1>6 DEF InList
  <2>3. PICK i \in Meant(Taken) : e = Meaning(i)
    BY <1>1 DEF EntriesInv
  <2>4. Meaning(i).key = Meaning(lino + 1).key
    BY <1>3, <2>2, <2>3
  <2>5. EntriesInv'
    BY <2>1, <2>4, NotTaken DEF Stop
  <2>6. ParseTypes'
    BY <1>1, <2>1, TypesStay DEF Stop, ParseTypes
  <2>7. QED
    BY <2>1, <2>5, <2>6 DEF Stop
<1>7. CASE name # <<>> /\ ~InList(Key(c, ids))
  <2>1. /\ entries' = entries \cup {[key |-> Key(c, ids), name |-> name]}
        /\ cat' = c /\ id' = ids /\ GoOn
    BY <1>7 DEF Add, name
  <2>2. ParseTypes'
    BY <2>1, TypesStay DEF GoOn
  <2>3. Meaning(lino + 1) = [key |-> Key(c, ids), name |-> name]
    BY DEF name
  <2>4. error' = ""
    BY <1>1, <2>1 DEF GoOn
  <2>5. \A i : Meaning(i)' = Meaning(i)
    BY TakenNext
  <2>6. Meant(Taken)' = {i \in Taken' : Meaning(i) # Nothing}
    BY <2>5 DEF Meant, Nothing, Key
  <2>7. Taken' = Taken \cup {lino + 1}
    BY <2>4, TakenNext
  <2>8. Meant(Taken)' = Meant(Taken) \cup {lino + 1}
    BY <1>4, <2>6, <2>7 DEF Meant
  <2>9. \A i \in Meant(Taken) : Meaning(i).key # Key(c, ids)
    BY <1>1, <1>7 DEF EntriesInv, InList
  <2>10. entries' = {Meaning(i) : i \in Meant(Taken)'}
    <3>1. entries = {Meaning(i) : i \in Meant(Taken)}
      BY <1>1 DEF EntriesInv
    <3>2. QED
      BY <2>1, <2>3, <2>8, <3>1
  <2>11. \A i, j \in Meant(Taken)' : Meaning(i).key = Meaning(j).key => i = j
    BY <1>1, <1>3, <2>8, <2>9 DEF EntriesInv
  <2>12. \A i \in Meant(Taken)' : Meaning(i).name # NoName
    BY <1>1, <1>2, <1>3, <2>8 DEF EntriesInv
  <2>13. EntriesInv'
    BY <2>4, <2>5, <2>10, <2>11, <2>12 DEF EntriesInv
  <2>14. QED
    BY <2>1, <2>2, <2>13
<1>8. QED
  BY <1>5, <1>6, <1>7

ContextNext == listing' = "reading" => Context(lino + 2, cat', id')

LEMMA AfterThis ==
  ASSUME ParseInv, Steps
  PROVE  /\ (lino + 1) + 1 = lino + 2
         /\ Context(lino + 1, cat, id)
         /\ ParseTypes /\ EntriesInv /\ listing = "reading" /\ error = ""
         /\ DOMAIN id = 1..4
<1>1. lino \in Nat
  BY TakenNext
<1>2. (lino + 1) + 1 = lino + 2
  BY <1>1
<1>3. ParseTypes /\ EntriesInv /\ listing = "reading" /\ Context(lino + 1, cat, id)
  BY DEF ParseInv, Steps, Reading
<1>4. error = "" /\ DOMAIN id = 1..4
  BY <1>3 DEF ParseTypes
<1>5. QED
  BY <1>2, <1>3, <1>4

LEMMA StoppedIs ==
  ASSUME ParseInv, Steps, NEW what, Stop(what), what \notin {"", "Duplicate entry"}
  PROVE  ParseTypes' /\ EntriesInv' /\ ContextNext
<1>1. EntriesInv'
  BY NotTaken DEF Stop
<1>2. ParseTypes'
  BY AfterThis, TypesStay DEF Stop
<1>3. QED
  BY <1>1, <1>2 DEF Stop, ContextNext

\* A line that changes neither block nor parent.
LEMMA SamePlace ==
  ASSUME ParseInv, Steps, ~(Said(lino + 1) /\ list[lino + 1].nest \in {0, 1})
  PROVE  /\ BlockAt(lino + 2) = BlockAt(lino + 1)
         /\ ParentAt(lino + 2) = ParentAt(lino + 1)
         /\ 1..(lino + 1) - 1 \subseteq 1..(lino + 2) - 1
<1>1. PICK i \in Nat \ {0} : i = lino + 1
  BY LineTyped
<1>2. BlockAt(i + 1) = BlockAt(i) /\ ParentAt(i + 1) = ParentAt(i)
  BY <1>1, PlaceNext
<1>3. i + 1 = lino + 2
  BY <1>1, AfterThis
<1>4. 1..i - 1 \subseteq 1..(i + 1) - 1
  OBVIOUS
<1>5. QED
  BY <1>1, <1>2, <1>3, <1>4

LEMMA SkipLineStep ==
  ASSUME ParseInv, Steps, SkipLine
  PROVE  ParseTypes' /\ EntriesInv' /\ ContextNext
<1>1. ~Said(lino + 1)
  BY LineTyped DEF SkipLine
<1>2. EntriesInv'
  BY <1>1, NothingAdded DEF SkipLine, GoOn
<1>3. ParseTypes'
  BY AfterThis, TypesStay DEF SkipLine, GoOn
<1>4. Context(lino + 2, cat, id)
  BY <1>1, AfterThis, SamePlace DEF Context
<1>5. QED
  BY <1>2, <1>3, <1>4 DEF ContextNext, SkipLine

LEMMA LongLineStep ==
  ASSUME ParseInv, Steps, LongLine
  PROVE  ParseTypes' /\ EntriesInv' /\ ContextNext
BY StoppedIs DEF LongLine

LEMMA DeeperLineStep ==
  ASSUME ParseInv, Steps, DeeperLine
  PROVE  ParseTypes' /\ EntriesInv' /\ ContextNext
BY StoppedIs DEF DeeperLine

LEMMA SkipNestedStep ==
  ASSUME ParseInv, Steps, SkipNested
  PROVE  ParseTypes' /\ EntriesInv' /\ ContextNext
<1>1. cat = "UNKNOWN" /\ list[lino + 1].nest # 0
  BY LineTyped DEF SkipNested
<1>2. Head1(BlockAt(lino + 1)) \in {"A", "B"}
  BY <1>1, AfterThis DEF Context
<1>3. BlockOf(lino + 1) = BlockAt(lino + 1)
  BY <1>1, LineTyped, PlaceNext
<1>4. Meaning(lino + 1) = Nothing
  BY <1>2, <1>3, Zenon DEF Meaning, BlockHead, Head1
<1>5. EntriesInv'
  BY <1>4, NothingAdded DEF SkipNested, GoOn
<1>6. ParseTypes'
  BY AfterThis, TypesStay DEF SkipNested, GoOn
<1>7. BlockAt(lino + 2) = BlockAt(lino + 1) /\ 1..(lino + 1) - 1 \subseteq 1..(lino + 2) - 1
  <2>1. PICK i \in Nat \ {0} : i = lino + 1
    BY LineTyped
  <2>2. BlockAt(i + 1) = BlockAt(i)
    BY <1>1, <2>1, PlaceNext
  <2>3. i + 1 = lino + 2 /\ 1..i - 1 \subseteq 1..(i + 1) - 1
    BY <2>1, AfterThis, UpToNext
  <2>4. QED
    BY <2>1, <2>2, <2>3
<1>8. Context(lino + 2, cat, id)
  BY <1>1, <1>7, AfterThis DEF Context, Vendors, Classes
<1>9. QED
  BY <1>5, <1>6, <1>8 DEF ContextNext, SkipNested

\* A line on level 0 or 1 is where the next one stands.
LEMMA NewPlace ==
  ASSUME ParseInv, Steps, Said(lino + 1), list[lino + 1].nest \in {0, 1}
  PROVE  /\ list[lino + 1].nest = 0
              => /\ BlockAt(lino + 2) = lino + 1 /\ ParentAt(lino + 2) = 0
                 /\ BlockOf(lino + 1) = lino + 1
         /\ list[lino + 1].nest = 1
              => /\ BlockAt(lino + 2) = BlockAt(lino + 1) /\ ParentAt(lino + 2) = lino + 1
                 /\ BlockOf(lino + 1) = BlockAt(lino + 1)
         /\ 1..(lino + 1) - 1 \subseteq 1..(lino + 2) - 1
         /\ lino + 1 \in 1..(lino + 2) - 1 /\ lino + 1 # 0
<1>1. PICK i \in Nat \ {0} : i = lino + 1
  BY LineTyped
<1>2. i + 1 = lino + 2
  BY <1>1, AfterThis
<1>3. list[i].nest = 0
         => BlockAt(i + 1) = i /\ ParentAt(i + 1) = 0 /\ BlockOf(i) = i
  BY <1>1, PlaceNext
<1>4. list[i].nest = 1
         => /\ BlockAt(i + 1) = BlockAt(i) /\ ParentAt(i + 1) = i
            /\ BlockOf(i) = BlockAt(i)
  <2>1. 1 # 0
    OBVIOUS
  <2>2. QED
    BY <1>1, <2>1, PlaceNext
<1>5. 1..i - 1 \subseteq 1..(i + 1) - 1 /\ i \in 1..(i + 1) - 1
  BY UpToNext
<1>6. QED
  BY <1>1, <1>2, <1>3, <1>4, <1>5

LEMMA OnLevelIs ==
  ASSUME ParseInv, Steps, NEW n, OnLevel(n)
  PROVE  /\ Said(lino + 1) /\ list[lino + 1].nest = n
         /\ \A k : Number(k) = Num(lino + 1, k)
         /\ Line.words[1] = list[lino + 1].words[1]
BY LineTyped DEF OnLevel, Number, Num

LEMMA UnknownBlockStep ==
  ASSUME ParseInv, Steps, UnknownBlock
  PROVE  ParseTypes' /\ EntriesInv' /\ ContextNext
<1>1. Said(lino + 1) /\ list[lino + 1].nest = 0 /\ Head1(lino + 1) \in {"A", "B"}
  BY OnLevelIs DEF UnknownBlock, Block, Blocks, Head1
<1>2. BlockAt(lino + 2) = lino + 1 /\ BlockOf(lino + 1) = lino + 1
      /\ lino + 1 \in 1..(lino + 2) - 1
  BY <1>1, NewPlace
<1>3. Meaning(lino + 1) = Nothing
  BY <1>1, <1>2, Zenon DEF Meaning, BlockHead, Head1
<1>4. EntriesInv'
  BY <1>3, NothingAdded DEF UnknownBlock, GoOn
<1>5. ParseTypes'
  BY AfterThis, TypesStay DEF UnknownBlock, GoOn
<1>6. Context(lino + 2, cat', id')
  BY <1>1, <1>2 DEF Context, Vendors, Classes, UnknownBlock
<1>7. QED
  BY <1>4, <1>5, <1>6 DEF ContextNext

LEMMA GenericBlockStep ==
  ASSUME ParseInv, Steps, GenericBlock
  PROVE  ParseTypes' /\ EntriesInv' /\ ContextNext
<1>1. /\ Said(lino + 1) /\ list[lino + 1].nest = 0 /\ Head1(lino + 1) = "S"
      /\ Number(2) = Num(lino + 1, 2)
  BY OnLevelIs DEF GenericBlock, Block, Head1
<1>2. BlockAt(lino + 2) = lino + 1 /\ BlockOf(lino + 1) = lino + 1
      /\ lino + 1 \in 1..(lino + 2) - 1
  BY <1>1, NewPlace
<1>3. CASE /\ cat' = "GEN_SUBSYSTEM" /\ id' = [id EXCEPT ![1] = Number(2)]
           /\ UNCHANGED entries /\ GoOn
  <2>1. Meaning(lino + 1) = Nothing
    BY <1>1, <1>2, Zenon DEF Meaning, BlockHead, Head1
  <2>2. EntriesInv'
    BY <1>3, <2>1, NothingAdded DEF GoOn
  <2>3. DOMAIN id' = 1..4 /\ id'[1] = Number(2)
    <3>1. DOMAIN id = 1..4 /\ 1 \in 1..4
      BY AfterThis, FirstOfFour
    <3>2. QED
      BY <1>3, <3>1
  <2>4. ParseTypes'
    BY <1>3, <2>3, TypesStay DEF GoOn
  <2>5. Context(lino + 2, cat', id')
    BY <1>1, <1>2, <1>3, <2>3 DEF Context, Vendors, Classes
  <2>6. QED
    BY <2>2, <2>4, <2>5 DEF ContextNext
<1>4. CASE Stop("Parse error") \/ Stop("Vendor does not exist")
  BY <1>4, StoppedIs
<1>5. QED
  BY <1>3, <1>4 DEF GenericBlock

LEMMA VendorLineStep ==
  ASSUME ParseInv, Steps, VendorLine
  PROVE  ParseTypes' /\ EntriesInv' /\ ContextNext
<1> DEFINE i == lino + 1
           ids == <<Number(1), 0, 0, 0>>
<1>1. CASE ~HasNumbers(1, 1, 4)
  BY <1>1, StoppedIs DEF VendorLine
<1>2. CASE HasNumbers(1, 1, 4)
  <2>1. /\ Said(lino + 1) /\ list[lino + 1].nest = 0
        /\ Number(1) = Num(lino + 1, 1)
        /\ Line.words[1] = Head1(lino + 1)
    BY OnLevelIs DEF VendorLine, Head1
  <2>2. BlockAt(lino + 2) = lino + 1 /\ BlockOf(lino + 1) = lino + 1
        /\ lino + 1 \in 1..(lino + 2) - 1 /\ ParentAt(lino + 2) = 0
    BY <2>1, NewPlace
  <2>3. Head1(lino + 1) \notin Blocks
    <3>1. Line.words \in Seq(Words) /\ Len(Line.words) >= 1
      <4>1. 1 <= Len(Line.words)
        BY <1>2 DEF HasNumbers
      <4>2. QED
        BY <4>1, LineTyped
    <3>2. Line.words[1] \in Words
      BY <3>1, ElementOfSeq
    <3>3. Hex[Line.words[1]].digits = 4
      BY <1>2 DEF HasNumbers
    <3>4. QED
      BY <2>1, <3>2, <3>3, ListAssumption DEF Words, Blocks, TooLong
  <2>4. Meaning(lino + 1) =
          [key |-> Key("VENDOR", <<Number(1), 0, 0, 0>>),
           name |-> SubSeq(Line.words, 1 + 1, Len(Line.words))]
    <3>1. BlockHead(lino + 1) \notin {"A", "B", "C", "S"}
      BY <2>2, <2>3 DEF BlockHead, Head1, Blocks
    <3>2. Line = list[lino + 1]
      BY LineTyped
    <3>3. QED
      BY <2>1, <2>2, <3>1, <3>2, LevelsDiffer, Zenon DEF Meaning
  <2>5. Add("VENDOR", <<Number(1), 0, 0, 0>>, 1)
    BY <1>2 DEF VendorLine
  <2>6. DOMAIN <<Number(1), 0, 0, 0>> = 1..4
    OBVIOUS
  <2>7. /\ ParseTypes' /\ EntriesInv'
        /\ listing' = "reading" => cat' = "VENDOR" /\ id' = <<Number(1), 0, 0, 0>>
    BY <2>1, <2>4, <2>5, <2>6, Added
  <2>8. ASSUME listing' = "reading" PROVE Context(lino + 2, cat', id')
    <3>1. /\ cat' = "VENDOR" /\ id'[1] = Num(lino + 1, 1) /\ id'[2] = 0
      BY <2>1, <2>7, <2>8
    <3>2. QED
      BY <2>2, <2>3, <3>1 DEF Context, Vendors, Classes
  <2>9. QED
    BY <2>7, <2>8 DEF ContextNext
<1>3. QED
  BY <1>1, <1>2

LEMMA ClassBlockStep ==
  ASSUME ParseInv, Steps, ClassBlock
  PROVE  ParseTypes' /\ EntriesInv' /\ ContextNext
<1>1. CASE ~HasNumbers(2, 1, 2)
  BY <1>1, StoppedIs DEF ClassBlock
<1>2. CASE HasNumbers(2, 1, 2)
  <2>1. /\ Said(lino + 1) /\ list[lino + 1].nest = 0
        /\ Number(2) = Num(lino + 1, 2)
        /\ Head1(lino + 1) = "C"
    BY OnLevelIs DEF ClassBlock, Block, Head1
  <2>2. BlockAt(lino + 2) = lino + 1 /\ BlockOf(lino + 1) = lino + 1
        /\ lino + 1 \in 1..(lino + 2) - 1 /\ ParentAt(lino + 2) = 0
    BY <2>1, NewPlace
  <2>4. Meaning(lino + 1) =
          [key |-> Key("CLASS", <<Number(2), 0, 0, 0>>),
           name |-> SubSeq(Line.words, 2 + 1, Len(Line.words))]
    <3>1. BlockHead(lino + 1) = "C" /\ BlockHead(lino + 1) \notin {"A", "B", "S"}
      BY <2>1, <2>2 DEF BlockHead, Head1
    <3>2. Line = list[lino + 1]
      BY LineTyped
    <3>3. QED
      BY <2>1, <2>2, <3>1, <3>2, LevelsDiffer, Zenon DEF Meaning
  <2>5. Add("CLASS", <<Number(2), 0, 0, 0>>, 2)
    BY <1>2 DEF ClassBlock
  <2>6. DOMAIN <<Number(2), 0, 0, 0>> = 1..4
    OBVIOUS
  <2>7. /\ ParseTypes' /\ EntriesInv'
        /\ listing' = "reading" => cat' = "CLASS" /\ id' = <<Number(2), 0, 0, 0>>
    BY <2>1, <2>4, <2>5, <2>6, Added
  <2>8. ASSUME listing' = "reading" PROVE Context(lino + 2, cat', id')
    <3>1. /\ cat' = "CLASS" /\ id'[1] = Num(lino + 1, 2) /\ id'[2] = 0
      BY <2>1, <2>7, <2>8
    <3>2. QED
      BY <2>1, <2>2, <3>1 DEF Context, Vendors, Classes
  <2>9. QED
    BY <2>7, <2>8 DEF ContextNext
<1>3. QED
  BY <1>1, <1>2

LEMMA FirstLevelLineStep ==
  ASSUME ParseInv, Steps, FirstLevelLine
  PROVE  ParseTypes' /\ EntriesInv' /\ ContextNext
<1>1. /\ Said(lino + 1) /\ list[lino + 1].nest = 1
      /\ Number(1) = Num(lino + 1, 1)
      /\ BlockAt(lino + 2) = BlockAt(lino + 1) /\ ParentAt(lino + 2) = lino + 1
      /\ BlockOf(lino + 1) = BlockAt(lino + 1)
      /\ 1..(lino + 1) - 1 \subseteq 1..(lino + 2) - 1 /\ lino + 1 # 0
  <2>1. /\ Said(lino + 1) /\ list[lino + 1].nest = 1
        /\ Number(1) = Num(lino + 1, 1)
    BY OnLevelIs DEF FirstLevelLine
  <2>2. QED
    BY <2>1, NewPlace
<1>2. CASE cat \in Vendors /\ HasNumbers(1, 1, 4)
  <2>1. FirstLevel = [cat |-> "DEVICE", digits |-> 4]
    BY <1>2, Zenon DEF FirstLevel, Vendors, Classes
  <2>2. FirstLevel.cat = "DEVICE" /\ FirstLevel.digits = 4 /\ "DEVICE" # "none"
    BY <1>2, <2>1
  <2>3. Add("DEVICE", <<id[1], Number(1), 0, 0>>, 1)
    BY <1>2, <2>2 DEF FirstLevelLine
  <2>4. /\ Head1(BlockAt(lino + 1)) \notin Blocks
        /\ id[1] = Num(BlockAt(lino + 1), 1)
        /\ BlockAt(lino + 1) \in 1..(lino + 1) - 1
    BY <1>2, AfterThis DEF Context, Vendors, Classes
  <2>5. Meaning(lino + 1) =
          [key |-> Key("DEVICE", <<id[1], Number(1), 0, 0>>),
           name |-> SubSeq(Line.words, 1 + 1, Len(Line.words))]
    <3>1. BlockHead(lino + 1) \notin {"A", "B", "C", "S"}
      BY <1>1, <2>4 DEF BlockHead, Head1, Blocks
    <3>2. Line = list[lino + 1]
      BY LineTyped
    <3>3. QED
      BY <1>1, <2>4, <3>1, <3>2, LevelsDiffer, Zenon DEF Meaning
  <2>6. DOMAIN <<id[1], Number(1), 0, 0>> = 1..4
    OBVIOUS
  <2>7. /\ ParseTypes' /\ EntriesInv'
        /\ listing' = "reading"
             => cat' = "DEVICE" /\ id' = <<id[1], Number(1), 0, 0>>
    BY <1>1, <2>2, <2>3, <2>5, <2>6, Added
  <2>8. ASSUME listing' = "reading" PROVE Context(lino + 2, cat', id')
    <3>1. cat' = "DEVICE" /\ id'[1] = id[1] /\ id'[2] = Num(lino + 1, 1)
      BY <1>1, <2>7, <2>8
    <3>2. QED
      BY <1>1, <2>4, <3>1 DEF Context, Vendors, Classes
  <2>9. QED
    BY <2>7, <2>8 DEF ContextNext
<1>3. CASE cat = "GEN_SUBSYSTEM" /\ HasNumbers(1, 1, 4)
  <2>1. FirstLevel = [cat |-> "GEN_SUBSYSTEM", digits |-> 4]
    BY <1>3, Zenon DEF FirstLevel, Vendors, Classes
  <2>2. FirstLevel.cat = "GEN_SUBSYSTEM" /\ FirstLevel.digits = 4 /\ "GEN_SUBSYSTEM" # "none"
    BY <1>3, <2>1
  <2>3. Add("GEN_SUBSYSTEM", <<id[1], Number(1), 0, 0>>, 1)
    BY <1>3, <2>2 DEF FirstLevelLine
  <2>4. /\ Head1(BlockAt(lino + 1)) = "S"
        /\ id[1] = Num(BlockAt(lino + 1), 2)
        /\ BlockAt(lino + 1) \in 1..(lino + 1) - 1
    BY <1>3, AfterThis DEF Context, Vendors, Classes
  <2>5. Meaning(lino + 1) =
          [key |-> Key("GEN_SUBSYSTEM", <<id[1], Number(1), 0, 0>>),
           name |-> SubSeq(Line.words, 1 + 1, Len(Line.words))]
    <3>1. BlockHead(lino + 1) = "S" /\ BlockHead(lino + 1) \notin {"A", "B"}
      BY <1>1, <2>4 DEF BlockHead, Head1, Blocks
    <3>2. Line = list[lino + 1]
      BY LineTyped
    <3>3. QED
      BY <1>1, <2>4, <3>1, <3>2, LevelsDiffer, Zenon DEF Meaning
  <2>6. DOMAIN <<id[1], Number(1), 0, 0>> = 1..4
    OBVIOUS
  <2>7. /\ ParseTypes' /\ EntriesInv'
        /\ listing' = "reading"
             => cat' = "GEN_SUBSYSTEM" /\ id' = <<id[1], Number(1), 0, 0>>
    BY <1>1, <2>2, <2>3, <2>5, <2>6, Added
  <2>8. ASSUME listing' = "reading" PROVE Context(lino + 2, cat', id')
    <3>1. cat' = "GEN_SUBSYSTEM" /\ id'[1] = id[1] /\ id'[2] = Num(lino + 1, 1)
      BY <1>1, <2>7, <2>8
    <3>2. QED
      BY <1>1, <2>4, <3>1 DEF Context, Vendors, Classes
  <2>9. QED
    BY <2>7, <2>8 DEF ContextNext
<1>4. CASE cat \in Classes /\ HasNumbers(1, 1, 2)
  <2>1. FirstLevel = [cat |-> "SUBCLASS", digits |-> 2]
    BY <1>4, Zenon DEF FirstLevel, Vendors, Classes
  <2>2. FirstLevel.cat = "SUBCLASS" /\ FirstLevel.digits = 2 /\ "SUBCLASS" # "none"
    BY <1>4, <2>1
  <2>3. Add("SUBCLASS", <<id[1], Number(1), 0, 0>>, 1)
    BY <1>4, <2>2 DEF FirstLevelLine
  <2>4. /\ Head1(BlockAt(lino + 1)) = "C"
        /\ id[1] = Num(BlockAt(lino + 1), 2)
        /\ BlockAt(lino + 1) \in 1..(lino + 1) - 1
    BY <1>4, AfterThis DEF Context, Vendors, Classes
  <2>5. Meaning(lino + 1) =
          [key |-> Key("SUBCLASS", <<id[1], Number(1), 0, 0>>),
           name |-> SubSeq(Line.words, 1 + 1, Len(Line.words))]
    <3>1. BlockHead(lino + 1) = "C" /\ BlockHead(lino + 1) \notin {"A", "B", "S"}
      BY <1>1, <2>4 DEF BlockHead, Head1, Blocks
    <3>2. Line = list[lino + 1]
      BY LineTyped
    <3>3. QED
      BY <1>1, <2>4, <3>1, <3>2, LevelsDiffer, Zenon DEF Meaning
  <2>6. DOMAIN <<id[1], Number(1), 0, 0>> = 1..4
    OBVIOUS
  <2>7. /\ ParseTypes' /\ EntriesInv'
        /\ listing' = "reading"
             => cat' = "SUBCLASS" /\ id' = <<id[1], Number(1), 0, 0>>
    BY <1>1, <2>2, <2>3, <2>5, <2>6, Added
  <2>8. ASSUME listing' = "reading" PROVE Context(lino + 2, cat', id')
    <3>1. cat' = "SUBCLASS" /\ id'[1] = id[1] /\ id'[2] = Num(lino + 1, 1)
      BY <1>1, <2>7, <2>8
    <3>2. QED
      BY <1>1, <2>4, <3>1 DEF Context, Vendors, Classes
  <2>9. QED
    BY <2>7, <2>8 DEF ContextNext
<1>5. CASE ~(FirstLevel.cat # "none" /\ HasNumbers(1, 1, FirstLevel.digits))
  BY <1>5, StoppedIs DEF FirstLevelLine
<1>6. CASE FirstLevel.cat # "none" /\ HasNumbers(1, 1, FirstLevel.digits)
  <2>1. cat # "none"
    <3> SUFFICES ASSUME cat = "none" PROVE FALSE
      OBVIOUS
    <3>1. FirstLevel = [cat |-> "none", digits |-> 0]
      BY Zenon DEF FirstLevel, Vendors, Classes
    <3>2. QED
      BY <1>6, <3>1
  <2>2. cat \in Vendors \cup Classes \cup {"GEN_SUBSYSTEM"}
    BY <2>1, AfterThis DEF Context, FirstLevelLine
  <2>3. /\ cat \in Vendors => FirstLevel = [cat |-> "DEVICE", digits |-> 4]
        /\ cat = "GEN_SUBSYSTEM" => FirstLevel = [cat |-> cat, digits |-> 4]
        /\ cat \in Classes => FirstLevel = [cat |-> "SUBCLASS", digits |-> 2]
    BY Zenon DEF FirstLevel, Vendors, Classes
  <2>4. QED
    BY <1>2, <1>3, <1>4, <1>6, <2>2, <2>3
<1>7. QED
  BY <1>5, <1>6

LEMMA SecondLevelLineStep ==
  ASSUME ParseInv, Steps, SecondLevelLine
  PROVE  ParseTypes' /\ EntriesInv' /\ ContextNext
<1>1. /\ Said(lino + 1) /\ list[lino + 1].nest = 2
      /\ Number(1) = Num(lino + 1, 1) /\ Number(2) = Num(lino + 1, 2)
      /\ BlockAt(lino + 2) = BlockAt(lino + 1)
      /\ ParentAt(lino + 2) = ParentAt(lino + 1)
      /\ BlockOf(lino + 1) = BlockAt(lino + 1) /\ Parent(lino + 1) = ParentAt(lino + 1)
      /\ 1..(lino + 1) - 1 \subseteq 1..(lino + 2) - 1
  <2>1. /\ Said(lino + 1) /\ list[lino + 1].nest = 2
        /\ Number(1) = Num(lino + 1, 1) /\ Number(2) = Num(lino + 1, 2)
    BY OnLevelIs DEF SecondLevelLine
  <2>2. list[lino + 1].nest \notin {0, 1}
    BY <2>1, LevelsDiffer
  <2>3. BlockOf(lino + 1) = BlockAt(lino + 1) /\ Parent(lino + 1) = ParentAt(lino + 1)
    BY <2>2, LineTyped, PlaceNext
  <2>4. QED
    BY <2>1, <2>2, <2>3, SamePlace
<1>2. CASE cat \in {"DEVICE", "SUBSYSTEM"} /\ HasNumbers(1, 2, 4)
  <2>3. Add("SUBSYSTEM", <<id[1], id[2], Number(1), Number(2)>>, 2)
    BY <1>2, LevelsDiffer DEF SecondLevelLine, Classes
  <2>4. /\ Head1(BlockAt(lino + 1)) \notin Blocks
        /\ id[1] = Num(BlockAt(lino + 1), 1)
        /\ ParentAt(lino + 1) # 0 /\ id[2] = Num(ParentAt(lino + 1), 1)
        /\ BlockAt(lino + 1) \in 1..(lino + 1) - 1
    BY <1>2, AfterThis DEF Context, Vendors, Classes
  <2>5. Meaning(lino + 1) =
          [key |-> Key("SUBSYSTEM", <<id[1], id[2], Number(1), Number(2)>>),
           name |-> SubSeq(Line.words, 2 + 1, Len(Line.words))]
    <3>1. BlockHead(lino + 1) \notin {"A", "B", "C", "S"}
      BY <1>1, <2>4 DEF BlockHead, Head1, Blocks
    <3>2. Line = list[lino + 1]
      BY LineTyped
    <3>3. QED
      BY <1>1, <2>4, <3>1, <3>2, LevelsDiffer, Zenon DEF Meaning
  <2>6. DOMAIN <<id[1], id[2], Number(1), Number(2)>> = 1..4
    OBVIOUS
  <2>7. /\ ParseTypes' /\ EntriesInv'
        /\ listing' = "reading"
             => cat' = "SUBSYSTEM" /\ id' = <<id[1], id[2], Number(1), Number(2)>>
    BY <1>1, <2>3, <2>5, <2>6, Added
  <2>8. ASSUME listing' = "reading" PROVE Context(lino + 2, cat', id')
    <3>1. cat' = "SUBSYSTEM" /\ id'[1] = id[1] /\ id'[2] = id[2]
      BY <2>7, <2>8
    <3>2. QED
      BY <1>1, <2>4, <3>1 DEF Context, Vendors, Classes
  <2>9. QED
    BY <2>7, <2>8 DEF ContextNext
<1>3. CASE cat \in Classes /\ HasNumbers(1, 1, 2)
  <2>3. Add("PROGIF", <<id[1], id[2], Number(1), 0>>, 1)
    BY <1>3, LevelsDiffer DEF SecondLevelLine, Classes
  <2>4. /\ Head1(BlockAt(lino + 1)) = "C"
        /\ id[1] = Num(BlockAt(lino + 1), 2)
        /\ id[2] = IF ParentAt(lino + 1) = 0 THEN 0 ELSE Num(ParentAt(lino + 1), 1)
        /\ BlockAt(lino + 1) \in 1..(lino + 1) - 1
    BY <1>3, AfterThis DEF Context, Vendors, Classes
  <2>5. Meaning(lino + 1) =
          [key |-> Key("PROGIF", <<id[1], id[2], Number(1), 0>>),
           name |-> SubSeq(Line.words, 1 + 1, Len(Line.words))]
    <3>1. BlockHead(lino + 1) = "C" /\ BlockHead(lino + 1) \notin {"A", "B", "S"}
      BY <1>1, <2>4 DEF BlockHead, Head1, Blocks
    <3>2. Line = list[lino + 1]
      BY LineTyped
    <3>3. QED
      BY <1>1, <2>4, <3>1, <3>2, LevelsDiffer, Zenon DEF Meaning
  <2>6. DOMAIN <<id[1], id[2], Number(1), 0>> = 1..4
    OBVIOUS
  <2>7. /\ ParseTypes' /\ EntriesInv'
        /\ listing' = "reading"
             => cat' = "PROGIF" /\ id' = <<id[1], id[2], Number(1), 0>>
    BY <1>1, <2>3, <2>5, <2>6, Added
  <2>8. ASSUME listing' = "reading" PROVE Context(lino + 2, cat', id')
    <3>1. cat' = "PROGIF" /\ id'[1] = id[1] /\ id'[2] = id[2]
      BY <2>7, <2>8
    <3>2. QED
      BY <1>1, <2>4, <3>1 DEF Context, Vendors, Classes
  <2>9. QED
    BY <2>7, <2>8 DEF ContextNext
<1>4. CASE ~(cat \in {"DEVICE", "SUBSYSTEM"} /\ HasNumbers(1, 2, 4))
           /\ ~(cat \in Classes /\ HasNumbers(1, 1, 2))
  BY <1>4, StoppedIs DEF SecondLevelLine
<1>5. QED
  BY <1>2, <1>3, <1>4

LEMMA ReadLineStep ==
  ASSUME ParseInv, ReadLine
  PROVE  ParseInv'
<1>1. Steps
  BY DEF ReadLine, Steps, Reading, SkipLine, LongLine, ClassBlock, GenericBlock,
         UnknownBlock, VendorLine, SkipNested, FirstLevelLine, SecondLevelLine,
         DeeperLine, OnLevel
<1>2. ParseTypes' /\ EntriesInv' /\ ContextNext
  BY <1>1, SkipLineStep, LongLineStep, ClassBlockStep, GenericBlockStep,
     UnknownBlockStep, VendorLineStep, SkipNestedStep, FirstLevelLineStep,
     SecondLevelLineStep, DeeperLineStep DEF ReadLine
<1>3. ASSUME listing' = "reading"
      PROVE  Context(lino + 1, cat, id)'
  <2>1. Context(lino + 2, cat', id')
    BY <1>2, <1>3 DEF ContextNext
  <2>2. PICK k, c, i : k = lino + 2 /\ c = cat' /\ i = id'
    OBVIOUS
  <2>3. lino' + 1 = k
    BY <1>1, <2>2, AfterThis DEF Steps
  <2>4. Context(k, c, i)' = Context(k, c, i)
    <3>1. Over(k, 0)' = Over(k, 0) /\ Over(k, 1)' = Over(k, 1)
      BY <1>1, AboveStays DEF Steps
    <3>2. BlockAt(k)' = BlockAt(k) /\ ParentAt(k)' = ParentAt(k)
      BY <3>1 DEF BlockAt, ParentAt
    <3>3. \A b, n : Head1(b)' = Head1(b) /\ Num(b, n)' = Num(b, n)
      BY <1>1 DEF Steps, Head1, Num
    <3>4. QED
      BY <3>2, <3>3 DEF Context
  <2>5. Context(k, c, i)'
    BY <2>1, <2>2, <2>4
  <2>6. QED
    BY <2>2, <2>3, <2>5 DEF Context
<1>4. QED
  BY <1>2, <1>3 DEF ParseInv

\* Steps that read no line.
LEMMA EntriesStay ==
  ASSUME EntriesInv, UNCHANGED <<list, lino, entries, error>>
  PROVE  EntriesInv'
<1>1. \A i : Meaning(i)' = Meaning(i)
  BY MeaningStays
<1>2. Taken' = Taken
  BY DEF Taken, Said
<1>3. Meant(Taken)' = Meant(Taken)
  BY <1>1, <1>2 DEF Meant, Nothing, Key
<1>4. QED
  BY <1>1, <1>3 DEF EntriesInv

LEMMA NoEntries ==
  ASSUME Taken = {}, entries = {}, error # "Duplicate entry"
  PROVE  EntriesInv
BY DEF EntriesInv, Meant

LEMMA AskStep ==
  ASSUME ParseInv, Ask
  PROVE  ParseInv'
<1>1. ParseTypes /\ EntriesInv
  BY DEF ParseInv
<1>2. CASE entries = {} /\ listing' = "reading" /\ lino' = 0
           /\ cat' = "none" /\ id' = Zero /\ error' = ""
  <2>1. Taken' = {}
    <3>1. Taken' \subseteq 1..lino'
      BY DEF Taken
    <3>2. 1..0 = {}
      OBVIOUS
    <3>3. QED
      BY <1>2, <3>1, <3>2
  <2>2. EntriesInv'
    BY <1>2, <2>1 DEF Ask, EntriesInv, Meant
  <2>3. ParseTypes'
    <3>1. list \in FilesOfLines
      BY <1>1 DEF ParseTypes
    <3>2. 0 \in 0..Len(list)
      BY <3>1, LenProperties DEF FilesOfLines
    <3>3. DOMAIN Zero = 1..4
      BY DEF Zero
    <3>4. QED
      BY <1>2, <3>1, <3>2, <3>3 DEF Ask, ParseTypes
  <2>4. Context(lino + 1, cat, id)'
    BY <1>2 DEF Context
  <2>5. QED
    BY <2>2, <2>3, <2>4 DEF ParseInv
<1>3. CASE listing' = "answer" /\ UNCHANGED <<lino, cat, id, error>>
  <2>1. EntriesInv'
    BY <1>1, <1>3, EntriesStay DEF Ask
  <2>2. ParseTypes'
    BY <1>1, <1>3 DEF Ask, ParseTypes
  <2>3. QED
    BY <1>3, <2>1, <2>2 DEF ParseInv
<1>4. QED
  BY <1>2, <1>3 DEF Ask

LEMMA NothingYet == 1..0 = {}
OBVIOUS

LEMMA StartListStep ==
  ASSUME ParseInv, StartList
  PROVE  ParseInv'
<1>1. ParseTypes /\ EntriesInv /\ listing = "off" /\ lino = 0 /\ error = ""
  BY DEF ParseInv, ParseTypes, StartList
<1>2. PICK s \in Sessions : list' = s.file
  BY DEF StartList
<1>3. list' \in FilesOfLines
  BY <1>2, ListAssumption DEF FilesOfLines, Words
<1>4. Taken = {} /\ Taken' = {}
  <2>1. Taken \subseteq 1..lino /\ Taken' \subseteq 1..lino'
    BY DEF Taken
  <2>2. lino' = 0 /\ 1..0 = {}
    BY <1>1, NothingYet DEF StartList
  <2>3. QED
    BY <1>1, <2>1, <2>2
<1>5. entries = {}
  BY <1>1, <1>4 DEF EntriesInv, Meant
<1>6. EntriesInv'
  BY <1>1, <1>4, <1>5 DEF EntriesInv, Meant, StartList
<1>7. 0 \in 0..Len(list')
  BY <1>3, LenProperties DEF FilesOfLines
<1>8. ParseTypes'
  BY <1>1, <1>3, <1>7 DEF ParseTypes, StartList
<1>9. QED
  BY <1>6, <1>8 DEF ParseInv, StartList

LEMMA ParseStep == ParseInv /\ [ListNext]_listVars => ParseInv'
<1> SUFFICES ASSUME ParseInv, [ListNext]_listVars
             PROVE  ParseInv'
  OBVIOUS
<1>1. ParseTypes /\ EntriesInv
  BY DEF ParseInv
<1>2. CASE EndOfList \/ Answer
  <2>1. EntriesInv'
    BY <1>1, <1>2, EntriesStay DEF EndOfList, Answer
  <2>2. ParseTypes'
    BY <1>1, <1>2 DEF ParseTypes, EndOfList, Answer
  <2>3. QED
    BY <1>2, <2>1, <2>2 DEF ParseInv, EndOfList, Answer
<1>3. CASE UNCHANGED listVars
  <2>1. EntriesInv'
    BY <1>1, <1>3, EntriesStay DEF listVars
  <2>2. ParseTypes'
    BY <1>1, <1>3 DEF ParseTypes, listVars
  <2>3. ASSUME listing' = "reading" PROVE Context(lino + 1, cat, id)'
    <3>1. Context(lino + 1, cat, id) /\ list' = list
      BY <1>3, <2>3 DEF ParseInv, listVars
    <3>2. PICK k : k = lino + 1
      OBVIOUS
    <3>3. Over(k, 0)' = Over(k, 0) /\ Over(k, 1)' = Over(k, 1)
      BY <3>1, AboveStays
    <3>4. BlockAt(k)' = BlockAt(k) /\ ParentAt(k)' = ParentAt(k)
      BY <3>3 DEF BlockAt, ParentAt
    <3>5. \A b, n : Head1(b)' = Head1(b) /\ Num(b, n)' = Num(b, n)
      BY <3>1 DEF Head1, Num
    <3>6. QED
      BY <1>3, <3>1, <3>2, <3>4, <3>5 DEF Context, listVars
  <2>4. QED
    BY <2>1, <2>2, <2>3 DEF ParseInv
<1>4. QED
  BY <1>2, <1>3, ReadLineStep, StartListStep, AskStep DEF ListNext

LEMMA BestStays ==
  ASSUME entries' = entries, NEW q, NEW n
  PROVE  BestName(q, n)' = BestName(q, n)
<1> DEFINE keys == NamesFor(q, n)
           At(E) == {i \in 1..Len(keys) : \E e \in E : e.key = keys[i]}
           Best(E) == IF At(E) = {} THEN NoName
                      ELSE (CHOOSE e \in E :
                              e.key = keys[CHOOSE i \in At(E) :
                                             \A j \in At(E) : i <= j]).name
<1>1. BestName(q, n) = Best(entries)
  BY Zenon DEF BestName, InList
<1>2. BestName(q, n)' = Best(entries')
  BY Zenon DEF BestName, InList, NamesFor, NoName, Key
<1>3. QED
  BY <1>1, <1>2

LEMMA AnswerStep ==
  ASSUME ParseInv, AnswerInv, Answer
  PROVE  AnswerInv'
<1>1. EntriesNamed
  BY DEF ParseInv, EntriesInv, EntriesNamed
<1>2. question # NoQuestion /\ TypedQuestion(question)
  BY DEF AnswerInv, Answer
<1>3. PICK r : r = Reply(question.type, question.ids, question.flags)
  OBVIOUS
<1>4. Identifies(question, r) /\ GivesNames(question, r)
  BY <1>1, <1>2, <1>3, ReplyIsRight
<1>5. PICK q : q = question
  OBVIOUS
<1>6. /\ \A n : BestName(q, n)' = BestName(q, n)
      /\ reply' = r /\ question' = q
  BY <1>3, <1>5, BestStays DEF Answer
<1>7. Identifies(question, reply)' /\ GivesNames(question, reply)'
  <2>1. Identifies(question, reply)'
    BY <1>4, <1>5, <1>6 DEF Identifies, Tells
  <2>2. GivesNames(question, reply)'
    BY <1>4, <1>5, <1>6 DEF GivesNames
  <2>3. QED
    BY <2>1, <2>2
<1>8. QED
  BY <1>2, <1>7 DEF AnswerInv, Answer, TypedQuestion, NoQuestion

LEMMA AnswerInvStep == ParseInv /\ AnswerInv /\ [ListNext]_listVars => AnswerInv'
<1> SUFFICES ASSUME ParseInv, AnswerInv, [ListNext]_listVars
             PROVE  AnswerInv'
  OBVIOUS
<1>1. CASE Ask
  <2>1. PICK q \in questions :
          question' = [type |-> q.type, ids |-> q.ids,
                       flags |-> Effective(q.flags, q.numeric)]
    BY <1>1 DEF Ask
  <2>2. TypedQuestion(q)
    BY DEF AnswerInv
  <2>3. question'.type = q.type /\ question'.ids = q.ids
    BY <2>1
  <2>4. question' # NoQuestion
    <3>1. NoQuestion.type = "none"
      BY DEF NoQuestion
    <3>2. q.type # "none"
      BY <2>2 DEF TypedQuestion
    <3>3. QED
      BY <2>3, <3>1, <3>2
  <2>5. TypedQuestion(question)'
    BY <2>2, <2>3 DEF TypedQuestion
  <2>6. QED
    BY <1>1, <2>4, <2>5 DEF AnswerInv, Ask, TypedQuestion
<1>2. CASE StartList
  <2>1. \A q \in questions' : TypedQuestion(q)
    BY <1>2, ListAssumption DEF StartList, TypedQuestion
  <2>2. QED
    BY <1>2, <2>1 DEF AnswerInv, StartList, TypedQuestion
<1>3. CASE ReadLine \/ EndOfList
  <2>1. /\ listing = "reading" /\ listing' \in {"reading", "answer", "quit"}
        /\ UNCHANGED <<questions, question, reply>>
    <3>1. CASE EndOfList
      BY <3>1 DEF EndOfList
    <3>2. CASE ReadLine
      <4>1. listing = "reading" /\ UNCHANGED <<questions, question, reply>>
        BY <3>2 DEF ReadLine, Reading, SkipLine, LongLine, ClassBlock, GenericBlock,
                    UnknownBlock, VendorLine, SkipNested, FirstLevelLine,
                    SecondLevelLine, DeeperLine, OnLevel
      <4>2. ASSUME NEW c, NEW ids, NEW n, Add(c, ids, n)
            PROVE  listing' \in {listing, "quit"}
        BY <4>2, Zenon DEF Add, Stop, GoOn
      <4>3. ASSUME NEW what, Stop(what)
            PROVE  listing' \in {listing, "quit"}
        BY <4>3 DEF Stop
      <4>4. listing' \in {listing, "quit"}
        BY <3>2, <4>2, <4>3
           DEF ReadLine, SkipLine, LongLine, ClassBlock, GenericBlock, UnknownBlock,
               VendorLine, SkipNested, FirstLevelLine, SecondLevelLine, DeeperLine, GoOn
      <4>5. QED
        BY <4>1, <4>4
    <3>3. QED
      BY <1>3, <3>1, <3>2
  <2>2. QED
    BY <2>1 DEF AnswerInv, TypedQuestion
<1>4. CASE UNCHANGED listVars
  <2>1. PICK q, r : q = question /\ r = reply
    OBVIOUS
  <2>2. /\ \A n : BestName(q, n)' = BestName(q, n)
        /\ reply' = r /\ question' = q /\ UNCHANGED <<questions, listing>>
    BY <1>4, <2>1, BestStays DEF listVars
  <2>3. Identifies(question, reply) => Identifies(question, reply)'
    BY <2>1, <2>2 DEF Identifies, Tells
  <2>4. GivesNames(question, reply) => GivesNames(question, reply)'
    BY <2>1, <2>2 DEF GivesNames
  <2>5. QED
    BY <2>1, <2>2, <2>3, <2>4 DEF AnswerInv, TypedQuestion
<1>5. QED
  BY <1>1, <1>2, <1>3, <1>4, AnswerStep DEF ListNext

LEMMA NoLines == <<>> \in FilesOfLines /\ 0 \in 0..Len(<<>>)
BY DEF FilesOfLines

LEMMA FourZeros == DOMAIN Zero = 1..4
BY DEF Zero

\* Of any list, the hash has exactly what each line means by where it stands below
\* others, and what a client is told of an identity is what the list says of it
\* (lib/names-parse.c: id_parse_list(); lib/names.c: pci_lookup_name()).
THEOREM NamesAreRight == ListSpec => []NamesRight
<1>1. ListInit => ParseInv /\ AnswerInv
  <2> SUFFICES ASSUME ListInit PROVE ParseInv /\ AnswerInv
    OBVIOUS
  <2>1. Taken = {}
    <3>1. Taken \subseteq 1..lino
      BY DEF Taken
    <3>2. QED
      BY <3>1, NothingYet DEF ListInit
  <2>2. EntriesInv
    BY <2>1, NoEntries DEF ListInit
  <2>3. ParseTypes
    <3>1. list \in FilesOfLines /\ lino \in 0..Len(list)
      BY NoLines DEF ListInit
    <3>2. DOMAIN id = 1..4
      BY FourZeros DEF ListInit
    <3>3. QED
      BY <3>1, <3>2 DEF ListInit, ParseTypes
  <2>4. ParseInv
    BY <2>2, <2>3 DEF ParseInv, ListInit
  <2>5. AnswerInv
    BY DEF AnswerInv, ListInit
  <2>6. QED
    BY <2>4, <2>5
<1>2. ParseInv /\ AnswerInv /\ [ListNext]_listVars => (ParseInv /\ AnswerInv)'
  BY ParseStep, AnswerInvStep
<1>3. ParseInv /\ AnswerInv => NamesRight
  <2>1. ParseInv => EntriesAsListed
    BY Zenon DEF ParseInv, EntriesInv, EntriesAsListed, Meant
  <2>2. QED
    BY <2>1, AnswersAreRight DEF NamesRight
<1>4. QED
  BY <1>1, <1>2, <1>3, PTL DEF ListSpec

----------------------------------------------------------------------------
(***************************************************************************)
(* KernelModules, for any devices, lookups and files.                      *)
(***************************************************************************)
KernelSpec == KernelInit /\ [][KernelNext]_kernelVars

Devices == DOMAIN Lookups
Shown == [dev : Devices, modules : Seq(STRING)]

\* The list is made of the entries among the lines read, the last one first.
ListOfLines ==
  /\ lines \in Seq(MapLines) /\ lines_read \in 0..Len(lines)
  /\ pcimap \in Seq(1..lines_read)
  /\ \A i, j \in 1..Len(pcimap) : i < j => pcimap[j] < pcimap[i]
  /\ \A l \in 1..lines_read :
       lines[l].kind = "entry" => \E i \in 1..Len(pcimap) : pcimap[i] = l
  /\ \A i \in 1..Len(pcimap) : lines[pcimap[i]].kind = "entry"

KernelTypes ==
  /\ loader \in {"idle", "kmod", "pcimap"}
  /\ inited \in {"no", "reading", "failed", "yes"}
  /\ toShow \in Seq(Devices) /\ asking \in BOOLEAN
  /\ inited # "no" => loader # "idle"
  /\ inited = "no" => lines_read = 0 /\ pcimap = <<>>
  /\ inited = "yes" /\ loader = "pcimap" => lines_read = Len(lines)
  /\ shown \in Seq(Shown)
  /\ shown # <<>> => inited \in {"yes", "failed"}

\* The place of the static iterator, 0 for none, and what it has passed.
At == IF loader = "kmod" THEN kcurrent ELSE IF current = 0 THEN 0 ELSE pcimap[current]
Upto(S, a) == {i \in S : a # 0 /\ ~Precedes(a, i)}
LastName(d, a) == IF a = 0 THEN "" ELSE NameAt(d, a)

InLoop(d) ==
  /\ shown # <<>> /\ shown[Len(shown)].dev = d
  /\ loader = "kmod" => /\ current = 0
                        /\ IF kcurrent = 0 THEN klist = <<>>
                           ELSE klist = Lookups[d] /\ kcurrent \in 1..Len(klist)
  /\ loader = "pcimap" => /\ klist = <<>> /\ kcurrent = 0 /\ current \in 0..Len(pcimap)
                          /\ current # 0 => pcimap[current] \in PlacesOf(d)
  /\ AreNamesAt(shown[Len(shown)].modules, d, Upto(Printed(d), At))
  /\ prev_module = LastName(d, At)

KernelInv ==
  /\ ListOfLines /\ KernelTypes
  /\ IF asking THEN toShow # <<>> /\ inited = "yes" /\ InLoop(Head(toShow))
     ELSE klist = <<>> /\ kcurrent = 0 /\ current = 0 /\ prev_module = ""
  /\ ModulesAreOwn

----------------------------------------------------------------------------
\* PlacesOf are numbers, in one of two orders.
LEMMA PlacesAre ==
  ASSUME ListOfLines, loader \in {"kmod", "pcimap"}, NEW d \in Devices
  PROVE  /\ PlacesOf(d) \in SUBSET (Nat \ {0}) /\ IsFiniteSet(PlacesOf(d))
         /\ Printed(d) \in SUBSET PlacesOf(d) /\ IsFiniteSet(Printed(d))
<1>1. Lookups[d] \in Seq(STRING)
  BY KernelAssumption DEF Devices
<1>2. Len(Lookups[d]) \in Nat /\ Len(lines) \in Nat
  BY <1>1 DEF ListOfLines
<1>3. PlacesOf(d) \subseteq 1..Len(Lookups[d]) \/ PlacesOf(d) \subseteq 1..Len(lines)
  BY DEF PlacesOf
<1>4. IsFiniteSet(1..Len(Lookups[d])) /\ IsFiniteSet(1..Len(lines))
  BY <1>2, FS_Interval
<1>5. Printed(d) \subseteq PlacesOf(d)
  BY DEF Printed
<1>6. IsFiniteSet(PlacesOf(d))
  BY <1>3, <1>4, FS_Subset
<1>7. IsFiniteSet(Printed(d))
  BY <1>5, <1>6, FS_Subset
<1>8. QED
  BY <1>2, <1>3, <1>5, <1>6, <1>7

LEMMA PrecedesOrders ==
  /\ \A i, j \in Nat : i = j \/ Precedes(i, j) \/ Precedes(j, i)
  /\ \A i, j \in Nat : Precedes(i, j) => i # j /\ ~Precedes(j, i)
  /\ \A i, j, k \in Nat : Precedes(i, j) /\ Precedes(j, k) => Precedes(i, k)
BY DEF Precedes

\* The iterator goes on to n: no place comes between.
NextPlace(S, a, n) ==
  /\ n \in S
  /\ a = 0 => \A k \in S : ~Precedes(k, n)
  /\ a # 0 => a \in S /\ Precedes(a, n) /\ \A k \in S : ~(Precedes(a, k) /\ Precedes(k, n))

\* A name is printed if it is not the one before.
LEMMA PrintedIfNew ==
  ASSUME NEW d, PlacesOf(d) \in SUBSET (Nat \ {0}),
         NEW a \in Nat, NEW n \in Nat, NextPlace(PlacesOf(d), a, n)
  PROVE  n \in Printed(d) <=> NameAt(d, n) # LastName(d, a)
<1>1. n \in PlacesOf(d) /\ (n \in Printed(d) <=> ~Repeats(d, n))
  BY DEF NextPlace, Printed
<1>2. CASE a = 0
  <2>1. \A i \in PlacesOf(d) : ~Precedes(i, n)
    BY <1>2 DEF NextPlace
  <2>2. Repeats(d, n) <=> NameAt(d, n) = ""
    BY <2>1 DEF Repeats, Follows
  <2>3. QED
    BY <1>1, <1>2, <2>2 DEF LastName
<1>3. CASE a # 0
  <2>1. /\ a \in PlacesOf(d) /\ Precedes(a, n)
        /\ \A k \in PlacesOf(d) : ~(Precedes(a, k) /\ Precedes(k, n))
    BY <1>3 DEF NextPlace
  <2>2. \A i \in PlacesOf(d) : Follows(d, i, n) <=> i = a
    <3>1. Follows(d, a, n)
      BY <2>1 DEF Follows
    <3>2. ASSUME NEW i \in PlacesOf(d), Follows(d, i, n), i # a PROVE FALSE
      <4>1. Precedes(i, n) /\ ~(Precedes(i, a) /\ Precedes(a, n))
        BY <2>1, <3>2 DEF Follows
      <4>2. Precedes(a, i)
        BY <2>1, <3>2, <4>1, PrecedesOrders
      <4>3. QED
        BY <2>1, <4>1, <4>2
    <3>3. QED
      BY <3>1, <3>2
  <2>3. Repeats(d, n) <=> NameAt(d, a) = NameAt(d, n)
    BY <2>1, <2>2 DEF Repeats
  <2>4. QED
    BY <1>1, <1>3, <2>3 DEF LastName
<1>4. QED
  BY <1>2, <1>3

\* What has been passed grows by the place that is new ...
LEMMA UptoNext ==
  ASSUME NEW P \in SUBSET (Nat \ {0}), NEW S \in SUBSET P,
         NEW a \in Nat, NEW n \in Nat, NextPlace(P, a, n)
  PROVE  /\ Upto(S, n) = IF n \in S THEN Upto(S, a) \cup {n} ELSE Upto(S, a)
         /\ \A i \in Upto(S, a) : Precedes(i, n)
<1>1. \A i \in P : ~Precedes(n, i) <=> i = n \/ Precedes(i, n)
  BY PrecedesOrders
<1>2. \A i \in P : Precedes(i, n) <=> (a # 0 /\ ~Precedes(a, i))
  <2>1. CASE a = 0
    BY <2>1 DEF NextPlace
  <2>2. CASE a # 0
    <3>1. /\ a \in P /\ Precedes(a, n)
          /\ \A k \in P : ~(Precedes(a, k) /\ Precedes(k, n))
      BY <2>2 DEF NextPlace
    <3>2. ASSUME NEW i \in P, ~Precedes(a, i) PROVE Precedes(i, n)
      <4>1. i = a \/ Precedes(i, a)
        BY <3>1, <3>2, PrecedesOrders
      <4>2. QED
        BY <3>1, <4>1, PrecedesOrders
    <3>3. QED
      BY <2>2, <3>1, <3>2
  <2>3. QED
    BY <2>1, <2>2
<1>3. n # 0 /\ n \in P
  BY DEF NextPlace
<1>4. \A i \in S : i \in Upto(S, n) <=> i = n \/ i \in Upto(S, a)
  BY <1>1, <1>2, <1>3 DEF Upto
<1>5. Upto(S, n) \subseteq S /\ Upto(S, a) \subseteq S
  BY DEF Upto
<1>6. \A i \in Upto(S, a) : Precedes(i, n)
  BY <1>2 DEF Upto
<1>7. QED
  BY <1>4, <1>5, <1>6

\* ... until there is no further place.
LEMMA UptoAll ==
  ASSUME NEW S, NEW a,
         IF a = 0 THEN S = {} ELSE \A k \in S : ~Precedes(a, k)
  PROVE  Upto(S, a) = S
BY DEF Upto

\* The modules and one more behind them.
LEMMA NamesAtOneMore ==
  ASSUME NEW d, NEW m \in Seq(STRING), NEW x \in STRING,
         NEW S \in SUBSET Nat, IsFiniteSet(S), AreNamesAt(m, d, S),
         NEW n \in Nat, \A i \in S : Precedes(i, n), x = NameAt(d, n)
  PROVE  AreNamesAt(Append(m, x), d, S \cup {n})
<1>1. n \notin S /\ \A i \in S : ~Precedes(n, i)
  BY PrecedesOrders
<1>2. /\ IsFiniteSet(S \cup {n}) /\ Cardinality(S) \in Nat
      /\ Cardinality(S \cup {n}) = Cardinality(S) + 1
  BY <1>1, FS_AddElement, FS_CardinalityType
<1>3. Len(m) = Cardinality(S)
  BY DEF AreNamesAt
<1>4. /\ Len(Append(m, x)) = Len(m) + 1 /\ Append(m, x)[Len(m) + 1] = x
      /\ \A i \in 1..Len(m) : Append(m, x)[i] = m[i]
  OBVIOUS
<1>5. ASSUME NEW j \in S
      PROVE  Append(m, x)[Cardinality({i \in S \cup {n} : ~Precedes(j, i)})] = NameAt(d, j)
  <2> DEFINE T == {i \in S : ~Precedes(j, i)}
  <2>1. {i \in S \cup {n} : ~Precedes(j, i)} = T
    OBVIOUS
  <2>2. j \in T
    BY PrecedesOrders
  <2>3. IsFiniteSet(T) /\ Cardinality(T) \in Nat /\ Cardinality(T) <= Cardinality(S)
    BY FS_Subset, FS_CardinalityType
  <2>4. Cardinality(T) # 0
    BY <2>2, <2>3, FS_EmptySet
  <2>5. Cardinality(T) \in 1..Len(m)
    BY <1>2, <1>3, <2>3, <2>4
  <2>6. m[Cardinality(T)] = NameAt(d, j)
    BY DEF AreNamesAt
  <2> HIDE DEF T
  <2>7. QED
    BY <1>4, <2>1, <2>5, <2>6
<1>6. {i \in S \cup {n} : ~Precedes(n, i)} = S \cup {n}
  BY <1>1, PrecedesOrders
<1>7. Append(m, x)[Cardinality({i \in S \cup {n} : ~Precedes(n, i)})] = NameAt(d, n)
  BY <1>2, <1>3, <1>4, <1>6
<1>8. Len(Append(m, x)) = Cardinality(S \cup {n})
  BY <1>2, <1>3, <1>4
<1>9. QED
  BY <1>5, <1>7, <1>8 DEF AreNamesAt

----------------------------------------------------------------------------
\* The source is the same.
Own(k) == AreNamesAt(shown[k].modules, shown[k].dev, Printed(shown[k].dev))

LEMMA SameSource ==
  ASSUME UNCHANGED <<loader, lines>>
  PROVE  /\ \A d : PlacesOf(d)' = PlacesOf(d) /\ Printed(d)' = Printed(d)
         /\ \A d, i : NameAt(d, i)' = NameAt(d, i)
         /\ \A i, j : Precedes(i, j)' = Precedes(i, j)
         /\ \A m, d, S : AreNamesAt(m, d, S)' <=> AreNamesAt(m, d, S)
<1>1. \A d : PlacesOf(d)' = PlacesOf(d)
  BY DEF PlacesOf
<1>2. \A d, i : NameAt(d, i)' = NameAt(d, i)
  BY DEF NameAt
<1>3. \A i, j : Precedes(i, j)' = Precedes(i, j)
  BY DEF Precedes
<1>4. \A d, i, j : Follows(d, i, j)' <=> Follows(d, i, j)
  BY <1>1, <1>3 DEF Follows
<1>5. \A d, j : Repeats(d, j)' <=> Repeats(d, j)
  BY <1>1, <1>2, <1>3, <1>4 DEF Repeats
<1>6. \A d : Printed(d)' = Printed(d)
  BY <1>1, <1>5 DEF Printed
<1>7. ASSUME NEW m, NEW d, NEW S PROVE AreNamesAt(m, d, S)' <=> AreNamesAt(m, d, S)
  BY <1>2, <1>3 DEF AreNamesAt
<1>8. QED
  BY <1>1, <1>2, <1>3, <1>6, <1>7

LEMMA OwnKept ==
  ASSUME UNCHANGED <<loader, lines>>, NEW k, Own(k), shown'[k] = shown[k]
  PROVE  Own(k)'
<1>1. PICK e : e = shown[k]
  OBVIOUS
<1>2. AreNamesAt(e.modules, e.dev, Printed(e.dev))
  BY <1>1 DEF Own
<1>3. AreNamesAt(e.modules, e.dev, Printed(e.dev))'
  BY <1>2, SameSource
<1>4. e = shown'[k]
  BY <1>1
<1>5. QED
  BY <1>3, <1>4 DEF Own

LEMMA OwnIs == ModulesAreOwn <=> \A k \in 1..Len(shown) : k < Len(shown) \/ ~asking => Own(k)
BY DEF ModulesAreOwn, Own

LEMMA ZeroUpToZero == 0 \in 0..0
OBVIOUS

\* Before anything is shown the invariant is about the list.
LEMMA NoneShown ==
  ASSUME (ListOfLines /\ KernelTypes)',
         shown' = <<>>, ~asking', klist' = <<>>, kcurrent' = 0, current' = 0,
         prev_module' = ""
  PROVE  KernelInv'
<1>1. <<>> \in Seq(Shown) /\ Len(<<>>) = 0
  BY EmptySeq
<1>2. ModulesAreOwn'
  BY <1>1, NothingYet DEF ModulesAreOwn
<1>3. QED
  BY <1>2 DEF KernelInv

LEMMA NoneShownYet ==
  ASSUME KernelInv, inited \in {"no", "reading"}
  PROVE  /\ ListOfLines /\ KernelTypes /\ shown = <<>> /\ ~asking
         /\ klist = <<>> /\ kcurrent = 0 /\ current = 0 /\ prev_module = ""
BY DEF KernelInv, KernelTypes

LEMMA StartKernelKeeps == KernelInv /\ StartKernel => KernelInv'
<1> SUFFICES ASSUME KernelInv, StartKernel PROVE KernelInv'
  OBVIOUS
<1>1. inited = "no"
  BY DEF KernelInv, KernelTypes, StartKernel
<1>2. ListOfLines'
  BY DEF KernelInv, ListOfLines, StartKernel
<1>3. KernelTypes'
  BY <1>1, KernelAssumption DEF KernelInv, KernelTypes, StartKernel, Devices
<1>4. QED
  BY <1>1, <1>2, <1>3, NoneShownYet, NoneShown DEF StartKernel

LEMMA ShowKernelInitKeeps == KernelInv /\ ShowKernelInit => KernelInv'
<1> SUFFICES ASSUME KernelInv, ShowKernelInit PROVE KernelInv'
  OBVIOUS
<1>1. inited = "no" /\ KernelTypes /\ ListOfLines /\ shown = <<>>
  BY NoneShownYet DEF ShowKernelInit
<1>2. lines_read = 0 /\ pcimap = <<>>
  BY <1>1 DEF KernelTypes
<1>3. ListOfLines'
  <2>1. lines' \in Seq(MapLines)
    BY <1>1, KernelAssumption DEF ShowKernelInit, ListOfLines
  <2>2. lines_read' = 0 /\ pcimap' = <<>>
    BY <1>2 DEF ShowKernelInit
  <2>3. QED
    BY <2>1, <2>2 DEF ListOfLines
<1>4. KernelTypes'
  <2>1. toShow' \in Seq(Devices) /\ loader' = loader /\ asking' = asking /\ shown' = <<>>
    <3>1. toShow' \in {toShow, <<>>}
      BY DEF ShowKernelInit
    <3>2. toShow \in Seq(Devices) /\ <<>> \in Seq(Devices)
      BY <1>1, EmptySeq DEF KernelTypes
    <3>3. QED
      BY <1>1, <3>1, <3>2 DEF ShowKernelInit
  <2>2. inited' \in {"reading", "failed", "yes"}
    BY DEF ShowKernelInit
  <2>3. loader' # "idle" /\ (inited' = "yes" => loader' # "pcimap")
    BY DEF ShowKernelInit
  <2>4. QED
    BY <1>1, <2>1, <2>2, <2>3 DEF KernelTypes
<1>5. QED
  BY <1>1, <1>3, <1>4, NoneShownYet, NoneShown DEF ShowKernelInit

LEMMA ReadMapLineKeeps == KernelInv /\ ReadMapLine => KernelInv'
<1> SUFFICES ASSUME KernelInv, ReadMapLine PROVE KernelInv'
  OBVIOUS
<1>1. inited = "reading" /\ KernelTypes /\ ListOfLines /\ shown = <<>>
  BY NoneShownYet DEF ReadMapLine
<1>2. ListOfLines'
  <2>1. CASE UNCHANGED <<lines_read, pcimap>>
    BY <1>1, <2>1 DEF ListOfLines, ReadMapLine
  <2>2. CASE lines_read < Len(lines) /\ lines_read' = lines_read + 1
    <3> DEFINE n == lines_read + 1
    <3>1. /\ lines' = lines /\ lines \in Seq(MapLines) /\ n \in 1..Len(lines)
          /\ lines_read \in Nat /\ pcimap \in Seq(1..lines_read)
          /\ pcimap' = IF lines[n].kind = "entry" THEN <<n>> \o pcimap ELSE pcimap
      BY <1>1, <2>2 DEF ListOfLines, ReadMapLine
    <3>2. pcimap \in Seq(1..n)
      <4>1. 1..lines_read \subseteq 1..n
        BY <3>1
      <4>2. QED
        BY <3>1, <4>1
    <3>3. CASE lines[n].kind # "entry"
      <4>1. \A l \in 1..n : l = n \/ l \in 1..lines_read
        BY <3>1
      <4>2. lines' = lines /\ pcimap' = pcimap /\ lines_read' = n /\ n \in 0..Len(lines)
        BY <2>2, <3>1, <3>3
      <4> HIDE DEF n
      <4>3. QED
        BY <1>1, <3>2, <3>3, <4>1, <4>2 DEF ListOfLines
    <3>4. CASE lines[n].kind = "entry"
      <4> DEFINE p == <<n>> \o pcimap
      <4>1. /\ <<n>> \in Seq(1..n) /\ Len(<<n>>) = 1 /\ <<n>>[1] = n
        BY <3>1
      <4>2. /\ p \in Seq(1..n) /\ Len(p) = Len(pcimap) + 1 /\ p[1] = n
            /\ \A i \in 1..Len(pcimap) : p[i + 1] = pcimap[i]
        BY <3>2, <4>1, ConcatProperties
      <4>3. lines' = lines /\ pcimap' = p /\ lines_read' = n /\ n \in 0..Len(lines)
        BY <2>2, <3>1, <3>4
      <4>a. \A i \in 1..Len(p) : 1 # i => i - 1 \in 1..Len(pcimap) /\ p[i] = pcimap[i - 1]
        <5>1. ASSUME NEW i \in 1..Len(p), 1 # i
              PROVE  i - 1 \in 1..Len(pcimap) /\ p[i] = pcimap[i - 1]
          <6>1. Len(pcimap) \in Nat
            BY <3>1
          <6>2. i - 1 \in 1..Len(pcimap) /\ (i - 1) + 1 = i
            BY <4>2, <5>1, <6>1
          <6> HIDE DEF p
          <6>3. QED
            BY <4>2, <6>2
        <5>2. QED
          BY <5>1
      <4> HIDE DEF p
      <4>4. /\ Len(pcimap) \in Nat
            /\ \A i \in 1..Len(pcimap) : pcimap[i] < n
        <5>1. Len(pcimap) \in Nat /\ \A i \in 1..Len(pcimap) : pcimap[i] \in 1..lines_read
          BY <3>1
        <5>3. \A i \in 1..Len(pcimap) : pcimap[i] < n
          BY <3>1, <5>1
        <5>4. QED
          BY <5>1, <5>3
      <4> HIDE DEF n
      <4>5. ASSUME NEW i \in 1..Len(p), NEW j \in 1..Len(p), i < j PROVE p[j] < p[i]
        <5>1. 1 # j /\ (1 # i => i - 1 < j - 1)
          BY <4>2, <4>4, <4>5
        <5>2. j - 1 \in 1..Len(pcimap) /\ p[j] = pcimap[j - 1]
          BY <4>a, <5>1
        <5>3. CASE i = 1
          BY <4>2, <4>4, <5>2, <5>3
        <5>4. CASE 1 # i
          BY <1>1, <4>a, <5>1, <5>2, <5>4 DEF ListOfLines
        <5>5. QED
          BY <5>3, <5>4
      <4>6. ASSUME NEW l \in 1..n, lines[l].kind = "entry"
            PROVE  \E i \in 1..Len(p) : p[i] = l
        <5>1. l = n \/ l \in 1..lines_read
          BY <3>1 DEF n
        <5>2. 1 \in 1..Len(p) /\ \A i \in 1..Len(pcimap) : i + 1 \in 1..Len(p)
          BY <4>2, <4>4
        <5>3. QED
          BY <1>1, <4>2, <4>6, <5>1, <5>2 DEF ListOfLines
      <4>7. ASSUME NEW i \in 1..Len(p) PROVE lines[p[i]].kind = "entry"
        <5>1. lines[n].kind = "entry"
          BY <3>4 DEF n
        <5>2. CASE i = 1
          BY <4>2, <5>1, <5>2
        <5>3. CASE i # 1
          <6>1. i - 1 \in 1..Len(pcimap) /\ p[i] = pcimap[i - 1]
            BY <4>a, <5>3
          <6>2. QED
            BY <1>1, <6>1 DEF ListOfLines
        <5>4. QED
          BY <5>2, <5>3
      <4>8. QED
        BY <3>1, <4>2, <4>3, <4>5, <4>6, <4>7 DEF ListOfLines
    <3>5. QED
      BY <3>3, <3>4
  <2>3. QED
    BY <2>1, <2>2 DEF ReadMapLine
<1>3. KernelTypes'
  <2>1. /\ toShow' \in Seq(Devices) /\ loader' = loader /\ asking' = asking /\ shown' = <<>>
        /\ lines' = lines
    <3>1. toShow' \in {toShow, <<>>}
      BY DEF ReadMapLine
    <3>2. toShow \in Seq(Devices) /\ <<>> \in Seq(Devices)
      BY <1>1, EmptySeq DEF KernelTypes
    <3>3. QED
      BY <1>1, <3>1, <3>2 DEF ReadMapLine
  <2>2. inited' = "reading" \/ (inited' = "yes" /\ lines_read' = Len(lines))
    BY <1>1 DEF ReadMapLine
  <2>3. QED
    BY <1>1, <2>1, <2>2 DEF KernelTypes
<1>4. QED
  BY <1>1, <1>2, <1>3, NoneShownYet, NoneShown DEF ReadMapLine

----------------------------------------------------------------------------
\* One more module is found for the device at hand.
LEMMA MoreModules ==
  ASSUME ListOfLines, KernelTypes, loader \in {"kmod", "pcimap"}, NEW d \in Devices,
         shown # <<>>, shown[Len(shown)].dev = d, NEW a \in Nat, NEW n \in Nat,
         AreNamesAt(shown[Len(shown)].modules, d, Upto(Printed(d), a)),
         prev_module = LastName(d, a), NextPlace(PlacesOf(d), a, n),
         NEW x \in STRING, x = NameAt(d, n), Filtered(TRUE, x)
  PROVE  /\ prev_module' = x
         /\ shown' \in Seq(Shown) /\ Len(shown') = Len(shown)
         /\ \A k \in 1..Len(shown) : k < Len(shown) => shown'[k] = shown[k]
         /\ shown'[Len(shown)].dev = d
         /\ AreNamesAt(shown'[Len(shown)].modules, d, Upto(Printed(d), n))
<1> DEFINE N == Len(shown)
           m == shown[N].modules
<1>1. /\ PlacesOf(d) \in SUBSET (Nat \ {0}) /\ Printed(d) \in SUBSET PlacesOf(d)
      /\ IsFiniteSet(Printed(d))
  BY PlacesAre
<1>2. n \in Printed(d) <=> x # prev_module
  BY <1>1, PrintedIfNew
<1>3. /\ Upto(Printed(d), n) =
           IF n \in Printed(d) THEN Upto(Printed(d), a) \cup {n} ELSE Upto(Printed(d), a)
      /\ \A i \in Upto(Printed(d), a) : Precedes(i, n)
  BY <1>1, UptoNext
<1>4. /\ shown \in Seq(Shown) /\ N \in 1..Len(shown) /\ shown[N] \in Shown
      /\ m \in Seq(STRING)
  <2>1. shown \in Seq(Shown)
    BY DEF KernelTypes
  <2>2. N \in Nat /\ N # 0
    BY <2>1, EmptySeq
  <2>3. N \in 1..Len(shown) /\ shown[N] \in Shown
    BY <2>1, <2>2
  <2>4. QED
    BY <2>1, <2>3 DEF Shown
<1>5. prev_module' = x
  BY DEF Filtered
<1>6. CASE x = prev_module
  <2>1. shown' = shown
    BY <1>6 DEF Filtered
  <2>2. Upto(Printed(d), n) = Upto(Printed(d), a)
    BY <1>2, <1>3, <1>6
  <2>3. QED
    BY <1>4, <1>5, <2>1, <2>2
<1>7. CASE x # prev_module
  <2> DEFINE e == [dev |-> d, modules |-> Append(m, x)]
  <2>1. shown' = [shown EXCEPT ![N] = e]
    BY <1>7 DEF Filtered, Shows
  <2>2. e \in Shown /\ e.dev = d /\ e.modules = Append(m, x)
    BY <1>4 DEF Shown
  <2>3. Upto(Printed(d), n) = Upto(Printed(d), a) \cup {n}
    BY <1>2, <1>3, <1>7
  <2>4. Upto(Printed(d), a) \in SUBSET Nat /\ IsFiniteSet(Upto(Printed(d), a))
    <3>1. Upto(Printed(d), a) \subseteq Printed(d)
      BY DEF Upto
    <3>2. QED
      BY <1>1, <3>1, FS_Subset
  <2>5. AreNamesAt(Append(m, x), d, Upto(Printed(d), a) \cup {n})
    BY <1>3, <1>4, <2>4, NamesAtOneMore
  <2> HIDE DEF e
  <2>6. /\ shown' \in Seq(Shown) /\ Len(shown') = N /\ shown'[N] = e
        /\ \A k \in 1..N : k < N => shown'[k] = shown[k]
    BY <1>4, <2>1, <2>2
  <2>7. QED
    BY <1>5, <2>2, <2>3, <2>5, <2>6
<1>8. QED
  BY <1>6, <1>7

\* The loop goes on.
LEMMA LoopGoesOn ==
  ASSUME KernelInv, asking, NEW d \in Devices, d = Head(toShow), NEW n \in Nat,
         NextPlace(PlacesOf(d), At, n), NameAt(d, n) \in STRING,
         Filtered(TRUE, NameAt(d, n)), Asked(TRUE),
         UNCHANGED <<loader, inited, lines, lines_read, pcimap>>, At' = n,
         loader = "kmod" => /\ klist' = Lookups[d] /\ kcurrent' \in 1..Len(Lookups[d])
                            /\ current' = 0,
         loader = "pcimap" => /\ current' \in 1..Len(pcimap)
                              /\ pcimap[current'] \in PlacesOf(d)
                              /\ klist' = <<>> /\ kcurrent' = 0
  PROVE  KernelInv'
<1>1. /\ ListOfLines /\ KernelTypes /\ toShow # <<>> /\ inited = "yes" /\ InLoop(d)
      /\ ModulesAreOwn
  BY DEF KernelInv
<1>2. loader \in {"kmod", "pcimap"}
  BY <1>1 DEF KernelTypes
<1>3. At \in Nat
  <2>1. CASE loader = "kmod"
    BY <1>1, <2>1, KernelAssumption DEF InLoop, At, Devices
  <2>2. CASE loader = "pcimap"
    BY <1>1, <2>2 DEF InLoop, At, ListOfLines
  <2>3. QED
    BY <1>2, <2>1, <2>2
<1>4. /\ prev_module' = NameAt(d, n)
      /\ shown' \in Seq(Shown) /\ Len(shown') = Len(shown)
      /\ \A k \in 1..Len(shown) : k < Len(shown) => shown'[k] = shown[k]
      /\ shown'[Len(shown)].dev = d
      /\ AreNamesAt(shown'[Len(shown)].modules, d, Upto(Printed(d), n))
  <2>1. /\ shown # <<>> /\ shown[Len(shown)].dev = d /\ prev_module = LastName(d, At)
        /\ AreNamesAt(shown[Len(shown)].modules, d, Upto(Printed(d), At))
    BY <1>1 DEF InLoop
  <2>2. PICK a \in Nat : a = At
    BY <1>3
  <2>3. PICK x \in STRING : x = NameAt(d, n)
    OBVIOUS
  <2>4. QED
    BY <1>1, <1>2, <2>1, <2>2, <2>3, MoreModules
<1>5. Len(shown) \in Nat /\ shown # <<>> /\ shown' # <<>>
  <2>1. shown \in Seq(Shown) /\ shown # <<>>
    BY <1>1 DEF KernelTypes, InLoop
  <2>2. Len(shown) \in Nat /\ Len(shown) # 0
    BY <2>1
  <2>3. QED
    BY <1>4, <2>1, <2>2, EmptySeq
<1>6. /\ asking' /\ toShow' = toShow
  BY DEF Asked
<1>7. ListOfLines'
  BY <1>1 DEF ListOfLines
<1>8. KernelTypes'
  BY <1>1, <1>4, <1>6 DEF KernelTypes
<1>9. InLoop(d)'
  <2>1. AreNamesAt(shown[Len(shown)].modules, d, Upto(Printed(d), n))'
    <3>1. PICK m, S : m = shown'[Len(shown')].modules /\ S = Upto(Printed(d), n)
      OBVIOUS
    <3>2. AreNamesAt(m, d, S)'
      BY <1>4, <3>1, SameSource
    <3>3. Upto(Printed(d), n)' = S
      BY <3>1, SameSource DEF Upto
    <3>4. QED
      BY <3>1, <3>2, <3>3
  <2>2. n # 0
    BY <1>1, <1>2, PlacesAre DEF NextPlace
  <2>3. LastName(d, n)' = NameAt(d, n)
    BY <2>2, SameSource DEF LastName
  <2>4. Upto(Printed(d), n)' = Upto(Printed(d), At)'
    BY DEF Upto
  <2>5. LastName(d, n)' = LastName(d, At)'
    BY SameSource DEF LastName
  <2>6. PlacesOf(d)' = PlacesOf(d)
    BY SameSource
  <2>7. loader' = "kmod" => /\ kcurrent' # 0 /\ klist' = Lookups[d]
                            /\ kcurrent' \in 1..Len(klist') /\ current' = 0
    BY <1>2
  <2>8. loader' = "pcimap" => /\ klist' = <<>> /\ kcurrent' = 0
                              /\ current' \in 0..Len(pcimap')
                              /\ pcimap'[current'] \in PlacesOf(d)'
    BY <1>1, <2>6 DEF ListOfLines
  <2>9. QED
    BY <1>4, <1>5, <2>1, <2>3, <2>4, <2>5, <2>7, <2>8 DEF InLoop
<1>10. ModulesAreOwn'
  <2>1. ASSUME NEW k \in 1..Len(shown'), k < Len(shown') PROVE Own(k)'
    <3>1. Own(k) /\ shown'[k] = shown[k]
      BY <1>1, <1>4, <2>1, OwnIs
    <3>2. QED
      BY <3>1, OwnKept
  <2>2. QED
    BY <1>6, <2>1 DEF ModulesAreOwn, Own
<1>11. Head(toShow)' = d
  BY <1>6
<1>12. QED
  BY <1>1, <1>6, <1>7, <1>8, <1>9, <1>10, <1>11 DEF KernelInv

\* The loop ends.
LEMMA LoopEnds ==
  ASSUME KernelInv, asking, NEW d \in Devices, d = Head(toShow),
         IF At = 0 THEN PlacesOf(d) = {} ELSE \A k \in PlacesOf(d) : ~Precedes(At, k),
         NEW x, Filtered(FALSE, x), Asked(FALSE),
         UNCHANGED <<loader, inited, lines, lines_read, pcimap>>,
         klist' = <<>>, kcurrent' = 0, current' = 0
  PROVE  KernelInv'
<1>1. /\ ListOfLines /\ KernelTypes /\ toShow # <<>> /\ inited = "yes" /\ InLoop(d)
      /\ ModulesAreOwn
  BY DEF KernelInv
<1>2. loader \in {"kmod", "pcimap"}
  BY <1>1 DEF KernelTypes
<1>3. prev_module' = "" /\ shown' = shown /\ ~asking' /\ toShow' = Tail(toShow)
  BY DEF Filtered, Asked
<1>4. ListOfLines'
  BY <1>1 DEF ListOfLines
<1>5. KernelTypes'
  <2>1. toShow' \in Seq(Devices)
    BY <1>1, <1>3, HeadTailProperties DEF KernelTypes
  <2>2. QED
    BY <1>1, <1>3, <2>1 DEF KernelTypes, Asked
<1>6. Own(Len(shown))
  <2>1. Printed(d) \subseteq PlacesOf(d)
    BY DEF Printed
  <2>2. PICK a : a = At
    OBVIOUS
  <2>3. IF a = 0 THEN Printed(d) = {} ELSE \A k \in Printed(d) : ~Precedes(a, k)
    BY <2>1, <2>2
  <2>4. Upto(Printed(d), a) = Printed(d)
    BY <2>3, UptoAll
  <2>5. QED
    BY <1>1, <2>2, <2>4 DEF InLoop, Own
<1>7. ModulesAreOwn'
  <2>1. Len(shown) \in Nat
    BY <1>1 DEF KernelTypes
  <2>2. ASSUME NEW k \in 1..Len(shown) PROVE Own(k)'
    <3>1. Own(k)
      BY <1>1, <1>6, <2>1, OwnIs
    <3>2. QED
      BY <1>3, <3>1, OwnKept
  <2>3. QED
    BY <1>3, <2>2 DEF ModulesAreOwn, Own
<1>8. QED
  BY <1>3, <1>4, <1>5, <1>7 DEF KernelInv

LEMMA BeginModulesKeeps == KernelInv /\ BeginModules => KernelInv'
<1> SUFFICES ASSUME KernelInv, BeginModules PROVE KernelInv'
  OBVIOUS
<1>1. /\ ListOfLines /\ KernelTypes /\ ModulesAreOwn /\ ~asking /\ toShow # <<>>
      /\ klist = <<>> /\ kcurrent = 0 /\ current = 0 /\ prev_module = ""
      /\ UNCHANGED <<loader, inited, lines, lines_read, klist, kcurrent, pcimap, current,
                     prev_module>>
  BY DEF KernelInv, BeginModules
<1>2. ListOfLines'
  BY <1>1 DEF ListOfLines
<1>3. shown \in Seq(Shown) /\ Len(shown) \in Nat /\ toShow \in Seq(Devices)
  <2>1. shown \in Seq(Shown) /\ toShow \in Seq(Devices)
    BY <1>1 DEF KernelTypes
  <2>2. QED
    BY <2>1
<1>4. Head(toShow) \in Devices /\ Tail(toShow) \in Seq(Devices)
  BY <1>1, <1>3, HeadTailProperties
<1>5. CASE inited # "yes"
  <2>1. toShow' = Tail(toShow) /\ asking' = asking /\ shown' = shown
    BY <1>5 DEF BeginModules
  <2>2. KernelTypes'
    BY <1>1, <1>4, <2>1 DEF KernelTypes
  <2>3. ModulesAreOwn'
    <3>1. ASSUME NEW k \in 1..Len(shown) PROVE Own(k)'
      BY <1>1, <2>1, <3>1, OwnIs, OwnKept
    <3>2. QED
      BY <2>1, <3>1 DEF ModulesAreOwn, Own
  <2>4. QED
    BY <1>1, <1>2, <2>1, <2>2, <2>3 DEF KernelInv
<1>6. CASE inited = "yes"
  <2> DEFINE d == Head(toShow)
             e == [dev |-> d, modules |-> <<>>]
             n == Len(shown) + 1
  <2>1. toShow' = toShow /\ asking' /\ shown' = Append(shown, e)
    BY <1>6 DEF BeginModules
  <2>2. e \in Shown /\ e.dev = d /\ e.modules = <<>>
    BY <1>4, EmptySeq DEF Shown
  <2> HIDE DEF e
  <2>3. /\ shown' \in Seq(Shown) /\ shown' # <<>> /\ Len(shown') = n /\ shown'[n] = e
        /\ \A k \in 1..Len(shown) : shown'[k] = shown[k]
    BY <1>3, <2>1, <2>2
  <2>4. KernelTypes'
    BY <1>1, <1>6, <2>1, <2>3 DEF KernelTypes
  <2>5. InLoop(d)'
    <3>1. At' = 0
      BY <1>1 DEF At
    <3>2. Upto(Printed(d), At)' = {}
      BY <3>1 DEF Upto
    <3>3. Len(<<>>) = 0 /\ Cardinality({}) = 0
      BY EmptySeq, FS_EmptySet
    <3>4. AreNamesAt(<<>>, d, {})'
      BY <3>3 DEF AreNamesAt
    <3>5. shown'[Len(shown')].dev = d /\ shown'[Len(shown')].modules = <<>>
      BY <2>2, <2>3
    <3>6. Head(toShow') = d
      BY <2>1
    <3>7. LastName(d, At)' = ""
      BY <3>1 DEF LastName
    <3>8. AreNamesAt(shown[Len(shown)].modules, d, Upto(Printed(d), At))'
      BY <3>2, <3>4, <3>5, <3>6
    <3>9. current' = 0 /\ kcurrent' = 0 /\ klist' = <<>> /\ 0 \in 0..Len(pcimap')
      <4>1. pcimap \in Seq(1..lines_read) /\ pcimap' = pcimap
        BY <1>1 DEF ListOfLines
      <4>2. 0 \in 0..Len(pcimap)
        BY <4>1, LenProperties
      <4>3. QED
        BY <1>1, <4>1, <4>2
    <3>10. QED
      BY <1>1, <2>3, <3>5, <3>6, <3>7, <3>8, <3>9 DEF InLoop
  <2>6. ModulesAreOwn'
    <3>1. ASSUME NEW k \in 1..Len(shown'), k < Len(shown') PROVE Own(k)'
      <4>1. k \in 1..Len(shown)
        BY <1>3, <2>3, <3>1
      <4>2. Own(k) /\ shown'[k] = shown[k]
        BY <1>1, <2>3, <4>1, OwnIs
      <4>3. QED
        BY <1>1, <4>2, OwnKept
    <3>2. QED
      BY <2>1, <3>1 DEF ModulesAreOwn, Own
  <2>7. QED
    BY <1>2, <1>6, <1>1, <2>1, <2>4, <2>5, <2>6 DEF KernelInv
<1>7. QED
  BY <1>5, <1>6

LEMMA NextModuleKmodKeeps == KernelInv /\ NextModuleKmod => KernelInv'
<1> SUFFICES ASSUME KernelInv, NextModuleKmod PROVE KernelInv'
  OBVIOUS
<1> DEFINE d == Head(toShow)
           found == IF klist # <<>> THEN klist ELSE Lookups[d]
           n == IF klist # <<>> THEN kcurrent + 1 ELSE 1
<1>1. /\ asking /\ loader = "kmod" /\ ListOfLines /\ KernelTypes
      /\ toShow # <<>> /\ InLoop(d)
      /\ UNCHANGED <<loader, inited, lines, lines_read, pcimap, current>>
  BY DEF KernelInv, NextModuleKmod
<1>2. d \in Devices
  BY <1>1, HeadTailProperties DEF KernelTypes
<1>3. Lookups[d] \in Seq(STRING) /\ Len(Lookups[d]) \in Nat
  BY <1>2, KernelAssumption DEF Devices
<1>4. /\ found = Lookups[d] /\ kcurrent \in 0..Len(Lookups[d]) /\ n = kcurrent + 1
      /\ kcurrent = 0 <=> klist = <<>>
  <2>1. IF kcurrent = 0 THEN klist = <<>>
        ELSE klist = Lookups[d] /\ kcurrent \in 1..Len(klist)
    BY <1>1 DEF InLoop
  <2>2. CASE kcurrent = 0
    BY <1>3, <2>1, <2>2
  <2>3. CASE kcurrent # 0
    <3>1. klist = Lookups[d] /\ kcurrent \in 1..Len(Lookups[d])
      BY <2>1, <2>3
    <3>2. klist # <<>>
      <4>1. Len(Lookups[d]) # 0
        BY <1>3, <3>1
      <4>2. QED
        BY <3>1, <4>1, EmptySeq
    <3>3. QED
      BY <2>3, <3>1, <3>2
  <2>4. QED
    BY <2>2, <2>3
<1>5. /\ PlacesOf(d) = 1..Len(Lookups[d]) /\ At = kcurrent
      /\ \A i, j : Precedes(i, j) <=> i < j
      /\ \A i : NameAt(d, i) = Lookups[d][i]
  BY <1>1 DEF PlacesOf, At, Precedes, NameAt
<1>6. CASE n <= Len(Lookups[d])
  <2>1. /\ klist' = Lookups[d] /\ kcurrent' = n
        /\ Filtered(TRUE, Lookups[d][n]) /\ Asked(TRUE)
    BY <1>4, <1>6 DEF NextModuleKmod
  <2>2. n \in Nat /\ n \in 1..Len(Lookups[d]) /\ Lookups[d][n] \in STRING
    BY <1>3, <1>4, <1>6
  <2>3. NextPlace(PlacesOf(d), At, n)
    BY <1>3, <1>4, <1>5, <2>2 DEF NextPlace
  <2>4. At' = n
    BY <1>1, <2>1 DEF At
  <2> HIDE DEF n, d, found
  <2>5. NameAt(d, n) \in STRING /\ Filtered(TRUE, NameAt(d, n))
    BY <1>5, <2>1, <2>2
  <2>6. d = Head(toShow)
    BY DEF d
  <2>7. loader # "pcimap"
    BY <1>1
  <2>8. /\ klist' = Lookups[d] /\ kcurrent' \in 1..Len(Lookups[d]) /\ current' = 0
    BY <1>1, <2>1, <2>2 DEF InLoop
  <2>9. UNCHANGED <<loader, inited, lines, lines_read, pcimap>> /\ asking /\ Asked(TRUE)
    BY <1>1, <2>1
  <2>10. n \in Nat /\ d \in Devices
    BY <1>2, <2>2
  <2>11. QED
    BY <2>3, <2>4, <2>5, <2>6, <2>7, <2>8, <2>9, <2>10, LoopGoesOn
<1>7. CASE ~(n <= Len(Lookups[d]))
  <2>1. /\ klist' = <<>> /\ kcurrent' = 0 /\ Filtered(FALSE, "") /\ Asked(FALSE)
    <3>1. ~(n <= Len(found))
      BY <1>4, <1>7
    <3>2. /\ klist' = IF n <= Len(found) THEN found ELSE <<>>
          /\ kcurrent' = IF n <= Len(found) THEN n ELSE 0
          /\ Filtered(n <= Len(found), IF n <= Len(found) THEN found[n] ELSE "")
          /\ Asked(n <= Len(found))
      BY DEF NextModuleKmod
    <3>3. (n <= Len(found)) = FALSE
      BY <3>1
    <3> HIDE DEF n, found
    <3>4. QED
      BY <3>2, <3>3
  <2>2. IF At = 0 THEN PlacesOf(d) = {} ELSE \A k \in PlacesOf(d) : ~Precedes(At, k)
    BY <1>3, <1>4, <1>5, <1>7
  <2>3. current' = 0
    BY <1>1 DEF InLoop
  <2>4. d = Head(toShow)
    OBVIOUS
  <2>5. PICK x : x = ""
    OBVIOUS
  <2> HIDE DEF n, d, found
  <2>6. Filtered(FALSE, x)
    BY <2>1, <2>5
  <2>7. QED
    <3>1. UNCHANGED <<loader, inited, lines, lines_read, pcimap>>
      BY <1>1
    <3>2. asking /\ d \in Devices /\ d = Head(toShow) /\ Asked(FALSE)
      BY <1>1, <1>2, <2>1, <2>4
    <3>3. klist' = <<>> /\ kcurrent' = 0 /\ current' = 0
      BY <2>1, <2>3
    <3>4. QED
      BY <2>2, <2>6, <3>1, <3>2, <3>3, LoopEnds
<1>8. QED
  BY <1>6, <1>7

LEMMA NextModulePcimapKeeps == KernelInv /\ NextModulePcimap => KernelInv'
<1> SUFFICES ASSUME KernelInv, NextModulePcimap PROVE KernelInv'
  OBVIOUS
<1> DEFINE d == Head(toShow)
           matching == {i \in current + 1..Len(pcimap) : EntryMatches(d, lines[pcimap[i]])}
           n == CHOOSE i \in matching : \A j \in matching : i <= j
<1>1. /\ asking /\ loader = "pcimap" /\ ListOfLines /\ KernelTypes
      /\ toShow # <<>> /\ InLoop(d) /\ inited = "yes"
      /\ UNCHANGED <<loader, inited, lines, lines_read, klist, kcurrent, pcimap>>
  BY DEF KernelInv, NextModulePcimap
<1>2. d \in Devices
  BY <1>1, HeadTailProperties DEF KernelTypes
<1>3. /\ klist = <<>> /\ kcurrent = 0 /\ current \in 0..Len(pcimap)
      /\ current # 0 => pcimap[current] \in PlacesOf(d)
  BY <1>1 DEF InLoop
<1>4. /\ lines_read = Len(lines) /\ lines \in Seq(MapLines) /\ Len(lines) \in Nat
      /\ Len(pcimap) \in Nat /\ \A i \in 1..Len(pcimap) : pcimap[i] \in 1..Len(lines)
  <2>1. lines_read = Len(lines) /\ lines \in Seq(MapLines) /\ pcimap \in Seq(1..lines_read)
    BY <1>1 DEF KernelTypes, ListOfLines
  <2>2. QED
    BY <2>1
<1>5. /\ At = IF current = 0 THEN 0 ELSE pcimap[current]
      /\ \A i, j : Precedes(i, j) <=> j < i
      /\ \A i : NameAt(d, i) = lines[i].module
  BY <1>1 DEF At, Precedes, NameAt
<1>6. \A i \in 1..Len(pcimap) : pcimap[i] \in PlacesOf(d) <=> EntryMatches(d, lines[pcimap[i]])
  BY <1>1, <1>4 DEF PlacesOf, ListOfLines
<1>7. ASSUME NEW l \in PlacesOf(d) PROVE \E i \in 1..Len(pcimap) : pcimap[i] = l
  BY <1>1, <1>4 DEF PlacesOf, ListOfLines
<1>8. \A i, j \in 1..Len(pcimap) : i < j <=> pcimap[j] < pcimap[i]
  <2>1. \A i, j \in 1..Len(pcimap) : i < j => pcimap[j] < pcimap[i]
    BY <1>1 DEF ListOfLines
  <2>2. ASSUME NEW i \in 1..Len(pcimap), NEW j \in 1..Len(pcimap), pcimap[j] < pcimap[i]
        PROVE  i < j
    <3>1. ~(j < i)
      BY <1>4, <2>1, <2>2
    <3>2. i # j
      BY <1>4, <2>2
    <3>3. QED
      BY <1>4, <3>1, <3>2
  <2>3. QED
    BY <2>1, <2>2
<1>9. matching \in SUBSET Nat /\ matching \subseteq 1..Len(pcimap)
  BY <1>3, <1>4
<1>10. CASE matching # {}
  <2>1. n \in matching /\ \A j \in matching : n <= j
    BY <1>9, <1>10, LeastExists
  <2>2. n \in 1..Len(pcimap) /\ n > current /\ pcimap[n] \in PlacesOf(d)
    BY <1>3, <1>4, <1>6, <2>1
  <2>3. current' = n /\ Filtered(TRUE, lines[pcimap[n]].module) /\ Asked(TRUE)
    BY <1>10 DEF NextModulePcimap
  <2> DEFINE p == pcimap[n]
  <2>4. ASSUME NEW k \in PlacesOf(d), p < k
        PROVE  current # 0 /\ pcimap[current] <= k
    <3>1. PICK m \in 1..Len(pcimap) : pcimap[m] = k
      BY <1>7
    <3>2. m < n
      BY <1>8, <2>2, <2>4, <3>1
    <3>3. EntryMatches(d, lines[pcimap[m]])
      BY <1>6, <3>1
    <3>4. ~(m \in current + 1..Len(pcimap))
      <4>1. ASSUME m \in current + 1..Len(pcimap) PROVE FALSE
        <5>1. m \in matching
          BY <3>3, <4>1
        <5>2. n <= m
          BY <2>1, <5>1
        <5>3. n \in Nat /\ m \in Nat
          BY <1>4, <2>2
        <5> HIDE DEF n, matching
        <5>4. QED
          BY <3>2, <5>2, <5>3
      <4>2. QED
        BY <4>1
    <3>5. m <= current
      BY <1>3, <1>4, <3>4
    <3>6. current # 0 /\ current \in 1..Len(pcimap)
      BY <1>3, <1>4, <3>5
    <3>7. ~(k < pcimap[current])
      BY <1>4, <1>8, <3>1, <3>5, <3>6
    <3>8. QED
      BY <1>4, <3>1, <3>6, <3>7
  <2>5. NextPlace(PlacesOf(d), At, p)
    <3>1. CASE current = 0
      BY <1>5, <2>2, <2>4, <3>1 DEF NextPlace
    <3>2. CASE current # 0
      <4>1. current \in 1..Len(pcimap) /\ At = pcimap[current] /\ At # 0
        BY <1>3, <1>4, <1>5, <3>2
      <4>2. p < At
        BY <1>8, <2>2, <4>1
      <4>3. \A k \in PlacesOf(d) : ~(Precedes(At, k) /\ Precedes(k, p))
        <5>1. SUFFICES ASSUME NEW k \in PlacesOf(d), k < At, p < k PROVE FALSE
          BY <1>5
        <5>2. PICK m \in 1..Len(pcimap) : pcimap[m] = k
          BY <1>7
        <5>3. QED
          BY <1>4, <2>4, <4>1, <5>1, <5>2
      <4>4. At \in PlacesOf(d)
        BY <1>3, <3>2, <4>1
      <4>5. QED
        BY <1>5, <2>2, <4>1, <4>2, <4>3, <4>4 DEF NextPlace
    <3>3. QED
      BY <3>1, <3>2
  <2>6. p \in Nat /\ p # 0 /\ lines[p].module \in STRING
    <3>1. p \in 1..Len(lines) /\ lines[p] \in MapLines /\ lines[p].kind = "entry"
      BY <1>1, <1>4, <2>2 DEF ListOfLines
    <3>2. QED
      BY <1>4, <3>1 DEF MapLines
  <2>7. At' = p
    <3>1. loader' # "kmod" /\ current' = n /\ pcimap' = pcimap
      BY <1>1, <2>3
    <3>a. n # 0
      <4>1. n \in 1..Len(pcimap)
        BY <2>2
      <4> HIDE DEF n
      <4>2. QED
        BY <1>4, <4>1
    <3> HIDE DEF n
    <3>2. QED
      BY <3>1, <3>a DEF At
  <2>8. d = Head(toShow) /\ loader # "kmod"
    BY <1>1
  <2>9. NameAt(d, p) \in STRING /\ Filtered(TRUE, NameAt(d, p))
    BY <1>5, <2>3, <2>6
  <2>10. /\ current' \in 1..Len(pcimap) /\ pcimap[current'] \in PlacesOf(d)
         /\ klist' = <<>> /\ kcurrent' = 0
    BY <1>1, <1>3, <2>2, <2>3
  <2> HIDE DEF n, d, matching, p
  <2>11. QED
    BY <1>1, <1>2, <2>3, <2>5, <2>6, <2>7, <2>8, <2>9, <2>10, LoopGoesOn
<1>11. CASE matching = {}
  <2>1. current' = 0 /\ Asked(FALSE) /\ Filtered(FALSE, "")
    <3>1. /\ current' = IF matching # {} THEN n ELSE 0
          /\ Asked(matching # {})
          /\ Filtered(matching # {}, IF matching # {} THEN lines[pcimap[n]].module ELSE "")
      BY DEF NextModulePcimap
    <3>2. (matching # {}) = FALSE
      BY <1>11
    <3> HIDE DEF n, matching
    <3>3. QED
      BY <3>1, <3>2
  <2>2. IF At = 0 THEN PlacesOf(d) = {} ELSE \A k \in PlacesOf(d) : ~Precedes(At, k)
    <3>1. ASSUME NEW k \in PlacesOf(d) PROVE current # 0 /\ ~(k < pcimap[current])
      <4>1. PICK m \in 1..Len(pcimap) : pcimap[m] = k
        BY <1>7
      <4>2. ~(m \in current + 1..Len(pcimap))
        BY <1>6, <1>11, <4>1
      <4>3. m <= current /\ current # 0 /\ current \in 1..Len(pcimap)
        BY <1>3, <1>4, <4>2
      <4>4. ~(current < m)
        BY <1>3, <1>4, <4>3
      <4>5. QED
        BY <1>8, <4>1, <4>3, <4>4
    <3>2. CASE current = 0
      BY <1>5, <3>1, <3>2
    <3>3. CASE current # 0
      <4>1. At = pcimap[current] /\ At # 0
        BY <1>3, <1>4, <1>5, <3>3
      <4>2. QED
        BY <1>5, <3>1, <4>1
    <3>4. QED
      BY <3>2, <3>3
  <2>3. klist' = <<>> /\ kcurrent' = 0
    BY <1>1, <1>3
  <2>4. d = Head(toShow)
    OBVIOUS
  <2>5. PICK x : x = ""
    OBVIOUS
  <2> HIDE DEF n, d, matching
  <2>6. Filtered(FALSE, x)
    BY <2>1, <2>5
  <2>7. QED
    BY <1>1, <1>2, <2>1, <2>2, <2>3, <2>4, <2>6, LoopEnds
<1>12. QED
  BY <1>10, <1>11

\* Whatever devices are shown, in any order, with libkmod or any file: each gets
\* the modules that fit it and no others, in the order of their source.
THEOREM ModulesAreRight == KernelSpec => []ModulesAreOwn
<1>1. KernelInit => KernelInv
  <2> SUFFICES ASSUME KernelInit PROVE KernelInv
    OBVIOUS
  <2>1. <<>> \in Seq(MapLines) /\ <<>> \in Seq(Shown) /\ <<>> \in Seq(Devices)
        /\ <<>> \in Seq(1..0) /\ Len(<<>>) = 0
    BY EmptySeq
  <2>2. ListOfLines
    <3>1. /\ lines = <<>> /\ lines_read = 0 /\ pcimap = <<>> 
      BY DEF KernelInit
    <3>2. lines_read \in 0..Len(lines) /\ pcimap \in Seq(1..lines_read)
      BY <2>1, <3>1, ZeroUpToZero
    <3>3. lines \in Seq(MapLines)
      BY <2>1, <3>1
    <3>4. 1..Len(pcimap) = {} /\ 1..lines_read = {}
      BY <2>1, <3>1, NothingYet
    <3>5. QED
      BY <3>2, <3>3, <3>4 DEF ListOfLines
  <2>3. KernelTypes
    BY <2>1 DEF KernelInit, KernelTypes
  <2>4. ModulesAreOwn
    BY <2>1, NothingYet DEF KernelInit, ModulesAreOwn
  <2>5. QED
    BY <2>2, <2>3, <2>4 DEF KernelInit, KernelInv
<1>2. KernelInv /\ [KernelNext]_kernelVars => KernelInv'
  <2> SUFFICES ASSUME KernelInv, [KernelNext]_kernelVars PROVE KernelInv'
    OBVIOUS
  <2>1. CASE UNCHANGED kernelVars
    <3>1. ListOfLines' /\ KernelTypes'
      BY <2>1 DEF KernelInv, ListOfLines, KernelTypes, kernelVars
    <3>2. ModulesAreOwn'
      <4>1. ASSUME NEW k \in 1..Len(shown), k < Len(shown) \/ ~asking PROVE Own(k)'
        BY <2>1, <4>1, OwnIs, OwnKept DEF KernelInv, kernelVars
      <4>2. QED
        BY <2>1, <4>1 DEF ModulesAreOwn, Own, kernelVars
    <3>3. CASE asking
      <4> DEFINE d == Head(toShow)
      <4>1. /\ InLoop(d) /\ toShow' = toShow /\ At' = At /\ Head(toShow') = d
            /\ UNCHANGED <<loader, lines>>
        BY <2>1, <3>3 DEF KernelInv, kernelVars, At
      <4>2. PICK m, S : m = shown[Len(shown)].modules /\ S = Upto(Printed(d), At)
        OBVIOUS
      <4>3. AreNamesAt(m, d, S)'
        BY <4>1, <4>2, SameSource DEF InLoop
      <4>a. PICK a : a = At
        OBVIOUS
      <4>b. Upto(Printed(d), a)' = Upto(Printed(d), a)
        BY <4>1, SameSource DEF Upto
      <4>c. LastName(d, a)' = LastName(d, a)
        BY <4>1, SameSource DEF LastName
      <4>d. At' = a
        BY <4>1, <4>a
      <4>e. Upto(Printed(d), At)' = Upto(Printed(d), a)'
        BY <4>d DEF Upto
      <4>f. LastName(d, At)' = LastName(d, a)'
        BY <4>d DEF LastName
      <4>4. Upto(Printed(d), At)' = S /\ LastName(d, At)' = LastName(d, At)
        BY <4>2, <4>a, <4>b, <4>c, <4>e, <4>f
      <4>5. shown' = shown /\ m = shown'[Len(shown')].modules
        BY <2>1, <4>2 DEF kernelVars
      <4>6. AreNamesAt(shown[Len(shown)].modules, d, Upto(Printed(d), At))'
        BY <4>1, <4>3, <4>4, <4>5
      <4>7. PlacesOf(d)' = PlacesOf(d)
        BY <4>1, SameSource
      <4>8. InLoop(d)'
        BY <2>1, <4>1, <4>4, <4>6, <4>7 DEF InLoop, kernelVars
      <4>9. QED
        BY <2>1, <3>1, <3>2, <3>3, <4>1, <4>8 DEF KernelInv, kernelVars
    <3>4. CASE ~asking
      BY <2>1, <3>1, <3>2, <3>4 DEF KernelInv, kernelVars
    <3>5. QED
      BY <3>3, <3>4
  <2>2. QED
    BY <2>1, StartKernelKeeps, ShowKernelInitKeeps, ReadMapLineKeeps, BeginModulesKeeps,
       NextModuleKmodKeeps, NextModulePcimapKeeps DEF KernelNext
<1>3. KernelInv => ModulesAreOwn
  BY DEF KernelInv
<1>4. QED
  BY <1>1, <1>2, <1>3, PTL DEF KernelSpec

----------------------------------------------------------------------------
(***************************************************************************)
(* Dmi, for any firmware, any tables and any tree of devices.  The list    *)
(* has the slots among the structures that have been looked at, which are  *)
(* those that count once the walk has ended.                               *)
(***************************************************************************)
SlotsAmong(t, n) == {m \in 1..n : t[m].type = 9}
Rank(t, n) == Cardinality(SlotsAmong(t, n))

Items == {Item(s) : s \in Structures}

ItemsOf(t, n, got) ==
  /\ got \in Seq(Items) /\ Len(got) = Rank(t, n)
  /\ \A m \in SlotsAmong(t, n) : got[Rank(t, m)] = Item(t[m])

\* The walk over the table of p: what it has looked at counts, and all of it does
\* in the end.
WalkInv(p, n, got, ended) ==
  /\ p \in Points
  /\ n \in 0..Len(p.table) /\ 1..n \subseteq Counted(p)
  /\ ItemsOf(p.table, n, got)
  /\ ended => Counted(p) \subseteq 1..n
  /\ ~ended /\ p.type = "SM3" => \A i \in 1..n : p.table[i].type # 127

TableInv ==
  /\ dmi \in {"idle", "sysfs", "efi", "memory", "table", "show", "done", "overflow"}
  /\ dmi # "idle" => firmware \in Firmwares /\ bridged \in Bridged
  /\ dmi \in {"idle", "sysfs", "efi", "memory"} => point = NoPoint
  /\ dmi = "table" => point # NoPoint
  /\ point = NoPoint => pairs = <<>> /\ place = 0
  /\ point # NoPoint => WalkInv(point, place, pairs, dmi # "table")

----------------------------------------------------------------------------
\* There are as many slots among more structures, or one more.
LEMMA RankIs ==
  ASSUME NEW t, NEW n \in Nat
  PROVE  /\ IsFiniteSet(SlotsAmong(t, n)) /\ Rank(t, n) \in Nat
         /\ Rank(t, 0) = 0
         /\ Rank(t, n + 1) = Rank(t, n) + (IF t[n + 1].type = 9 THEN 1 ELSE 0)
         /\ \A m \in SlotsAmong(t, n) : Rank(t, m) \in 1..Rank(t, n)
<1> DEFINE S(k) == SlotsAmong(t, k)
<1>1. \A k \in Nat : IsFiniteSet(S(k))
  <2> TAKE k \in Nat
  <2>1. IsFiniteSet(1..k)
    BY FS_Interval
  <2>2. QED
    BY <2>1, FS_Subset DEF SlotsAmong
<1>2. \A k \in Nat : Rank(t, k) \in Nat
  BY <1>1, FS_CardinalityType DEF Rank
<1>3. Rank(t, 0) = 0
  <2>1. S(0) = {}
    BY DEF SlotsAmong
  <2>2. QED
    BY <2>1, FS_EmptySet DEF Rank
<1>4. Rank(t, n + 1) = Rank(t, n) + (IF t[n + 1].type = 9 THEN 1 ELSE 0)
  <2>1. CASE t[n + 1].type = 9
    <3>1. S(n + 1) = S(n) \cup {n + 1} /\ n + 1 \notin S(n)
      BY <2>1 DEF SlotsAmong
    <3>2. Cardinality(S(n) \cup {n + 1}) = Cardinality(S(n)) + 1
      BY <1>1, <3>1, FS_AddElement
    <3>3. QED
      BY <2>1, <3>1, <3>2 DEF Rank
  <2>2. CASE t[n + 1].type # 9
    <3>1. S(n + 1) = S(n)
      BY <2>2 DEF SlotsAmong
    <3>2. QED
      BY <1>2, <2>2, <3>1 DEF Rank
  <2>3. QED
    BY <2>1, <2>2
<1>5. ASSUME NEW m \in S(n) PROVE Rank(t, m) \in 1..Rank(t, n)
  <2>1. m \in Nat /\ S(m) \subseteq S(n) /\ m \in S(m)
    BY DEF SlotsAmong
  <2>2. Cardinality(S(m)) <= Cardinality(S(n))
    BY <1>1, <2>1, FS_Subset
  <2>3. Cardinality(S(m)) # 0
    BY <1>1, <2>1, FS_EmptySet
  <2>4. QED
    BY <1>2, <2>1, <2>2, <2>3 DEF Rank
<1>6. QED
  BY <1>1, <1>2, <1>3, <1>4, <1>5

\* No structures, no items.
LEMMA ItemsOfNone == ASSUME NEW t PROVE ItemsOf(t, 0, <<>>)
<1>1. SlotsAmong(t, 0) = {}
  BY DEF SlotsAmong
<1>2. Rank(t, 0) = 0
  BY RankIs
<1>3. QED
  BY <1>1, <1>2 DEF ItemsOf

\* The items of one structure more.
LEMMA ItemsOfMore ==
  ASSUME NEW t, NEW n \in Nat, NEW got, ItemsOf(t, n, got), t[n + 1] \in Structures
  PROVE  ItemsOf(t, n + 1,
                 IF t[n + 1].type = 9 THEN Append(got, Item(t[n + 1])) ELSE got)
<1> DEFINE x == Item(t[n + 1])
<1>1. /\ Rank(t, n) \in Nat
      /\ Rank(t, n + 1) = Rank(t, n) + (IF t[n + 1].type = 9 THEN 1 ELSE 0)
      /\ \A m \in SlotsAmong(t, n) : Rank(t, m) \in 1..Rank(t, n)
  BY RankIs
<1>2. x \in Items
  BY DEF Items
<1>3. got \in Seq(Items) /\ Len(got) = Rank(t, n)
  BY DEF ItemsOf
<1>4. CASE t[n + 1].type = 9
  <2> DEFINE l == Append(got, x)
  <2>1. SlotsAmong(t, n + 1) = SlotsAmong(t, n) \cup {n + 1}
    BY <1>4 DEF SlotsAmong
  <2> HIDE DEF x
  <2>2. /\ l \in Seq(Items) /\ Len(l) = Rank(t, n) + 1
        /\ l[Rank(t, n) + 1] = x
        /\ \A i \in 1..Rank(t, n) : l[i] = got[i]
    BY <1>1, <1>2, <1>3
  <2> HIDE DEF l
  <2>3. ASSUME NEW m \in SlotsAmong(t, n + 1) PROVE l[Rank(t, m)] = Item(t[m])
    <3>1. CASE m = n + 1
      BY <1>1, <1>4, <2>2, <3>1 DEF x
    <3>2. CASE m \in SlotsAmong(t, n)
      BY <1>1, <2>2, <3>2 DEF ItemsOf
    <3>3. QED
      BY <2>1, <3>1, <3>2
  <2>4. ItemsOf(t, n + 1, l)
    BY <1>1, <1>4, <2>2, <2>3 DEF ItemsOf
  <2>5. QED
    BY <1>4, <2>4 DEF l, x
<1>5. CASE t[n + 1].type # 9
  <2>1. SlotsAmong(t, n + 1) = SlotsAmong(t, n)
    BY <1>5 DEF SlotsAmong
  <2>2. ItemsOf(t, n + 1, got)
    BY <1>1, <1>5, <2>1 DEF ItemsOf
  <2>3. QED
    BY <1>5, <2>2
<1>6. QED
  BY <1>4, <1>5

\* The table of an entry point, and the number of its structures.
LEMMA PointIs ==
  ASSUME NEW p \in Points
  PROVE  p.table \in Seq(Structures) /\ Len(p.table) \in Nat /\ p.num \in Nat
<1>1. p.table \in Seq(Structures) /\ p.num \in Nat
  BY Zenon DEF Points
<1>2. QED
  BY <1>1

\* At the start of the walk.
LEMMA WalkStarts == ASSUME NEW p \in Points PROVE WalkInv(p, 0, <<>>, FALSE)
<1>1. Len(p.table) \in Nat
  BY PointIs
<1>2. 1..0 = {}
  OBVIOUS
<1>3. QED
  BY <1>1, <1>2, ItemsOfNone DEF WalkInv

\* What is decoded is a good entry point, so that there is one.
LEMMA DecodeKeeps ==
  ASSUME TableInv, NEW p \in Points, Good(p), Decode(p), pairs = <<>>, place = 0,
         firmware \in Firmwares, bridged \in Bridged,
         UNCHANGED <<firmware, bridged, place, pairs>>
  PROVE  TableInv'
<1>1. point' = p /\ dmi' = "table" /\ p # NoPoint
  BY DEF Decode, Good, NoPoint
<1>2. WalkInv(p, 0, <<>>, FALSE)
  BY WalkStarts
<1>3. WalkInv(point', place', pairs', dmi' # "table")
  BY <1>1, <1>2
<1>4. QED
  BY <1>1, <1>3 DEF TableInv

\* The entry point found in low memory is one of those there.
LEMMA FirstPointIs ==
  ASSUME NEW types, firmware \in Firmwares, FirstPoint(types) # NoPoint
  PROVE  FirstPoint(types) \in Points /\ Good(FirstPoint(types))
<1> DEFINE low == firmware.low
           at == {i \in 1..Len(low) : low[i].type \in types /\ Good(low[i])}
<1>1. low \in Seq(Points) /\ Len(low) \in Nat
  <2>1. low \in Seq(Points)
    BY FirmwareAssumption, Zenon
  <2>2. QED
    BY <2>1
<1>2. at # {} /\ FirstPoint(types) = low[CHOOSE i \in at : \A j \in at : i <= j]
  BY Zenon DEF FirstPoint
<1>3. at \in SUBSET Nat
  BY <1>1
<1>4. \E i \in at : \A j \in at : i <= j
  BY <1>2, <1>3, LeastExists
<1>5. (CHOOSE i \in at : \A j \in at : i <= j) \in at
  BY <1>4, Zenon
<1> DEFINE first == CHOOSE i \in at : \A j \in at : i <= j
<1> HIDE DEF first
<1>6. FirstPoint(types) = low[first] /\ first \in at
  BY <1>2, <1>5, Zenon DEF first
<1>7. first \in 1..Len(low) /\ Good(low[first])
  BY <1>6
<1>8. low[first] \in Points
  BY <1>1, <1>7
<1>9. QED
  BY <1>6, <1>7, <1>8, Zenon

LEMMA FindTableKeeps ==
  ASSUME TableInv, StartDmi \/ TrySysfs \/ TryEfi \/ ScanMemory
  PROVE  TableInv'
<1>1. /\ dmi \in {"idle", "sysfs", "efi", "memory"}
      /\ point = NoPoint /\ pairs = <<>> /\ place = 0
  BY DEF TableInv, StartDmi, TrySysfs, TryEfi, ScanMemory
<1>2. CASE StartDmi
  BY <1>1, <1>2 DEF StartDmi, TableInv
<1> DEFINE Same == UNCHANGED <<firmware, bridged, place, pairs>>
           Decoded == \E p \in Points : Good(p) /\ Decode(p)
           Goes == UNCHANGED point /\ dmi' \in {"efi", "memory", "show"}
<1>3. ASSUME dmi # "idle", Same, Goes PROVE TableInv'
  BY <1>1, <1>3 DEF TableInv
<1>4. ASSUME dmi # "idle", Same, Decoded PROVE TableInv'
  <2>1. PICK p \in Points : Good(p) /\ Decode(p)
    BY <1>4
  <2>2. firmware \in Firmwares /\ bridged \in Bridged
    BY <1>4 DEF TableInv
  <2>3. QED
    BY <1>1, <1>4, <2>1, <2>2, DecodeKeeps
<1>5. CASE TrySysfs
  <2>1. dmi # "idle" /\ Same /\ firmware \in Firmwares
    BY <1>5 DEF TrySysfs, TableInv
  <2>2. firmware.entry \in Points
    BY <2>1, FirmwareAssumption, Zenon
  <2>3. Decoded \/ Goes
    BY <1>5, <2>2 DEF TrySysfs
  <2>4. QED
    BY <1>3, <1>4, <2>1, <2>3
<1>6. CASE TryEfi
  <2>1. dmi # "idle" /\ Same /\ firmware \in Firmwares
    BY <1>6 DEF TryEfi, TableInv
  <2>2. firmware.efi \in Points
    BY <2>1, FirmwareAssumption, Zenon
  <2>3. ASSUME firmware.efi.type = "not found" PROVE Goes
    BY <1>6, <2>3 DEF TryEfi
  <2>4. ASSUME firmware.efi.type \in {"no smbios", "unreadable"} PROVE Goes
    BY <1>6, <2>4 DEF TryEfi, NoTable
  <2>5. ASSUME ~(firmware.efi.type = "not found"),
               ~(firmware.efi.type \in {"no smbios", "unreadable"})
        PROVE  Decoded \/ Goes
    <3>1. IF firmware.efi.type # "DMI" /\ Good(firmware.efi)
          THEN Decode(firmware.efi) ELSE NoTable(0)
      BY <1>6, <2>5, Zenon DEF TryEfi
    <3>2. QED
      BY <2>2, <3>1 DEF NoTable
  <2>6. Decoded \/ Goes
    BY <1>6, <2>2, <2>3, <2>4, <2>5
  <2>7. QED
    BY <1>3, <1>4, <2>1, <2>6
<1>7. CASE ScanMemory
  <2>1. dmi # "idle" /\ Same /\ firmware \in Firmwares
    BY <1>7 DEF ScanMemory, TableInv
  <2>2. \A types : FirstPoint(types) # NoPoint
                     => FirstPoint(types) \in Points /\ Good(FirstPoint(types))
    BY <2>1, FirstPointIs
  <2>3. Decoded \/ Goes
    BY <1>7, <2>2 DEF ScanMemory, NoTable
  <2>4. QED
    BY <1>3, <1>4, <2>1, <2>3
<1>8. QED
  BY <1>2, <1>5, <1>6, <1>7

\* One structure more, or the end of the walk before it.
LEMMA WalkGoesOn ==
  ASSUME NEW p, NEW n, NEW got, WalkInv(p, n, got, FALSE), n < Len(p.table),
         p.num > 0 /\ p.type # "SM3" => n < p.num
  PROVE  LET s == p.table[n + 1]
             more == IF s.type = 9 THEN Append(got, Item(s)) ELSE got
         IN /\ Broken(s) => WalkInv(p, n, got, TRUE)
            /\ ~Broken(s) /\ s.type = 127 /\ p.type = "SM3"
             => WalkInv(p, n + 1, more, TRUE)
            /\ ~Broken(s) /\ ~(s.type = 127 /\ p.type = "SM3")
                 => WalkInv(p, n + 1, more, FALSE)
<1> DEFINE s == p.table[n + 1]
           more == IF s.type = 9 THEN Append(got, Item(s)) ELSE got
<1>1. /\ p \in Points /\ Len(p.table) \in Nat /\ n \in Nat /\ n + 1 \in 1..Len(p.table)
      /\ s \in Structures /\ p.num \in Nat
  <2>1. p \in Points /\ n \in 0..Len(p.table)
    BY DEF WalkInv
  <2>2. p.table \in Seq(Structures) /\ Len(p.table) \in Nat /\ p.num \in Nat
    BY <2>1, PointIs
  <2>3. QED
    BY <2>1, <2>2
<1>2. /\ \A m \in 1..n : ~Broken(p.table[m])
      /\ p.type = "SM3" => \A m \in 1..n : p.table[m].type # 127
      /\ 1..n \subseteq Counted(p)
  BY DEF WalkInv, Counted, Broken
<1>3. ItemsOf(p.table, n + 1, more)
  BY <1>1, ItemsOfMore DEF WalkInv
<1>4. CASE Broken(s)
  <2>1. ASSUME NEW k \in Counted(p) PROVE k \in 1..n
    <3>1. k \in 1..Len(p.table) /\ \A i \in 1..k : ~Broken(p.table[i])
      BY DEF Counted, Broken
    <3>2. ~(n + 1 \in 1..k)
      BY <1>4, <3>1
    <3>3. QED
      BY <1>1, <3>1, <3>2
  <2>2. QED
    BY <1>4, <2>1 DEF WalkInv
<1>5. CASE ~Broken(s)
  <2>1. n + 1 \in Counted(p)
    <3>1. \A i \in 1..(n + 1) : ~(p.table[i].form \in {"short", "cut"})
      BY <1>1, <1>2, <1>5 DEF Broken
    <3>2. p.type = "SM3" => \A i \in 1..(n + 1) - 1 : p.table[i].type # 127
      BY <1>1, <1>2
    <3>3. p.type # "SM3" /\ p.num > 0 => n + 1 <= p.num
      BY <1>1
    <3>4. QED
      BY <1>1, <3>1, <3>2, <3>3 DEF Counted
  <2>2. 1..n + 1 \subseteq Counted(p)
    BY <1>1, <1>2, <2>1
  <2>3. CASE s.type = 127 /\ p.type = "SM3"
    <3>1. ASSUME NEW k \in Counted(p) PROVE k \in 1..n + 1
      <4>1. k \in 1..Len(p.table) /\ \A i \in 1..k - 1 : p.table[i].type # 127
        BY <2>3 DEF Counted
      <4>2. ~(n + 1 \in 1..k - 1)
        BY <2>3, <4>1
      <4>3. QED
        BY <1>1, <4>1, <4>2
    <3>2. WalkInv(p, n + 1, more, TRUE)
      BY <1>1, <1>3, <2>2, <3>1 DEF WalkInv
    <3>3. QED
      BY <1>5, <2>3, <3>2
  <2>4. CASE ~(s.type = 127 /\ p.type = "SM3")
    <3>1. p.type = "SM3" => \A m \in 1..n + 1 : p.table[m].type # 127
      BY <1>1, <1>2, <2>4
    <3>2. WalkInv(p, n + 1, more, FALSE)
      BY <1>1, <1>3, <2>2, <3>1 DEF WalkInv
    <3>3. QED
      BY <1>5, <2>4, <3>2
  <2>5. QED
    BY <2>3, <2>4
<1>6. QED
  BY <1>4, <1>5

LEMMA WalkEnds ==
  ASSUME NEW p, NEW n, NEW got, WalkInv(p, n, got, FALSE),
         ~(n < Len(p.table) /\ (p.num > 0 /\ p.type # "SM3" => n < p.num))
  PROVE  WalkInv(p, n, got, TRUE)
<1>1. Len(p.table) \in Nat /\ n \in Nat /\ p.num \in Nat
  BY PointIs DEF WalkInv
<1>2. \A k \in Counted(p) : k \in 1..n
  BY <1>1 DEF Counted
<1>3. QED
  BY <1>2 DEF WalkInv

LEMMA TableStepKeeps ==
  ASSUME TableInv, [DmiNext]_dmiVars
  PROVE  TableInv'
<1>1. CASE UNCHANGED dmiVars
  <2>1. UNCHANGED <<dmi, firmware, bridged, point, place, pairs>>
    BY <1>1 DEF dmiVars
  <2>2. QED
    BY <2>1 DEF TableInv
<1>2. CASE StartDmi \/ TrySysfs \/ TryEfi \/ ScanMemory
  BY <1>2, FindTableKeeps
<1>3. CASE DecodeStructure
  <2> DEFINE s == point.table[place + 1]
             more == IF s.type = 9 THEN Append(pairs, Item(s)) ELSE pairs
  <2>1. /\ dmi = "table" /\ point # NoPoint /\ WalkInv(point, place, pairs, FALSE)
        /\ firmware \in Firmwares /\ bridged \in Bridged
    BY <1>3 DEF DecodeStructure, TableInv
  <2>2. /\ place < Len(point.table)
        /\ point.num > 0 /\ point.type # "SM3" => place < point.num
    BY <1>3 DEF DecodeStructure, MoreStructures
  <2>3. /\ Broken(s) => WalkInv(point, place, pairs, TRUE)
        /\ ~Broken(s) /\ s.type = 127 /\ point.type = "SM3"
             => WalkInv(point, place + 1, more, TRUE)
        /\ ~Broken(s) /\ ~(s.type = 127 /\ point.type = "SM3")
             => WalkInv(point, place + 1, more, FALSE)
    BY <2>1, <2>2, WalkGoesOn
  <2>4. UNCHANGED <<firmware, bridged, point>>
    BY <1>3 DEF DecodeStructure
  <2>5. \/ Broken(s) /\ dmi' = "show" /\ UNCHANGED <<place, pairs>>
        \/ /\ ~Broken(s) /\ place' = place + 1 /\ pairs' = more
           /\ dmi' = IF s.type = 127 /\ point.type = "SM3" THEN "show" ELSE "table"
    BY <1>3 DEF DecodeStructure
  <2> HIDE DEF s, more
  <2>6. dmi' \in {"table", "show"} /\ WalkInv(point, place', pairs', dmi' # "table")
    BY <2>3, <2>5
  <2>7. QED
    BY <2>1, <2>4, <2>6 DEF TableInv
<1>4. CASE EndOfTable
  <2>1. /\ dmi = "table" /\ point # NoPoint /\ WalkInv(point, place, pairs, FALSE)
        /\ firmware \in Firmwares /\ bridged \in Bridged
    BY <1>4 DEF EndOfTable, TableInv
  <2>2. ~(place < Len(point.table)
            /\ (point.num > 0 /\ point.type # "SM3" => place < point.num))
    BY <1>4 DEF EndOfTable, MoreStructures
  <2>3. WalkInv(point, place, pairs, TRUE)
    BY <2>1, <2>2, WalkEnds
  <2>4. QED
    BY <1>4, <2>1, <2>3 DEF EndOfTable, TableInv
<1>5. CASE ShowSlot \/ ShownAll
  <2>1. /\ dmi = "show" /\ dmi' \in {"show", "done", "overflow"}
        /\ UNCHANGED <<firmware, bridged, point, place, pairs>>
    BY <1>5 DEF ShowSlot, ShownAll
  <2>2. QED
    BY <2>1 DEF TableInv
<1>6. QED
  BY <1>1, <1>2, <1>3, <1>4, <1>5 DEF DmiNext

\* The list has the slots that count, in order.
ListIsRight(p, got) ==
  LET slots == {k \in Counted(p) : p.table[k].type = 9}
  IN /\ Len(got) = Cardinality(slots)
     /\ \A m \in slots :
          LET k == Cardinality({j \in slots : j <= m})
          IN /\ p.table[m].form = "full" /\ p.table[m].addr # NoAddr
                  => got[k].addr = p.table[m].addr
             /\ p.table[m].form # "nameless" => got[k].slot = p.table[m].slot

\* The list that the invariant describes is right.
LEMMA WalkedIsRight ==
  ASSUME NEW p, NEW n, NEW got, WalkInv(p, n, got, TRUE)
  PROVE  ListIsRight(p, got)
<1> DEFINE slots == {k \in Counted(p) : p.table[k].type = 9}
<1>1. n \in Nat /\ ItemsOf(p.table, n, got) /\ Counted(p) = 1..n
  <2>1. n \in 0..Len(p.table) /\ Len(p.table) \in Nat
    BY PointIs DEF WalkInv
  <2>2. 1..n \subseteq Counted(p) /\ Counted(p) \subseteq 1..n
    BY DEF WalkInv
  <2>3. Counted(p) = 1..n
    BY <2>2, Zenon
  <2>4. QED
    BY <2>1, <2>3 DEF WalkInv
<1>2. slots = SlotsAmong(p.table, n)
  BY <1>1 DEF SlotsAmong
<1>3. Len(got) = Cardinality(slots)
  BY <1>1, <1>2 DEF ItemsOf, Rank
<1>4. ASSUME NEW m \in slots
      PROVE  got[Cardinality({j \in slots : j <= m})] = Item(p.table[m])
  <2>1. m \in 1..n /\ m \in SlotsAmong(p.table, n)
    BY <1>1, <1>2
  <2>2. {j \in slots : j <= m} = SlotsAmong(p.table, m)
    BY <1>1, <1>2, <2>1 DEF SlotsAmong
  <2>3. got[Rank(p.table, m)] = Item(p.table[m])
    BY <1>1, <2>1 DEF ItemsOf
  <2>4. QED
    BY <2>2, <2>3 DEF Rank
<1> HIDE DEF slots
<1>5. ASSUME NEW m \in slots
      PROVE  LET k == Cardinality({j \in slots : j <= m})
             IN /\ p.table[m].form = "full" /\ p.table[m].addr # NoAddr
                     => got[k].addr = p.table[m].addr
                /\ p.table[m].form # "nameless" => got[k].slot = p.table[m].slot
  <2> DEFINE k == Cardinality({j \in slots : j <= m})
  <2>1. got[k] = Item(p.table[m])
    BY <1>4
  <2> HIDE DEF k
  <2>2. /\ p.table[m].form = "full" /\ p.table[m].addr # NoAddr
             => got[k].addr = p.table[m].addr
        /\ p.table[m].form # "nameless" => got[k].slot = p.table[m].slot
    BY <2>1 DEF Item
  <2>3. QED
    BY <2>2 DEF k
<1>6. QED
  BY <1>3, <1>5, Zenon DEF slots, ListIsRight

----------------------------------------------------------------------------
(***************************************************************************)
(* Climbing: a function of the devices for each number of bridges that may *)
(* be climbed.                                                             *)
(***************************************************************************)
\* Induction over the numbers.
LEMMA SetInduction ==
  ASSUME NEW S, S \subseteq Nat, 0 \in S, \A n \in S : n + 1 \in S
  PROVE  \A n \in Nat : n \in S
<1> DEFINE T == {n \in Nat : n \notin S}
<1>1. SUFFICES ASSUME T # {} PROVE FALSE
  OBVIOUS
<1>2. T \in SUBSET Nat
  OBVIOUS
<1>3. PICK n \in T : \A m \in T : n <= m
  BY <1>1, <1>2, LeastExists
<1>4. n # 0 /\ n - 1 \in Nat /\ ~(n <= n - 1)
  BY <1>3
<1>5. n - 1 \in S
  BY <1>3, <1>4
<1>6. QED
  BY <1>3, <1>4, <1>5

Climbs(f, k, stop, here, last, up) ==
  /\ f = [n \in 0..k |-> f[n]]
  /\ \A n \in 0..k :
       f[n] = [d \in DmiDevices |->
                 IF stop[d] THEN here[d]
                 ELSE IF n = 0 THEN last[d] ELSE f[n - 1][up[d]]]

LEMMA ClimbExists ==
  ASSUME NEW stop, NEW here, NEW last, NEW up, NEW N \in Nat
  PROVE  \E f : Climbs(f, N, stop, here, last, up)
<1> DEFINE Is(f, k) == Climbs(f, k, stop, here, last, up)
           K == {k \in Nat : \E f : Is(f, k)}
<1>1. 0 \in K
  <2> DEFINE first == [d \in DmiDevices |-> IF stop[d] THEN here[d] ELSE last[d]]
             g == [n \in 0..0 |-> first]
  <2>1. g = [n \in 0..0 |-> g[n]] /\ g[0] = first
    OBVIOUS
  <2> HIDE DEF g
  <2>2. \A n \in 0..0 :
          g[n] = [d \in DmiDevices |-> IF stop[d] THEN here[d]
                              ELSE IF n = 0 THEN last[d] ELSE g[n - 1][up[d]]]
    BY <2>1
  <2>3. \E f : Is(f, 0)
    BY <2>1, <2>2 DEF Climbs
  <2>4. QED
    BY <2>3
<1>2. ASSUME NEW k \in K PROVE k + 1 \in K
  <2>1. k \in Nat /\ \E f : Is(f, k)
    OBVIOUS
  <2>2. PICK f : Is(f, k)
    BY <2>1
  <2> DEFINE next == [d \in DmiDevices |-> IF stop[d] THEN here[d] ELSE f[k][up[d]]]
             g == [n \in 0..k + 1 |-> IF n <= k THEN f[n] ELSE next]
  <2>3. /\ g = [n \in 0..k + 1 |-> g[n]]
        /\ \A n \in 0..k : g[n] = f[n]
        /\ g[k + 1] = next
    BY <2>1
  <2> HIDE DEF g
  <2>4. ASSUME NEW n \in 0..k + 1
        PROVE  g[n] = [d \in DmiDevices |-> IF stop[d] THEN here[d]
                                   ELSE IF n = 0 THEN last[d] ELSE g[n - 1][up[d]]]
    <3>1. CASE n = k + 1
      <4>1. n # 0 /\ n - 1 = k /\ k \in 0..k
        BY <2>1, <3>1
      <4>2. g[n - 1] = f[k]
        BY <2>3, <4>1
      <4>3. QED
        BY <2>3, <3>1, <4>1, <4>2
    <3>2. CASE n \in 0..k
      <4>1. g[n] = f[n] /\ (n # 0 => g[n - 1] = f[n - 1])
        <5>1. n # 0 => n - 1 \in 0..k
          BY <2>1, <3>2
        <5>2. QED
          BY <2>3, <3>2, <5>1
      <4>2. f[n] = [d \in DmiDevices |-> IF stop[d] THEN here[d]
                                ELSE IF n = 0 THEN last[d] ELSE f[n - 1][up[d]]]
        BY <2>2, <3>2 DEF Climbs
      <4>3. CASE n = 0
        BY <4>1, <4>2, <4>3
      <4>4. CASE n # 0
        BY <4>1, <4>2, <4>4
      <4>5. QED
        BY <4>3, <4>4
    <3>3. QED
      BY <2>1, <3>1, <3>2
  <2>5. Is(g, k + 1)
    BY <2>3, <2>4 DEF Climbs
  <2>6. \E h : Is(h, k + 1)
    BY <2>5, Zenon
  <2>7. k + 1 \in Nat
    BY <2>1
  <2>8. QED
    BY <2>6, <2>7
<1>3. \A k \in Nat : k \in K
  <2> HIDE DEF K
  <2>1. K \subseteq Nat
    BY DEF K
  <2>2. QED
    BY <1>1, <1>2, <2>1, SetInduction
<1>4. QED
  BY <1>3

SlotIn(got, addr) ==
  LET at == {i \in 1..Len(got) : got[i].addr = addr}
  IN IF at = {} THEN NoSlot
     ELSE got[CHOOSE i \in at : \A j \in at : i <= j].slot

IsClimb(f, got, m) ==
  f = [n \in 0..Len(DevOrder) |->
         [d \in DmiDevices |->
            IF SlotIn(got, m.at[d]) # NoSlot \/ ~Known(m.parent[d]) \/ n = 0
            THEN SlotIn(got, m.at[d])
            ELSE f[n - 1][m.parent[d]]]]

NearestIn(got, m) == CHOOSE f : IsClimb(f, got, m)

\* What a climb of n bridges finds from a device is what it has, or what a climb
\* of one bridge less finds from the bridge above.
LEMMA NearestInIs ==
  ASSUME NEW got, NEW m
  PROVE  \A n \in 0..Len(DevOrder), d \in DmiDevices :
           NearestIn(got, m)[n][d] =
             IF SlotIn(got, m.at[d]) # NoSlot \/ ~Known(m.parent[d]) \/ n = 0
             THEN SlotIn(got, m.at[d])
             ELSE NearestIn(got, m)[n - 1][m.parent[d]]
<1> DEFINE N == Len(DevOrder)
           stop == [d \in DmiDevices |->
                      SlotIn(got, m.at[d]) # NoSlot \/ ~Known(m.parent[d])]
           here == [d \in DmiDevices |-> SlotIn(got, m.at[d])]
           up == [d \in DmiDevices |-> m.parent[d]]
<1>1. N \in Nat
  BY TreeAssumption
<1>2. PICK f : Climbs(f, N, stop, here, here, up)
  BY <1>1, ClimbExists, Zenon
<1>3. ASSUME NEW n \in 0..N
      PROVE  f[n] = [d \in DmiDevices |->
                       IF SlotIn(got, m.at[d]) # NoSlot \/ ~Known(m.parent[d]) \/ n = 0
                       THEN SlotIn(got, m.at[d]) ELSE f[n - 1][m.parent[d]]]
  <2>1. f[n] = [d \in DmiDevices |->
                  IF stop[d] THEN here[d]
                  ELSE IF n = 0 THEN here[d] ELSE f[n - 1][up[d]]]
    BY <1>2, Zenon DEF Climbs
  <2>2. \A d \in DmiDevices :
          (IF stop[d] THEN here[d] ELSE IF n = 0 THEN here[d] ELSE f[n - 1][up[d]])
          = IF SlotIn(got, m.at[d]) # NoSlot \/ ~Known(m.parent[d]) \/ n = 0
            THEN SlotIn(got, m.at[d]) ELSE f[n - 1][m.parent[d]]
    OBVIOUS
  <2>3. QED
    BY <2>1, <2>2, Zenon
<1>4. IsClimb(f, got, m)
  <2>1. \A n \in 0..N :
          f[n] = [d \in DmiDevices |->
                       IF SlotIn(got, m.at[d]) # NoSlot \/ ~Known(m.parent[d]) \/ n = 0
                       THEN SlotIn(got, m.at[d]) ELSE f[n - 1][m.parent[d]]]
    BY <1>3
  <2>2. f = [n \in 0..N |-> f[n]]
    BY <1>2, Zenon DEF Climbs
  <2>3. QED
    BY <2>1, <2>2, Zenon DEF IsClimb
<1>5. IsClimb(NearestIn(got, m), got, m)
  BY <1>4, Zenon DEF NearestIn
<1> DEFINE g == NearestIn(got, m)
<1> HIDE DEF g
<1>6. IsClimb(g, got, m)
  BY <1>5 DEF g
<1>7. \A n \in 0..N :
        g[n] = [d \in DmiDevices |->
                  IF SlotIn(got, m.at[d]) # NoSlot \/ ~Known(m.parent[d]) \/ n = 0
                  THEN SlotIn(got, m.at[d]) ELSE g[n - 1][m.parent[d]]]
  BY <1>6, Zenon DEF IsClimb
<1>8. \A n \in 0..N, d \in DmiDevices :
        g[n][d] = IF SlotIn(got, m.at[d]) # NoSlot \/ ~Known(m.parent[d]) \/ n = 0
                  THEN SlotIn(got, m.at[d]) ELSE g[n - 1][m.parent[d]]
  <2> TAKE n \in 0..N, d \in DmiDevices
  <2>1. g[n] = [e \in DmiDevices |->
                  IF SlotIn(got, m.at[e]) # NoSlot \/ ~Known(m.parent[e]) \/ n = 0
                  THEN SlotIn(got, m.at[e]) ELSE g[n - 1][m.parent[e]]]
    BY <1>7, Zenon
  <2>2. QED
    BY <2>1, Zenon
<1>9. QED
  BY <1>8 DEF g

LEMMA NearestBySlotsIs == NearestBySlots = NearestIn(pairs, bridged)
BY Zenon DEF NearestBySlots, NearestIn, IsClimb, SlotIn, SlotAt

\* The same for the search of the code, which looks into the devices too.
LEMMA NearestSlotIs ==
  \A n \in 0..Len(DevOrder), d \in DmiDevices :
    NearestSlot[n][d] =
      IF FindSlot(d) # NoSlot THEN FindSlot(d)
      ELSE IF ~Known(bridged.parent[d]) THEN NoSlot
      ELSE IF n = 0 THEN Endless ELSE NearestSlot[n - 1][bridged.parent[d]]
<1> DEFINE N == Len(DevOrder)
           stop == [d \in DmiDevices |->
                      FindSlot(d) # NoSlot \/ ~Known(bridged.parent[d])]
           here == [d \in DmiDevices |-> FindSlot(d)]
           last == [d \in DmiDevices |-> Endless]
           up == [d \in DmiDevices |-> bridged.parent[d]]
           Is(f) == f = [n \in 0..N |->
                           [d \in DmiDevices |->
                              IF FindSlot(d) # NoSlot THEN FindSlot(d)
                              ELSE IF ~Known(bridged.parent[d]) THEN NoSlot
                              ELSE IF n = 0 THEN Endless ELSE f[n - 1][bridged.parent[d]]]]
<1>1. N \in Nat
  BY TreeAssumption
<1>2. PICK f : Climbs(f, N, stop, here, last, up)
  BY <1>1, ClimbExists, Zenon
<1>3. ASSUME NEW n \in 0..N
      PROVE  f[n] = [d \in DmiDevices |->
                       IF FindSlot(d) # NoSlot THEN FindSlot(d)
                       ELSE IF ~Known(bridged.parent[d]) THEN NoSlot
                       ELSE IF n = 0 THEN Endless ELSE f[n - 1][bridged.parent[d]]]
  <2>1. f[n] = [d \in DmiDevices |->
                  IF stop[d] THEN here[d]
                  ELSE IF n = 0 THEN last[d] ELSE f[n - 1][up[d]]]
    BY <1>2, Zenon DEF Climbs
  <2>2. \A d \in DmiDevices :
          (IF stop[d] THEN here[d] ELSE IF n = 0 THEN last[d] ELSE f[n - 1][up[d]])
          = IF FindSlot(d) # NoSlot THEN FindSlot(d)
            ELSE IF ~Known(bridged.parent[d]) THEN NoSlot
            ELSE IF n = 0 THEN Endless ELSE f[n - 1][bridged.parent[d]]
    OBVIOUS
  <2>3. QED
    BY <2>1, <2>2, Zenon
<1>4. Is(f)
  <2>1. f = [n \in 0..N |-> f[n]]
    BY <1>2, Zenon DEF Climbs
  <2>2. QED
    BY <1>3, <2>1, Zenon
<1>5. NearestSlot = CHOOSE g : Is(g)
  BY Zenon DEF NearestSlot
<1>6. Is(NearestSlot)
  BY <1>4, <1>5, Zenon
<1> DEFINE g == NearestSlot
<1> HIDE DEF g
<1>7. Is(g)
  BY <1>6 DEF g
<1>8. \A n \in 0..N, d \in DmiDevices :
        g[n][d] = IF FindSlot(d) # NoSlot THEN FindSlot(d)
                  ELSE IF ~Known(bridged.parent[d]) THEN NoSlot
                  ELSE IF n = 0 THEN Endless ELSE g[n - 1][bridged.parent[d]]
  <2> TAKE n \in 0..N, d \in DmiDevices
  <2>1. g[n] = [e \in DmiDevices |->
                  IF FindSlot(e) # NoSlot THEN FindSlot(e)
                  ELSE IF ~Known(bridged.parent[e]) THEN NoSlot
                  ELSE IF n = 0 THEN Endless ELSE g[n - 1][bridged.parent[e]]]
    <3>1. g = [k \in 0..N |->
                 [e \in DmiDevices |->
                    IF FindSlot(e) # NoSlot THEN FindSlot(e)
                    ELSE IF ~Known(bridged.parent[e]) THEN NoSlot
                    ELSE IF k = 0 THEN Endless ELSE g[k - 1][bridged.parent[e]]]]
      BY <1>7
    <3>2. QED
      BY <3>1, Zenon
  <2>2. QED
    BY <2>1, Zenon
<1>9. QED
  BY <1>8 DEF g

----------------------------------------------------------------------------
\* Each device is below another or, with no bridge, at the top; a device that is
\* above itself is at the top too.
IsTree(up, depth) ==
  /\ depth \in [DmiDevices -> 0..Len(DevOrder)]
  /\ \A d \in DmiDevices :
       Known(up[d]) => depth[up[d]] < depth[d] \/ (up[d] = d /\ depth[d] = 0)

\* f[n][d] is the slot that a climb of n bridges from d finds.
FindsSlots(f, slot, up) ==
  \A n \in 0..Len(DevOrder), d \in DmiDevices :
    f[n][d] = IF slot[d] # NoSlot \/ ~Known(up[d]) \/ n = 0 THEN slot[d]
              ELSE f[n - 1][up[d]]

\* F[d] is the nearest slot.
IsNearest(F, slot, up) ==
  \A d \in DmiDevices :
    F[d] = IF slot[d] # NoSlot \/ ~Known(up[d]) THEN slot[d]
           ELSE IF up[d] = d THEN NoSlot ELSE F[up[d]]

\* h[n][d] is what the code finds, which looks first into what it has stored.
Searches(h, slot, up, stored) ==
  \A n \in 0..Len(DevOrder), d \in DmiDevices :
    h[n][d] = IF stored[d] # NoSlot THEN stored[d]
              ELSE IF slot[d] # NoSlot THEN slot[d]
              ELSE IF ~Known(up[d]) THEN NoSlot
              ELSE IF n = 0 THEN Endless ELSE h[n - 1][up[d]]

\* In a tree there is nothing to find for a climb longer than the way to the top.
LEMMA NearestOfTree ==
  ASSUME NEW f, NEW slot, NEW up, NEW depth, FindsSlots(f, slot, up), IsTree(up, depth)
  PROVE  IsNearest(f[Len(DevOrder)], slot, up)
<1> DEFINE N == Len(DevOrder)
<1>1. N \in Nat
  BY TreeAssumption
<1>2. /\ \A d \in DmiDevices : depth[d] \in 0..N
      /\ \A d \in DmiDevices :
           Known(up[d]) => depth[up[d]] < depth[d] \/ (up[d] = d /\ depth[d] = 0)
      /\ \A d \in DmiDevices : Known(up[d]) => up[d] \in DmiDevices
  BY DEF IsTree, Known
<1>3. \A n \in 0..N, d \in DmiDevices :
        f[n][d] = IF slot[d] # NoSlot \/ ~Known(up[d]) \/ n = 0 THEN slot[d]
                  ELSE f[n - 1][up[d]]
  BY DEF FindsSlots
<1> HIDE DEF N
<1>4. ASSUME NEW d \in DmiDevices, up[d] = d, slot[d] = NoSlot
      PROVE  \A n \in 0..N : f[n][d] = NoSlot
  <2> DEFINE S == {n \in Nat : n <= N => f[n][d] = NoSlot}
  <2>1. 0 \in S
    <3>1. 0 \in 0..N
      BY <1>1
    <3>2. f[0][d] = slot[d]
      BY <1>3, <3>1
    <3>3. QED
      BY <1>4, <3>2
  <2>2. ASSUME NEW n \in S PROVE n + 1 \in S
    <3>1. n \in Nat /\ (n <= N => f[n][d] = NoSlot)
      OBVIOUS
    <3>2. ASSUME n + 1 <= N PROVE f[n + 1][d] = NoSlot
      <4>1. n <= N /\ n + 1 \in 0..N /\ (n + 1) - 1 = n /\ n + 1 # 0
        BY <1>1, <3>1, <3>2
      <4>2. f[n + 1][d] = IF slot[d] # NoSlot \/ ~Known(up[d]) \/ n + 1 = 0 THEN slot[d]
                          ELSE f[(n + 1) - 1][up[d]]
        BY <1>3, <4>1
      <4>3. QED
        BY <1>4, <3>1, <4>1, <4>2
    <3>3. QED
      BY <3>1, <3>2
  <2> HIDE DEF S
  <2>3. S \subseteq Nat
    BY DEF S
  <2>4. \A n \in Nat : n \in S
    BY <2>1, <2>2, <2>3, SetInduction
  <2>5. QED
    BY <1>1, <2>4 DEF S
<1> DEFINE Same(k) ==
             \A d \in DmiDevices : depth[d] <= k =>
               \A n, m \in k..N : f[n][d] = f[m][d]
           K == {k \in Nat : Same(k)}
<1>5. ASSUME NEW d \in DmiDevices, NEW n \in 0..N, slot[d] # NoSlot \/ ~Known(up[d])
      PROVE  f[n][d] = slot[d]
  BY <1>3, <1>5
<1>6. 0 \in K
  <2>1. ASSUME NEW d \in DmiDevices, depth[d] <= 0, NEW n \in 0..N, NEW m \in 0..N
        PROVE  f[n][d] = f[m][d]
    <3>1. CASE slot[d] # NoSlot \/ ~Known(up[d])
      BY <1>5, <3>1
    <3>2. CASE ~(slot[d] # NoSlot \/ ~Known(up[d]))
      <4>1. up[d] = d /\ slot[d] = NoSlot
        BY <1>1, <1>2, <2>1, <3>2
      <4>2. QED
        BY <1>4, <4>1
    <3>3. QED
      BY <3>1, <3>2
  <2>2. Same(0)
    BY <2>1
  <2> HIDE DEF Same
  <2>3. QED
    BY <2>2
<1>7. ASSUME NEW k \in K PROVE k + 1 \in K
  <2>1. k \in Nat /\ Same(k)
    OBVIOUS
  <2>2. ASSUME NEW d \in DmiDevices, depth[d] <= k + 1,
               NEW n \in (k + 1)..N, NEW m \in (k + 1)..N
        PROVE  f[n][d] = f[m][d]
    <3>1. n \in 0..N /\ m \in 0..N /\ n # 0 /\ m # 0 /\ n - 1 \in k..N /\ m - 1 \in k..N
      BY <1>1, <2>1
    <3>2. CASE slot[d] # NoSlot \/ ~Known(up[d])
      BY <1>5, <3>1, <3>2
    <3>3. CASE slot[d] = NoSlot /\ Known(up[d]) /\ up[d] = d
      BY <1>4, <3>1, <3>3
    <3>4. CASE slot[d] = NoSlot /\ Known(up[d]) /\ up[d] # d
      <4>1. up[d] \in DmiDevices /\ depth[up[d]] < depth[d]
        BY <1>2, <3>4
      <4>2. depth[up[d]] <= k
        BY <1>1, <1>2, <2>1, <2>2, <4>1
      <4>3. f[n - 1][up[d]] = f[m - 1][up[d]]
        BY <2>1, <3>1, <4>1, <4>2
      <4>4. f[n][d] = f[n - 1][up[d]] /\ f[m][d] = f[m - 1][up[d]]
        BY <1>3, <3>1, <3>4
      <4>5. QED
        BY <4>3, <4>4
    <3>5. QED
      BY <3>2, <3>3, <3>4
  <2>3. Same(k + 1)
    BY <2>2
  <2>4. QED
    BY <2>1, <2>3
<1>8. \A k \in Nat : Same(k)
  <2> HIDE DEF Same
  <2>1. K \subseteq Nat
    OBVIOUS
  <2> HIDE DEF K
  <2>2. \A k \in Nat : k \in K
    BY <1>6, <1>7, <2>1, SetInduction
  <2>3. QED
    BY <2>2 DEF K
<1>9. ASSUME NEW d \in DmiDevices
      PROVE  f[N][d] = IF slot[d] # NoSlot \/ ~Known(up[d]) THEN slot[d]
                       ELSE IF up[d] = d THEN NoSlot ELSE f[N][up[d]]
  <2>1. N \in 0..N
    BY <1>1
  <2>2. CASE slot[d] # NoSlot \/ ~Known(up[d])
    BY <1>5, <2>1, <2>2
  <2>3. CASE slot[d] = NoSlot /\ Known(up[d]) /\ up[d] = d
    BY <1>4, <2>1, <2>3
  <2>4. CASE slot[d] = NoSlot /\ Known(up[d]) /\ up[d] # d
    <3>1. up[d] \in DmiDevices /\ depth[up[d]] < depth[d]
      BY <1>2, <2>4
    <3>2. N - 1 \in Nat /\ N # 0 /\ depth[up[d]] <= N - 1
          /\ N - 1 \in (N - 1)..N /\ N \in (N - 1)..N
      BY <1>1, <1>2, <3>1
    <3>3. Same(N - 1)
      BY <1>8, <3>2
    <3>4. f[N - 1][up[d]] = f[N][up[d]]
      BY <3>1, <3>2, <3>3
    <3>5. f[N][d] = f[N - 1][up[d]]
      BY <1>3, <2>1, <2>4, <3>2
    <3>6. QED
      BY <2>4, <3>4, <3>5
  <2>5. QED
    BY <2>2, <2>3, <2>4
<1>10. QED
  BY <1>9 DEF N, IsNearest

\* The slots a climb finds are those of devices on the way.
LEMMA NearestIsSlot ==
  ASSUME NEW f, NEW slot, NEW up, FindsSlots(f, slot, up), NEW Names,
         \A d \in DmiDevices : slot[d] \in Names
  PROVE  \A d \in DmiDevices : f[Len(DevOrder)][d] \in Names
<1> DEFINE N == Len(DevOrder)
           S == {n \in Nat : n <= N => \A d \in DmiDevices : f[n][d] \in Names}
<1>1. N \in Nat
  BY TreeAssumption
<1>2. \A n \in 0..N, d \in DmiDevices :
        f[n][d] = IF slot[d] # NoSlot \/ ~Known(up[d]) \/ n = 0 THEN slot[d]
                  ELSE f[n - 1][up[d]]
  BY DEF FindsSlots
<1> HIDE DEF N
<1>3. 0 \in S
  <2>1. \A d \in DmiDevices : f[0][d] \in Names
    BY <1>1, <1>2
  <2>2. QED
    BY <2>1
<1>4. ASSUME NEW n \in S PROVE n + 1 \in S
  <2>1. n \in Nat /\ (n <= N => \A d \in DmiDevices : f[n][d] \in Names)
    OBVIOUS
  <2>2. ASSUME n + 1 <= N, NEW d \in DmiDevices PROVE f[n + 1][d] \in Names
    <3>1. n <= N /\ n + 1 \in 0..N /\ (n + 1) - 1 = n /\ n + 1 # 0
      BY <1>1, <2>1, <2>2
    <3>2. f[n + 1][d] = IF slot[d] # NoSlot \/ ~Known(up[d]) \/ n + 1 = 0 THEN slot[d]
                        ELSE f[(n + 1) - 1][up[d]]
      BY <1>2, <3>1
    <3>3. Known(up[d]) => f[n][up[d]] \in Names
      BY <2>1, <3>1 DEF Known
    <3>4. QED
      BY <3>1, <3>2, <3>3
  <2>3. QED
    BY <2>1, <2>2
<1> HIDE DEF S
<1>5. S \subseteq Nat
  BY DEF S
<1>6. \A n \in Nat : n \in S
  BY <1>3, <1>4, <1>5, SetInduction
<1>7. QED
  BY <1>1, <1>6 DEF S, N

\* What a name of a slot, or its absence, has to be.
NameOK(x) ==
  x # Endless /\ GeoId(x) # Endless /\ (GeoId(x) # NoSlot => GeoId(GeoId(x)) = GeoId(x))

\* Although the code looks first into what it has stored, it finds the location of
\* the nearest slot.
LEMMA ClimbFinds ==
  ASSUME NEW F, NEW h, NEW slot, NEW up, NEW stored, NEW depth, IsTree(up, depth),
         IsNearest(F, slot, up), Searches(h, slot, up, stored),
         \A d \in DmiDevices : stored[d] \in {NoSlot, Stored(F[d])},
         \A d \in DmiDevices : F[d] # NoSlot => NameOK(F[d])
  PROVE  \A d \in DmiDevices :
           LET x == h[Len(DevOrder)][d]
           IN IF x = Endless THEN F[d] = NoSlot /\ \E e \in DmiDevices : up[e] = e
              ELSE Stored(x) = Stored(F[d])
<1> DEFINE N == Len(DevOrder)
           Right(n, d) ==
             IF h[n][d] = Endless THEN F[d] = NoSlot /\ \E e \in DmiDevices : up[e] = e
             ELSE Stored(h[n][d]) = Stored(F[d])
           S == {n \in Nat :
                   n <= N => \A d \in DmiDevices : depth[d] <= n => Right(n, d)}
<1>0. \A d \in DmiDevices :
        F[d] = IF slot[d] # NoSlot \/ ~Known(up[d]) THEN slot[d]
               ELSE IF up[d] = d THEN NoSlot ELSE F[up[d]]
  BY DEF IsNearest
<1>1. N \in Nat
  BY TreeAssumption
<1>2. /\ \A d \in DmiDevices : depth[d] \in 0..N
      /\ \A d \in DmiDevices :
           Known(up[d]) => depth[up[d]] < depth[d] \/ (up[d] = d /\ depth[d] = 0)
      /\ \A d \in DmiDevices : Known(up[d]) => up[d] \in DmiDevices
  BY DEF IsTree, Known
<1>3. \A n \in 0..N, d \in DmiDevices :
        h[n][d] = IF stored[d] # NoSlot THEN stored[d]
                  ELSE IF slot[d] # NoSlot THEN slot[d]
                  ELSE IF ~Known(up[d]) THEN NoSlot
                  ELSE IF n = 0 THEN Endless ELSE h[n - 1][up[d]]
  BY DEF Searches
<1>4. NoSlot # Endless
  BY DEF NoSlot, Endless
<1> HIDE DEF N
\* What is stored or at hand is right at once.
<1>5. ASSUME NEW n \in 0..N, NEW d \in DmiDevices,
             stored[d] # NoSlot \/ slot[d] # NoSlot \/ ~Known(up[d])
      PROVE  Right(n, d)
  <2>1. CASE stored[d] # NoSlot
    <3>1. h[n][d] = stored[d] /\ stored[d] = Stored(F[d])
      BY <1>3, <2>1
    <3>2. F[d] # NoSlot /\ stored[d] = GeoId(F[d])
      BY <2>1, <3>1 DEF Stored
    <3>3. NameOK(F[d])
      BY <3>2
    <3>4. stored[d] # Endless /\ GeoId(stored[d]) = stored[d]
      BY <2>1, <3>2, <3>3 DEF NameOK
    <3>5. Stored(stored[d]) = Stored(F[d])
      BY <2>1, <3>1, <3>4 DEF Stored
    <3>6. QED
      BY <3>1, <3>4, <3>5
  <2>2. CASE stored[d] = NoSlot /\ slot[d] # NoSlot
    <3>1. h[n][d] = slot[d] /\ F[d] = slot[d]
      BY <1>3, <1>0, <2>2
    <3>2. F[d] # Endless
      BY <2>2, <3>1 DEF NameOK
    <3>3. QED
      BY <3>1, <3>2
  <2>3. CASE stored[d] = NoSlot /\ slot[d] = NoSlot /\ ~Known(up[d])
    <3>1. h[n][d] = NoSlot /\ F[d] = NoSlot
      BY <1>3, <1>0, <2>3
    <3>2. QED
      BY <1>4, <3>1
  <2>4. QED
    BY <1>5, <2>1, <2>2, <2>3
<1>6. 0 \in S
  <2>1. ASSUME NEW d \in DmiDevices, depth[d] <= 0 PROVE Right(0, d)
    <3>1. CASE stored[d] # NoSlot \/ slot[d] # NoSlot \/ ~Known(up[d])
      BY <1>1, <1>5, <3>1
    <3>2. CASE ~(stored[d] # NoSlot \/ slot[d] # NoSlot \/ ~Known(up[d]))
      <4>1. up[d] = d
        BY <1>1, <1>2, <2>1, <3>2
      <4>2. h[0][d] = Endless /\ F[d] = NoSlot
        BY <1>1, <1>3, <1>0, <3>2, <4>1
      <4>3. QED
        BY <4>1, <4>2
    <3>3. QED
      BY <3>1, <3>2
  <2> HIDE DEF Right
  <2>2. QED
    BY <2>1
<1>7. ASSUME NEW n \in S PROVE n + 1 \in S
  <2>1. n \in Nat /\ (n <= N => \A d \in DmiDevices : depth[d] <= n => Right(n, d))
    OBVIOUS
  <2>2. ASSUME n + 1 <= N, NEW d \in DmiDevices, depth[d] <= n + 1
        PROVE  Right(n + 1, d)
    <3>1. n <= N /\ n \in 0..N /\ n + 1 \in 0..N /\ (n + 1) - 1 = n /\ n + 1 # 0
      BY <1>1, <2>1, <2>2
    <3>2. CASE stored[d] # NoSlot \/ slot[d] # NoSlot \/ ~Known(up[d])
      BY <1>5, <3>1, <3>2
    <3>3. CASE ~(stored[d] # NoSlot \/ slot[d] # NoSlot \/ ~Known(up[d]))
      <4>1. h[n + 1][d] = h[n][up[d]]
        BY <1>3, <3>1, <3>3
      <4>2. up[d] \in DmiDevices /\ depth[up[d]] <= n
        BY <1>1, <1>2, <2>1, <2>2, <3>3
      <4>3. Right(n, up[d])
        BY <2>1, <3>1, <4>2
      <4>4. CASE up[d] # d
        <5>1. F[d] = F[up[d]]
          BY <1>0, <3>3, <4>4
        <5>2. QED
          BY <4>1, <4>3, <5>1
      <4>5. CASE up[d] = d
        BY <4>1, <4>3, <4>5
      <4>6. QED
        BY <4>4, <4>5
    <3>4. QED
      BY <3>2, <3>3
  <2> HIDE DEF Right
  <2>3. QED
    BY <2>1, <2>2
<1>8. \A n \in Nat : n \in S
  <2>1. S \subseteq Nat
    OBVIOUS
  <2> HIDE DEF S
  <2>2. QED
    BY <1>6, <1>7, <2>1, SetInduction
<1>9. ASSUME NEW d \in DmiDevices PROVE Right(N, d)
  <2>1. N \in S /\ N <= N /\ depth[d] <= N
    BY <1>1, <1>2, <1>8
  <2> HIDE DEF Right
  <2>2. QED
    BY <2>1
<1>10. QED
  BY <1>9 DEF N

----------------------------------------------------------------------------
(***************************************************************************)
(* Each device that has been shown has the location of its slot, the       *)
(* others have that or none.                                               *)
(***************************************************************************)
Nearest(got, m) == NearestIn(got, m)[Len(DevOrder)]

ShowInv ==
  /\ showing \in 0..Len(DevOrder)
  /\ phy_slot = [d \in DmiDevices |-> phy_slot[d]]
  /\ dmi \notin {"show", "done", "overflow"} =>
       showing = 0 /\ \A d \in DmiDevices : phy_slot[d] = NoSlot
  /\ ret # 0 => \A d \in DmiDevices : phy_slot[d] = NoSlot
  /\ \A d \in DmiDevices : phy_slot[d] \in {NoSlot, Stored(Nearest(pairs, bridged)[d])}
  /\ ret = 0 => \A i \in 1..showing :
       phy_slot[DevOrder[i]] = Stored(Nearest(pairs, bridged)[DevOrder[i]])
  /\ dmi = "overflow" =>
       /\ showing < Len(DevOrder)
       /\ Nearest(pairs, bridged)[DevOrder[showing + 1]] = NoSlot
       /\ \E d \in DmiDevices : bridged.at[d] = ZeroAddr

DmiInv == TableInv /\ ShowInv

\* The items of the list have names, or none, as FirmwareAssumption says.
LEMMA ListNames ==
  ASSUME TableInv, NEW i \in 1..Len(pairs), pairs[i].slot # NoSlot
  PROVE  NameOK(pairs[i].slot)
<1>1. pairs \in Seq(Items)
  <2>1. point = NoPoint \/ ItemsOf(point.table, place, pairs)
    BY DEF TableInv, WalkInv
  <2>2. QED
    BY <2>1 DEF TableInv, ItemsOf
<1>2. PICK s \in Structures : pairs[i] = Item(s)
  <2>1. pairs[i] \in Items
    BY <1>1
  <2>2. QED
    BY <2>1 DEF Items
<1>3. pairs[i].slot = s.slot
  BY <1>2 DEF Item
<1>4. QED
  BY <1>3, GeoAssumption DEF NameOK

\* So has what is found in the list.
LEMMA SlotNames ==
  ASSUME TableInv, NEW addr
  PROVE  SlotIn(pairs, addr) # NoSlot => NameOK(SlotIn(pairs, addr))
<1> DEFINE at == {i \in 1..Len(pairs) : pairs[i].addr = addr}
           first == CHOOSE i \in at : \A j \in at : i <= j
<1>1. CASE at = {}
  BY <1>1, Zenon DEF SlotIn
<1>2. CASE at # {}
  <2>1. SlotIn(pairs, addr) = pairs[first].slot
    BY <1>2, Zenon DEF SlotIn
  <2>2. at \in SUBSET Nat
    <3>1. Len(pairs) \in Nat
      <4>1. point = NoPoint \/ ItemsOf(point.table, place, pairs)
        BY DEF TableInv, WalkInv
      <4>2. CASE point = NoPoint
        BY <4>2 DEF TableInv
      <4>3. CASE ItemsOf(point.table, place, pairs)
        BY <4>3 DEF ItemsOf
      <4>4. QED
        BY <4>1, <4>2, <4>3
    <3>2. QED
      BY <3>1
  <2>3. \E i \in at : \A j \in at : i <= j
    BY <1>2, <2>2, LeastExists
  <2>4. first \in at
    BY <2>3, Zenon
  <2> HIDE DEF first
  <2>5. first \in 1..Len(pairs)
    BY <2>4
  <2>6. QED
    BY <2>1, <2>5, ListNames
<1>3. QED
  BY <1>1, <1>2

\* What show() finds for a device is right, whatever it has stored before.
LEMMA SearchIsRight ==
  ASSUME TableInv, ShowInv, dmi = "show"
  PROVE  \A d \in DmiDevices :
           LET x == NearestSlot[Len(DevOrder)][d]
               F == Nearest(pairs, bridged)
           IN IF x = Endless
              THEN F[d] = NoSlot /\ \E e \in DmiDevices : bridged.at[e] = ZeroAddr
              ELSE Stored(x) = Stored(F[d])
<1> DEFINE N == Len(DevOrder)
           up == [d \in DmiDevices |-> bridged.parent[d]]
           slot == [d \in DmiDevices |-> SlotIn(pairs, bridged.at[d])]
           f == NearestIn(pairs, bridged)
           F == f[N]
           h == NearestSlot
<1>1. bridged \in Bridged
  BY DEF TableInv
<1>2. PICK depth \in [DmiDevices -> 0..Len(DevOrder)] :
        \A d \in DmiDevices :
          Known(bridged.parent[d]) =>
            \/ depth[bridged.parent[d]] < depth[d]
            \/ bridged.parent[d] = d /\ bridged.at[d] = ZeroAddr /\ depth[d] = 0
  BY <1>1, TreeAssumption
<1>3. IsTree(up, depth)
  BY <1>2 DEF IsTree
<1>4. FindsSlots(f, slot, up)
  <2>1. \A n \in 0..Len(DevOrder), d \in DmiDevices :
          f[n][d] = IF SlotIn(pairs, bridged.at[d]) # NoSlot \/ ~Known(bridged.parent[d])
                       \/ n = 0
                    THEN SlotIn(pairs, bridged.at[d])
                    ELSE f[n - 1][bridged.parent[d]]
    BY NearestInIs
  <2> HIDE DEF f
  <2>2. QED
    BY <2>1 DEF FindsSlots
<1>5. IsNearest(F, slot, up)
  <2> HIDE DEF f, slot, up
  <2>1. QED
    BY <1>3, <1>4, NearestOfTree
<1>6. \A d \in DmiDevices : F[d] # NoSlot => NameOK(F[d])
  <2> DEFINE Names ==
               {NoSlot} \cup {slot[d] : d \in {e \in DmiDevices : NameOK(slot[e])}}
  <2>1. \A d \in DmiDevices : slot[d] \in Names
    BY SlotNames
  <2>2. \A x \in Names : x # NoSlot => NameOK(x)
    OBVIOUS
  <2> HIDE DEF f, slot, up, Names
  <2>3. \A d \in DmiDevices : F[d] \in Names
    BY <1>4, <2>1, NearestIsSlot
  <2>4. QED
    BY <2>2, <2>3
<1>7. Searches(h, slot, up, phy_slot)
  <2> SUFFICES ASSUME NEW n \in 0..N, NEW d \in DmiDevices
               PROVE  h[n][d] = IF phy_slot[d] # NoSlot THEN phy_slot[d]
                                ELSE IF slot[d] # NoSlot THEN slot[d]
                                ELSE IF ~Known(up[d]) THEN NoSlot
                                ELSE IF n = 0 THEN Endless ELSE h[n - 1][up[d]]
    BY DEF Searches
  <2>1. h[n][d] = IF FindSlot(d) # NoSlot THEN FindSlot(d)
                  ELSE IF ~Known(bridged.parent[d]) THEN NoSlot
                  ELSE IF n = 0 THEN Endless ELSE h[n - 1][bridged.parent[d]]
    BY NearestSlotIs
  <2>2. FindSlot(d) = IF phy_slot[d] # NoSlot THEN phy_slot[d]
                      ELSE SlotIn(pairs, bridged.at[d])
    BY Zenon DEF FindSlot, SlotIn
  <2> HIDE DEF h
  <2>3. QED
    BY <2>1, <2>2
<1>8. \A d \in DmiDevices : phy_slot[d] \in {NoSlot, Stored(F[d])}
  BY DEF ShowInv, Nearest
<1>9. \A d \in DmiDevices :
        LET x == h[N][d]
        IN IF x = Endless THEN F[d] = NoSlot /\ \E e \in DmiDevices : up[e] = e
           ELSE Stored(x) = Stored(F[d])
  <2> HIDE DEF F, slot, up, h
  <2>1. QED
    BY <1>3, <1>5, <1>6, <1>7, <1>8, ClimbFinds
<1>10. ASSUME NEW e \in DmiDevices, up[e] = e PROVE bridged.at[e] = ZeroAddr
  <2>1. /\ bridged.parent[e] = e /\ Known(bridged.parent[e])
        /\ depth[e] \in 0..Len(DevOrder)
    BY <1>2, <1>10 DEF Known
  <2>2. ~(depth[e] < depth[e])
    <3>1. Len(DevOrder) \in Nat
      BY TreeAssumption
    <3>2. QED
      BY <2>1, <3>1
  <2>3. QED
    BY <1>2, <2>1, <2>2
<1> HIDE DEF up, slot, h, N
<1>11. QED
  BY <1>9, <1>10 DEF Nearest, h, N

LEMMA ShowInitKeeps == DmiInit => DmiInv
<1> SUFFICES ASSUME DmiInit PROVE DmiInv
  OBVIOUS
<1>1. Len(DevOrder) \in Nat
  BY TreeAssumption
<1>2. TableInv
  BY DEF DmiInit, TableInv
<1>3. ShowInv
  BY <1>1 DEF DmiInit, ShowInv
<1>4. QED
  BY <1>2, <1>3 DEF DmiInv

\* Before the devices are shown nothing is stored.
LEMMA BeforeShowKeeps ==
  ASSUME ShowInv, dmi \notin {"show", "done", "overflow"}, dmi' # "overflow",
         UNCHANGED <<showing, phy_slot>>
  PROVE  ShowInv'
BY DEF ShowInv

LEMMA ShowSlotKeeps ==
  ASSUME TableInv, ShowInv, ShowSlot
  PROVE  ShowInv'
<1> DEFINE d == DevOrder[showing + 1]
           F == Nearest(pairs, bridged)
           x == NearestSlot[Len(DevOrder)][d]
           found == IF ret = 0 THEN x ELSE phy_slot[d]
<1>1. /\ dmi = "show" /\ showing < Len(DevOrder)
      /\ UNCHANGED <<bridged, pairs, ret>>
      /\ IF found = Endless THEN dmi' = "overflow" /\ UNCHANGED <<showing, phy_slot>>
         ELSE /\ phy_slot' = IF ret = 0 THEN [phy_slot EXCEPT ![d] = Stored(found)]
                             ELSE phy_slot
              /\ showing' = showing + 1
              /\ UNCHANGED dmi
  BY Zenon DEF ShowSlot
<1>2. /\ showing \in 0..Len(DevOrder) /\ Len(DevOrder) \in Nat
      /\ phy_slot = [e \in DmiDevices |-> phy_slot[e]]
      /\ ret # 0 => \A e \in DmiDevices : phy_slot[e] = NoSlot
      /\ \A e \in DmiDevices : phy_slot[e] \in {NoSlot, Stored(F[e])}
      /\ ret = 0 => \A i \in 1..showing : phy_slot[DevOrder[i]] = Stored(F[DevOrder[i]])
  BY TreeAssumption DEF ShowInv
<1>3. showing + 1 \in 1..Len(DevOrder) /\ d \in DmiDevices
  BY <1>1, <1>2, TreeAssumption
<1>4. IF x = Endless THEN F[d] = NoSlot /\ \E e \in DmiDevices : bridged.at[e] = ZeroAddr
      ELSE Stored(x) = Stored(F[d])
  BY <1>1, <1>3, SearchIsRight
<1>5. Nearest(pairs, bridged)' = F
  BY <1>1
<1>6. \A i \in 1..Len(DevOrder) : DevOrder[i] \in DmiDevices
  BY TreeAssumption
<1> HIDE DEF x, F
<1>7. CASE ret # 0
  <2>1. found = NoSlot /\ found # Endless
    BY <1>2, <1>3, <1>7 DEF NoSlot, Endless
  <2>2. phy_slot' = phy_slot /\ showing' = showing + 1 /\ dmi' = dmi
    BY <1>1, <1>7, <2>1
  <2>3. QED
    BY <1>1, <1>2, <1>3, <1>5, <1>7, <2>2 DEF ShowInv
<1>8. CASE ret = 0 /\ x = Endless
  <2>1. dmi' = "overflow" /\ UNCHANGED <<showing, phy_slot>>
    BY <1>1, <1>8
  <2>2. QED
    BY <1>1, <1>2, <1>4, <1>5, <1>8, <2>1 DEF ShowInv
<1>9. CASE ret = 0 /\ x # Endless
  <2>1. phy_slot' = [phy_slot EXCEPT ![d] = Stored(F[d])] /\ showing' = showing + 1
        /\ dmi' = dmi
    BY <1>1, <1>4, <1>9
  <2> HIDE DEF d
  <2>2. /\ phy_slot' = [e \in DmiDevices |-> phy_slot'[e]]
        /\ phy_slot'[d] = Stored(F[d])
        /\ \A e \in DmiDevices : e # d => phy_slot'[e] = phy_slot[e]
    BY <1>2, <1>3, <2>1
  <2>3. \A e \in DmiDevices : phy_slot'[e] \in {NoSlot, Stored(F[e])}
    BY <1>2, <2>2
  <2>4. ASSUME NEW i \in 1..showing + 1
        PROVE  phy_slot'[DevOrder[i]] = Stored(F[DevOrder[i]])
    <3>1. CASE DevOrder[i] = d
      BY <2>2, <3>1
    <3>2. CASE DevOrder[i] # d
      <4>1. i # showing + 1
        BY <3>2 DEF d
      <4>2. i \in 1..showing /\ i \in 1..Len(DevOrder)
        BY <1>2, <1>3, <4>1
      <4>3. QED
        BY <1>2, <1>6, <1>9, <2>2, <3>2, <4>2
    <3>3. QED
      BY <3>1, <3>2
  <2>5. showing + 1 \in 0..Len(DevOrder)
    BY <1>2, <1>3
  <2>6. QED
    BY <1>1, <1>5, <1>9, <2>1, <2>2, <2>3, <2>4, <2>5 DEF ShowInv
<1>10. QED
  BY <1>7, <1>8, <1>9

LEMMA DmiStepKeeps ==
  ASSUME DmiInv, [DmiNext]_dmiVars
  PROVE  DmiInv'
<1>1. TableInv /\ ShowInv
  BY DEF DmiInv
<1>2. TableInv'
  BY <1>1, TableStepKeeps
<1>3. ASSUME UNCHANGED dmiVars PROVE ShowInv'
  BY <1>1, <1>3 DEF dmiVars, ShowInv
<1>4. ASSUME \/ StartDmi \/ TrySysfs \/ TryEfi \/ ScanMemory
             \/ DecodeStructure \/ EndOfTable
      PROVE  ShowInv'
  <2>1. /\ dmi \in {"idle", "sysfs", "efi", "memory", "table"}
        /\ UNCHANGED <<showing, phy_slot>>
    BY <1>4 DEF StartDmi, TrySysfs, TryEfi, ScanMemory, DecodeStructure, EndOfTable
  <2>2. dmi' # "overflow"
    <3>1. CASE StartDmi \/ DecodeStructure \/ EndOfTable
      BY <3>1 DEF StartDmi, DecodeStructure, EndOfTable
    <3>2. CASE TrySysfs \/ ScanMemory
      BY <3>2 DEF TrySysfs, ScanMemory, Decode, NoTable
    <3>3. CASE TryEfi
      <4>1. \/ dmi' = "memory" \/ NoTable(1) \/ NoTable(0) \/ Decode(firmware.efi)
        BY <3>3, Zenon DEF TryEfi
      <4>2. QED
        BY <4>1 DEF Decode, NoTable
    <3>4. QED
      BY <1>4, <3>1, <3>2, <3>3
  <2>3. QED
    BY <1>1, <2>1, <2>2, BeforeShowKeeps
<1>5. ASSUME ShowSlot PROVE ShowInv'
  BY <1>1, <1>5, ShowSlotKeeps
<1>6. ASSUME ShownAll PROVE ShowInv'
  BY <1>1, <1>6 DEF ShownAll, ShowInv
<1>7. ShowInv'
  BY <1>3, <1>4, <1>5, <1>6 DEF DmiNext
<1>8. QED
  BY <1>2, <1>7 DEF DmiInv

LEMMA DmiInvRight == DmiInv => SlotsRight
<1> SUFFICES ASSUME DmiInv PROVE SlotsRight
  OBVIOUS
<1>1. TableInv /\ ShowInv
  BY DEF DmiInv
<1>2. PairsAreSlots
  <2>1. SUFFICES ASSUME dmi \in {"show", "done"}, point # NoPoint PROVE PairsAreSlots
    BY DEF PairsAreSlots
  <2>2. WalkInv(point, place, pairs, TRUE)
    BY <1>1, <2>1 DEF TableInv
  <2>3. ListIsRight(point, pairs)
    BY <2>2, WalkedIsRight
  <2>4. QED
    BY <2>3, Zenon DEF PairsAreSlots, ListIsRight
<1>3. NearestBySlots[Len(DevOrder)] = Nearest(pairs, bridged)
  BY NearestBySlotsIs DEF Nearest
<1>4. SlotIsNearest
  <2>1. ASSUME ret = 0, NEW i \in 1..showing
        PROVE  phy_slot[DevOrder[i]] = Stored(NearestBySlots[Len(DevOrder)][DevOrder[i]])
    BY <1>1, <1>3, <2>1 DEF ShowInv
  <2>2. dmi = "overflow" =>
          /\ NearestBySlots[Len(DevOrder)][DevOrder[showing + 1]] = NoSlot
          /\ \E d \in DmiDevices : bridged.at[d] = ZeroAddr
    BY <1>1, <1>3 DEF ShowInv
  <2>3. QED
    BY <2>1, <2>2 DEF SlotIsNearest, Stored
<1>5. QED
  BY <1>2, <1>4 DEF SlotsRight

\* The list has the physical slots of the tables, wherever they were found, and
\* each device gets the location in the name of the nearest slot above it,
\* whichever devices have had theirs stored before; the search fails to end only
\* where device 0000:00:00.0 is above itself and has no slot.
THEOREM SlotsAreRight == DmiSpec => []SlotsRight
<1>1. DmiInit => DmiInv
  BY ShowInitKeeps
<1>2. DmiInv /\ [DmiNext]_dmiVars => DmiInv'
  BY DmiStepKeeps
<1>3. DmiInv => SlotsRight
  BY DmiInvRight
<1>4. QED
  BY <1>1, <1>2, <1>3, PTL DEF DmiSpec
==============================================================================
