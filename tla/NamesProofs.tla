----------------------------- MODULE NamesProofs -----------------------------
(***************************************************************************)
(* For any number of processes that share the cache file, any identifiers  *)
(* and any sequence of calls, failures and kills: an answer comes from a   *)
(* source the call admits, and the cache file holds names the DNS gave.    *)
(* Where all calls take their sources from the options: pci.ids wins, the  *)
(* DNS is asked once, and what it said is found in the cache file again.   *)
(*                                                                         *)
(* For any packet that comes back: the walks over it stay inside, and no   *)
(* two identifiers are asked for by one name.                              *)
(***************************************************************************)
EXTENDS Names, NetNames, SequenceTheorems, FiniteSetTheorems, WellFoundedInduction,
        TLAPS

\* Where an entry of the hash can come from, the DNS having given the names g.
Sourced(e, g) ==
  \/ e = [src |-> "LOCAL", name |-> LocalName]
  \/ e = [src |-> "HWDB", name |-> HwdbName]
  \/ e = [src |-> "NET", name |-> EMPTY]
  \/ \E n \in g : e \in {[src |-> "NET", name |-> n], [src |-> "CACHE", name |-> n]}

HashFrom ==
  \A p \in Procs, k \in Keys : hash[p][k] # NONE => Sourced(hash[p][k], given[k])

\* The lines of a cache file, and those of a file that is to become it.
LinesFrom(lines, g) ==
  lines # NoFile => \A k \in Keys : lines[k] # NONE => lines[k] \in g[k]
TmpFrom == \A p \in Procs : LinesFrom(tmp[p], given)

AllFromSources == HashFrom /\ LinesFrom(file, given) /\ TmpFrom

\* A call goes on while the hash is written and loaded anew for it, and the
\* result is that of its flags.
InCall(p) ==
  \/ pc[p] \in {"load", "loop", "hwdb", "net"}
  \/ pc[p] \in {"free", "write", "rename", "clear"} /\ after[p] = "load"
CallKept ==
  \A p \in Procs : InCall(p) => call[p].keys # <<>> /\ call[p].flags = result[p].flags

Inv == TypeOK /\ AllFromSources /\ CallKept /\ AnswerAllowed

----------------------------------------------------------------------------
(***************************************************************************)
(* Types.                                                                  *)
(***************************************************************************)
LEMMA InitType == Init => TypeOK
BY EmptySeq DEF Init, TypeOK, NoEntries, NoCall, NoResult

LEMMA EntryTypes ==
  /\ [src |-> "LOCAL", name |-> LocalName] \in Entries
  /\ [src |-> "HWDB", name |-> HwdbName] \in Entries
  /\ \A n \in NetNames \cup {EMPTY} : [src |-> "NET", name |-> n] \in Entries
  /\ \A n \in NetNames : [src |-> "CACHE", name |-> n] \in Entries
BY DEF Entries, Sources, Texts

LEMMA InsertType ==
  ASSUME NEW h \in [Keys -> Entries \cup {NONE}], NEW k \in Keys, NEW e \in Entries
  PROVE  Insert(h, k, e) \in [Keys -> Entries \cup {NONE}]
BY DEF Insert

Calls == [keys : Seq(Keys), flags : SUBSET Flags, tried : BOOLEAN]
Results == [keys : Seq(Keys), flags : SUBSET Flags, name : Texts \cup {NONE}]
Places == {"off", "idle", "load", "loop", "hwdb", "net", "free", "write", "rename", "clear"}

LEMMA Put ==
  ASSUME NEW S, NEW T, NEW f \in [S -> T], NEW i \in S, NEW v \in T
  PROVE  [f EXCEPT ![i] = v] \in [S -> T]
OBVIOUS

\* The next identifier of a call.
LEMMA NextKeyType ==
  ASSUME NEW f \in [Procs -> Calls], NEW p \in Procs, NEW t \in Seq(Keys)
  PROVE  [f EXCEPT ![p].keys = t, ![p].tried = FALSE] \in [Procs -> Calls]
BY DEF Calls

LEMMA NoCallType ==
  ASSUME NEW f \in [Procs -> Calls], NEW p \in Procs
  PROVE  [f EXCEPT ![p] = NoCall] \in [Procs -> Calls]
<1>1. NoCall \in Calls
  BY EmptySeq DEF NoCall, Calls
<1>2. QED
  BY <1>1

LEMMA TriedType ==
  ASSUME NEW f \in [Procs -> Calls], NEW p \in Procs, NEW t \in BOOLEAN
  PROVE  [f EXCEPT ![p].tried = @ \/ t] \in [Procs -> Calls]
BY DEF Calls

LEMMA NameType ==
  ASSUME NEW f \in [Procs -> Results], NEW p \in Procs, NEW n \in Texts \cup {NONE}
  PROVE  [f EXCEPT ![p].name = n] \in [Procs -> Results]
BY DEF Results

LEMMA DirtyType ==
  ASSUME NEW f \in [Procs -> 0..2], NEW p \in Procs
  PROVE  [f EXCEPT ![p] = Dirty(@)] \in [Procs -> 0..2]
<1>1. Dirty(f[p]) \in 0..2
  BY DEF Dirty
<1>2. QED
  BY <1>1

LEMMA AskedType ==
  ASSUME NEW f \in [Procs -> [Keys -> 0..2]], NEW p \in Procs, NEW k \in Keys
  PROVE  [f EXCEPT ![p][k] = IF @ < 2 THEN @ + 1 ELSE 2] \in [Procs -> [Keys -> 0..2]]
<1>1. f[p][k] \in 0..2
  OBVIOUS
<1>2. (IF f[p][k] < 2 THEN f[p][k] + 1 ELSE 2) \in 0..2
  BY <1>1
<1>3. QED
  BY <1>2

LEMMA TypeParts ==
  TypeOK <=> /\ hash \in [Procs -> [Keys -> Entries \cup {NONE}]]
             /\ failed \in [Procs -> BOOLEAN]
             /\ status \in [Procs -> 0..2]
             /\ mode \in [Procs -> SUBSET Flags]
             /\ pc \in [Procs -> Places]
             /\ after \in [Procs -> {"off", "idle", "load"}]
             /\ call \in [Procs -> Calls]
             /\ result \in [Procs -> Results]
             /\ file \in Files \cup {NoFile}
             /\ tmp \in [Procs -> Files \cup {NoFile}]
             /\ given \in [Keys -> SUBSET NetNames]
             /\ asked \in [Procs -> [Keys -> 0..2]]
             /\ found \in [Procs -> SUBSET Keys]
             /\ resolved \subseteq Keys
BY DEF TypeOK, Places, Calls, Results

LEMMA TypeNext ==
  ASSUME hash' \in [Procs -> [Keys -> Entries \cup {NONE}]],
         failed' \in [Procs -> BOOLEAN],
         status' \in [Procs -> 0..2],
         mode' \in [Procs -> SUBSET Flags],
         pc' \in [Procs -> Places],
         after' \in [Procs -> {"off", "idle", "load"}],
         call' \in [Procs -> Calls],
         result' \in [Procs -> Results],
         file' \in Files \cup {NoFile},
         tmp' \in [Procs -> Files \cup {NoFile}],
         given' \in [Keys -> SUBSET NetNames],
         asked' \in [Procs -> [Keys -> 0..2]],
         found' \in [Procs -> SUBSET Keys],
         resolved' \subseteq Keys
  PROVE  TypeOK'
BY DEF TypeOK, Places, Calls, Results

LEMMA KeyType ==
  ASSUME NEW p \in Procs, TypeOK, CallKept, InCall(p)
  PROVE  /\ Key(p) \in Keys
         /\ Tail(call[p].keys) \in Seq(Keys)
         /\ Len(call[p].keys) > 1 => Tail(call[p].keys) # <<>>
<1> DEFINE s == call[p].keys
<1>1. s \in Seq(Keys) /\ s # <<>>
  BY DEF TypeOK, CallKept
<1> HIDE DEF s
<1>2. Len(s) \in Nat \ {0} /\ s[1] \in Keys
  <2>1. Len(s) \in Nat \ {0}
    BY <1>1, EmptySeq
  <2>2. 1 \in 1..Len(s)
    BY <2>1
  <2>3. s[1] \in Keys
    BY ONLY <1>1, <2>2, ElementOfSeq
  <2>4. QED
    BY <2>1, <2>3
<1>3. Tail(s) \in Seq(Keys) /\ Len(Tail(s)) = Len(s) - 1
  BY <1>1, HeadTailProperties
<1>4. Len(s) > 1 => Tail(s) # <<>>
  <2>1. ASSUME Len(s) > 1 PROVE Len(Tail(s)) # 0
    BY <1>2, <1>3, <2>1
  <2>2. Len(<<>>) = 0
    BY EmptySeq
  <2>3. QED
    BY <2>1, <2>2
<1>5. QED
  BY <1>2, <1>3, <1>4 DEF s, Key

LEMMA ClientType ==
  ASSUME NEW p \in Procs, Inv, Client(p)
  PROVE  TypeOK'
<1> USE DEF TypeOK, access
<1>1. CASE Start(p)
  BY <1>1, CallAssumption, EmptySeq DEF Inv, Start, NoResult
<1>2. ASSUME NEW keys \in Requests, NEW extra \in Extras, LookupName(p, keys, extra)
      PROVE  TypeOK'
  <2>1. keys \in Seq(Keys) /\ mode[p] \cup extra \in SUBSET Flags
    BY CallAssumption DEF Inv
  <2>2. QED
    BY <1>2, <2>1 DEF Inv, LookupName
<1>3. ASSUME NEW next \in {"idle", "off"}, FreeNameList(p, next)
      PROVE  TypeOK'
  BY <1>3 DEF Inv, FreeNameList
<1>4. QED
  BY <1>1, <1>2, <1>3 DEF Client

LEMMA LibraryType ==
  ASSUME NEW p \in Procs, Inv, Library(p)
  PROVE  TypeOK'
<1> USE DEF access
<1>0. /\ TypeOK
      /\ hash \in [Procs -> [Keys -> Entries \cup {NONE}]]
      /\ failed \in [Procs -> BOOLEAN]
      /\ status \in [Procs -> 0..2]
      /\ mode \in [Procs -> SUBSET Flags]
      /\ pc \in [Procs -> Places]
      /\ after \in [Procs -> {"off", "idle", "load"}]
      /\ call \in [Procs -> Calls]
      /\ result \in [Procs -> Results]
      /\ file \in Files \cup {NoFile}
      /\ tmp \in [Procs -> Files \cup {NoFile}]
      /\ given \in [Keys -> SUBSET NetNames]
      /\ asked \in [Procs -> [Keys -> 0..2]]
      /\ found \in [Procs -> SUBSET Keys]
      /\ resolved \subseteq Keys
  BY TypeParts DEF Inv
<1>1. CASE Free(p)
  <2>1. status' \in [Procs -> 0..2] /\ pc' \in [Procs -> Places]
    BY <1>0, <1>1 DEF Free, Places
  <2>2. UNCHANGED <<hash, failed, mode, after, call, result, file, tmp, given, asked, found,
                    resolved>>
    BY <1>1 DEF Free
  <2>3. QED
    BY <1>0, <2>1, <2>2, TypeNext
<1>2. CASE Write(p)
  <2>1. pc' \in [Procs -> Places]
    BY <1>0, <1>2 DEF Write, Places
  <2>2. /\ UNCHANGED <<hash, failed, status, mode, after, call, result, file, given, asked,
                       found, resolved>>
        /\ \/ UNCHANGED tmp
           \/ \E lost \in SUBSET Keys :
                tmp' = [tmp EXCEPT ![p] = [k \in Keys |-> IF k \in lost THEN NONE
                                                          ELSE FlushText(hash[p])[k]]]
    BY <1>2 DEF Write
  <2>3. \A k \in Keys : FlushText(hash[p])[k] \in NetNames \cup {NONE}
    <3> SUFFICES ASSUME NEW k \in Keys, hash[p][k] # NONE,
                        hash[p][k].src \in {"CACHE", "NET"}, hash[p][k].name # EMPTY
                 PROVE  hash[p][k].name \in NetNames
      BY DEF FlushText
    <3>1. Sourced(hash[p][k], given[k]) /\ given[k] \subseteq NetNames
      BY DEF Inv, AllFromSources, HashFrom, TypeOK
    <3>2. QED
      BY <3>1 DEF Sourced
  <2>4. \A lost \in SUBSET Keys :
          [k \in Keys |-> IF k \in lost THEN NONE ELSE FlushText(hash[p])[k]] \in Files
    BY <2>3 DEF Files
  <2>5. tmp' \in [Procs -> Files \cup {NoFile}]
    BY <1>0, <2>2, <2>4
  <2>6. QED
    BY <1>0, <2>1, <2>2, <2>5, TypeNext
<1>3. CASE Rename(p)
  <2>1. pc' \in [Procs -> Places] /\ tmp' \in [Procs -> Files \cup {NoFile}]
    BY <1>0, <1>3 DEF Rename, Places
  <2>2. file' \in Files \cup {NoFile} /\ resolved' \subseteq Keys
    BY <1>0, <1>3 DEF Rename
  <2>3. UNCHANGED <<hash, failed, status, mode, after, call, result, given, asked, found>>
    BY <1>3 DEF Rename
  <2>4. QED
    BY <1>0, <2>1, <2>2, <2>3, TypeNext
<1>4. CASE Clear(p)
  BY <1>0, <1>4 DEF TypeOK, Clear, NoEntries
<1>5. CASE LoadNameList(p)
  <2> DEFINE h == [k \in Keys |-> IF k \in Local THEN [src |-> "LOCAL", name |-> LocalName]
                                  ELSE NONE]
  <2>1. h \in [Keys -> Entries \cup {NONE}]
    BY EntryTypes
  <2>2. /\ hash' \in {hash, [hash EXCEPT ![p] = h]}
        /\ failed' \in {failed, [failed EXCEPT ![p] = TRUE]}
        /\ pc' = [pc EXCEPT ![p] = "loop"]
        /\ UNCHANGED <<status, mode, after, call, result, file, tmp, given, asked, found,
                       resolved>>
    BY <1>5 DEF LoadNameList
  <2> HIDE DEF h
  <2>3. hash' \in [Procs -> [Keys -> Entries \cup {NONE}]]
    BY <1>0, <2>1, <2>2
  <2>4. failed' \in [Procs -> BOOLEAN] /\ pc' \in [Procs -> Places]
    BY <1>0, <2>2 DEF Places
  <2>5. QED
    BY <1>0, <2>2, <2>3, <2>4, TypeNext
<1>6. CASE Answer(p)
  <2>1. pc[p] = "loop" /\ Visible(hash[p][Key(p)], call[p].flags)
    BY <1>6 DEF Answer
  <2>2. Key(p) \in Keys /\ Tail(call[p].keys) \in Seq(Keys)
    BY <1>0, <2>1, KeyType DEF Inv, InCall
  <2>3. hash[p][Key(p)].name \in Texts
    BY <1>0, <2>1, <2>2 DEF Visible, Entries
  <2>4. /\ \/ call' = [call EXCEPT ![p].keys = Tail(call[p].keys), ![p].tried = FALSE]
           \/ call' = [call EXCEPT ![p] = NoCall]
        /\ pc' \in {pc, [pc EXCEPT ![p] = "idle"]}
        /\ \E n \in {NONE, hash[p][Key(p)].name} : result' = [result EXCEPT ![p].name = n]
        /\ UNCHANGED <<hash, failed, status, mode, after, file, tmp, given, asked, found,
                       resolved>>
    BY <1>6 DEF Answer
  <2>5. call' \in [Procs -> Calls]
    <3>1. call \in [Procs -> Calls]
      BY <1>0
    <3>2. \/ call' = [call EXCEPT ![p].keys = Tail(call[p].keys), ![p].tried = FALSE]
          \/ call' = [call EXCEPT ![p] = NoCall]
      BY <2>4
    <3>3. QED
      <4>1. [call EXCEPT ![p].keys = Tail(call[p].keys), ![p].tried = FALSE] \in [Procs -> Calls]
        BY <2>2, <3>1, NextKeyType
      <4>2. [call EXCEPT ![p] = NoCall] \in [Procs -> Calls]
        BY <3>1, NoCallType
      <4>3. QED
        BY <3>2, <4>1, <4>2
  <2>6. result' \in [Procs -> Results]
    <3>1. result \in [Procs -> Results]
      BY <1>0
    <3>2. PICK n \in {NONE, hash[p][Key(p)].name} : result' = [result EXCEPT ![p].name = n]
      BY <2>4
    <3>3. n \in Texts \cup {NONE}
      BY <2>3
    <3>4. QED
      BY <3>1, <3>2, <3>3, NameType
  <2>7. pc' \in [Procs -> Places]
    BY <1>0, <2>4 DEF Places
  <2>8. QED
    BY <1>0, <2>4, <2>5, <2>6, <2>7, TypeNext
<1>7. CASE LoadCache(p)
  <2> DEFINE h == [k \in Keys |-> IF hash[p][k] = NONE /\ file[k] # NONE
                                     THEN [src |-> "CACHE", name |-> file[k]] ELSE hash[p][k]]
  <2>1. /\ status' \in {[status EXCEPT ![p] = 1], [status EXCEPT ![p] = 2]}
        /\ pc' \in {pc, [pc EXCEPT ![p] = "hwdb"]}
        /\ UNCHANGED hash \/ (file # NoFile /\ hash' = [hash EXCEPT ![p] = h])
        /\ UNCHANGED <<failed, mode, after, call, result, file, tmp, given, asked, found,
                       resolved>>
    BY <1>7 DEF LoadCache
  <2>2. ASSUME file # NoFile PROVE h \in [Keys -> Entries \cup {NONE}]
    <3>1. \A k \in Keys : file[k] # NONE => file[k] \in NetNames
      BY <1>0, <2>2 DEF TypeOK, Files
    <3>2. \A k \in Keys : hash[p][k] \in Entries \cup {NONE}
      BY <1>0 DEF TypeOK
    <3>3. QED
      BY <3>1, <3>2, EntryTypes
  <2> HIDE DEF h
  <2>3. hash' \in [Procs -> [Keys -> Entries \cup {NONE}]]
    BY <1>0, <2>1, <2>2
  <2>4. status' \in [Procs -> 0..2]
    <3>1. status \in [Procs -> 0..2] /\ 1 \in 0..2 /\ 2 \in 0..2
      BY <1>0
    <3>2. status' \in {[status EXCEPT ![p] = 1], [status EXCEPT ![p] = 2]}
      BY <2>1
    <3>3. QED
      BY <3>1, <3>2, Put
  <2>5. pc' \in [Procs -> Places]
    BY <1>0, <2>1 DEF Places
  <2>6. QED
    BY <1>0, <2>1, <2>3, <2>4, <2>5, TypeNext
<1>8. CASE SkipCache(p)
  BY <1>0, <1>8 DEF TypeOK, SkipCache
<1>9. CASE TryHwdb(p)
  <2> DEFINE h == Insert(hash[p], Key(p), [src |-> "HWDB", name |-> HwdbName])
  <2>1. Key(p) \in Keys
    BY <1>0, <1>9, KeyType DEF Inv, InCall, TryHwdb
  <2>2. h \in [Keys -> Entries \cup {NONE}]
    BY <1>0, <2>1, EntryTypes, InsertType
  <2>3. /\ hash' \in {hash, [hash EXCEPT ![p] = h]}
        /\ \E t \in BOOLEAN : call' = [call EXCEPT ![p].tried = @ \/ t]
        /\ pc' \in {[pc EXCEPT ![p] = "loop"], [pc EXCEPT ![p] = "net"]}
        /\ UNCHANGED <<failed, status, mode, after, result, file, tmp, given, asked, found,
                       resolved>>
    BY <1>9 DEF TryHwdb
  <2> HIDE DEF h
  <2>4. hash' \in [Procs -> [Keys -> Entries \cup {NONE}]]
    BY <1>0, <2>2, <2>3
  <2>5. call' \in [Procs -> Calls]
    <3>1. call \in [Procs -> Calls]
      BY <1>0
    <3>2. PICK t \in BOOLEAN : call' = [call EXCEPT ![p].tried = @ \/ t]
      BY <2>3
    <3>3. QED
      BY <3>1, <3>2, TriedType
  <2>6. pc' \in [Procs -> Places]
    BY <1>0, <2>3 DEF Places
  <2>7. QED
    BY <1>0, <2>3, <2>4, <2>5, <2>6, TypeNext
<1>10. CASE AskNet(p)
  <2>1. Key(p) \in Keys
    BY <1>0, <1>10, KeyType DEF Inv, InCall, AskNet
  <2>2. PICK name \in NetNames \cup {EMPTY} :
          /\ hash' = [hash EXCEPT ![p] =
                        Insert(@, Key(p), [src |-> "NET", name |-> name])]
          /\ IF name = EMPTY
               THEN UNCHANGED <<status, given, found>>
               ELSE /\ status' = [status EXCEPT ![p] = Dirty(@)]
                    /\ given' = [given EXCEPT ![Key(p)] = @ \cup {name}]
                    /\ found' = [found EXCEPT ![p] = @ \cup {Key(p)}]
    BY <1>10 DEF AskNet
  <2>3. hash' \in [Procs -> [Keys -> Entries \cup {NONE}]]
    <3> DEFINE h == Insert(hash[p], Key(p), [src |-> "NET", name |-> name])
    <3>1. h \in [Keys -> Entries \cup {NONE}]
      BY <1>0, <2>1, EntryTypes, InsertType
    <3>2. hash' = [hash EXCEPT ![p] = h]
      BY <2>2
    <3> HIDE DEF h
    <3>3. QED
      BY <1>0, <3>1, <3>2
  <2>4. status' \in [Procs -> 0..2]
    <3>1. status \in [Procs -> 0..2]
      BY <1>0
    <3>2. status' \in {status, [status EXCEPT ![p] = Dirty(@)]}
      BY <2>2
    <3>3. QED
      BY <3>1, <3>2, DirtyType
  <2>5. given' \in [Keys -> SUBSET NetNames]
    <3>1. given \in [Keys -> SUBSET NetNames]
      BY <1>0
    <3>2. \/ given' = given
          \/ name \in NetNames /\ given' = [given EXCEPT ![Key(p)] = @ \cup {name}]
      BY <2>2
    <3>3. QED
      BY <2>1, <3>1, <3>2
  <2>6. found' \in [Procs -> SUBSET Keys]
    <3>1. found \in [Procs -> SUBSET Keys]
      BY <1>0
    <3>2. found' \in {found, [found EXCEPT ![p] = @ \cup {Key(p)}]}
      BY <2>2
    <3>3. QED
      BY <2>1, <3>1, <3>2
  <2>7. /\ pc' = [pc EXCEPT ![p] = "loop"]
        /\ asked' = [asked EXCEPT ![p][Key(p)] = IF @ < 2 THEN @ + 1 ELSE 2]
        /\ UNCHANGED <<failed, mode, after, call, result, file, tmp, resolved>>
    BY <1>10 DEF AskNet
  <2>8. asked' \in [Procs -> [Keys -> 0..2]] /\ pc' \in [Procs -> Places]
    BY <1>0, <2>1, <2>7, AskedType DEF Places
  <2>9. QED
    BY <1>0, <2>3, <2>4, <2>5, <2>6, <2>7, <2>8, TypeNext
<1>11. CASE NoAnswer(p)
  <2>1. Tail(call[p].keys) \in Seq(Keys)
    BY <1>0, <1>11, KeyType DEF Inv, InCall, NoAnswer
  <2>6. \/ call' = [call EXCEPT ![p].keys = Tail(call[p].keys), ![p].tried = FALSE]
        \/ call' = [call EXCEPT ![p] = NoCall]
    BY <1>11 DEF NoAnswer
  <2>2. /\ pc' \in {[pc EXCEPT ![p] = "loop"], [pc EXCEPT ![p] = "idle"]}
        /\ UNCHANGED <<hash, failed, status, mode, after, result, file, tmp, given, asked,
                       found, resolved>>
    BY <1>11 DEF NoAnswer
  <2>3. call' \in [Procs -> Calls]
    <3>1. call \in [Procs -> Calls]
      BY <1>0
    <3>2. QED
      <4>1. [call EXCEPT ![p].keys = Tail(call[p].keys), ![p].tried = FALSE]
              \in [Procs -> Calls]
        BY <2>1, <3>1, NextKeyType
      <4>2. [call EXCEPT ![p] = NoCall] \in [Procs -> Calls]
        BY <3>1, NoCallType
      <4>3. QED
        BY <2>6, <4>1, <4>2
  <2>4. pc' \in [Procs -> Places]
    BY <1>0, <2>2 DEF Places
  <2>5. QED
    BY <1>0, <2>2, <2>3, <2>4, TypeNext
<1>12. QED
  BY <1>1, <1>2, <1>3, <1>4, <1>5, <1>6, <1>7, <1>8, <1>9, <1>10, <1>11 DEF Library

LEMMA KillType ==
  ASSUME NEW p \in Procs, Inv, Kill(p)
  PROVE  TypeOK'
BY EmptySeq DEF Inv, TypeOK, Kill, NoEntries, NoCall

----------------------------------------------------------------------------
(***************************************************************************)
(* Where entries, lines and answers come from.                             *)
(***************************************************************************)
LEMMA SourcedGrows ==
  ASSUME NEW e, NEW g, NEW f, g \subseteq f, Sourced(e, g)
  PROVE  Sourced(e, f)
BY DEF Sourced

\* A step that leaves hash, files and answers alone.
LEMMA Untouched ==
  ASSUME AllFromSources, UNCHANGED <<hash, file, tmp, given>>
  PROVE  AllFromSources'
BY DEF AllFromSources, HashFrom, TmpFrom

\* A step that fills the hash of one process.
LEMMA Filled ==
  ASSUME AllFromSources, TypeOK, NEW p \in Procs, NEW h,
         hash' = [hash EXCEPT ![p] = h],
         \A k \in Keys : h[k] # NONE => Sourced(h[k], given[k]),
         UNCHANGED <<file, tmp, given>>
  PROVE  AllFromSources'
<1>1. HashFrom'
  BY DEF AllFromSources, HashFrom, TypeOK
<1>2. QED
  BY <1>1 DEF AllFromSources, TmpFrom

\* What pci_id_cache_flush() writes is from the cache or the DNS.
LEMMA Flushed ==
  ASSUME AllFromSources, TypeOK, NameAssumption, NEW p \in Procs, NEW k \in Keys,
         FlushText(hash[p])[k] # NONE
  PROVE  FlushText(hash[p])[k] \in given[k]
<1>1. /\ hash[p][k] # NONE /\ hash[p][k].src \in {"CACHE", "NET"}
      /\ hash[p][k].name # EMPTY /\ FlushText(hash[p])[k] = hash[p][k].name
  BY DEF FlushText
<1>2. Sourced(hash[p][k], given[k])
  BY <1>1 DEF AllFromSources, HashFrom
<1>3. QED
  BY <1>1, <1>2 DEF Sourced

LEMMA NoEntriesSourced ==
  \A k \in Keys : NoEntries[k] # NONE => Sourced(NoEntries[k], given[k])
BY DEF NoEntries

LEMMA LibrarySources ==
  ASSUME NEW p \in Procs, Inv, Library(p)
  PROVE  AllFromSources'
<1> USE DEF access
<1>1. CASE Free(p) \/ Answer(p) \/ SkipCache(p) \/ NoAnswer(p)
  BY <1>1, Untouched DEF Inv, Free, Answer, SkipCache, NoAnswer
<1>2. CASE Write(p)
  <2>1. /\ UNCHANGED <<hash, file, given>>
        /\ \/ UNCHANGED tmp
           \/ \E lost \in SUBSET Keys :
                tmp' = [tmp EXCEPT ![p] = [k \in Keys |-> IF k \in lost THEN NONE
                                                          ELSE FlushText(hash[p])[k]]]
    BY <1>2 DEF Write
  <2>2. TmpFrom'
    <3> SUFFICES ASSUME NEW q \in Procs, tmp'[q] # NoFile, NEW k \in Keys, tmp'[q][k] # NONE
                 PROVE  tmp'[q][k] \in given[k]
      BY <2>1 DEF TmpFrom, LinesFrom
    <3>1. \/ tmp'[q] = tmp[q]
          \/ q = p /\ tmp'[q][k] \in {NONE, FlushText(hash[p])[k]}
      BY <2>1 DEF Inv, TypeOK
    <3>2. CASE tmp'[q] = tmp[q]
      BY <3>2 DEF Inv, AllFromSources, TmpFrom, LinesFrom
    <3>3. CASE tmp'[q][k] = FlushText(hash[p])[k]
      BY <3>3, Flushed, NameAssumption DEF Inv
    <3>4. QED
      BY <3>1, <3>2, <3>3
  <2>3. QED
    BY <2>1, <2>2 DEF Inv, AllFromSources, HashFrom
<1>3. CASE Rename(p)
  <2>1. /\ UNCHANGED <<hash, given>> /\ file' \in {file, tmp[p]}
        /\ tmp' = [tmp EXCEPT ![p] = NoFile]
    BY <1>3 DEF Rename
  <2>2. TmpFrom'
    BY <2>1 DEF Inv, TypeOK, AllFromSources, TmpFrom, LinesFrom
  <2>3. LinesFrom(file', given')
    BY <2>1 DEF Inv, AllFromSources, TmpFrom
  <2>4. QED
    BY <2>1, <2>2, <2>3 DEF Inv, AllFromSources, HashFrom
<1>4. CASE Clear(p)
  <2>1. hash' = [hash EXCEPT ![p] = NoEntries] /\ UNCHANGED <<file, tmp, given>>
    BY <1>4 DEF Clear
  <2>2. QED
    BY <2>1, NoEntriesSourced, Filled DEF Inv
<1>5. CASE LoadNameList(p)
  <2> DEFINE h == [k \in Keys |-> IF k \in Local THEN [src |-> "LOCAL", name |-> LocalName]
                                  ELSE NONE]
  <2>1. \A k \in Keys : h[k] # NONE => Sourced(h[k], given[k])
    BY DEF Sourced
  <2>2. /\ UNCHANGED <<file, tmp, given>>
        /\ UNCHANGED hash \/ hash' = [hash EXCEPT ![p] = h]
    BY <1>5 DEF LoadNameList
  <2> HIDE DEF h
  <2>3. QED
    BY <2>1, <2>2, Filled, Untouched DEF Inv
<1>6. CASE LoadCache(p)
  <2> DEFINE h == [k \in Keys |-> IF hash[p][k] = NONE /\ file[k] # NONE
                                     THEN [src |-> "CACHE", name |-> file[k]] ELSE hash[p][k]]
  <2>1. /\ UNCHANGED <<file, tmp, given>>
        /\ UNCHANGED hash \/ (file # NoFile /\ hash' = [hash EXCEPT ![p] = h])
    BY <1>6 DEF LoadCache
  <2>2. ASSUME file # NoFile, NEW k \in Keys, h[k] # NONE
        PROVE  Sourced(h[k], given[k])
    BY <2>2 DEF Inv, AllFromSources, HashFrom, LinesFrom, Sourced
  <2> HIDE DEF h
  <2>3. QED
    BY <2>1, <2>2, Filled, Untouched DEF Inv
<1>7. CASE TryHwdb(p)
  <2> DEFINE e == [src |-> "HWDB", name |-> HwdbName]
             h == Insert(hash[p], Key(p), e)
  <2>1. /\ UNCHANGED <<file, tmp, given>>
        /\ UNCHANGED hash \/ hash' = [hash EXCEPT ![p] = h]
    BY <1>7 DEF TryHwdb
  <2>2. ASSUME NEW k \in Keys, h[k] # NONE PROVE Sourced(h[k], given[k])
    BY <2>2 DEF Inv, TypeOK, AllFromSources, HashFrom, Insert, Sourced
  <2> HIDE DEF h
  <2>3. QED
    BY <2>1, <2>2, Filled, Untouched DEF Inv
<1>8. CASE AskNet(p)
  <2>1. Key(p) \in Keys
    BY <1>8, KeyType DEF Inv, InCall, AskNet
  <2>2. PICK name \in NetNames \cup {EMPTY} :
          /\ hash' = [hash EXCEPT ![p] =
                        Insert(@, Key(p), [src |-> "NET", name |-> name])]
          /\ IF name = EMPTY THEN UNCHANGED given
             ELSE given' = [given EXCEPT ![Key(p)] = @ \cup {name}]
    BY <1>8 DEF AskNet
  <2>3. \A k \in Keys : given[k] \subseteq given'[k]
    BY <2>1, <2>2 DEF Inv, TypeOK
  <2>4. Sourced([src |-> "NET", name |-> name], given'[Key(p)])
    BY <2>1, <2>2 DEF Inv, TypeOK, Sourced
  <2>5. ASSUME NEW q \in Procs, NEW k \in Keys, hash'[q][k] # NONE
        PROVE  Sourced(hash'[q][k], given'[k])
    <3>1. hash'[q][k] = hash[q][k] \/ (k = Key(p) /\ hash'[q][k] = [src |-> "NET", name |-> name])
      BY <2>1, <2>2 DEF Inv, TypeOK, Insert
    <3>2. CASE hash'[q][k] = hash[q][k]
      BY <2>3, <2>5, <3>2, SourcedGrows DEF Inv, AllFromSources, HashFrom
    <3>3. QED
      BY <2>4, <3>1, <3>2
  <2>6. UNCHANGED <<file, tmp>>
    BY <1>8 DEF AskNet
  <2>7. LinesFrom(file', given') /\ TmpFrom'
    BY <2>3, <2>6 DEF Inv, AllFromSources, TmpFrom, LinesFrom
  <2>8. QED
    BY <2>5, <2>7 DEF AllFromSources, HashFrom
<1>9. QED
  BY <1>1, <1>2, <1>3, <1>4, <1>5, <1>6, <1>7, <1>8 DEF Library

LEMMA OtherSources ==
  ASSUME NEW p \in Procs, Inv, Client(p) \/ Kill(p)
  PROVE  AllFromSources'
<1> USE DEF access
<1>1. CASE Client(p)
  <2>1. UNCHANGED <<hash, file, given>> /\ tmp' \in {tmp, [tmp EXCEPT ![p] = NoFile]}
    BY <1>1 DEF Client, Start, LookupName, FreeNameList
  <2>2. TmpFrom'
    BY <2>1 DEF Inv, TypeOK, AllFromSources, TmpFrom, LinesFrom
  <2>3. QED
    BY <2>1, <2>2 DEF Inv, AllFromSources, HashFrom
<1>2. CASE Kill(p)
  <2>1. hash' = [hash EXCEPT ![p] = NoEntries] /\ UNCHANGED <<file, tmp, given>>
    BY <1>2 DEF Kill
  <2>2. QED
    BY <2>1, NoEntriesSourced, Filled DEF Inv
<1>3. QED
  BY <1>1, <1>2

\* Of an entry that a call sees, the source is one its flags admit.
LEMMA Admitted ==
  ASSUME NEW g \in SUBSET NetNames, NEW e, NEW flags, Sourced(e, g), Visible(e, flags),
         NEW name, name = IF e.name = EMPTY THEN NONE ELSE e.name
  PROVE  /\ name = LocalName => "SKIP_LOCAL" \notin flags
         /\ name = HwdbName => flags \cap {"SKIP_LOCAL", "NO_HWDB"} = {}
         /\ name \in NetNames => flags \cap {"NETWORK", "CACHE"} # {}
<1>1. /\ NONE \notin NetNames \cup {LocalName, HwdbName}
      /\ LocalName # HwdbName /\ NetNames \cap {LocalName, HwdbName} = {}
  BY NameAssumption DEF Texts
<1>2. CASE e = [src |-> "LOCAL", name |-> LocalName]
  BY <1>1, <1>2 DEF Visible
<1>3. CASE e = [src |-> "HWDB", name |-> HwdbName]
  BY <1>1, <1>3 DEF Visible
<1>4. CASE e = [src |-> "NET", name |-> EMPTY]
  BY <1>1, <1>4
<1>5. ASSUME NEW n \in g,
             e \in {[src |-> "NET", name |-> n], [src |-> "CACHE", name |-> n]}
      PROVE  /\ name \in NetNames \cup {NONE}
             /\ flags \cap {"NETWORK", "CACHE"} # {}
  BY <1>5 DEF Visible
<1>6. QED
  BY <1>1, <1>2, <1>3, <1>4, <1>5 DEF Sourced

----------------------------------------------------------------------------
\* A call and its result have the same flags until it ends.
LEMMA ClientKeepsCalls ==
  ASSUME Inv, NEW p \in Procs, Client(p)
  PROVE  CallKept' /\ AnswerAllowed'
<1> USE DEF access
<1>0. /\ pc \in [Procs -> Places] /\ after \in [Procs -> {"off", "idle", "load"}]
      /\ call \in [Procs -> Calls] /\ result \in [Procs -> Results]
      /\ CallKept /\ AnswerAllowed
  BY TypeParts DEF Inv
<1>n. NONE \notin NetNames \cup {LocalName, HwdbName}
  BY NameAssumption DEF Texts
<1>1. CASE Start(p)
  <2>1. /\ pc' = [pc EXCEPT ![p] = "idle"] /\ result' = [result EXCEPT ![p] = NoResult]
        /\ UNCHANGED <<after, call>>
    BY <1>1 DEF Start
  <2>2. CallKept'
    BY <1>0, <2>1 DEF CallKept, InCall
  <2>3. AnswerAllowed'
    BY <1>0, <1>n, <2>1 DEF AnswerAllowed, NoResult
  <2>4. QED
    BY <2>2, <2>3
<1>2. ASSUME NEW keys \in Requests, NEW extra \in Extras, LookupName(p, keys, extra)
      PROVE  CallKept' /\ AnswerAllowed'
  <2> DEFINE flags == mode[p] \cup extra
  <2>1. /\ call' = [call EXCEPT ![p] = [keys |-> keys, flags |-> flags, tried |-> FALSE]]
        /\ result' = [result EXCEPT ![p] = [keys |-> keys, flags |-> flags, name |-> NONE]]
        /\ pc' \in {[pc EXCEPT ![p] = "free"], [pc EXCEPT ![p] = "loop"]}
        /\ after' = [after EXCEPT ![p] = "load"]
    BY <1>2 DEF LookupName
  <2>2. keys # <<>>
    BY CallAssumption
  <2> HIDE DEF flags
  <2>3. CallKept'
    BY <1>0, <2>1, <2>2 DEF CallKept, InCall
  <2>4. AnswerAllowed'
    BY <1>0, <1>n, <2>1 DEF AnswerAllowed
  <2>5. QED
    BY <2>3, <2>4
<1>3. ASSUME NEW next \in {"idle", "off"}, FreeNameList(p, next)
      PROVE  CallKept' /\ AnswerAllowed'
  <2>1. /\ pc' = [pc EXCEPT ![p] = "free"] /\ after' = [after EXCEPT ![p] = next]
        /\ UNCHANGED <<call, result>>
    BY <1>3 DEF FreeNameList
  <2>2. CallKept'
    BY <1>0, <1>3, <2>1 DEF CallKept, InCall
  <2>3. AnswerAllowed'
    BY <1>0, <2>1 DEF AnswerAllowed
  <2>4. QED
    BY <2>2, <2>3
<1>4. QED
  BY <1>1, <1>2, <1>3 DEF Client

LEMMA KillKeepsCalls ==
  ASSUME Inv, NEW p \in Procs, Kill(p)
  PROVE  CallKept' /\ AnswerAllowed'
<1>1. /\ call' = [call EXCEPT ![p] = NoCall] /\ pc' = [pc EXCEPT ![p] = "off"]
      /\ UNCHANGED <<after, result>>
  BY DEF Kill
<1>2. CallKept'
  BY <1>1 DEF Inv, TypeOK, CallKept, InCall
<1>3. AnswerAllowed'
  BY <1>1 DEF Inv, AnswerAllowed
<1>4. QED
  BY <1>2, <1>3

LEMMA LibraryKeepsCalls ==
  ASSUME Inv, NEW p \in Procs, Library(p)
  PROVE  CallKept' /\ AnswerAllowed'
<1> USE DEF access
<1>0. /\ pc \in [Procs -> Places] /\ after \in [Procs -> {"off", "idle", "load"}]
      /\ call \in [Procs -> Calls] /\ result \in [Procs -> Results]
      /\ CallKept /\ AnswerAllowed
  BY TypeParts DEF Inv
<1>1. CASE UNCHANGED <<call, result>>
  <2>1. UNCHANGED after
    BY DEF Library, Free, Write, Rename, Clear, LoadNameList, Answer, LoadCache, SkipCache,
           TryHwdb, AskNet, NoAnswer
  <2>2. \A q \in Procs : InCall(q)' => InCall(q)
    <3> SUFFICES ASSUME NEW q \in Procs, InCall(q)' PROVE InCall(q)
      OBVIOUS
    <3>1. CASE Free(p)
      BY <1>0, <2>1, <3>1 DEF Free, InCall
    <3>2. CASE Write(p)
      BY <1>0, <2>1, <3>2 DEF Write, InCall
    <3>3. CASE Rename(p)
      BY <1>0, <2>1, <3>3 DEF Rename, InCall
    <3>4. CASE Clear(p)
      BY <1>0, <2>1, <3>4 DEF Clear, InCall
    <3>5. CASE LoadNameList(p)
      BY <1>0, <2>1, <3>5 DEF LoadNameList, InCall
    <3>6. CASE Answer(p)
      BY <1>0, <2>1, <3>6 DEF Answer, InCall
    <3>7. CASE LoadCache(p)
      BY <1>0, <2>1, <3>7 DEF LoadCache, InCall
    <3>8. CASE SkipCache(p)
      BY <1>0, <2>1, <3>8 DEF SkipCache, InCall
    <3>9. CASE TryHwdb(p)
      BY <1>0, <2>1, <3>9 DEF TryHwdb, InCall
    <3>10. CASE AskNet(p)
      BY <1>0, <2>1, <3>10 DEF AskNet, InCall
    <3>11. CASE NoAnswer(p)
      BY <1>0, <2>1, <3>11 DEF NoAnswer, InCall
    <3>12. QED
      BY <3>1, <3>2, <3>3, <3>4, <3>5, <3>6, <3>7, <3>8, <3>9, <3>10, <3>11 DEF Library
  <2>3. QED
    BY <1>0, <1>1, <2>2 DEF CallKept, AnswerAllowed
<1>2. CASE Answer(p)
  <2> DEFINE entry == hash[p][Key(p)]
             name == IF entry.name = EMPTY THEN NONE ELSE entry.name
  <2>1. /\ pc[p] = "loop" /\ Visible(entry, call[p].flags)
        /\ result' = [result EXCEPT ![p].name = name]
        /\ UNCHANGED after
        /\ \/ /\ Len(call[p].keys) > 1 /\ UNCHANGED pc
              /\ call' = [call EXCEPT ![p].keys = Tail(@), ![p].tried = FALSE]
           \/ call' = [call EXCEPT ![p] = NoCall] /\ pc' = [pc EXCEPT ![p] = "idle"]
    BY <1>2 DEF Answer
  <2>2. /\ Key(p) \in Keys
        /\ Len(call[p].keys) > 1 => Tail(call[p].keys) # <<>>
        /\ call[p].flags = result[p].flags
    BY <2>1, KeyType DEF Inv, InCall, CallKept
  <2>3. /\ name = LocalName => "SKIP_LOCAL" \notin call[p].flags
        /\ name = HwdbName => call[p].flags \cap {"SKIP_LOCAL", "NO_HWDB"} = {}
        /\ name \in NetNames => call[p].flags \cap {"NETWORK", "CACHE"} # {}
    <3>1. Sourced(entry, given[Key(p)]) /\ given[Key(p)] \in SUBSET NetNames
      BY <2>1, <2>2 DEF Inv, AllFromSources, HashFrom, TypeOK, Visible
    <3> HIDE DEF entry
    <3>2. QED
      BY <2>1, <3>1, Admitted
  <2> HIDE DEF entry, name
  <2>4. AnswerAllowed'
    <3>1. \A q \in Procs : result'[q] = IF q = p THEN [result[p] EXCEPT !.name = name] ELSE result[q]
      BY <1>0, <2>1
    <3>2. result'[p].flags = result[p].flags /\ result'[p].name = name
      BY <1>0, <3>1 DEF Results
    <3>3. QED
      BY <1>0, <2>2, <2>3, <3>1, <3>2 DEF AnswerAllowed
  <2>5. \A q \in Procs : result'[q].flags = result[q].flags
    BY <1>0, <2>1 DEF Results
  <2>6. CASE UNCHANGED pc
    <3>1. CASE call' = [call EXCEPT ![p].keys = Tail(@), ![p].tried = FALSE]
      <4>1. \A q \in Procs : call'[q].flags = call[q].flags
        BY <1>0, <3>1 DEF Calls
      <4>2. \A q \in Procs : q # p => call'[q] = call[q]
        BY <1>0, <3>1
      <4>3. call'[p].keys = Tail(call[p].keys)
        BY <1>0, <3>1 DEF Calls
      <4>4. Len(call[p].keys) > 1
        BY <1>0, <2>1, <2>6 DEF Places
      <4>5. CallKept'
        BY <1>0, <2>1, <2>2, <2>5, <2>6, <4>1, <4>2, <4>3, <4>4 DEF CallKept, InCall
      <4>6. QED
        BY <2>4, <4>5
    <3>2. QED
      BY <1>0, <2>1, <2>6, <3>1
  <2>7. CASE call' = [call EXCEPT ![p] = NoCall] /\ pc' = [pc EXCEPT ![p] = "idle"]
    <3>1. CallKept'
      BY <1>0, <2>1, <2>5, <2>7 DEF CallKept, InCall
    <3>2. QED
      BY <2>4, <3>1
  <2>8. QED
    BY <2>1, <2>6, <2>7
<1>3. CASE TryHwdb(p)
  <2>1. /\ pc[p] = "hwdb" /\ UNCHANGED <<after, result>>
        /\ \E t \in BOOLEAN : call' = [call EXCEPT ![p].tried = @ \/ t]
        /\ pc' \in {[pc EXCEPT ![p] = "loop"], [pc EXCEPT ![p] = "net"]}
    BY <1>3 DEF TryHwdb
  <2>2. \A q \in Procs : call'[q].keys = call[q].keys /\ call'[q].flags = call[q].flags
    BY <1>0, <2>1 DEF Calls
  <2>3. \A q \in Procs : InCall(q)' => InCall(q)
    BY <1>0, <2>1 DEF InCall
  <2>4. QED
    BY <1>0, <2>1, <2>2, <2>3 DEF CallKept, AnswerAllowed
<1>4. CASE NoAnswer(p)
  <2>1. /\ pc[p] = "net" /\ UNCHANGED <<after, result>>
        /\ IF Len(call[p].keys) > 1
             THEN /\ call' = [call EXCEPT ![p].keys = Tail(@), ![p].tried = FALSE]
                  /\ pc' = [pc EXCEPT ![p] = "loop"]
             ELSE /\ call' = [call EXCEPT ![p] = NoCall]
                  /\ pc' = [pc EXCEPT ![p] = "idle"]
    BY <1>4 DEF NoAnswer
  <2>2. /\ Len(call[p].keys) > 1 => Tail(call[p].keys) # <<>>
        /\ call[p].flags = result[p].flags
    BY <2>1, KeyType DEF Inv, InCall, CallKept
  <2>3. AnswerAllowed'
    BY <1>0, <2>1 DEF AnswerAllowed
  <2>4. CASE Len(call[p].keys) > 1
    <3>1. call' = [call EXCEPT ![p].keys = Tail(@), ![p].tried = FALSE]
      BY <2>1, <2>4
    <3>2. /\ call'[p].keys = Tail(call[p].keys) /\ call'[p].flags = call[p].flags
          /\ \A q \in Procs : q # p => call'[q] = call[q]
      BY <1>0, <3>1 DEF Calls
    <3>3. CallKept'
      BY <1>0, <2>1, <2>2, <2>4, <3>2 DEF CallKept, InCall
    <3>4. QED
      BY <2>3, <3>3
  <2>5. CASE ~(Len(call[p].keys) > 1)
    <3>1. CallKept'
      BY <1>0, <2>1, <2>5 DEF CallKept, InCall
    <3>2. QED
      BY <2>3, <3>1
  <2>6. QED
    BY <2>4, <2>5
<1>5. QED
  BY <1>1, <1>2, <1>3, <1>4 DEF Library, Free, Write, Rename, Clear, LoadNameList,
        LoadCache, SkipCache, AskNet

LEMMA InitInv == Init => Inv
<1> SUFFICES ASSUME Init PROVE Inv
  OBVIOUS
<1>1. AllFromSources
  BY DEF Init, NoEntries, AllFromSources, HashFrom, TmpFrom, LinesFrom
<1>2. CallKept
  BY DEF Init, CallKept, InCall
<1>3. AnswerAllowed
  BY NameAssumption DEF Init, AnswerAllowed, NoResult, Texts
<1>4. QED
  BY <1>1, <1>2, <1>3, InitType DEF Inv

LEMMA NextInv == Inv /\ [Next]_vars => Inv'
<1>1. ASSUME Inv, NEW p \in Procs, Client(p) PROVE Inv'
  BY <1>1, ClientType, ClientKeepsCalls, OtherSources DEF Inv
<1>2. ASSUME Inv, NEW p \in Procs, Library(p) PROVE Inv'
  BY <1>2, LibraryType, LibraryKeepsCalls, LibrarySources DEF Inv
<1>3. ASSUME Inv, NEW p \in Procs, Kill(p) PROVE Inv'
  BY <1>3, KillType, KillKeepsCalls, OtherSources DEF Inv
<1>4. ASSUME Inv, UNCHANGED vars PROVE Inv'
  BY <1>4 DEF Inv, vars, access, TypeOK, AllFromSources, HashFrom, LinesFrom, TmpFrom,
              CallKept, InCall, AnswerAllowed
<1>5. QED
  BY <1>1, <1>2, <1>3, <1>4 DEF Next

LEMMA InvAlways == Spec => []Inv
<1>1. QED
  BY InitInv, NextInv, PTL DEF Spec

\* Whatever the processes do, an answer comes from a source the call admits,
\* although the hash holds what calls with other flags have put there.
THEOREM AnswersAreAdmitted == Spec => []AnswerAllowed
<1>1. Inv => AnswerAllowed
  BY DEF Inv
<1>2. QED
  BY <1>1, InvAlways, PTL

\* Whatever the processes do, and wherever they are killed, the cache file
\* holds only names the DNS has given for their identifiers.
THEOREM CacheHoldsNetNames == Spec => []CacheIsFromNet
<1>1. Inv => CacheIsFromNet
  BY DEF Inv, AllFromSources, LinesFrom, CacheIsFromNet
<1>2. QED
  BY <1>1, InvAlways, PTL

----------------------------------------------------------------------------
(***************************************************************************)
(* Processes whose calls all take their sources from the options, as those *)
(* of lspci do (no flags are added to id_lookup_mode).                     *)
(***************************************************************************)
OptionsOnly == Extras = {{}}

Flush == {"write", "rename", "clear"}
WantsLocal(p) == mode[p] \cap {"NUMERIC", "SKIP_LOCAL"} = {}

\* Nothing is in the hash that the options do not admit, and the DNS is only
\* asked for what is not there, and then is.
ByOptions(p) ==
  /\ pc[p] # "off" => mode[p] \in Modes
  /\ InCall(p) => call[p].flags = mode[p]
  /\ pc[p] # "off" /\ result[p].keys # <<>> => result[p].flags = mode[p]
AllVisible(p, h) == \A k \in Keys : h[k] # NONE => Visible(h[k], mode[p])
AskedFor(a, h) == \A k \in Keys : a[k] = 0 \/ (a[k] = 1 /\ h[k] # NONE)
LoadIsWanted(p) ==
  pc[p] = "load" \/ (pc[p] \in Flush \cup {"free"} /\ after[p] = "load") => WantsLocal(p)
AsksForNew(p) ==
  /\ ByOptions(p) /\ LoadIsWanted(p)
  /\ AllVisible(p, hash[p]) /\ AskedFor(asked[p], hash[p])
  /\ pc[p] \in {"hwdb", "net"} => hash[p][Key(p)] = NONE
  /\ pc[p] \in {"load", "off"} => hash[p] = NoEntries

LocalEntry == [src |-> "LOCAL", name |-> LocalName]
LocalLoaded(p) == \A k \in Local : hash[p][k] = LocalEntry

\* pci.ids is there before anything is looked up, if it is wanted, and what it
\* knows is answered at once.
LocalIsFirst(p) ==
  /\ ~failed[p]
  /\ WantsLocal(p) =>
       /\ pc[p] \in {"loop", "hwdb", "net"} => LocalLoaded(p)
       /\ pc[p] = "idle" => hash[p] = NoEntries \/ LocalLoaded(p)
       /\ pc[p] # "off" /\ result[p].keys # <<>> /\ result[p].keys[1] \in Local =>
            IF InCall(p) THEN call[p].keys = result[p].keys
            ELSE result[p].name = LocalName

\* The cache has something to be written only behind a call that may ask the
\* DNS, and such a call leaves an entry.
RefreshAsks == \A m \in Modes : "REFRESH_CACHE" \in m => "NETWORK" \in m
DirtyHasHash(p) ==
  /\ status[p] = 2 => "NETWORK" \in mode[p]
  /\ status[p] = 2 /\ pc[p] \notin {"hwdb", "net"} => hash[p] # NoEntries
  /\ pc[p] = "write" => hash[p] # NoEntries
  /\ pc[p] \in Flush \cup {"load", "off"} => status[p] = 0

\* The entries pci_id_cache_flush() writes.
IsWritten(e) == e # NONE /\ e.src \in {"CACHE", "NET"} /\ e.name # EMPTY

\* All lines of the cache file and all that the DNS has said are in the hash
\* until it is written.
NetworkCaches == \A m \in Modes : "NETWORK" \in m => "CACHE" \in m
OneProcess == \A p, q \in Procs : p = q
CacheIsHeld(p) ==
  /\ pc[p] \in Flush \cup {"load", "off"} => status[p] = 0
  /\ found[p] # {} => status[p] = 2 \/ pc[p] \in Flush
  /\ \A k \in found[p] : IsWritten(hash[p][k])
  /\ (status[p] >= 1 \/ pc[p] \in {"write", "rename"})
       /\ "REFRESH_CACHE" \notin mode[p] /\ file # NoFile
     => \A k \in Keys \ Local : file[k] # NONE => IsWritten(hash[p][k])
  /\ status[p] = 0 /\ pc[p] \notin Flush /\ "CACHE" \in mode[p] =>
       \A k \in Keys : hash[p][k] # NONE => k \in Local
  /\ pc[p] \in {"hwdb", "net"} /\ "CACHE" \in mode[p] => status[p] >= 1
  /\ pc[p] = "rename" => tmp[p] = FlushText(hash[p])
  /\ pc[p] = "clear" => \A k \in found[p] : file # NoFile /\ file[k] # NONE

----------------------------------------------------------------------------
\* What a step does to its process, and to others.
LEMMA OthersStay ==
  ASSUME TypeOK, NEW p \in Procs, NEW q \in Procs, q # p, Client(p) \/ Library(p) \/ Kill(p)
  PROVE  /\ hash'[q] = hash[q] /\ failed'[q] = failed[q] /\ status'[q] = status[q]
         /\ mode'[q] = mode[q] /\ pc'[q] = pc[q] /\ after'[q] = after[q]
         /\ call'[q] = call[q] /\ result'[q] = result[q]
         /\ asked'[q] = asked[q] /\ found'[q] = found[q]
<1> USE DEF access, TypeOK
<1>1. CASE Start(p)
  BY <1>1 DEF Start
<1>2. CASE \E keys \in Requests, extra \in Extras : LookupName(p, keys, extra)
  BY <1>2 DEF LookupName
<1>3. CASE \E next \in {"idle", "off"} : FreeNameList(p, next)
  BY <1>3 DEF FreeNameList
<1>4. CASE Free(p)
  BY <1>4 DEF Free
<1>5. CASE Write(p)
  BY <1>5 DEF Write
<1>6. CASE Rename(p)
  BY <1>6 DEF Rename
<1>7. CASE Clear(p)
  BY <1>7 DEF Clear
<1>8. CASE LoadNameList(p)
  BY <1>8 DEF LoadNameList
<1>9. CASE Answer(p)
  BY <1>9 DEF Answer
<1>10. CASE LoadCache(p)
  BY <1>10 DEF LoadCache
<1>11. CASE SkipCache(p)
  BY <1>11 DEF SkipCache
<1>12. CASE TryHwdb(p)
  BY <1>12 DEF TryHwdb
<1>13. CASE AskNet(p)
  BY <1>13 DEF AskNet
<1>14. CASE NoAnswer(p)
  BY <1>14 DEF NoAnswer
<1>15. CASE Kill(p)
  BY <1>15 DEF Kill
<1>16. QED
  BY <1>1, <1>2, <1>3, <1>4, <1>5, <1>6, <1>7, <1>8, <1>9, <1>10, <1>11, <1>12, <1>13,
     <1>14, <1>15 DEF Client, Library

LEMMA ClientDoes ==
  ASSUME TypeOK, OptionsOnly, NEW p \in Procs, Client(p)
  PROVE  /\ hash'[p] = hash[p] /\ failed'[p] = failed[p] /\ status'[p] = status[p]
         /\ asked'[p] = asked[p] /\ found'[p] = found[p] /\ file' = file
         /\ resolved' = resolved
         /\ \/ /\ pc[p] = "off" /\ pc'[p] = "idle" /\ mode'[p] \in Modes
               /\ result'[p] = NoResult
            \/ /\ pc[p] = "idle" /\ mode'[p] = mode[p] /\ after'[p] = "load"
               /\ pc'[p] = IF MustLoad(p, mode[p]) THEN "free" ELSE "loop"
               /\ call'[p].keys = result'[p].keys
               /\ call'[p].flags = mode[p] /\ result'[p].flags = mode[p]
            \/ /\ pc[p] = "idle" /\ mode'[p] = mode[p] /\ pc'[p] = "free"
               /\ after'[p] \in {"idle", "off"} /\ result'[p] = result[p]
<1> USE DEF access, TypeOK
<1>1. CASE Start(p)
  BY <1>1 DEF Start
<1>2. ASSUME NEW keys \in Requests, NEW extra \in Extras, LookupName(p, keys, extra)
      PROVE  /\ hash' = hash /\ failed' = failed /\ status' = status
             /\ asked' = asked /\ found' = found /\ file' = file /\ resolved' = resolved
             /\ pc[p] = "idle" /\ mode'[p] = mode[p] /\ after'[p] = "load"
             /\ pc'[p] = IF MustLoad(p, mode[p]) THEN "free" ELSE "loop"
             /\ call'[p].keys = result'[p].keys
             /\ call'[p].flags = mode[p] /\ result'[p].flags = mode[p]
  <2>1. mode[p] \cup extra = mode[p]
    BY DEF OptionsOnly
  <2>2. QED
    BY <1>2, <2>1 DEF LookupName
<1>3. ASSUME NEW next \in {"idle", "off"}, FreeNameList(p, next)
      PROVE  /\ hash' = hash /\ failed' = failed /\ status' = status
             /\ asked' = asked /\ found' = found /\ file' = file /\ resolved' = resolved
             /\ pc[p] = "idle" /\ mode'[p] = mode[p] /\ pc'[p] = "free"
             /\ after'[p] \in {"idle", "off"} /\ result'[p] = result[p]
  BY <1>3 DEF FreeNameList
<1>4. QED
  BY <1>1, <1>2, <1>3 DEF Client, Start

LEMMA KillDoes ==
  ASSUME TypeOK, NEW p \in Procs, Kill(p)
  PROVE  /\ hash'[p] = NoEntries /\ failed'[p] = FALSE /\ status'[p] = 0
         /\ asked'[p] = [k \in Keys |-> 0] /\ found'[p] = {} /\ pc'[p] = "off"
         /\ file' = file /\ resolved' = resolved
BY DEF Kill, TypeOK

LEMMA FlushDoes ==
  ASSUME TypeOK, NEW p \in Procs, Free(p) \/ Write(p) \/ Rename(p)
  PROVE  /\ hash'[p] = hash[p] /\ failed'[p] = failed[p] /\ mode'[p] = mode[p]
         /\ after'[p] = after[p] /\ call'[p] = call[p] /\ result'[p] = result[p]
         /\ asked'[p] = asked[p] /\ found'[p] = found[p]
         /\ \/ /\ pc[p] = "free" /\ status'[p] = 0 /\ file' = file /\ resolved' = resolved
               /\ pc'[p] = IF status[p] < 2 THEN "clear" ELSE "write"
            \/ /\ pc[p] = "write" /\ status'[p] = status[p] /\ file' = file
               /\ resolved' = resolved
               /\ pc'[p] \in {"rename", "clear"}
               /\ ~IoErrors => pc'[p] = "rename" /\ tmp'[p] = FlushText(hash[p])
            \/ /\ pc[p] = "rename" /\ status'[p] = status[p] /\ pc'[p] = "clear"
               /\ ~IoErrors => file' = tmp[p]
               /\ resolved' = IF "REFRESH_CACHE" \in mode[p] THEN {} ELSE resolved
<1> USE DEF access, TypeOK
<1>1. CASE Free(p)
  BY <1>1 DEF Free
<1>2. CASE Write(p)
  <2>1. [k \in Keys |-> IF k \in {} THEN NONE ELSE FlushText(hash[p])[k]]
          = FlushText(hash[p])
    BY DEF FlushText
  <2>2. pc[p] = "write" /\ pc'[p] \in {"rename", "clear"}
        /\ UNCHANGED <<hash, failed, status, mode, after, call, result, file, asked, found,
                       resolved>>
    BY <1>2 DEF Write
  <2>3. ASSUME ~IoErrors PROVE pc'[p] = "rename" /\ tmp'[p] = FlushText(hash[p])
    BY <1>2, <2>1, <2>3 DEF Write
  <2>4. QED
    BY <2>2, <2>3
<1>3. CASE Rename(p)
  BY <1>3 DEF Rename
<1>4. QED
  BY <1>1, <1>2, <1>3

LEMMA ClearDoes ==
  ASSUME TypeOK, NEW p \in Procs, Clear(p)
  PROVE  /\ pc[p] = "clear" /\ hash'[p] = NoEntries /\ failed'[p] = FALSE
         /\ status'[p] = status[p] /\ mode'[p] = mode[p] /\ pc'[p] = after[p]
         /\ after'[p] = after[p] /\ after[p] \in {"idle", "off", "load"}
         /\ call'[p] = call[p] /\ result'[p] = result[p]
         /\ asked'[p] = [k \in Keys |-> 0] /\ found'[p] = {} /\ file' = file
         /\ resolved' = resolved \cup found[p]
BY DEF Clear, TypeOK

LEMMA LoadDoes ==
  ASSUME TypeOK, NEW p \in Procs, LoadNameList(p)
  PROVE  /\ pc[p] = "load" /\ pc'[p] = "loop"
         /\ status'[p] = status[p] /\ mode'[p] = mode[p]
         /\ after'[p] = after[p] /\ call'[p] = call[p] /\ result'[p] = result[p]
         /\ asked'[p] = asked[p] /\ found'[p] = found[p] /\ file' = file
         /\ resolved' = resolved
         /\ \/ /\ hash'[p] = [k \in Keys |-> IF k \in Local THEN LocalEntry ELSE NONE]
               /\ failed'[p] = failed[p]
            \/ ~Readable /\ hash'[p] = hash[p]
<1>1. /\ pc[p] = "load" /\ pc'[p] = "loop"
      /\ UNCHANGED <<status, mode, after, call, result, asked, found, file, resolved>>
  BY DEF LoadNameList, TypeOK
<1>2. \/ /\ hash'[p] = [k \in Keys |-> IF k \in Local THEN LocalEntry ELSE NONE]
         /\ failed'[p] = failed[p]
      \/ ~Readable /\ hash'[p] = hash[p]
  BY DEF LoadNameList, TypeOK, LocalEntry
<1>3. QED
  BY <1>1, <1>2

\* The call goes on with the next identifier, or is at its end.
GoesOn(p) ==
  \/ /\ Len(call[p].keys) > 1
     /\ call'[p].keys = Tail(call[p].keys) /\ call'[p].flags = call[p].flags
     /\ pc'[p] = "loop"
  \/ pc'[p] = "idle"

LEMMA AnswerDoes ==
  ASSUME Inv, NEW p \in Procs, Answer(p)
  PROVE  /\ pc[p] = "loop" /\ Visible(hash[p][Key(p)], call[p].flags)
         /\ hash'[p] = hash[p] /\ failed'[p] = failed[p] /\ status'[p] = status[p]
         /\ mode'[p] = mode[p] /\ after'[p] = after[p]
         /\ asked'[p] = asked[p] /\ found'[p] = found[p] /\ file' = file
         /\ resolved' = resolved
         /\ result'[p].keys = result[p].keys /\ result'[p].flags = result[p].flags
         /\ LET e == hash[p][Key(p)].name
            IN /\ result'[p].name = IF e = EMPTY THEN NONE ELSE e
               /\ e \notin {EMPTY, NONE} => pc'[p] = "idle"
         /\ GoesOn(p)
<1> DEFINE name == IF hash[p][Key(p)].name = EMPTY THEN NONE ELSE hash[p][Key(p)].name
<1>1. /\ pc \in [Procs -> Places] /\ call \in [Procs -> Calls]
      /\ result \in [Procs -> Results] /\ TypeOK
  BY TypeParts DEF Inv
<1>2. /\ pc[p] = "loop" /\ Visible(hash[p][Key(p)], call[p].flags)
      /\ result' = [result EXCEPT ![p].name = name]
      /\ UNCHANGED <<hash, failed, status, mode, after, asked, found, file, resolved>>
  BY DEF Answer, access
<1>3. \/ /\ name = NONE /\ Len(call[p].keys) > 1
         /\ call' = [call EXCEPT ![p].keys = Tail(@), ![p].tried = FALSE]
         /\ UNCHANGED pc
      \/ /\ ~(name = NONE /\ Len(call[p].keys) > 1)
         /\ pc' = [pc EXCEPT ![p] = "idle"]
  BY DEF Answer
<1> HIDE DEF name
<1>4. /\ result'[p].name = name
      /\ result'[p].keys = result[p].keys /\ result'[p].flags = result[p].flags
  BY <1>1, <1>2 DEF Results
<1>5. GoesOn(p)
  BY <1>1, <1>2, <1>3 DEF GoesOn, Calls
<1>6. name # NONE => pc'[p] = "idle"
  BY <1>1, <1>3
<1>7. QED
  BY <1>2, <1>4, <1>5, <1>6 DEF name

LEMMA EntryNotNone ==
  /\ LocalEntry # NONE /\ [src |-> "HWDB", name |-> HwdbName] # NONE
  /\ \A n \in NetNames \cup {EMPTY} : [src |-> "NET", name |-> n] # NONE
  /\ \A n \in NetNames : [src |-> "CACHE", name |-> n] # NONE
BY NameAssumption, EntryTypes DEF LocalEntry

LEMMA LoadCacheDoes ==
  ASSUME TypeOK, NEW p \in Procs, LoadCache(p)
  PROVE  /\ pc[p] = "loop" /\ ~Visible(hash[p][Key(p)], call[p].flags)
         /\ "CACHE" \in call[p].flags /\ status[p] = 0
         /\ failed'[p] = failed[p] /\ mode'[p] = mode[p] /\ after'[p] = after[p]
         /\ call'[p] = call[p] /\ result'[p] = result[p]
         /\ asked'[p] = asked[p] /\ found'[p] = found[p] /\ file' = file
         /\ resolved' = resolved
         /\ status'[p] = IF "REFRESH_CACHE" \in call[p].flags THEN 2 ELSE 1
         /\ IF "REFRESH_CACHE" \in call[p].flags \/ file = NoFile
            THEN pc'[p] = "hwdb" /\ hash'[p] = hash[p]
            ELSE /\ pc'[p] = "loop"
                 /\ \A k \in Keys :
                      hash'[p][k] = IF hash[p][k] = NONE /\ file[k] # NONE
                                    THEN [src |-> "CACHE", name |-> file[k]]
                                    ELSE hash[p][k]
BY DEF LoadCache, TypeOK

LEMMA SkipCacheDoes ==
  ASSUME TypeOK, NEW p \in Procs, SkipCache(p)
  PROVE  /\ pc[p] = "loop" /\ ~Visible(hash[p][Key(p)], call[p].flags)
         /\ ~("CACHE" \in call[p].flags /\ status[p] = 0)
         /\ hash'[p] = hash[p] /\ status'[p] = status[p] /\ pc'[p] = "hwdb"
         /\ failed'[p] = failed[p] /\ mode'[p] = mode[p] /\ after'[p] = after[p]
         /\ call'[p] = call[p] /\ result'[p] = result[p]
         /\ asked'[p] = asked[p] /\ found'[p] = found[p] /\ file' = file
         /\ resolved' = resolved
BY DEF SkipCache, TypeOK, access

LEMMA InsertDoes ==
  ASSUME NEW h \in [Keys -> Entries \cup {NONE}], NEW k \in Keys, NEW e, e # NONE
  PROVE  /\ \A j \in Keys \ {k} : Insert(h, k, e)[j] = h[j]
         /\ Insert(h, k, e)[k] = IF h[k] = NONE THEN e ELSE h[k]
         /\ Insert(h, k, e)[k] # NONE
BY DEF Insert

LEMMA TryHwdbDoes ==
  ASSUME Inv, NEW p \in Procs, TryHwdb(p)
  PROVE  /\ pc[p] = "hwdb" /\ Key(p) \in Keys
         /\ failed'[p] = failed[p] /\ status'[p] = status[p] /\ mode'[p] = mode[p]
         /\ after'[p] = after[p]
         /\ call'[p].keys = call[p].keys /\ call'[p].flags = call[p].flags
         /\ result'[p] = result[p]
         /\ asked'[p] = asked[p] /\ found'[p] = found[p] /\ file' = file
         /\ resolved' = resolved
         /\ \/ /\ pc'[p] = "loop" /\ call[p].flags \cap {"SKIP_LOCAL", "NO_HWDB"} = {}
               /\ hash'[p] = Insert(hash[p], Key(p), [src |-> "HWDB", name |-> HwdbName])
            \/ pc'[p] = "net" /\ hash'[p] = hash[p]
<1>1. /\ pc \in [Procs -> Places] /\ call \in [Procs -> Calls] /\ TypeOK
  BY TypeParts DEF Inv
<1>2. /\ pc[p] = "hwdb"
      /\ UNCHANGED <<failed, status, mode, after, result, asked, found, file, resolved>>
  BY DEF TryHwdb
<1>3. Key(p) \in Keys
  BY <1>2, KeyType DEF Inv, InCall
<1>4. call'[p].keys = call[p].keys /\ call'[p].flags = call[p].flags
  BY <1>1 DEF TryHwdb, Calls
<1>5. \/ /\ pc'[p] = "loop" /\ call[p].flags \cap {"SKIP_LOCAL", "NO_HWDB"} = {}
         /\ hash'[p] = Insert(hash[p], Key(p), [src |-> "HWDB", name |-> HwdbName])
      \/ pc'[p] = "net" /\ hash'[p] = hash[p]
  BY <1>1 DEF TryHwdb, TypeOK
<1>6. QED
  BY <1>2, <1>3, <1>4, <1>5

LEMMA AskNetDoes ==
  ASSUME Inv, NEW p \in Procs, AskNet(p)
  PROVE  /\ pc[p] = "net" /\ pc'[p] = "loop" /\ "NETWORK" \in call[p].flags
         /\ Key(p) \in Keys
         /\ failed'[p] = failed[p] /\ mode'[p] = mode[p] /\ after'[p] = after[p]
         /\ call'[p] = call[p] /\ result'[p] = result[p] /\ file' = file
         /\ resolved' = resolved
         /\ \A k \in Keys \ {Key(p)} : asked'[p][k] = asked[p][k]
         /\ asked[p][Key(p)] = 0 => asked'[p][Key(p)] = 1
         /\ \E name \in NetNames \cup {EMPTY} :
              /\ hash'[p] = Insert(hash[p], Key(p), [src |-> "NET", name |-> name])
              /\ \/ /\ name = EMPTY /\ status'[p] = status[p] /\ found'[p] = found[p]
                 \/ /\ name # EMPTY /\ status'[p] = Dirty(status[p])
                    /\ found'[p] = found[p] \cup {Key(p)}
<1> DEFINE k == Key(p)
<1>1. /\ pc \in [Procs -> Places] /\ call \in [Procs -> Calls] /\ TypeOK
  BY TypeParts DEF Inv
<1>2. /\ pc[p] = "net" /\ pc'[p] = "loop" /\ "NETWORK" \in call[p].flags
      /\ asked' = [asked EXCEPT ![p][k] = IF @ < 2 THEN @ + 1 ELSE 2]
      /\ UNCHANGED <<failed, mode, after, call, result, file, resolved>>
  BY <1>1 DEF AskNet
<1>3. k \in Keys
  BY <1>2, KeyType DEF Inv, InCall
<1>4. PICK name \in NetNames \cup {EMPTY} :
        /\ hash' = [hash EXCEPT ![p] = Insert(@, k, [src |-> "NET", name |-> name])]
        /\ IF name = EMPTY THEN UNCHANGED <<status, given, found>>
           ELSE /\ status' = [status EXCEPT ![p] = Dirty(@)]
                /\ found' = [found EXCEPT ![p] = @ \cup {k}]
  BY DEF AskNet
<1> HIDE DEF k
<1>5. /\ hash'[p] = Insert(hash[p], k, [src |-> "NET", name |-> name])
      /\ \/ /\ name = EMPTY /\ status'[p] = status[p] /\ found'[p] = found[p]
         \/ /\ name # EMPTY /\ status'[p] = Dirty(status[p])
            /\ found'[p] = found[p] \cup {k}
  BY <1>1, <1>4 DEF TypeOK
<1>6. /\ \A j \in Keys \ {k} : asked'[p][j] = asked[p][j]
      /\ asked[p][k] = 0 => asked'[p][k] = 1
  BY <1>1, <1>2, <1>3 DEF TypeOK
<1>7. QED
  BY <1>2, <1>3, <1>5, <1>6 DEF k

LEMMA NoAnswerDoes ==
  ASSUME TypeOK, NEW p \in Procs, NoAnswer(p)
  PROVE  /\ pc[p] = "net" /\ "NETWORK" \notin call[p].flags
         /\ hash'[p] = hash[p] /\ failed'[p] = failed[p] /\ status'[p] = status[p]
         /\ mode'[p] = mode[p] /\ after'[p] = after[p] /\ result'[p] = result[p]
         /\ asked'[p] = asked[p] /\ found'[p] = found[p] /\ file' = file
         /\ resolved' = resolved
         /\ GoesOn(p)
<1>1. /\ pc \in [Procs -> Places] /\ call \in [Procs -> Calls]
  BY TypeParts
<1>2. /\ pc[p] = "net" /\ "NETWORK" \notin call[p].flags
      /\ UNCHANGED <<hash, failed, status, mode, after, result, asked, found, file, resolved>>
  BY DEF NoAnswer, access
<1>3. \/ /\ Len(call[p].keys) > 1
         /\ call' = [call EXCEPT ![p].keys = Tail(@), ![p].tried = FALSE]
         /\ pc' = [pc EXCEPT ![p] = "loop"]
      \/ pc' = [pc EXCEPT ![p] = "idle"]
  BY DEF NoAnswer
<1>4. GoesOn(p)
  BY <1>1, <1>3 DEF GoesOn, Calls
<1>5. QED
  BY <1>2, <1>4

----------------------------------------------------------------------------
\* AskedOnce.
LEMMA NoneThere == \A k \in Keys : NoEntries[k] = NONE
BY DEF NoEntries

LEMMA AsksKept ==
  ASSUME Inv, OptionsOnly, NEW p \in Procs, AsksForNew(p), Client(p) \/ Library(p) \/ Kill(p)
  PROVE  AsksForNew(p)'
<1>0. /\ TypeOK /\ hash[p] \in [Keys -> Entries \cup {NONE}]
      /\ InCall(p) => Key(p) \in Keys
      /\ pc[p] \in Places
  BY KeyType DEF Inv, TypeOK, Places
<1>1. CASE Client(p)
  BY <1>0, <1>1, ClientDoes
  DEF AsksForNew, InCall, WantsLocal, MustLoad, NoResult, NoEntries, Flush, ByOptions,
      AllVisible, AskedFor, LoadIsWanted
<1>2. CASE Kill(p)
  <2>1. /\ hash'[p] = NoEntries /\ pc'[p] = "off" /\ \A k \in Keys : asked'[p][k] = 0
    BY <1>0, <1>2, KillDoes
  <2>2. QED
    BY <2>1, NoneThere
    DEF AsksForNew, InCall, Flush, ByOptions, AllVisible, AskedFor, LoadIsWanted
<1>3. CASE Free(p) \/ Write(p) \/ Rename(p)
  BY <1>0, <1>3, FlushDoes DEF AsksForNew, InCall, WantsLocal, Flush, ByOptions,
      AllVisible, AskedFor, LoadIsWanted
<1>4. CASE Clear(p)
  <2>1. /\ pc[p] = "clear" /\ hash'[p] = NoEntries
        /\ mode'[p] = mode[p] /\ pc'[p] = after[p]
        /\ after'[p] = after[p] /\ after[p] \in {"idle", "off", "load"}
        /\ call'[p] = call[p] /\ result'[p] = result[p]
        /\ \A k \in Keys : asked'[p][k] = 0
    BY <1>0, <1>4, ClearDoes
  <2>2. ByOptions(p)' /\ LoadIsWanted(p)'
    BY <2>1 DEF AsksForNew, InCall, Flush, ByOptions, LoadIsWanted, WantsLocal
  <2>3. AllVisible(p, hash[p])' /\ AskedFor(asked[p], hash[p])'
    BY <2>1, NoneThere DEF AllVisible, AskedFor
  <2>4. QED
    BY <2>1, <2>2, <2>3 DEF AsksForNew
<1>5. CASE LoadNameList(p)
  <2>1. /\ pc[p] = "load" /\ pc'[p] = "loop" /\ mode'[p] = mode[p]
        /\ after'[p] = after[p] /\ call'[p] = call[p] /\ result'[p] = result[p]
        /\ asked'[p] = asked[p]
        /\ \A k \in Keys : hash'[p][k] \in {LocalEntry, NONE} \/ hash'[p][k] = hash[p][k]
    BY <1>0, <1>5, LoadDoes
  <2>2. ByOptions(p)' /\ LoadIsWanted(p)'
    BY <2>1 DEF AsksForNew, InCall, Flush, ByOptions, LoadIsWanted
  <2>3. Visible(LocalEntry, mode[p])
    <3>1. WantsLocal(p)
      BY <2>1 DEF AsksForNew, LoadIsWanted
    <3>2. QED
      BY <3>1, EntryNotNone DEF Visible, LocalEntry, WantsLocal
  <2>4. \A k \in Keys : hash[p][k] = NONE /\ asked[p][k] = 0
    BY <2>1, NoneThere DEF AsksForNew, AskedFor
  <2>5. AllVisible(p, hash[p])' /\ AskedFor(asked[p], hash[p])'
    BY <2>1, <2>3, <2>4 DEF AllVisible, AskedFor
  <2>6. QED
    BY <2>1, <2>2, <2>5 DEF AsksForNew
<1>6. CASE Answer(p)
  <2>1. /\ pc[p] = "loop" /\ pc'[p] \in {"loop", "idle"} /\ mode'[p] = mode[p]
        /\ hash'[p] = hash[p] /\ asked'[p] = asked[p]
        /\ result'[p].keys = result[p].keys /\ result'[p].flags = result[p].flags
        /\ pc'[p] = "loop" => call'[p].flags = call[p].flags
    BY <1>6, AnswerDoes DEF GoesOn
  <2>2. QED
    BY <2>1 DEF AsksForNew, InCall, Flush, ByOptions, AllVisible, AskedFor, LoadIsWanted
<1>7. CASE LoadCache(p)
  <2>1. /\ pc[p] = "loop" /\ ~Visible(hash[p][Key(p)], call[p].flags)
        /\ "CACHE" \in call[p].flags
        /\ mode'[p] = mode[p] /\ after'[p] = after[p]
        /\ call'[p] = call[p] /\ result'[p] = result[p] /\ asked'[p] = asked[p]
        /\ \/ pc'[p] = "hwdb" /\ hash'[p] = hash[p]
           \/ /\ pc'[p] = "loop"
              /\ \A k \in Keys :
                   \/ hash'[p][k] = [src |-> "CACHE", name |-> file[k]]
                   \/ hash'[p][k] = hash[p][k]
              /\ \A k \in Keys : hash'[p][k] = NONE => hash[p][k] = NONE
    BY <1>0, <1>7, LoadCacheDoes, EntryNotNone
  <2>2. ByOptions(p)' /\ LoadIsWanted(p)'
    BY <2>1 DEF AsksForNew, InCall, Flush, ByOptions, LoadIsWanted
  <2>3. call[p].flags = mode[p] /\ hash[p][Key(p)] = NONE
    BY <1>0, <2>1 DEF AsksForNew, ByOptions, AllVisible, InCall
  <2>4. AllVisible(p, hash[p])'
    <3> SUFFICES ASSUME NEW k \in Keys, hash'[p][k] # NONE
                 PROVE  Visible(hash'[p][k], mode[p])
      BY <2>1 DEF AllVisible
    <3>1. hash[p][k] # NONE => Visible(hash[p][k], mode[p])
      BY DEF AsksForNew, AllVisible
    <3>2. CASE hash'[p][k] = [src |-> "CACHE", name |-> file[k]]
      BY <2>1, <2>3, <3>2 DEF Visible
    <3>3. QED
      BY <2>1, <3>1, <3>2
  <2>5. AskedFor(asked[p], hash[p])'
    BY <2>1 DEF AsksForNew, AskedFor
  <2>6. Key(p)' = Key(p)
    BY <2>1 DEF Key
  <2>7. QED
    BY <2>1, <2>2, <2>3, <2>4, <2>5, <2>6 DEF AsksForNew
<1>8. CASE SkipCache(p)
  <2>1. /\ pc[p] = "loop" /\ ~Visible(hash[p][Key(p)], call[p].flags)
        /\ mode'[p] = mode[p] /\ after'[p] = after[p]
        /\ call'[p] = call[p] /\ result'[p] = result[p] /\ asked'[p] = asked[p]
        /\ pc'[p] = "hwdb" /\ hash'[p] = hash[p]
    BY <1>0, <1>8, SkipCacheDoes
  <2>2. ByOptions(p)' /\ LoadIsWanted(p)'
    BY <2>1 DEF AsksForNew, InCall, Flush, ByOptions, LoadIsWanted
  <2>3. call[p].flags = mode[p] /\ hash[p][Key(p)] = NONE
    BY <1>0, <2>1 DEF AsksForNew, ByOptions, AllVisible, InCall
  <2>4. Key(p)' = Key(p)
    BY <2>1 DEF Key
  <2>5. QED
    BY <2>1, <2>2, <2>3, <2>4 DEF AsksForNew, AllVisible, AskedFor
<1>9. CASE TryHwdb(p)
  <2> DEFINE e == [src |-> "HWDB", name |-> HwdbName]
  <2>1. /\ pc[p] = "hwdb" /\ Key(p) \in Keys
        /\ mode'[p] = mode[p] /\ after'[p] = after[p]
        /\ call'[p].keys = call[p].keys /\ call'[p].flags = call[p].flags
        /\ result'[p] = result[p] /\ asked'[p] = asked[p]
        /\ \/ /\ pc'[p] = "loop" /\ call[p].flags \cap {"SKIP_LOCAL", "NO_HWDB"} = {}
              /\ hash'[p] = Insert(hash[p], Key(p), e)
           \/ pc'[p] = "net" /\ hash'[p] = hash[p]
    BY <1>9, TryHwdbDoes
  <2>2. ByOptions(p)' /\ LoadIsWanted(p)'
    BY <2>1 DEF AsksForNew, InCall, Flush, ByOptions, LoadIsWanted
  <2>3. call[p].flags = mode[p] /\ hash[p][Key(p)] = NONE
    BY <2>1 DEF AsksForNew, ByOptions, InCall
  <2>4. Key(p)' = Key(p)
    BY <2>1 DEF Key
  <2>5. CASE pc'[p] = "net" /\ hash'[p] = hash[p]
    BY <2>1, <2>2, <2>3, <2>4, <2>5 DEF AsksForNew, AllVisible, AskedFor
  <2>6. CASE pc'[p] = "loop"
    <3>1. e # NONE
      BY EntryNotNone
    <3>2. /\ \A j \in Keys \ {Key(p)} : hash'[p][j] = hash[p][j]
          /\ hash'[p][Key(p)] = e
      BY <1>0, <2>1, <2>3, <2>6, <3>1, InsertDoes
    <3>3. Visible(e, mode[p])
      BY <2>1, <2>3, <2>6, <3>1 DEF Visible
    <3>4. \A k \in Keys : hash'[p][k] = hash[p][k] \/ hash'[p][k] = e
      BY <2>1, <3>2
    <3>5. \A k \in Keys : hash[p][k] # NONE => hash'[p][k] = hash[p][k]
      BY <2>3, <3>2
    <3> HIDE DEF e
    <3>6. AllVisible(p, hash[p])'
      BY <2>1, <3>3, <3>4 DEF AsksForNew, AllVisible, Visible
    <3>7. AskedFor(asked[p], hash[p])'
      BY <2>1, <3>5 DEF AsksForNew, AskedFor
    <3>8. QED
      BY <2>2, <2>6, <3>6, <3>7 DEF AsksForNew
  <2>7. QED
    BY <2>1, <2>5, <2>6
<1>10. CASE AskNet(p)
  <2>1. /\ pc[p] = "net" /\ pc'[p] = "loop" /\ "NETWORK" \in call[p].flags
        /\ Key(p) \in Keys
        /\ mode'[p] = mode[p] /\ after'[p] = after[p]
        /\ call'[p] = call[p] /\ result'[p] = result[p]
        /\ \A k \in Keys \ {Key(p)} : asked'[p][k] = asked[p][k]
        /\ asked[p][Key(p)] = 0 => asked'[p][Key(p)] = 1
    BY <1>10, AskNetDoes
  <2>2. PICK name \in NetNames \cup {EMPTY} :
          hash'[p] = Insert(hash[p], Key(p), [src |-> "NET", name |-> name])
    BY <1>10, AskNetDoes
  <2> DEFINE e == [src |-> "NET", name |-> name]
  <2>3. ByOptions(p)' /\ LoadIsWanted(p)'
    BY <2>1 DEF AsksForNew, InCall, Flush, ByOptions, LoadIsWanted
  <2>4. call[p].flags = mode[p] /\ hash[p][Key(p)] = NONE
    BY <2>1 DEF AsksForNew, ByOptions, InCall
  <2>5. e # NONE
    BY EntryNotNone
  <2>6. /\ \A j \in Keys \ {Key(p)} : hash'[p][j] = hash[p][j]
        /\ hash'[p][Key(p)] = e
    BY <1>0, <2>1, <2>2, <2>4, <2>5, InsertDoes
  <2>7. Visible(e, mode[p])
    BY <2>1, <2>4, <2>5 DEF Visible
  <2>8. \A k \in Keys : hash'[p][k] = hash[p][k] \/ hash'[p][k] = e
    BY <2>1, <2>6
  <2> HIDE DEF e
  <2>9. AllVisible(p, hash[p])'
    BY <2>1, <2>7, <2>8 DEF AsksForNew, AllVisible, Visible
  <2>10. AskedFor(asked[p], hash[p])'
    BY <2>1, <2>4, <2>5, <2>6 DEF AsksForNew, AskedFor
  <2>11. QED
    BY <2>1, <2>3, <2>9, <2>10 DEF AsksForNew
<1>11. CASE NoAnswer(p)
  <2>1. /\ pc[p] = "net" /\ pc'[p] \in {"loop", "idle"} /\ mode'[p] = mode[p]
        /\ hash'[p] = hash[p] /\ asked'[p] = asked[p] /\ result'[p] = result[p]
        /\ pc'[p] = "loop" => call'[p].flags = call[p].flags
    BY <1>0, <1>11, NoAnswerDoes DEF GoesOn
  <2>2. QED
    BY <2>1 DEF AsksForNew, InCall, Flush, ByOptions, AllVisible, AskedFor, LoadIsWanted
<1>12. QED
  BY <1>1, <1>2, <1>3, <1>4, <1>5, <1>6, <1>7, <1>8, <1>9, <1>10, <1>11 DEF Library

----------------------------------------------------------------------------
\* LocalWins.
LEMMA LocalKept ==
  ASSUME Inv, OptionsOnly, Readable, NEW p \in Procs, AsksForNew(p), LocalIsFirst(p),
         Client(p) \/ Library(p) \/ Kill(p)
  PROVE  LocalIsFirst(p)'
<1>0. /\ TypeOK /\ hash[p] \in [Keys -> Entries \cup {NONE}] /\ pc[p] \in Places
      /\ InCall(p) => Key(p) \in Keys
      /\ Local \subseteq Keys
  BY KeyType, CallAssumption DEF Inv, TypeOK, Places
<1>1. CASE Client(p)
  <2>1. /\ hash'[p] = hash[p] /\ failed'[p] = failed[p]
        /\ \/ /\ pc[p] = "off" /\ pc'[p] = "idle" /\ mode'[p] \in Modes
              /\ result'[p].keys = <<>>
           \/ /\ pc[p] = "idle" /\ mode'[p] = mode[p] /\ after'[p] = "load"
              /\ pc'[p] = IF MustLoad(p, mode[p]) THEN "free" ELSE "loop"
              /\ call'[p].keys = result'[p].keys
           \/ /\ pc[p] = "idle" /\ mode'[p] = mode[p] /\ pc'[p] = "free"
              /\ after'[p] \in {"idle", "off"} /\ result'[p] = result[p]
    BY <1>0, <1>1, ClientDoes DEF NoResult
  <2>2. LocalLoaded(p)' <=> LocalLoaded(p)
    BY <2>1 DEF LocalLoaded
  <2>3. CASE pc[p] = "off"
    BY <2>1, <2>3 DEF LocalIsFirst, AsksForNew
  <2>4. ASSUME pc[p] = "idle", mode'[p] = mode[p], after'[p] = "load",
               pc'[p] = IF MustLoad(p, mode[p]) THEN "free" ELSE "loop",
               call'[p].keys = result'[p].keys
        PROVE  LocalIsFirst(p)'
    <3>1. InCall(p)'
      BY <2>4 DEF InCall
    <3>2. pc'[p] = "loop" /\ WantsLocal(p) => LocalLoaded(p)
      BY <2>4 DEF LocalIsFirst, MustLoad, WantsLocal
    <3>3. QED
      BY <2>1, <2>2, <2>4, <3>1, <3>2 DEF LocalIsFirst, WantsLocal
  <2>5. ASSUME pc[p] = "idle", mode'[p] = mode[p], pc'[p] = "free",
               after'[p] \in {"idle", "off"}, result'[p] = result[p]
        PROVE  LocalIsFirst(p)'
    BY <2>1, <2>5 DEF LocalIsFirst, WantsLocal, InCall
  <2>6. QED
    BY <2>1, <2>3, <2>4, <2>5
<1>2. CASE Kill(p)
  BY <1>0, <1>2, KillDoes DEF LocalIsFirst
<1>3. CASE Free(p) \/ Write(p) \/ Rename(p)
  <2>1. /\ failed'[p] = failed[p] /\ mode'[p] = mode[p] /\ after'[p] = after[p]
        /\ call'[p] = call[p] /\ result'[p] = result[p]
        /\ pc[p] \in Flush \cup {"free"} /\ pc'[p] \in Flush
    BY <1>0, <1>3, FlushDoes DEF Flush
  <2>2. InCall(p)' <=> InCall(p)
    BY <2>1 DEF InCall, Flush
  <2>3. QED
    BY <2>1, <2>2 DEF LocalIsFirst, WantsLocal, Flush
<1>4. CASE Clear(p)
  <2>1. /\ pc[p] = "clear" /\ hash'[p] = NoEntries /\ failed'[p] = FALSE
        /\ mode'[p] = mode[p] /\ pc'[p] = after[p]
        /\ after'[p] = after[p] /\ after[p] \in {"idle", "off", "load"}
        /\ call'[p] = call[p] /\ result'[p] = result[p]
    BY <1>0, <1>4, ClearDoes
  <2>2. pc'[p] # "off" => (InCall(p)' <=> InCall(p))
    BY <2>1 DEF InCall
  <2>3. QED
    BY <2>1, <2>2 DEF LocalIsFirst, WantsLocal
<1>5. CASE LoadNameList(p)
  <2>1. /\ pc[p] = "load" /\ pc'[p] = "loop" /\ mode'[p] = mode[p]
        /\ call'[p] = call[p] /\ result'[p] = result[p] /\ failed'[p] = failed[p]
        /\ hash'[p] = [k \in Keys |-> IF k \in Local THEN LocalEntry ELSE NONE]
    BY <1>0, <1>5, LoadDoes
  <2>2. LocalLoaded(p)'
    BY <1>0, <2>1 DEF LocalLoaded
  <2>3. InCall(p)' /\ InCall(p)
    BY <2>1 DEF InCall
  <2>4. QED
    BY <2>1, <2>2, <2>3 DEF LocalIsFirst, WantsLocal
<1>6. ASSUME pc[p] \in {"loop", "hwdb", "net"}, WantsLocal(p),
             result[p].keys # <<>>, result[p].keys[1] \in Local
      PROVE  /\ hash[p][Key(p)] = LocalEntry /\ Visible(hash[p][Key(p)], call[p].flags)
             /\ pc[p] = "loop"
  <2>1. InCall(p) /\ call[p].keys = result[p].keys /\ LocalLoaded(p)
    BY <1>6 DEF LocalIsFirst, InCall
  <2>2. Key(p) \in Local
    BY <1>6, <2>1 DEF Key
  <2>3. hash[p][Key(p)] = LocalEntry
    BY <2>1, <2>2 DEF LocalLoaded
  <2>4. call[p].flags = mode[p]
    BY <2>1 DEF AsksForNew, ByOptions
  <2>5. Visible(LocalEntry, mode[p])
    BY <1>6, EntryNotNone DEF Visible, LocalEntry, WantsLocal
  <2>6. pc[p] \notin {"hwdb", "net"}
    BY <2>3, EntryNotNone DEF AsksForNew
  <2>7. QED
    BY <1>6, <2>3, <2>4, <2>5, <2>6
<1>7. CASE Answer(p)
  <2> DEFINE e == hash[p][Key(p)].name
  <2>1. /\ pc[p] = "loop" /\ pc'[p] \in {"loop", "idle"} /\ mode'[p] = mode[p]
        /\ failed'[p] = failed[p] /\ hash'[p] = hash[p]
        /\ result'[p].keys = result[p].keys
        /\ result'[p].name = IF e = EMPTY THEN NONE ELSE e
        /\ e \notin {EMPTY, NONE} => pc'[p] = "idle"
    BY <1>7, AnswerDoes DEF GoesOn
  <2> HIDE DEF e
  <2>2. LocalLoaded(p)' <=> LocalLoaded(p)
    BY <2>1 DEF LocalLoaded
  <2>3. ASSUME WantsLocal(p), result[p].keys # <<>>, result[p].keys[1] \in Local
        PROVE  result'[p].name = LocalName /\ pc'[p] = "idle"
    <3>1. e = LocalName
      BY <1>6, <2>1, <2>3 DEF e, LocalEntry
    <3>2. LocalName \notin {EMPTY, NONE}
      BY NameAssumption DEF Texts
    <3>3. QED
      BY <2>1, <3>1, <3>2
  <2>4. pc'[p] = "idle" => ~InCall(p)'
    BY DEF InCall
  <2>5. QED
    BY <2>1, <2>2, <2>3, <2>4 DEF LocalIsFirst, WantsLocal
<1>8. CASE LoadCache(p) \/ SkipCache(p) \/ TryHwdb(p) \/ AskNet(p) \/ NoAnswer(p)
  <2>1. /\ mode'[p] = mode[p] /\ failed'[p] = failed[p] /\ result'[p] = result[p]
        /\ pc[p] \in {"loop", "hwdb", "net"}
        /\ pc[p] = "loop" => ~Visible(hash[p][Key(p)], call[p].flags)
    <3>1. CASE LoadCache(p)
      BY <1>0, <3>1, LoadCacheDoes
    <3>2. CASE SkipCache(p)
      BY <1>0, <3>2, SkipCacheDoes
    <3>3. CASE TryHwdb(p)
      BY <3>3, TryHwdbDoes
    <3>4. CASE AskNet(p)
      BY <3>4, AskNetDoes
    <3>5. CASE NoAnswer(p)
      BY <1>0, <3>5, NoAnswerDoes
    <3>6. QED
      BY <1>8, <3>1, <3>2, <3>3, <3>4, <3>5
  <2>2. \A k \in Keys : hash[p][k] # NONE => hash'[p][k] = hash[p][k]
    <3>1. CASE LoadCache(p)
      BY <1>0, <3>1, LoadCacheDoes
    <3>2. CASE SkipCache(p)
      BY <1>0, <3>2, SkipCacheDoes
    <3>3. CASE TryHwdb(p)
      BY <1>0, <3>3, TryHwdbDoes, InsertDoes, EntryNotNone
    <3>4. CASE AskNet(p)
      <4>1. PICK name \in NetNames \cup {EMPTY} :
              hash'[p] = Insert(hash[p], Key(p), [src |-> "NET", name |-> name])
        BY <3>4, AskNetDoes
      <4>2. Key(p) \in Keys /\ [src |-> "NET", name |-> name] # NONE
        BY <3>4, AskNetDoes, EntryNotNone
      <4>3. QED
        BY <1>0, <4>1, <4>2, InsertDoes
    <3>5. CASE NoAnswer(p)
      BY <1>0, <3>5, NoAnswerDoes
    <3>6. QED
      BY <1>8, <3>1, <3>2, <3>3, <3>4, <3>5
  <2>3. LocalLoaded(p) => LocalLoaded(p)'
    BY <1>0, <2>2, EntryNotNone DEF LocalLoaded
  <2>4. ~(WantsLocal(p) /\ result[p].keys # <<>> /\ result[p].keys[1] \in Local)
    BY <1>6, <2>1
  <2>5. QED
    BY <2>1, <2>3, <2>4 DEF LocalIsFirst, WantsLocal
<1>9. QED
  BY <1>1, <1>2, <1>3, <1>4, <1>5, <1>7, <1>8 DEF Library

----------------------------------------------------------------------------
\* FlushHasHash.
LEMMA DirtyKept ==
  ASSUME Inv, OptionsOnly, RefreshAsks, NEW p \in Procs, AsksForNew(p), DirtyHasHash(p),
         Client(p) \/ Library(p) \/ Kill(p)
  PROVE  DirtyHasHash(p)'
<1>0. /\ TypeOK /\ hash[p] \in [Keys -> Entries \cup {NONE}] /\ pc[p] \in Places
      /\ InCall(p) => Key(p) \in Keys
      /\ status[p] \in 0..2
  BY KeyType DEF Inv, TypeOK, Places
<1>1. CASE Client(p)
  <2>1. /\ hash'[p] = hash[p] /\ status'[p] = status[p]
        /\ \/ pc[p] = "off" /\ pc'[p] = "idle"
           \/ pc[p] = "idle" /\ mode'[p] = mode[p] /\ pc'[p] \in {"free", "loop"}
    BY <1>0, <1>1, ClientDoes
  <2>2. QED
    BY <1>0, <2>1 DEF DirtyHasHash, Flush
<1>2. CASE Kill(p)
  <2>1. status'[p] = 0 /\ pc'[p] = "off"
    BY <1>0, <1>2, KillDoes
  <2>2. QED
    BY <2>1 DEF DirtyHasHash, Flush
<1>3. CASE Free(p) \/ Write(p) \/ Rename(p)
  <2>1. /\ hash'[p] = hash[p] /\ mode'[p] = mode[p]
        /\ \/ /\ pc[p] = "free" /\ status'[p] = 0
              /\ pc'[p] = IF status[p] < 2 THEN "clear" ELSE "write"
           \/ /\ pc[p] \in {"write", "rename"} /\ status'[p] = status[p]
              /\ pc'[p] \in {"rename", "clear"}
    BY <1>0, <1>3, FlushDoes
  <2>2. QED
    BY <1>0, <2>1 DEF DirtyHasHash, Flush
<1>4. CASE Clear(p)
  <2>1. /\ pc[p] = "clear" /\ status'[p] = status[p]
        /\ pc'[p] \in {"idle", "off", "load"}
    BY <1>0, <1>4, ClearDoes
  <2>2. QED
    BY <1>0, <2>1 DEF DirtyHasHash, Flush
<1>5. CASE LoadNameList(p)
  <2>1. pc[p] = "load" /\ pc'[p] = "loop" /\ status'[p] = status[p]
    BY <1>0, <1>5, LoadDoes
  <2>2. QED
    BY <2>1 DEF DirtyHasHash, Flush
<1>6. CASE Answer(p) \/ NoAnswer(p)
  <2>1. /\ hash'[p] = hash[p] /\ status'[p] = status[p] /\ mode'[p] = mode[p]
        /\ pc'[p] \in {"loop", "idle"}
        /\ pc[p] = "loop" \/ (pc[p] = "net" /\ "NETWORK" \notin call[p].flags)
    BY <1>0, <1>6, AnswerDoes, NoAnswerDoes DEF GoesOn
  <2>2. call[p].flags = mode[p]
    BY <2>1 DEF AsksForNew, ByOptions, InCall
  <2>3. QED
    BY <2>1, <2>2 DEF DirtyHasHash, Flush
<1>7. CASE LoadCache(p)
  <2>1. /\ pc[p] = "loop" /\ mode'[p] = mode[p] /\ pc'[p] \in {"loop", "hwdb"}
        /\ status'[p] = IF "REFRESH_CACHE" \in call[p].flags THEN 2 ELSE 1
        /\ "REFRESH_CACHE" \in call[p].flags => pc'[p] = "hwdb"
    BY <1>0, <1>7, LoadCacheDoes
  <2>2. call[p].flags = mode[p] /\ mode[p] \in Modes
    BY <2>1 DEF AsksForNew, ByOptions, InCall
  <2>3. QED
    BY <2>1, <2>2 DEF DirtyHasHash, Flush, RefreshAsks
<1>8. CASE SkipCache(p)
  <2>1. /\ pc[p] = "loop" /\ mode'[p] = mode[p] /\ pc'[p] = "hwdb"
        /\ status'[p] = status[p]
    BY <1>0, <1>8, SkipCacheDoes
  <2>2. QED
    BY <2>1 DEF DirtyHasHash, Flush
<1>9. CASE TryHwdb(p)
  <2> DEFINE e == [src |-> "HWDB", name |-> HwdbName]
  <2>1. /\ pc[p] = "hwdb" /\ mode'[p] = mode[p] /\ status'[p] = status[p]
        /\ Key(p) \in Keys
        /\ \/ pc'[p] = "loop" /\ hash'[p] = Insert(hash[p], Key(p), e)
           \/ pc'[p] = "net"
    BY <1>9, TryHwdbDoes
  <2>2. pc'[p] = "loop" => hash'[p][Key(p)] # NONE
    BY <1>0, <2>1, EntryNotNone, InsertDoes
  <2>3. pc'[p] = "loop" => hash'[p] # NoEntries
    BY <2>1, <2>2, NoneThere
  <2>4. QED
    BY <2>1, <2>3 DEF DirtyHasHash, Flush
<1>10. CASE AskNet(p)
  <2>1. /\ pc[p] = "net" /\ pc'[p] = "loop" /\ mode'[p] = mode[p] /\ Key(p) \in Keys
        /\ "NETWORK" \in call[p].flags
    BY <1>10, AskNetDoes
  <2>2. PICK name \in NetNames \cup {EMPTY} :
          hash'[p] = Insert(hash[p], Key(p), [src |-> "NET", name |-> name])
    BY <1>10, AskNetDoes
  <2>3. [src |-> "NET", name |-> name] # NONE
    BY EntryNotNone
  <2>4. hash'[p][Key(p)] # NONE
    BY <1>0, <2>1, <2>2, <2>3, InsertDoes
  <2>5. hash'[p] # NoEntries
    BY <2>1, <2>4, NoneThere
  <2>6. "NETWORK" \in mode[p]
    BY <2>1 DEF AsksForNew, ByOptions, InCall
  <2>7. QED
    BY <2>1, <2>5, <2>6 DEF DirtyHasHash, Flush
<1>11. QED
  BY <1>1, <1>2, <1>3, <1>4, <1>5, <1>6, <1>7, <1>8, <1>9, <1>10 DEF Library

----------------------------------------------------------------------------
\* ResultIsCached and CachedStays.
LEMMA HashGrows ==
  ASSUME Inv, NEW p \in Procs, AsksForNew(p), LoadCache(p) \/ SkipCache(p) \/ TryHwdb(p) \/ AskNet(p)
  PROVE  \A k \in Keys : hash[p][k] # NONE => hash'[p][k] = hash[p][k]
<1>0. TypeOK /\ hash[p] \in [Keys -> Entries \cup {NONE}]
  BY DEF Inv, TypeOK
<1>1. CASE LoadCache(p)
  BY <1>0, <1>1, LoadCacheDoes
<1>2. CASE SkipCache(p)
  BY <1>0, <1>2, SkipCacheDoes
<1>3. CASE TryHwdb(p)
  BY <1>0, <1>3, TryHwdbDoes, InsertDoes, EntryNotNone
<1>4. CASE AskNet(p)
  <2>1. PICK name \in NetNames \cup {EMPTY} :
          hash'[p] = Insert(hash[p], Key(p), [src |-> "NET", name |-> name])
    BY <1>4, AskNetDoes
  <2>2. Key(p) \in Keys /\ [src |-> "NET", name |-> name] # NONE
    BY <1>4, AskNetDoes, EntryNotNone
  <2>3. QED
    BY <1>0, <2>1, <2>2, InsertDoes
<1>5. QED
  BY <1>1, <1>2, <1>3, <1>4

\* What pci_id_cache_flush() writes.
LEMMA FlushHas ==
  ASSUME TypeOK, NEW p \in Procs, NEW k \in Keys
  PROVE  IsWritten(hash[p][k]) <=> FlushText(hash[p])[k] # NONE
<1>1. hash[p][k] \in Entries \cup {NONE}
  BY DEF TypeOK
<1>2. hash[p][k] # NONE => hash[p][k].name # NONE
  BY <1>1, NameAssumption DEF Entries
<1>3. QED
  BY <1>2 DEF FlushText, IsWritten

LEMMA FlushIsFile ==
  ASSUME Inv, NEW p \in Procs PROVE FlushText(hash[p]) \in Files
<1>1. ASSUME NEW k \in Keys, hash[p][k] # NONE,
             hash[p][k].src \in {"CACHE", "NET"}, hash[p][k].name # EMPTY
      PROVE  hash[p][k].name \in NetNames
  <2>1. Sourced(hash[p][k], given[k]) /\ given[k] \subseteq NetNames
    BY <1>1 DEF Inv, AllFromSources, HashFrom, TypeOK
  <2>2. QED
    BY <1>1, <2>1 DEF Sourced
<1>2. QED
  BY <1>1 DEF FlushText, Files

LEMMA HeldKept ==
  ASSUME Inv, OptionsOnly, NetworkCaches, ~IoErrors, NEW p \in Procs,
         AsksForNew(p), CacheIsHeld(p), Client(p) \/ Library(p) \/ Kill(p)
  PROVE  CacheIsHeld(p)'
<1>0. /\ TypeOK /\ hash[p] \in [Keys -> Entries \cup {NONE}] /\ pc[p] \in Places
      /\ InCall(p) => Key(p) \in Keys
      /\ status[p] \in 0..2 /\ found[p] \subseteq Keys /\ Local \subseteq Keys
      /\ file \in Files \cup {NoFile}
  BY KeyType, CallAssumption DEF Inv, TypeOK, Places
<1>1. CASE Client(p)
  <2>1. /\ hash'[p] = hash[p] /\ status'[p] = status[p] /\ found'[p] = found[p]
        /\ file' = file
        /\ \/ pc[p] = "off" /\ pc'[p] = "idle"
           \/ pc[p] = "idle" /\ mode'[p] = mode[p] /\ pc'[p] \in {"free", "loop"}
    BY <1>0, <1>1, ClientDoes
  <2>2. pc[p] = "off" => \A k \in Keys : hash[p][k] = NONE
    BY NoneThere DEF AsksForNew
  <2>3. QED
    BY <1>0, <2>1, <2>2 DEF CacheIsHeld, Flush
<1>2. CASE Kill(p)
  <2>1. hash'[p] = NoEntries /\ status'[p] = 0 /\ found'[p] = {} /\ pc'[p] = "off"
    BY <1>0, <1>2, KillDoes
  <2>2. QED
    BY <2>1, NoneThere DEF CacheIsHeld, Flush
<1>3. CASE Free(p) \/ Write(p) \/ Rename(p)
  <2>1. /\ hash'[p] = hash[p] /\ mode'[p] = mode[p] /\ found'[p] = found[p]
        /\ \/ /\ pc[p] = "free" /\ status'[p] = 0 /\ file' = file
              /\ pc'[p] = IF status[p] < 2 THEN "clear" ELSE "write"
           \/ /\ pc[p] = "write" /\ status'[p] = status[p] /\ file' = file
              /\ pc'[p] = "rename" /\ tmp'[p] = FlushText(hash[p])
           \/ /\ pc[p] = "rename" /\ status'[p] = status[p] /\ pc'[p] = "clear"
              /\ file' = tmp[p]
    BY <1>0, <1>3, FlushDoes
  <2>2. CASE pc[p] = "free"
    BY <1>0, <2>1, <2>2 DEF CacheIsHeld, Flush
  <2>3. CASE pc[p] = "write"
    BY <1>0, <2>1, <2>3 DEF CacheIsHeld, Flush
  <2>4. CASE pc[p] = "rename"
    <3>1. file' = FlushText(hash[p]) /\ file' # NoFile
      <4>1. file' = FlushText(hash[p])
        BY <2>1, <2>4 DEF CacheIsHeld
      <4>2. FlushText(hash[p]) \in Files
        BY FlushIsFile
      <4>3. QED
        BY <4>1, <4>2, NameAssumption
    <3>2. \A k \in found[p] : file'[k] # NONE
      BY <1>0, <3>1, FlushHas DEF CacheIsHeld
    <3>3. QED
      BY <2>1, <2>4, <3>1, <3>2 DEF CacheIsHeld, Flush
  <2>5. QED
    BY <2>1, <2>2, <2>3, <2>4
<1>4. CASE Clear(p)
  <2>1. /\ pc[p] = "clear" /\ hash'[p] = NoEntries /\ status'[p] = status[p]
        /\ pc'[p] \in {"idle", "off", "load"} /\ found'[p] = {}
    BY <1>0, <1>4, ClearDoes
  <2>2. status'[p] = 0
    BY <2>1 DEF CacheIsHeld, Flush
  <2>3. QED
    BY <2>1, <2>2, NoneThere DEF CacheIsHeld, Flush
<1>5. CASE LoadNameList(p)
  <2>1. /\ pc[p] = "load" /\ pc'[p] = "loop" /\ mode'[p] = mode[p]
        /\ status'[p] = status[p] /\ found'[p] = found[p]
        /\ \/ hash'[p] = [k \in Keys |-> IF k \in Local THEN LocalEntry ELSE NONE]
           \/ hash'[p] = hash[p]
    BY <1>0, <1>5, LoadDoes
  <2>2. status[p] = 0 /\ found[p] = {}
    BY <2>1 DEF CacheIsHeld, Flush
  <2>3. \A k \in Keys : hash'[p][k] # NONE => k \in Local
    BY <2>1, NoneThere DEF AsksForNew
  <2>4. QED
    BY <2>1, <2>2, <2>3 DEF CacheIsHeld, Flush
<1>6. CASE Answer(p) \/ NoAnswer(p)
  <2>1. /\ hash'[p] = hash[p] /\ status'[p] = status[p] /\ mode'[p] = mode[p]
        /\ found'[p] = found[p] /\ file' = file
        /\ pc'[p] \in {"loop", "idle"} /\ pc[p] \in {"loop", "net"}
    BY <1>0, <1>6, AnswerDoes, NoAnswerDoes DEF GoesOn
  <2>2. QED
    BY <2>1 DEF CacheIsHeld, Flush
<1>7. ASSUME pc[p] \in {"loop", "hwdb", "net"} PROVE call[p].flags = mode[p] /\ mode[p] \in Modes
  BY <1>7 DEF AsksForNew, ByOptions, InCall
<1>8. CASE LoadCache(p)
  <2>1. /\ pc[p] = "loop" /\ mode'[p] = mode[p] /\ found'[p] = found[p] /\ file' = file
        /\ status[p] = 0 /\ pc'[p] \in {"loop", "hwdb"}
        /\ "CACHE" \in call[p].flags
        /\ status'[p] = IF "REFRESH_CACHE" \in call[p].flags THEN 2 ELSE 1
        /\ "REFRESH_CACHE" \notin call[p].flags /\ file # NoFile =>
             \A k \in Keys : hash'[p][k] = IF hash[p][k] = NONE /\ file[k] # NONE
                                           THEN [src |-> "CACHE", name |-> file[k]]
                                           ELSE hash[p][k]
    BY <1>0, <1>8, LoadCacheDoes
  <2>2. found[p] = {} /\ \A k \in Keys : hash[p][k] # NONE => k \in Local
    BY <1>7, <2>1 DEF CacheIsHeld, Flush
  <2>3. ASSUME "REFRESH_CACHE" \notin mode[p], file # NoFile, NEW k \in Keys \ Local,
               file[k] # NONE
        PROVE  IsWritten(hash'[p][k])
    <3>1. hash'[p][k] = [src |-> "CACHE", name |-> file[k]]
      BY <1>7, <2>1, <2>2, <2>3
    <3>2. file[k] \in NetNames
      BY <1>0, <2>3 DEF Files
    <3>3. [src |-> "CACHE", name |-> file[k]] # NONE /\ file[k] # EMPTY
      BY <3>2, EntryNotNone, NameAssumption
    <3>4. QED
      BY <3>1, <3>3 DEF IsWritten
  <2>4. QED
    BY <1>7, <2>1, <2>2, <2>3 DEF CacheIsHeld, Flush
<1>9. CASE SkipCache(p)
  <2>1. /\ pc[p] = "loop" /\ mode'[p] = mode[p] /\ pc'[p] = "hwdb" /\ file' = file
        /\ status'[p] = status[p] /\ hash'[p] = hash[p] /\ found'[p] = found[p]
        /\ ~("CACHE" \in call[p].flags /\ status[p] = 0)
    BY <1>0, <1>9, SkipCacheDoes
  <2>2. QED
    BY <1>0, <1>7, <2>1 DEF CacheIsHeld, Flush
<1>10. CASE TryHwdb(p)
  <2>1. /\ pc[p] = "hwdb" /\ mode'[p] = mode[p] /\ pc'[p] \in {"loop", "net"}
        /\ file' = file /\ status'[p] = status[p] /\ found'[p] = found[p]
    BY <1>10, TryHwdbDoes
  <2>2. \A k \in Keys : hash[p][k] # NONE => hash'[p][k] = hash[p][k]
    BY <1>10, HashGrows
  <2>3. \A k \in Keys : IsWritten(hash[p][k]) => IsWritten(hash'[p][k])
    BY <2>2 DEF IsWritten
  <2>4. QED
    BY <1>0, <2>1, <2>3 DEF CacheIsHeld, Flush
<1>11. CASE AskNet(p)
  <2>1. /\ pc[p] = "net" /\ pc'[p] = "loop" /\ mode'[p] = mode[p] /\ Key(p) \in Keys
        /\ "NETWORK" \in call[p].flags /\ file' = file
    BY <1>11, AskNetDoes
  <2>2. PICK name \in NetNames \cup {EMPTY} :
          /\ hash'[p] = Insert(hash[p], Key(p), [src |-> "NET", name |-> name])
          /\ \/ /\ name = EMPTY /\ status'[p] = status[p] /\ found'[p] = found[p]
             \/ /\ name # EMPTY /\ status'[p] = Dirty(status[p])
                /\ found'[p] = found[p] \cup {Key(p)}
    BY <1>11, AskNetDoes
  <2>3. "CACHE" \in mode[p] /\ status[p] \in 1..2
    BY <1>0, <1>7, <2>1 DEF NetworkCaches, CacheIsHeld
  <2>4. hash[p][Key(p)] = NONE
    BY <2>1 DEF AsksForNew
  <2>5. [src |-> "NET", name |-> name] # NONE
    BY EntryNotNone
  <2>6. hash'[p][Key(p)] = [src |-> "NET", name |-> name]
    BY <1>0, <2>1, <2>2, <2>4, <2>5, InsertDoes
  <2>7. name # EMPTY => IsWritten(hash'[p][Key(p)])
    BY <2>5, <2>6 DEF IsWritten
  <2>8. \A k \in Keys : IsWritten(hash[p][k]) => IsWritten(hash'[p][k])
    BY <1>11, HashGrows DEF IsWritten
  <2>9. /\ \A k \in found'[p] : IsWritten(hash'[p][k])
        /\ status'[p] \in 1..2 /\ (found'[p] # {} => status'[p] = 2)
    BY <1>0, <2>1, <2>2, <2>3, <2>7, <2>8 DEF CacheIsHeld, Dirty, Flush
  <2>10. QED
    BY <1>0, <2>1, <2>3, <2>8, <2>9 DEF CacheIsHeld, Flush
<1>12. QED
  BY <1>1, <1>2, <1>3, <1>4, <1>5, <1>6, <1>8, <1>9, <1>10, <1>11 DEF Library

\* What one process has resolved and written stays in the file.
LEMMA CachedKept ==
  ASSUME Inv, OptionsOnly, ~IoErrors, OneProcess, NEW p \in Procs,
         AsksForNew(p), CacheIsHeld(p), Client(p) \/ Library(p) \/ Kill(p)
  PROVE  /\ ResultIsCached => ResultIsCached'
         /\ \A k \in Keys :
              file # NoFile /\ file[k] # NONE /\ k \notin Local
                /\ (\A q \in Procs : "REFRESH_CACHE" \notin mode[q])
              => file' # NoFile /\ file'[k] # NONE
<1>0. /\ TypeOK /\ found[p] \subseteq Keys /\ resolved \subseteq Keys
  BY DEF Inv, TypeOK
<1>1. CASE ~Rename(p) /\ ~Clear(p)
  <2>1. CASE Client(p)
    BY <1>0, <2>1, ClientDoes DEF ResultIsCached
  <2>2. CASE Kill(p)
    BY <1>0, <2>2, KillDoes DEF ResultIsCached
  <2>3. CASE Free(p) \/ Write(p)
    BY <2>3 DEF Free, Write, ResultIsCached
  <2>4. CASE LoadNameList(p)
    BY <1>0, <2>4, LoadDoes DEF ResultIsCached
  <2>5. CASE Answer(p)
    BY <2>5, AnswerDoes DEF ResultIsCached
  <2>6. CASE LoadCache(p)
    BY <1>0, <2>6, LoadCacheDoes DEF ResultIsCached
  <2>7. CASE SkipCache(p)
    BY <1>0, <2>7, SkipCacheDoes DEF ResultIsCached
  <2>8. CASE TryHwdb(p)
    BY <2>8, TryHwdbDoes DEF ResultIsCached
  <2>9. CASE AskNet(p)
    BY <2>9, AskNetDoes DEF ResultIsCached
  <2>10. CASE NoAnswer(p)
    BY <1>0, <2>10, NoAnswerDoes DEF ResultIsCached
  <2>11. QED
    BY <1>1, <2>1, <2>2, <2>3, <2>4, <2>5, <2>6, <2>7, <2>8, <2>9, <2>10 DEF Library
<1>2. CASE Clear(p)
  <2>1. /\ pc[p] = "clear" /\ file' = file /\ resolved' = resolved \cup found[p]
    BY <1>0, <1>2, ClearDoes
  <2>2. \A k \in found[p] : file # NoFile /\ file[k] # NONE
    BY <2>1 DEF CacheIsHeld
  <2>3. QED
    BY <2>1, <2>2 DEF ResultIsCached
<1>3. CASE Rename(p)
  <2>1. /\ pc[p] = "rename" /\ file' = tmp[p]
        /\ resolved' = IF "REFRESH_CACHE" \in mode[p] THEN {} ELSE resolved
    BY <1>3 DEF Rename
  <2>2. file' = FlushText(hash[p]) /\ file' # NoFile
    BY <2>1, FlushIsFile, NameAssumption DEF CacheIsHeld
  <2>3. ASSUME NEW k \in Keys \ Local, file # NoFile, file[k] # NONE,
               "REFRESH_CACHE" \notin mode[p]
        PROVE  file'[k] # NONE
    <3>1. IsWritten(hash[p][k])
      BY <2>1, <2>3 DEF CacheIsHeld
    <3>2. QED
      BY <1>0, <2>2, <3>1, FlushHas
  <2>4. QED
    BY <1>0, <2>1, <2>2, <2>3 DEF ResultIsCached
<1>4. QED
  BY <1>1, <1>2, <1>3

----------------------------------------------------------------------------
\* All of it, for each process, under the hypotheses of each theorem.
SessionInv ==
  /\ Inv /\ \A p \in Procs : AsksForNew(p)
  /\ Readable => \A p \in Procs : LocalIsFirst(p)
  /\ RefreshAsks => \A p \in Procs : DirtyHasHash(p)
  /\ OneProcess /\ ~IoErrors /\ NetworkCaches =>
       ResultIsCached /\ \A p \in Procs : CacheIsHeld(p)

LEMMA SessionInit == Init => SessionInv
<1> SUFFICES ASSUME Init PROVE SessionInv
  OBVIOUS
<1>1. /\ \A p \in Procs :
           /\ hash[p] = NoEntries /\ failed[p] = FALSE /\ status[p] = 0
           /\ pc[p] = "off" /\ found[p] = {} /\ \A k \in Keys : asked[p][k] = 0
      /\ resolved = {} /\ file = NoFile
  BY DEF Init
<1>2. ASSUME NEW p \in Procs PROVE AsksForNew(p) /\ LocalIsFirst(p)
  BY <1>1, NoneThere
  DEF AsksForNew, LocalIsFirst, InCall, Flush, ByOptions, AllVisible, AskedFor, LoadIsWanted
<1>3. ASSUME NEW p \in Procs PROVE DirtyHasHash(p) /\ CacheIsHeld(p)
  BY <1>1, NoneThere DEF DirtyHasHash, CacheIsHeld, Flush
<1>4. ResultIsCached
  BY <1>1 DEF ResultIsCached
<1>5. QED
  BY <1>2, <1>3, <1>4, InitInv DEF SessionInv

LEMMA OtherKept ==
  ASSUME TypeOK, NEW p \in Procs, NEW q \in Procs, q # p, Client(p) \/ Library(p) \/ Kill(p)
  PROVE  /\ AsksForNew(q) => AsksForNew(q)'
         /\ LocalIsFirst(q) => LocalIsFirst(q)'
         /\ DirtyHasHash(q) => DirtyHasHash(q)'
<1>1. /\ hash'[q] = hash[q] /\ failed'[q] = failed[q] /\ status'[q] = status[q]
      /\ mode'[q] = mode[q] /\ pc'[q] = pc[q] /\ after'[q] = after[q]
      /\ call'[q] = call[q] /\ result'[q] = result[q]
      /\ asked'[q] = asked[q] /\ found'[q] = found[q]
  BY OthersStay
<1>2. (InCall(q)' <=> InCall(q)) /\ (WantsLocal(q)' <=> WantsLocal(q)) /\ Key(q)' = Key(q)
  BY <1>1 DEF InCall, WantsLocal, Key
<1>3. AsksForNew(q) => AsksForNew(q)'
  BY <1>1, <1>2 DEF AsksForNew, ByOptions, AllVisible, AskedFor, LoadIsWanted
<1>4. LocalIsFirst(q) => LocalIsFirst(q)'
  BY <1>1, <1>2 DEF LocalIsFirst, LocalLoaded
<1>5. DirtyHasHash(q) => DirtyHasHash(q)'
  BY <1>1 DEF DirtyHasHash
<1>6. QED
  BY <1>3, <1>4, <1>5

LEMMA SessionNext ==
  ASSUME OptionsOnly, SessionInv, [Next]_vars
  PROVE  /\ SessionInv'
         /\ OneProcess /\ ~IoErrors /\ NetworkCaches =>
              [\A k \in Keys :
                 file # NoFile /\ file[k] # NONE /\ k \notin Local
                   /\ (\A p \in Procs : "REFRESH_CACHE" \notin mode[p])
                 => file' # NoFile /\ file'[k] # NONE]_vars
<1>0. Inv /\ TypeOK /\ Inv'
  BY NextInv DEF SessionInv, Inv
<1>1. ASSUME NEW p \in Procs, Client(p) \/ Library(p) \/ Kill(p)
      PROVE  /\ SessionInv'
             /\ OneProcess /\ ~IoErrors /\ NetworkCaches =>
                  \A k \in Keys :
                    file # NoFile /\ file[k] # NONE /\ k \notin Local
                      /\ (\A q \in Procs : "REFRESH_CACHE" \notin mode[q])
                    => file' # NoFile /\ file'[k] # NONE
  <2>1. \A q \in Procs : AsksForNew(q)'
    BY <1>0, <1>1, AsksKept, OtherKept DEF SessionInv
  <2>2. Readable => \A q \in Procs : LocalIsFirst(q)'
    BY <1>0, <1>1, LocalKept, OtherKept DEF SessionInv
  <2>3. RefreshAsks => \A q \in Procs : DirtyHasHash(q)'
    BY <1>0, <1>1, DirtyKept, OtherKept DEF SessionInv
  <2>4. ASSUME OneProcess, ~IoErrors, NetworkCaches
        PROVE  /\ ResultIsCached' /\ \A q \in Procs : CacheIsHeld(q)'
               /\ \A k \in Keys :
                    file # NoFile /\ file[k] # NONE /\ k \notin Local
                      /\ (\A q \in Procs : "REFRESH_CACHE" \notin mode[q])
                    => file' # NoFile /\ file'[k] # NONE
    <3>1. AsksForNew(p) /\ CacheIsHeld(p) /\ ResultIsCached
      BY <2>4 DEF SessionInv
    <3>2. CacheIsHeld(p)'
      BY <1>0, <1>1, <2>4, <3>1, HeldKept
    <3>3. \A q \in Procs : q = p
      BY <2>4 DEF OneProcess
    <3>4. QED
      BY <1>0, <1>1, <2>4, <3>1, <3>2, <3>3, CachedKept
  <2>5. SessionInv'
    BY <1>0, <2>1, <2>2, <2>3, <2>4 DEF SessionInv, RefreshAsks, NetworkCaches, OneProcess
  <2>6. QED
    BY <2>4, <2>5
<1>2. ASSUME UNCHANGED vars PROVE SessionInv'
  <2>1. UNCHANGED <<hash, failed, status, mode, pc, after, call, result, file, tmp, asked,
                    found, resolved>>
    BY <1>2 DEF vars, access
  <2>2. \A q \in Procs : (AsksForNew(q)' <=> AsksForNew(q))
    BY <2>1 DEF AsksForNew, ByOptions, AllVisible, AskedFor, LoadIsWanted, InCall, WantsLocal,
                Key
  <2>3. \A q \in Procs : (LocalIsFirst(q)' <=> LocalIsFirst(q))
    BY <2>1 DEF LocalIsFirst, LocalLoaded, InCall, WantsLocal
  <2>4. \A q \in Procs : (DirtyHasHash(q)' <=> DirtyHasHash(q))
    BY <2>1 DEF DirtyHasHash
  <2>5. \A q \in Procs : (CacheIsHeld(q)' <=> CacheIsHeld(q))
    BY <2>1 DEF CacheIsHeld
  <2>6. ResultIsCached' <=> ResultIsCached
    BY <2>1 DEF ResultIsCached
  <2>7. QED
    BY <1>0, <2>2, <2>3, <2>4, <2>5, <2>6
    DEF SessionInv, RefreshAsks, NetworkCaches, OneProcess
<1>3. QED
  BY <1>1, <1>2 DEF Next

LEMMA SessionAlways == ASSUME OptionsOnly PROVE Spec => []SessionInv
<1>1. SessionInv /\ [Next]_vars => SessionInv'
  BY SessionNext
<1>2. QED
  BY <1>1, SessionInit, PTL DEF Spec

\* If no call adds sources to the options, the DNS is asked about an identifier
\* once, for any options and any number of processes: an entry of the hash,
\* negative ones included, is always one the next call admits.
THEOREM NamesAskedOnce == ASSUME OptionsOnly PROVE Spec => []AskedOnce
<1>1. SessionInv => AskedOnce
  <2> SUFFICES ASSUME SessionInv, NEW p \in Procs, NEW k \in Keys PROVE asked[p][k] <= 1
    BY DEF AskedOnce
  <2>1. AsksForNew(p)
    BY DEF SessionInv
  <2>2. QED
    BY <2>1 DEF AsksForNew, AskedFor
<1>2. QED
  BY <1>1, SessionAlways, PTL

\* If besides pci.ids can be read, what it knows has the name it gives, unless
\* the options do not want it: pci.ids is loaded before the first identifier is
\* looked up, and no other source comes before it.
THEOREM NamesLocalWins == ASSUME OptionsOnly, Readable PROVE Spec => []LocalWins
<1>1. SessionInv => LocalWins
  <2> SUFFICES ASSUME SessionInv, NEW p \in Procs, pc[p] = "idle",
                      result[p].keys # <<>>, result[p].keys[1] \in Local,
                      result[p].flags \cap {"NUMERIC", "SKIP_LOCAL"} = {}
               PROVE  result[p].name = LocalName
    BY DEF LocalWins
  <2>1. AsksForNew(p) /\ LocalIsFirst(p)
    BY DEF SessionInv
  <2>2. result[p].flags = mode[p]
    BY <2>1 DEF AsksForNew, ByOptions
  <2>3. WantsLocal(p) /\ ~InCall(p)
    BY <2>2 DEF WantsLocal, InCall
  <2>4. QED
    BY <2>1, <2>3 DEF LocalIsFirst
<1>2. QED
  BY <1>1, SessionAlways, PTL

\* If the cache is only refreshed with permission to ask the DNS,
\* pci_id_cache_flush() finds a hash whenever it has something to write.
THEOREM NamesFlushHash == ASSUME OptionsOnly, RefreshAsks PROVE Spec => []FlushHasHash
<1>1. SessionInv => FlushHasHash
  BY DEF SessionInv, FlushHasHash, DirtyHasHash
<1>2. QED
  BY <1>1, SessionAlways, PTL

\* If one process at a time uses the cache, the options that permit the DNS
\* also permit the cache, and writing does not fail, then what the DNS has
\* resolved by the end of a session is in the cache file ...
THEOREM NamesResultIsCached ==
  ASSUME OptionsOnly, OneProcess, ~IoErrors, NetworkCaches
  PROVE  Spec => []ResultIsCached
<1>1. SessionInv => ResultIsCached
  BY DEF SessionInv
<1>2. QED
  BY <1>1, SessionAlways, PTL

\* ... and what is in the file stays there, wherever the process is killed,
\* except when it is started anew.
THEOREM NamesCachedStay ==
  ASSUME OptionsOnly, OneProcess, ~IoErrors, NetworkCaches
  PROVE  Spec => CachedStays
<1>1. SessionInv /\ [Next]_vars =>
        [\A k \in Keys :
           file # NoFile /\ file[k] # NONE /\ k \notin Local
             /\ (\A p \in Procs : "REFRESH_CACHE" \notin mode[p])
           => file' # NoFile /\ file'[k] # NONE]_vars
  BY SessionNext
<1>2. QED
  BY <1>1, SessionAlways, PTL DEF Spec, CachedStays

-----------------------------------------------------------------------------

\* A set of natural numbers has a first one.
LEMMA FirstOf ==
  ASSUME NEW S \in SUBSET Nat, S # {}
  PROVE  \E i \in S : \A j \in S : i <= j
<1> DEFINE L == OpToRel(<, Nat)
<1>1. \A x, y \in Nat : <<x, y>> \in L <=> x < y
  BY DEF OpToRel
<1>2. IsWellFoundedOn(L, Nat)
  BY NatLessThanWellFounded
<1> HIDE DEF L
<1>3. PICK i \in S : \A j \in S : ~(<<j, i>> \in L)
  BY <1>2, WFMin
<1>4. \A j \in S : ~(j < i)
  BY <1>1, <1>3
<1>5. QED
  BY <1>4

\* What answer[] holds: bytes.
Packet == Seq(0..255)

\* One turn of the loop of dns_skip_name(), f being the rest of it.
Turn(f, end, rest) ==
  LET at == end - rest
      x == bytes[at + 1]
  IN IF rest = 0 THEN Malformed
     ELSE IF x = 0 THEN at + 1
     ELSE IF x < 64 THEN IF x + 1 < rest THEN f[rest - x - 1] ELSE Malformed
     ELSE IF x >= 192 /\ rest > 2 THEN at + 2 ELSE Malformed

\* The loop as a function of how many bytes are left.
Loop(end) == CHOOSE f : f = [rest \in 0..end |-> Turn(f, end, rest)]

\* dns_skip_name() is that loop.
LEMMA SkipNameLoop ==
  ASSUME NEW p, NEW end
  PROVE  SkipName(p, end) = IF p < end THEN Loop(end)[end - p] ELSE Malformed
BY DEF SkipName, Loop, Turn

\* The bytes that are left are those of the packet.
LEMMA ByteOf ==
  ASSUME bytes \in Packet, NEW end \in Nat, end <= Len(bytes), NEW rest \in 0..end, rest # 0
  PROVE  bytes[end - rest + 1] \in 0..255
<1> DEFINE n == end - rest + 1
<1>1. n \in 1..Len(bytes)
  BY LenProperties DEF Packet
<1>2. bytes \in Seq(0..255)
  BY DEF Packet
<1> HIDE DEF n
<1>3. bytes[n] \in 0..255
  BY <1>1, <1>2, ElementOfSeq
<1>4. QED
  BY <1>3 DEF n

\* With f up to n, the turn before it is known.
LEMMA TurnUses ==
  ASSUME bytes \in Packet, NEW end \in Nat, end <= Len(bytes), NEW rest \in 0..end, NEW f, NEW g,
         \A r \in 0..end : r < rest => f[r] = g[r]
  PROVE  Turn(f, end, rest) = Turn(g, end, rest)
<1> DEFINE x == bytes[end - rest + 1]
<1>1. rest # 0 => x \in 0..255
  BY ByteOf
<1> HIDE DEF x
<1>2. rest # 0 /\ x # 0 /\ x < 64 /\ x + 1 < rest => rest - x - 1 \in 0..end /\ rest - x - 1 < rest
  <2> SUFFICES ASSUME rest # 0, x # 0, x < 64, x + 1 < rest
               PROVE  rest - x - 1 \in 0..end /\ rest - x - 1 < rest
    OBVIOUS
  <2>1. x \in 0..255
    BY <1>1
  <2>2. QED
    BY <2>1
<1>3. rest # 0 /\ x # 0 /\ x < 64 /\ x + 1 < rest => f[rest - x - 1] = g[rest - x - 1]
  BY <1>2
<1>4. QED
  BY <1>3 DEF Turn, x

\* There is such a function: each turn uses only what fewer bytes left give.
LEMMA LoopWorks ==
  ASSUME bytes \in Packet, NEW end \in Nat, end <= Len(bytes), NEW rest \in 0..end
  PROVE  Loop(end)[rest] = Turn(Loop(end), end, rest)
<1> DEFINE Solves(f, n) == f = [r \in 0..n |-> Turn(f, end, r)]
           Solved(n) == \E f : Solves(f, n)
<1>1. Solved(0)
  <2> DEFINE f == [r \in 0..0 |-> Malformed]
  <2>1. \A r \in 0..0 : Turn(f, end, r) = Malformed
    BY DEF Turn
  <2>2. Solves(f, 0)
    BY <2>1
  <2> HIDE DEF f, Solves
  <2>3. QED
    BY <2>2
<1>2. ASSUME NEW n \in Nat, n < end, Solved(n) PROVE Solved(n + 1)
  <2>1. PICK f : Solves(f, n)
    BY <1>2
  <2> DEFINE g == [r \in 0..n + 1 |-> Turn(f, end, r)]
  <2>2. \A r \in 0..n : f[r] = g[r]
    <3> SUFFICES ASSUME NEW r \in 0..n PROVE f[r] = g[r]
      OBVIOUS
    <3>1. f[r] = Turn(f, end, r)
      BY <2>1
    <3>2. r \in 0..n + 1
      BY <1>2
    <3>3. QED
      BY <3>1, <3>2
  <2> HIDE DEF g
  <2>3. \A r \in 0..n + 1 : Turn(f, end, r) = Turn(g, end, r)
    <3> SUFFICES ASSUME NEW r \in 0..n + 1 PROVE Turn(f, end, r) = Turn(g, end, r)
      OBVIOUS
    <3>1. r \in 0..end /\ \A q \in 0..end : q < r => f[q] = g[q]
      BY <1>2, <2>2
    <3>2. QED
      BY <3>1, TurnUses
  <2>4. g = [r \in 0..n + 1 |-> Turn(g, end, r)]
    BY <2>3 DEF g
  <2>5. QED
    BY <2>4
<1>3. Solved(end)
  <2> SUFFICES ASSUME ~Solved(end) PROVE FALSE
    OBVIOUS
  <2> DEFINE B == {n \in 0..end : ~Solved(n)}
  <2> HIDE DEF Solved
  <2>1. B \in SUBSET Nat /\ B # {}
    OBVIOUS
  <2>2. PICK n \in B : \A k \in B : n <= k
    BY <2>1, FirstOf
  <2>3. n # 0
    BY <1>1, <2>2
  <2>4. n - 1 \in Nat /\ n - 1 < end /\ n - 1 \in 0..end /\ n - 1 \notin B /\ n = (n - 1) + 1
    BY <2>2, <2>3
  <2>5. Solved(n - 1)
    BY <2>4
  <2>6. Solved((n - 1) + 1)
    BY <1>2, <2>4, <2>5
  <2>7. QED
    BY <2>2, <2>4, <2>6
<1>4. Loop(end) = [r \in 0..end |-> Turn(Loop(end), end, r)]
  BY <1>3 DEF Loop
<1>5. QED
  BY <1>4

\* A name ends behind its start and inside, and at the same place whatever the
\* end is that it stays inside.
LEMMA LoopEnds ==
  ASSUME bytes \in Packet, NEW end \in Nat, end <= Len(bytes), NEW rest \in 0..end
  PROVE  \/ Loop(end)[rest] = Malformed
         \/ Loop(end)[rest] \in end - rest + 1 .. end
<1> DEFINE Right(r) == \/ Loop(end)[r] = Malformed
                       \/ Loop(end)[r] \in end - r + 1 .. end
           B == {r \in 0..end : ~Right(r)}
<1> SUFFICES ASSUME B # {} PROVE FALSE
  OBVIOUS
<1>1. B \in SUBSET Nat
  OBVIOUS
<1>2. PICK r \in B : \A k \in B : r <= k
  BY <1>1, FirstOf
<1>3. r \in 0..end /\ ~Right(r)
  BY <1>2
<1>4. \A k \in 0..end : k < r => Right(k)
  BY <1>2
<1> HIDE DEF B
<1>5. Loop(end)[r] = Turn(Loop(end), end, r)
  BY <1>3, LoopWorks
<1> DEFINE x == bytes[end - r + 1]
<1>6. r # 0 => x \in 0..255
  BY <1>3, ByteOf
<1>7. CASE r = 0
  BY <1>3, <1>5, <1>7 DEF Turn
<1>8. CASE r # 0
  <2>1. r \in 1..end /\ x \in 0..255
    BY <1>3, <1>6, <1>8
  <2>2. \/ x = 0 /\ Loop(end)[r] = end - r + 1
        \/ x # 0 /\ x + 1 < r /\ Loop(end)[r] = Loop(end)[r - x - 1]
        \/ r > 2 /\ Loop(end)[r] = end - r + 2
        \/ Loop(end)[r] = Malformed
    BY <1>5, <2>1 DEF Turn
  <2> HIDE DEF x
  <2>3. CASE x # 0 /\ x + 1 < r /\ Loop(end)[r] = Loop(end)[r - x - 1]
    <3>1. r - x - 1 \in 0..end /\ r - x - 1 < r
      BY <2>1, <2>3
    <3>2. Right(r - x - 1)
      BY <1>4, <3>1
    <3>3. QED
      BY <1>3, <2>1, <2>3, <3>1, <3>2
  <2>4. QED
    BY <1>3, <2>1, <2>2, <2>3
<1>9. QED
  BY <1>7, <1>8

\* A name that ends before e1 ends at the same place for an end behind e1.
LEMMA LoopGrows ==
  ASSUME bytes \in Packet, NEW e1 \in Nat, NEW e2 \in Nat, e1 <= e2, e2 <= Len(bytes),
         NEW rest \in 0..e1, Loop(e1)[rest] # Malformed
  PROVE  Loop(e2)[rest + e2 - e1] = Loop(e1)[rest]
<1> DEFINE Right(r) == Loop(e1)[r] # Malformed => Loop(e2)[r + e2 - e1] = Loop(e1)[r]
           B == {r \in 0..e1 : ~Right(r)}
<1> SUFFICES ASSUME B # {} PROVE FALSE
  OBVIOUS
<1>0. Len(bytes) \in Nat
  BY LenProperties DEF Packet
<1>1. B \in SUBSET Nat
  OBVIOUS
<1>2. PICK r \in B : \A k \in B : r <= k
  BY <1>1, FirstOf
<1>3. r \in 0..e1 /\ ~Right(r)
  BY <1>2
<1>4. \A k \in 0..e1 : k < r => Right(k)
  BY <1>2
<1> HIDE DEF B
<1> DEFINE q == r + e2 - e1
           x == bytes[e1 - r + 1]
<1>5. q \in 0..e2 /\ e2 - q = e1 - r /\ q >= r /\ e1 <= Len(bytes)
  BY <1>0, <1>3
<1>6. Loop(e1)[r] = Turn(Loop(e1), e1, r)
  BY <1>3, <1>5, LoopWorks
<1>7. Loop(e2)[q] = Turn(Loop(e2), e2, q)
  BY <1>5, LoopWorks
<1>8. r # 0
  BY <1>3, <1>6 DEF Turn
<1>9. x \in 0..255 /\ r \in 1..e1
  <2>1. r \in 1..e1
    BY <1>3, <1>8
  <2>2. x \in 0..255
    BY <1>3, <1>5, <1>8, ByteOf
  <2>3. QED
    BY <2>1, <2>2
<1>10. \/ x = 0 /\ Loop(e1)[r] = e1 - r + 1
       \/ x # 0 /\ x < 64 /\ x + 1 < r /\ Loop(e1)[r] = Loop(e1)[r - x - 1]
       \/ x >= 192 /\ r > 2 /\ Loop(e1)[r] = e1 - r + 2
  BY <1>3, <1>6, <1>9 DEF Turn
<1>11. bytes[e2 - q + 1] = x
  BY <1>5
<1> HIDE DEF x
<1>12. /\ x = 0 => Loop(e2)[q] = e1 - r + 1
       /\ x # 0 /\ x < 64 /\ x + 1 < r => Loop(e2)[q] = Loop(e2)[q - x - 1]
       /\ x >= 192 /\ r > 2 => Loop(e2)[q] = e1 - r + 2
  <2> HIDE DEF q
  <2>1. /\ x = 0 => Turn(Loop(e2), e2, q) = e2 - q + 1
        /\ x # 0 /\ x < 64 /\ x + 1 < q => Turn(Loop(e2), e2, q) = Loop(e2)[q - x - 1]
        /\ x >= 192 /\ q > 2 => Turn(Loop(e2), e2, q) = e2 - q + 2
    BY <1>5, <1>9, <1>11 DEF Turn
  <2>2. (x + 1 < r => x + 1 < q) /\ (r > 2 => q > 2)
    BY <1>5, <1>9
  <2>3. QED
    BY <1>5, <1>7, <2>1, <2>2
<1>13. CASE x # 0 /\ x < 64 /\ x + 1 < r /\ Loop(e1)[r] = Loop(e1)[r - x - 1]
  <2>1. r - x - 1 \in 0..e1 /\ r - x - 1 < r /\ q - x - 1 = (r - x - 1) + e2 - e1
    BY <1>9, <1>13
  <2>2. Right(r - x - 1)
    BY <1>4, <2>1
  <2>3. QED
    BY <1>3, <1>12, <1>13, <2>1, <2>2
<1>14. QED
  BY <1>3, <1>10, <1>12, <1>13

\* The name that begins at p ends inside, and where the whole packet lets it end.
LEMMA SkipNameEnds ==
  ASSUME bytes \in Packet, NEW end \in Nat, end <= Len(bytes), NEW p \in Nat
  PROVE  SkipName(p, end) # Malformed =>
           /\ SkipName(p, end) \in p + 1 .. end
           /\ SkipName(p, Len(bytes)) = SkipName(p, end)
<1> DEFINE N == Len(bytes)
<1>0. N \in Nat
  BY LenProperties DEF Packet
<1> SUFFICES ASSUME SkipName(p, end) # Malformed
             PROVE  /\ SkipName(p, end) \in p + 1 .. end
                    /\ SkipName(p, N) = SkipName(p, end)
  OBVIOUS
<1> HIDE DEF N
<1>1. p < end
  BY SkipNameLoop
<1>2. SkipName(p, end) = Loop(end)[end - p] /\ end - p \in 0..end
  BY <1>1, SkipNameLoop
<1>3. Loop(end)[end - p] \in end - (end - p) + 1 .. end
  BY <1>2, LoopEnds
<1>4. end - (end - p) + 1 = p + 1
  OBVIOUS
<1>5. SkipName(p, N) = Loop(N)[N - p] /\ N - p = (end - p) + N - end
  BY <1>0, <1>1, SkipNameLoop DEF N
<1>6. Loop(N)[(end - p) + N - end] = Loop(end)[end - p]
  BY <1>0, <1>2, LoopGrows DEF N
<1>7. QED
  BY <1>2, <1>3, <1>4, <1>5, <1>6

\* A record with data at p, as the first walk sees it, and where the next is.
NameEnd(p) == SkipName(p, Len(bytes))
NextAt(p) == NameEnd(p) + 10 + Get16(NameEnd(p) + 8)
Fits(p) == NameEnd(p) # Malformed /\ NameEnd(p) + 10 <= Len(bytes) /\ NextAt(p) <= Len(bytes)

\* A number of two bytes of the packet.
LEMMA Get16Is ==
  ASSUME bytes \in Packet, NEW p \in Nat, p + 2 <= Len(bytes)
  PROVE  Get16(p) \in Nat
<1>1. Len(bytes) \in Nat
  BY LenProperties DEF Packet
<1> DEFINE a == p + 1
           b == p + 2
<1>2. a \in 1..Len(bytes) /\ b \in 1..Len(bytes)
  BY <1>1
<1> HIDE DEF a, b
<1>3. bytes[a] \in 0..255 /\ bytes[b] \in 0..255
  BY <1>2, ElementOfSeq DEF Packet
<1>4. Get16(p) = bytes[a] * 256 + bytes[b]
  BY DEF Get16, a, b
<1>5. \A x, y \in 0..255 : x * 256 + y \in Nat
  OBVIOUS
<1>6. QED
  BY <1>3, <1>4, <1>5

\* The next record is behind this one, and in the packet.
LEMMA FitsBehind ==
  ASSUME bytes \in Packet, NEW p \in Nat, Fits(p)
  PROVE  NameEnd(p) \in p + 1 .. Len(bytes) /\ NextAt(p) \in p + 1 .. Len(bytes)
<1>1. Len(bytes) \in Nat
  BY LenProperties DEF Packet
<1>2. NameEnd(p) \in p + 1 .. Len(bytes)
  BY <1>1, SkipNameEnds DEF Fits, NameEnd
<1> DEFINE n == NameEnd(p)
<1>3. Get16(n + 8) \in Nat
  <2>1. n + 8 \in Nat /\ (n + 8) + 2 <= Len(bytes)
    BY <1>1, <1>2 DEF Fits
  <2> HIDE DEF n
  <2>2. QED
    BY <2>1, Get16Is
<1>4. NextAt(p) = n + 10 + Get16(n + 8)
  BY DEF NextAt
<1> HIDE DEF n
<1>5. n \in p + 1 .. Len(bytes)
  BY <1>2 DEF n
<1>6. QED
  BY <1>1, <1>2, <1>3, <1>4, <1>5 DEF Fits

\* Where the record behind the one at p is, 0 if the walk ends there.
Hops == [p \in Nat |-> IF Fits(p) THEN NextAt(p) ELSE 0]

\* Records that follow one another lead from a to b.
Track(H, T, a, b) ==
  /\ T \subseteq a..b /\ a \in T /\ b \in T
  /\ \A p \in T : p # b => H[p] # 0 /\ H[p] \in T
Leads(H, a, b) == \E T \in SUBSET (a..b) : Track(H, T, a, b)

\* A hop is to the next record, and there is one from each record that fits.
LEMMA HopsAre ==
  ASSUME bytes \in Packet, NEW p \in Nat
  PROVE  /\ Hops[p] # 0 <=> Fits(p)
         /\ Fits(p) => Hops[p] = NextAt(p)
<1>1. Len(bytes) \in Nat
  BY LenProperties DEF Packet
<1>2. Fits(p) => NextAt(p) # 0
  BY <1>1, FitsBehind
<1>3. QED
  BY <1>2 DEF Hops

\* No record leads from a place to itself.
LEMMA LeadsHere ==
  ASSUME NEW H, NEW a \in Nat
  PROVE  Leads(H, a, a)
<1>1. Track(H, {a}, a, a)
  BY DEF Track
<1>2. {a} \in SUBSET (a..a)
  OBVIOUS
<1>3. QED
  BY <1>1, <1>2 DEF Leads

\* A record at the end that fits leads on to the one behind it.
LEMMA LeadsOn ==
  ASSUME bytes \in Packet, NEW a \in Nat, NEW b \in Nat, Leads(Hops, a, b), Fits(b)
  PROVE  Leads(Hops, a, NextAt(b))
<1>1. PICK T \in SUBSET (a..b) : Track(Hops, T, a, b)
  BY DEF Leads
<1> DEFINE c == NextAt(b)
           U == T \cup {c}
<1>2. c \in b + 1 .. Len(bytes) /\ Len(bytes) \in Nat
  BY FitsBehind, LenProperties DEF Packet
<1> HIDE DEF c
<1>3. U \subseteq a..c
  <2>1. \A p \in T : p \in a..c
    BY <1>2
  <2>2. c \in a..c
    BY <1>1, <1>2 DEF Track
  <2>3. QED
    BY <2>1, <2>2
<1>4. \A p \in U : p # c => Hops[p] # 0 /\ Hops[p] \in U
  <2>1. Hops[b] # 0 /\ Hops[b] = c
    BY HopsAre DEF c
  <2>2. QED
    BY <1>1, <2>1 DEF Track
<1>5. Track(Hops, U, a, c)
  BY <1>1, <1>3, <1>4 DEF Track
<1>6. QED
  BY <1>3, <1>5 DEF Leads, c

\* Records that lead from a to another place begin with one at a.
LEMMA LeadsFrom ==
  ASSUME bytes \in Packet, NEW a \in Nat, NEW b \in Nat, Leads(Hops, a, b), a # b
  PROVE  Fits(a) /\ NextAt(a) \in Nat /\ NextAt(a) > a /\ NextAt(a) <= b /\ Leads(Hops, NextAt(a), b)
<1>1. PICK T \in SUBSET (a..b) : Track(Hops, T, a, b)
  BY DEF Leads
<1> DEFINE c == NextAt(a)
           U == T \cap (c..b)
<1>2. Fits(a) /\ c \in T
  BY <1>1, HopsAre DEF Track
<1>3. c \in a + 1 .. Len(bytes) /\ Len(bytes) \in Nat
  BY <1>2, FitsBehind, LenProperties DEF Packet
<1> HIDE DEF c
<1>4. c \in Nat /\ c <= b /\ a < c
  BY <1>2, <1>3
<1>5. \A p \in U : p # b => Hops[p] # 0 /\ Hops[p] \in U
  <2> SUFFICES ASSUME NEW p \in U, p # b PROVE Hops[p] # 0 /\ Hops[p] \in U
    OBVIOUS
  <2>1. p \in T /\ p \in c..b /\ p \in Nat
    BY <1>4
  <2>2. Fits(p) /\ NextAt(p) \in T
    BY <1>1, <2>1, HopsAre DEF Track
  <2>3. NextAt(p) \in p + 1 .. Len(bytes)
    BY <2>1, <2>2, FitsBehind
  <2>4. NextAt(p) \in a..b
    BY <1>1, <2>2
  <2>5. NextAt(p) \in c..b
    BY <1>3, <1>4, <2>1, <2>3, <2>4
  <2>6. QED
    BY <2>1, <2>2, <2>5, HopsAre
<1>6. c \in U /\ b \in U
  BY <1>1, <1>2, <1>4 DEF Track
<1>7. Track(Hops, U, c, b)
  BY <1>5, <1>6 DEF Track
<1>8. Leads(Hops, c, b)
  BY <1>7 DEF Leads
<1>9. QED
  BY <1>2, <1>4, <1>8 DEF c

\* They lead forward.
LEMMA LeadsUp ==
  ASSUME NEW H, NEW a \in Nat, NEW b \in Nat, Leads(H, a, b)
  PROVE  a <= b
<1>1. PICK T \in SUBSET (a..b) : Track(H, T, a, b)
  BY DEF Leads
<1>2. b \in a..b
  BY <1>1 DEF Track
<1>3. QED
  BY <1>2

\* The ends of sections that are known are in order, and before limit.
InOrder(limit) ==
  /\ starts \in Seq(Nat)
  /\ \A i \in 1..Len(starts) :
       starts[i] <= limit /\ (i > 1 => starts[i - 1] <= starts[i])

\* In dns_parse_packet().
FirstWalk ==
  /\ Len(bytes) >= 12 /\ pos <= Len(bytes) /\ InOrder(pos)
  /\ expected \in Nat /\ section \in 1..4 /\ Len(starts) = section
  /\ section = 2 => Leads(Hops, starts[2], pos)
  /\ section > 2 => Leads(Hops, starts[2], starts[3])

\* In the loop over dns_parse_rr(): what is left of the answers are such records.
SecondWalk ==
  /\ InOrder(Len(bytes)) /\ Len(starts) = 5
  /\ starts[2] <= pos /\ Leads(Hops, pos, starts[3])

\* In the loop over the texts of a record.
InRecord ==
  /\ starts[2] <= record.first /\ record.pos + record.len = pos
  /\ record.pos \in Nat /\ record.len \in Nat
  /\ textAt \in Nat /\ textAt <= record.len

\* The second walk has the records in front of it that the first one has passed.
WalkInv ==
  /\ bytes \in Packet /\ pos \in Nat
  /\ dns \in {"idle", "ask"} => pos = 0 /\ starts = <<>>
  /\ dns = "records" => FirstWalk
  /\ dns \in {"answers", "texts"} => SecondWalk
  /\ dns = "texts" => InRecord
  /\ dns = "done" => pos <= Len(bytes) /\ InOrder(Len(bytes))
  /\ dns \in {"idle", "ask", "records", "answers", "texts", "done"}
  /\ dns = "ask" => subject \in Subjects

\* It holds before the first look-up.
LEMMA WalkInvInit ==
  NetInit => WalkInv
<1> SUFFICES ASSUME NetInit PROVE WalkInv
  OBVIOUS
<1>1. bytes \in Packet
  BY EmptySeq DEF NetInit, Packet
<1>2. QED
  BY <1>1 DEF NetInit, WalkInv

\* How many bytes there are, and no ends of sections.
LEMMA BytesLen ==
  ASSUME bytes \in Packet
  PROVE  Len(bytes) \in Nat
BY LenProperties DEF Packet

LEMMA NoStarts ==
  ASSUME starts = <<>>, NEW n \in Nat
  PROVE  InOrder(n) /\ Len(starts) = 0
BY EmptySeq DEF InOrder

\* The hops are those of the packet.
LEMMA HopsStay ==
  bytes' = bytes => Hops' = Hops
BY DEF Hops, Fits, NextAt, NameEnd, SkipName, Get16

\* The third entry is there.
LEMMA ThreeStarts ==
  ASSUME starts \in Seq(Nat), Len(starts) \in {3, 4, 5}
  PROVE  starts[2] \in Nat /\ starts[3] \in Nat
<1>1. \A n \in {3, 4, 5} : 2 \in 1..n /\ 3 \in 1..n
  OBVIOUS
<1>2. 2 \in 1..Len(starts) /\ 3 \in 1..Len(starts)
  BY <1>1
<1>3. QED
  BY <1>2, ElementOfSeq

\* The first part of the invariant is what the property needs.
LEMMA WalkInvImplies ==
  WalkInv => WalkInside
<1> SUFFICES ASSUME WalkInv PROVE WalkInside
  OBVIOUS
<1>1. Len(bytes) \in Nat
  BY BytesLen DEF WalkInv
<1>2. pos <= Len(bytes) /\ InOrder(Len(bytes))
  <2>1. CASE dns \in {"idle", "ask"}
    BY <1>1, <2>1, NoStarts DEF WalkInv
  <2>2. CASE dns = "records"
    <3>1. pos <= Len(bytes) /\ InOrder(pos)
      BY <2>2 DEF WalkInv, FirstWalk
    <3>2. QED
      BY <1>1, <3>1 DEF InOrder, WalkInv
  <2>3. CASE dns \in {"answers", "texts"}
    <3>1. SecondWalk
      BY <2>3 DEF WalkInv
    <3>2. starts[3] \in Nat /\ starts[3] <= Len(bytes)
      <4>1. starts \in Seq(Nat) /\ Len(starts) = 5
        BY <3>1 DEF SecondWalk, InOrder
      <4>2. 3 \in 1..Len(starts)
        BY <4>1
      <4>3. QED
        BY <3>1, <4>1, <4>2, ThreeStarts DEF SecondWalk, InOrder
    <3>3. pos <= starts[3]
      BY <3>1, <3>2, LeadsUp DEF SecondWalk, WalkInv
    <3>4. QED
      BY <1>1, <3>1, <3>2, <3>3 DEF SecondWalk, WalkInv
  <2>4. CASE dns = "done"
    BY <2>4 DEF WalkInv
  <2>5. QED
    BY <2>1, <2>2, <2>3, <2>4 DEF WalkInv
<1>3. dns \in {"answers", "texts"} => starts[2] <= pos /\ pos <= starts[3]
  <2> SUFFICES ASSUME dns \in {"answers", "texts"}
               PROVE  starts[2] <= pos /\ pos <= starts[3]
    OBVIOUS
  <2>1. SecondWalk
    BY DEF WalkInv
  <2>2. starts[3] \in Nat
    BY <2>1, ThreeStarts DEF SecondWalk, InOrder
  <2>3. QED
    BY <2>1, <2>2, LeadsUp DEF SecondWalk, WalkInv
<1>4. dns = "texts" => InRecord
  BY DEF WalkInv
<1>5. QED
  BY <1>2, <1>3, <1>4 DEF WalkInside, InOrder, InRecord

\* Each step of a look-up keeps the invariant.
LEMMA QueryKeeps ==
  WalkInv /\ Query => WalkInv'
<1> SUFFICES ASSUME WalkInv, Query PROVE WalkInv'
  OBVIOUS
<1>1. CASE dns' = "done" /\ UNCHANGED <<sent, bytes, section, expected, pos, starts>>
  <2>1. bytes' \in Packet /\ pos' = 0 /\ starts' = <<>>
    BY <1>1 DEF WalkInv, Query
  <2>2. (pos <= Len(bytes) /\ InOrder(Len(bytes)))'
    <3>1. Len(bytes') \in Nat
      BY <2>1, LenProperties DEF Packet
    <3>2. QED
      BY <2>1, <3>1, EmptySeq DEF InOrder
  <2>3. QED
    BY <1>1, <2>1, <2>2 DEF WalkInv
<1>2. CASE /\ sent' \in Replies
           /\ bytes' = PacketBytes(sent')
           /\ IF Have(0, 12, Len(bytes'))
              THEN /\ dns' = "records" /\ section' = 1 /\ pos' = 12 /\ starts' = <<12>>
                   /\ expected' = bytes'[5] * 256 + bytes'[6]
              ELSE dns' = "done" /\ UNCHANGED <<section, expected, pos, starts>>
  <2>1. bytes' \in Packet /\ Len(bytes') \in Nat
    BY <1>2, ReplyAssumption, LenProperties DEF Packet
  <2>2. CASE Have(0, 12, Len(bytes'))
    <3>1. dns' = "records" /\ section' = 1 /\ pos' = 12 /\ starts' = <<12>>
          /\ expected' = bytes'[5] * 256 + bytes'[6] /\ Len(bytes') >= 12
      BY <1>2, <2>1, <2>2 DEF Have
    <3>2. bytes'[5] \in 0..255 /\ bytes'[6] \in 0..255
      <4>1. 5 \in 1..Len(bytes') /\ 6 \in 1..Len(bytes')
        BY <2>1, <3>1
      <4>2. QED
        BY <2>1, <4>1, ElementOfSeq DEF Packet
    <3>3. expected' \in Nat
      <4>1. \A x, y \in 0..255 : x * 256 + y \in Nat
        OBVIOUS
      <4>2. QED
        BY <3>1, <3>2, <4>1
    <3>4. InOrder(pos)' /\ Len(starts') = 1
      BY <3>1 DEF InOrder
    <3>5. FirstWalk'
      BY <3>1, <3>3, <3>4 DEF FirstWalk
    <3>6. QED
      BY <2>1, <3>1, <3>5 DEF WalkInv
  <2>3. CASE ~Have(0, 12, Len(bytes'))
    <3>1. dns' = "done" /\ pos' = 0 /\ starts' = <<>>
      BY <1>2, <2>3 DEF Query, WalkInv
    <3>2. (InOrder(Len(bytes)))'
      BY <3>1, EmptySeq DEF InOrder
    <3>3. QED
      BY <2>1, <3>1, <3>2 DEF WalkInv
  <2>4. QED
    BY <2>2, <2>3
<1>3. QED
  BY <1>1, <1>2 DEF Query

LEMMA RecordKeeps ==
  WalkInv /\ SkipRecord => WalkInv'
<1> SUFFICES ASSUME WalkInv, SkipRecord PROVE WalkInv'
  OBVIOUS
<1> DEFINE p == SkipName(pos, Len(bytes))
<1>1. FirstWalk /\ bytes \in Packet /\ pos \in Nat /\ expected > 0 /\ dns = "records"
  BY DEF WalkInv, SkipRecord
<1>2. Len(bytes) \in Nat
  BY <1>1, BytesLen
<1>3. UNCHANGED <<subject, sent, bytes, section, starts, record, textAt>>
  BY DEF SkipRecord
<1>4. CASE RecordFits(p)
  <2>1. pos' = Behind(p) /\ expected' = expected - 1 /\ dns' = dns
    BY <1>4 DEF SkipRecord
  <2>2. p \in pos + 1 .. Len(bytes)
    BY <1>1, <1>2, <1>4, SkipNameEnds DEF RecordFits
  <2>3. Behind(p) \in Nat /\ Behind(p) > pos /\ Behind(p) <= Len(bytes)
    <3>1. Behind(p) <= Len(bytes) /\ p + FixedLen <= Len(bytes)
      BY <1>4 DEF RecordFits, Have
    <3> HIDE DEF p
    <3>2. CASE section = 1
      BY <1>1, <2>2, <3>1, <3>2 DEF Behind, FixedLen
    <3>3. CASE section # 1
      <4>1. Get16(p + 8) \in Nat
        <5>1. p + 8 \in Nat /\ (p + 8) + 2 <= Len(bytes)
          BY <1>1, <1>2, <2>2, <3>1, <3>3 DEF FixedLen
        <5>2. QED
          BY <1>1, <5>1, Get16Is
      <4>2. QED
        BY <1>1, <2>2, <3>1, <3>3, <4>1 DEF Behind, FixedLen
    <3>4. QED
      BY <3>2, <3>3
  <2>4. section = 2 => Leads(Hops, starts[2], Behind(p))
    <3> SUFFICES ASSUME section = 2 PROVE Leads(Hops, starts[2], Behind(p))
      OBVIOUS
    <3>1. Behind(p) = NextAt(pos) /\ Fits(pos)
      BY <1>4 DEF RecordFits, Fits, NextAt, NameEnd, Behind, FixedLen, Have
    <3>2. starts[2] \in Nat /\ Leads(Hops, starts[2], pos)
      <4>1. starts \in Seq(Nat) /\ Len(starts) = 2
        BY <1>1 DEF FirstWalk, InOrder
      <4>2. 2 \in 1..Len(starts)
        BY <4>1
      <4>3. QED
        BY <1>1, <4>1, <4>2, ElementOfSeq DEF FirstWalk
    <3>3. QED
      BY <1>1, <3>1, <3>2, LeadsOn
  <2> HIDE DEF p
  <2>5. bytes' = bytes /\ starts' = starts /\ section' = section /\ pos' = Behind(p)
    BY <1>3, <2>1
  <2>6. InOrder(pos)'
    BY <1>1, <2>3, <2>5 DEF FirstWalk, InOrder
  <2>7. (section = 2 => Leads(Hops, starts[2], pos))'
    BY <2>4, <2>5, HopsStay
  <2>8. (section > 2 => Leads(Hops, starts[2], starts[3]))'
    BY <1>1, <2>5, HopsStay DEF FirstWalk
  <2>9. FirstWalk'
    BY <1>1, <2>1, <2>3, <2>5, <2>6, <2>7, <2>8 DEF FirstWalk
  <2>10. QED
    BY <1>1, <2>1, <2>3, <2>5, <2>9 DEF WalkInv
<1>5. CASE ~RecordFits(p)
  <2>1. dns' = "done" /\ pos' = pos /\ bytes' = bytes /\ starts' = starts
    BY <1>3, <1>5 DEF SkipRecord, Give
  <2>2. InOrder(Len(bytes))'
    BY <1>1, <1>2, <2>1 DEF FirstWalk, InOrder
  <2>3. QED
    BY <1>1, <2>1, <2>2 DEF FirstWalk, WalkInv
<1>6. QED
  BY <1>4, <1>5

LEMMA SectionKeeps ==
  WalkInv /\ EndOfSection => WalkInv'
<1> SUFFICES ASSUME WalkInv, EndOfSection PROVE WalkInv'
  OBVIOUS
<1>1. FirstWalk /\ bytes \in Packet /\ pos \in Nat /\ dns = "records"
  BY DEF WalkInv, EndOfSection
<1>2. Len(bytes) \in Nat
  BY <1>1, BytesLen
<1>3. starts' = Append(starts, pos) /\ bytes' = bytes
  BY DEF EndOfSection
<1>4. starts \in Seq(Nat) /\ Len(starts) = section /\ section \in 1..4
  BY <1>1 DEF FirstWalk, InOrder
<1>5. /\ starts' \in Seq(Nat) /\ Len(starts') = section + 1
      /\ starts'[section + 1] = pos
      /\ \A i \in 1..section : starts'[i] = starts[i]
  BY <1>1, <1>3, <1>4
<1>6. \A i \in 1..Len(starts) : starts[i] <= pos /\ (i > 1 => starts[i - 1] <= starts[i])
  BY <1>1 DEF FirstWalk, InOrder
<1>7. \A i \in 1..Len(starts') :
        starts'[i] <= pos /\ (i > 1 => starts'[i - 1] <= starts'[i])
  <2> SUFFICES ASSUME NEW i \in 1..section + 1
               PROVE  starts'[i] <= pos /\ (i > 1 => starts'[i - 1] <= starts'[i])
    BY <1>5
  <2>1. CASE i \in 1..section
    BY <1>4, <1>5, <1>6, <2>1
  <2>2. CASE i = section + 1
    BY <1>1, <1>4, <1>5, <1>6, <2>2
  <2>3. QED
    BY <1>4, <2>1, <2>2
<1>8. starts[2] \in Nat \/ section = 1
  BY <1>4
<1>9. CASE section < 4
  <2>1. section' = section + 1 /\ expected' = Get16(4 + 2 * section) /\ dns' = dns /\ pos' = pos
    BY <1>9 DEF EndOfSection
  <2>2. expected' \in Nat
    <3> DEFINE q == 4 + 2 * section
    <3>1. q \in Nat /\ q + 2 <= 12
      BY <1>4, <1>9
    <3> HIDE DEF q
    <3>2. q + 2 <= Len(bytes)
      BY <1>1, <1>2, <3>1 DEF FirstWalk
    <3>3. Get16(q) \in Nat
      BY <1>1, <3>1, <3>2, Get16Is
    <3>4. QED
      BY <2>1, <3>3 DEF q
  <2>3. InOrder(pos)'
    BY <1>5, <1>7, <2>1 DEF InOrder
  <2>4. section + 1 = 2 => Leads(Hops, starts'[2], pos)
    BY <1>1, <1>5, LeadsHere
  <2>5. section + 1 > 2 => Leads(Hops, starts'[2], starts'[3])
    <3>1. CASE section = 2
      BY <1>1, <1>5, <3>1 DEF FirstWalk
    <3>2. CASE section = 3
      BY <1>1, <1>5, <3>2 DEF FirstWalk
    <3>3. QED
      BY <1>4, <1>9, <3>1, <3>2
  <2>6. (section = 2 => Leads(Hops, starts[2], pos))'
    BY <1>3, <2>1, <2>4, HopsStay
  <2>7. (section > 2 => Leads(Hops, starts[2], starts[3]))'
    BY <1>3, <2>1, <2>5, HopsStay
  <2>8. FirstWalk'
    BY <1>1, <1>3, <1>4, <1>5, <1>9, <2>1, <2>2, <2>3, <2>6, <2>7 DEF FirstWalk
  <2>9. QED
    BY <1>1, <1>3, <2>1, <2>8 DEF WalkInv
<1>10. CASE section = 4
  <2>1. dns' = "answers" /\ pos' = starts[2]
    BY <1>10 DEF EndOfSection
  <2>2. InOrder(Len(bytes))'
    <3>1. \A i \in 1..Len(starts') : starts'[i] \in Nat
      BY <1>5
    <3>2. pos <= Len(bytes)
      BY <1>1 DEF FirstWalk
    <3>3. QED
      BY <1>1, <1>2, <1>3, <1>5, <1>7, <3>1, <3>2 DEF InOrder
  <2>3. Leads(Hops, starts[2], starts[3])
    BY <1>1, <1>10 DEF FirstWalk
  <2>4. pos' = starts'[2] /\ starts'[3] = starts[3] /\ pos' \in Nat
    <3>1. 2 \in 1..section /\ 3 \in 1..section
      BY <1>10
    <3>2. QED
      BY <1>4, <1>5, <1>10, <2>1, <3>1, ThreeStarts
  <2>5. Leads(Hops, pos, starts[3])'
    BY <1>3, <2>1, <2>3, <2>4, HopsStay
  <2>6. SecondWalk'
    BY <1>5, <1>10, <2>2, <2>4, <2>5 DEF SecondWalk
  <2>7. QED
    BY <1>1, <1>3, <2>1, <2>4, <2>6 DEF WalkInv
<1>11. QED
  BY <1>4, <1>9, <1>10

LEMMA ReadKeeps ==
  WalkInv /\ ReadRecord => WalkInv'
<1> SUFFICES ASSUME WalkInv, ReadRecord PROVE WalkInv'
  OBVIOUS
<1> DEFINE end == AnswersEnd
           p == SkipName(pos, end)
<1>1. SecondWalk /\ bytes \in Packet /\ pos \in Nat /\ dns = "answers"
  BY DEF WalkInv, ReadRecord
<1>2. end = starts[3] /\ end \in Nat /\ end <= Len(bytes) /\ Leads(Hops, pos, end)
      /\ starts[2] <= pos /\ starts[2] \in Nat
  <2>1. starts \in Seq(Nat) /\ Len(starts) = 5
    BY <1>1 DEF SecondWalk, InOrder
  <2>2. 3 \in 1..Len(starts)
    BY <2>1
  <2>3. end = starts[3]
    BY DEF AnswersEnd
  <2>4. starts[3] <= Len(bytes)
    BY <1>1, <2>2 DEF SecondWalk, InOrder
  <2>5. QED
    BY <1>1, <2>1, <2>3, <2>4, ThreeStarts DEF SecondWalk
<1>3. UNCHANGED <<subject, sent, bytes, section, expected, starts>>
  BY DEF ReadRecord
<1>4. CASE pos = end \/ p = Malformed \/ ~Have(p, 10, end)
  <2>1. dns' = "done" /\ pos' = pos
    BY <1>4 DEF ReadRecord, Give
  <2>2. pos <= Len(bytes) /\ InOrder(Len(bytes))
    <3>1. pos <= end
      BY <1>1, <1>2, LeadsUp
    <3>2. Len(bytes) \in Nat
      BY <1>1, BytesLen
    <3> HIDE DEF end
    <3>3. QED
      BY <1>1, <1>2, <3>1, <3>2 DEF SecondWalk
  <2>3. (pos <= Len(bytes) /\ InOrder(Len(bytes)))'
    BY <1>3, <2>1, <2>2 DEF InOrder
  <2>4. QED
    BY <1>1, <1>3, <2>1, <2>3 DEF WalkInv
<1>5. CASE ~(pos = end \/ p = Malformed \/ ~Have(p, 10, end))
  <2>1. /\ record' = [first |-> pos, pos |-> p + 10, len |-> Get16(p + 8)]
        /\ pos' = p + 10 + Get16(p + 8) /\ textAt' = 0
        /\ dns' \in {"texts", "answers"}
    BY <1>5 DEF ReadRecord
  <2> HIDE DEF end
  <2>2. p = NameEnd(pos) /\ p \in pos + 1 .. end
    BY <1>1, <1>2, <1>5, SkipNameEnds DEF NameEnd
  <2>3. Fits(pos) /\ NextAt(pos) \in Nat /\ NextAt(pos) > pos /\ Leads(Hops, NextAt(pos), end)
    BY <1>1, <1>2, <1>5, LeadsFrom
  <2>4. pos' = NextAt(pos)
    BY <2>1, <2>2 DEF NextAt
  <2> HIDE DEF p
  <2>5. Get16(p + 8) \in Nat
    <3>1. p + 8 \in Nat /\ (p + 8) + 2 <= Len(bytes)
      <4>1. Len(bytes) \in Nat
        BY <1>1, BytesLen
      <4>2. p + 10 <= end
        BY <1>5 DEF Have
      <4>3. QED
        BY <1>1, <1>2, <2>2, <4>1, <4>2
    <3>2. QED
      BY <1>1, <3>1, Get16Is
  <2>6. Leads(Hops, pos, starts[3])'
    BY <1>2, <1>3, <2>3, <2>4, HopsStay
  <2>7. starts[2] <= NextAt(pos)
    BY <1>1, <1>2, <2>3
  <2>8. SecondWalk'
    BY <1>1, <1>3, <2>4, <2>6, <2>7 DEF SecondWalk, InOrder
  <2>9. InRecord'
    <3>1. (starts[2] <= record.first)'
      BY <1>2, <1>3, <2>1
    <3>2. (record.pos + record.len = pos)'
      BY <2>1
    <3>3. p + 10 \in Nat
      BY <1>1, <1>2, <2>2
    <3>4. (record.pos \in Nat /\ record.len \in Nat)'
      BY <2>1, <2>5, <3>3
    <3>5. (textAt \in Nat /\ textAt <= record.len)'
      BY <2>1, <2>5
    <3>6. QED
      BY <3>1, <3>2, <3>4, <3>5 DEF InRecord
  <2>10. QED
    BY <1>1, <1>3, <2>1, <2>3, <2>4, <2>8, <2>9 DEF WalkInv
<1>6. QED
  BY <1>4, <1>5

\* The length of a text that is looked at is in the packet.
LEMMA TextIsInside ==
  ASSUME WalkInv, dns = "texts", textAt < record.len
  PROVE  record.pos + textAt + 1 \in 1..Len(bytes)
<1>1. InRecord /\ pos \in Nat
  BY DEF WalkInv
<1>2. pos <= Len(bytes)
  BY WalkInvImplies DEF WalkInside
<1>3. Len(bytes) \in Nat
  BY BytesLen DEF WalkInv
<1>4. QED
  BY <1>1, <1>2, <1>3 DEF InRecord

LEMMA TextKeeps ==
  WalkInv /\ ReadText => WalkInv'
<1> SUFFICES ASSUME WalkInv, ReadText PROVE WalkInv'
  OBVIOUS
<1> DEFINE size == bytes[record.pos + textAt + 1]
<1>1. SecondWalk /\ InRecord /\ bytes \in Packet /\ pos \in Nat /\ dns = "texts"
  BY DEF WalkInv, ReadText
<1>2. UNCHANGED <<subject, sent, bytes, section, expected, pos, starts, record>>
  BY DEF ReadText
<1>3. SecondWalk'
  BY <1>1, <1>2, HopsStay DEF SecondWalk, InOrder
<1>4. (pos <= Len(bytes) /\ InOrder(Len(bytes)))'
  <2>1. WalkInside
    BY WalkInvImplies
  <2>2. pos <= Len(bytes) /\ InOrder(Len(bytes))
    BY <1>1, <2>1 DEF WalkInside, SecondWalk
  <2>3. QED
    BY <1>2, <2>2 DEF InOrder
<1>5. CASE dns' = "answers"
  BY <1>1, <1>2, <1>3, <1>5 DEF WalkInv
<1>6. CASE dns' = "done"
  BY <1>1, <1>2, <1>4, <1>6 DEF WalkInv
<1>7. CASE dns' \notin {"answers", "done"}
  <2>1. /\ ~(textAt >= record.len) /\ ~(textAt + 1 + size > record.len)
        /\ textAt' = textAt + 1 + size /\ dns' = dns
    BY <1>7 DEF ReadText, Give
  <2>2. size \in 0..255
    <3> DEFINE n == record.pos + textAt + 1
    <3>1. textAt < record.len
      BY <1>1, <2>1 DEF InRecord
    <3>2. n \in 1..Len(bytes)
      BY <1>1, <3>1, TextIsInside
    <3>3. bytes \in Seq(0..255)
      BY <1>1 DEF Packet
    <3> HIDE DEF n
    <3>4. bytes[n] \in 0..255
      BY <3>2, <3>3, ElementOfSeq
    <3>5. QED
      BY <3>4 DEF n
  <2> HIDE DEF size
  <2>3. record.len \in Nat /\ textAt \in Nat
    BY <1>1 DEF WalkInv, InRecord
  <2>4. InRecord'
    BY <1>1, <1>2, <2>1, <2>2, <2>3 DEF InRecord
  <2>5. QED
    BY <1>1, <1>2, <1>3, <2>1, <2>4 DEF WalkInv
<1>8. QED
  BY <1>5, <1>6, <1>7

\* The names of identifiers of each kind.
LEMMA NameOfKind ==
  ASSUME NEW s
  PROVE  /\ s.cat = "VENDOR" => QueryName(s) = <<<<4, s.ids[1]>>>>
         /\ s.cat = "DEVICE" => QueryName(s) = <<<<4, s.ids[2]>>, <<4, s.ids[1]>>>>
         /\ s.cat = "SUBSYSTEM" => QueryName(s) =
              <<<<4, s.ids[4]>>, <<4, s.ids[3]>>, <<4, s.ids[2]>>, <<4, s.ids[1]>>>>
         /\ s.cat = "GEN_SUBSYSTEM" => QueryName(s) =
              <<<<4, s.ids[2]>>, <<4, s.ids[1]>>, <<1, LetterS>>>>
         /\ s.cat = "CLASS" => QueryName(s) = <<<<2, s.ids[1]>>, <<1, LetterC>>>>
         /\ s.cat = "SUBCLASS" => QueryName(s) =
              <<<<2, s.ids[2]>>, <<2, s.ids[1]>>, <<1, LetterC>>>>
         /\ s.cat = "PROGIF" => QueryName(s) =
              <<<<2, s.ids[3]>>, <<2, s.ids[2]>>, <<2, s.ids[1]>>, <<1, LetterC>>>>
<1>1. s.cat = "VENDOR" => QueryName(s) = <<<<4, s.ids[1]>>>>
  BY DEF QueryName, Number4
<1>2. s.cat = "DEVICE" => QueryName(s) = <<<<4, s.ids[2]>>, <<4, s.ids[1]>>>>
  BY DEF QueryName, Number4
<1>3. s.cat = "SUBSYSTEM" => QueryName(s) =
        <<<<4, s.ids[4]>>, <<4, s.ids[3]>>, <<4, s.ids[2]>>, <<4, s.ids[1]>>>>
  BY DEF QueryName, Number4
<1>4. s.cat = "GEN_SUBSYSTEM" => QueryName(s) =
        <<<<4, s.ids[2]>>, <<4, s.ids[1]>>, <<1, LetterS>>>>
  BY DEF QueryName, Number4, Letter
<1>5. s.cat = "CLASS" => QueryName(s) = <<<<2, s.ids[1]>>, <<1, LetterC>>>>
  BY DEF QueryName, Number2, Letter
<1>6. s.cat = "SUBCLASS" => QueryName(s) =
        <<<<2, s.ids[2]>>, <<2, s.ids[1]>>, <<1, LetterC>>>>
  BY DEF QueryName, Number2, Letter
<1>7. s.cat = "PROGIF" => QueryName(s) =
        <<<<2, s.ids[3]>>, <<2, s.ids[2]>>, <<2, s.ids[1]>>, <<1, LetterC>>>>
  BY DEF QueryName, Number2, Letter
<1>8. QED
  BY <1>1, <1>2, <1>3, <1>4, <1>5, <1>6, <1>7

\* How long a name is, and the lengths of its first and its last label.
Shape(q) == <<Len(q), q[1][1], q[Len(q)][1]>>

\* Of tuples of one to four labels.
LEMMA ShapeOfTuple ==
  /\ \A a, x : Shape(<<<<a, x>>>>) = <<1, a, a>>
  /\ \A a, b, x, y : Shape(<<<<a, x>>, <<b, y>>>>) = <<2, a, b>>
  /\ \A a, b, c, x, y, z : Shape(<<<<a, x>>, <<b, y>>, <<c, z>>>>) = <<3, a, c>>
  /\ \A a, b, c, d, x, y, z, w :
       Shape(<<<<a, x>>, <<b, y>>, <<c, z>>, <<d, w>>>>) = <<4, a, d>>
<1>1. \A a, x : Shape(<<<<a, x>>>>) = <<1, a, a>>
  BY DEF Shape
<1>2. \A a, b, x, y : Shape(<<<<a, x>>, <<b, y>>>>) = <<2, a, b>>
  BY DEF Shape
<1>3. \A a, b, c, x, y, z : Shape(<<<<a, x>>, <<b, y>>, <<c, z>>>>) = <<3, a, c>>
  BY DEF Shape
<1>4. \A a, b, c, d, x, y, z, w :
        Shape(<<<<a, x>>, <<b, y>>, <<c, z>>, <<d, w>>>>) = <<4, a, d>>
  BY DEF Shape
<1>5. QED
  BY <1>1, <1>2, <1>3, <1>4

\* Equal tuples of labels have equal values in them.
LEMMA LabelsEqual ==
  /\ \A a, x, y : <<<<a, x>>>> = <<<<a, y>>>> => x = y
  /\ \A a, b, x1, x2, y1, y2 :
       <<<<a, x1>>, <<b, x2>>>> = <<<<a, y1>>, <<b, y2>>>> => x1 = y1 /\ x2 = y2
  /\ \A a, b, c, x1, x2, x3, y1, y2, y3 :
       <<<<a, x1>>, <<b, x2>>, <<c, x3>>>> = <<<<a, y1>>, <<b, y2>>, <<c, y3>>>>
         => x1 = y1 /\ x2 = y2 /\ x3 = y3
  /\ \A a, b, c, d, x1, x2, x3, x4, y1, y2, y3, y4 :
       <<<<a, x1>>, <<b, x2>>, <<c, x3>>, <<d, x4>>>>
         = <<<<a, y1>>, <<b, y2>>, <<c, y3>>, <<d, y4>>>>
         => x1 = y1 /\ x2 = y2 /\ x3 = y3 /\ x4 = y4
<1>0. \A a, x, y : <<a, x>> = <<a, y>> => x = y
  OBVIOUS
<1>1. \A a, x, y : <<<<a, x>>>> = <<<<a, y>>>> => x = y
  <2>1. \A u, v : <<u>> = <<v>> => u = v
    OBVIOUS
  <2>2. QED
    BY <1>0, <2>1, Zenon
<1>2. \A a, b, x1, x2, y1, y2 :
        <<<<a, x1>>, <<b, x2>>>> = <<<<a, y1>>, <<b, y2>>>> => x1 = y1 /\ x2 = y2
  <2>1. \A u1, u2, v1, v2 : <<u1, u2>> = <<v1, v2>> => u1 = v1 /\ u2 = v2
    OBVIOUS
  <2>2. QED
    BY <1>0, <2>1, Zenon
<1>3. \A a, b, c, x1, x2, x3, y1, y2, y3 :
        <<<<a, x1>>, <<b, x2>>, <<c, x3>>>> = <<<<a, y1>>, <<b, y2>>, <<c, y3>>>>
          => x1 = y1 /\ x2 = y2 /\ x3 = y3
  <2>1. \A u1, u2, u3, v1, v2, v3 :
          <<u1, u2, u3>> = <<v1, v2, v3>> => u1 = v1 /\ u2 = v2 /\ u3 = v3
    OBVIOUS
  <2>2. QED
    BY <1>0, <2>1, Zenon
<1>4. \A a, b, c, d, x1, x2, x3, x4, y1, y2, y3, y4 :
        <<<<a, x1>>, <<b, x2>>, <<c, x3>>, <<d, x4>>>>
          = <<<<a, y1>>, <<b, y2>>, <<c, y3>>, <<d, y4>>>>
          => x1 = y1 /\ x2 = y2 /\ x3 = y3 /\ x4 = y4
  <2> SUFFICES ASSUME NEW a, NEW b, NEW c, NEW d, NEW x1, NEW x2, NEW x3, NEW x4,
                      NEW y1, NEW y2, NEW y3, NEW y4,
                      <<<<a, x1>>, <<b, x2>>, <<c, x3>>, <<d, x4>>>>
                        = <<<<a, y1>>, <<b, y2>>, <<c, y3>>, <<d, y4>>>>
               PROVE  x1 = y1 /\ x2 = y2 /\ x3 = y3 /\ x4 = y4
    OBVIOUS
  <2>1. \A u1, u2, u3, u4, v1, v2, v3, v4 :
          <<u1, u2, u3, u4>> = <<v1, v2, v3, v4>>
            => u1 = v1 /\ u2 = v2 /\ u3 = v3 /\ u4 = v4
    OBVIOUS
  <2>2. <<a, x1>> = <<a, y1>> /\ <<b, x2>> = <<b, y2>>
        /\ <<c, x3>> = <<c, y3>> /\ <<d, x4>> = <<d, y4>>
    BY <2>1, Zenon
  <2>3. QED
    BY <1>0, <2>2, Zenon
<1>5. QED
  BY <1>1, <1>2, <1>3, <1>4

\* Each kind has a shape of its own.
LEMMA ShapeOfKind ==
  ASSUME NEW s
  PROVE  /\ s.cat = "VENDOR" => Shape(QueryName(s)) = <<1, 4, 4>>
         /\ s.cat = "DEVICE" => Shape(QueryName(s)) = <<2, 4, 4>>
         /\ s.cat = "SUBSYSTEM" => Shape(QueryName(s)) = <<4, 4, 4>>
         /\ s.cat = "GEN_SUBSYSTEM" => Shape(QueryName(s)) = <<3, 4, 1>>
         /\ s.cat = "CLASS" => Shape(QueryName(s)) = <<2, 2, 1>>
         /\ s.cat = "SUBCLASS" => Shape(QueryName(s)) = <<3, 2, 1>>
         /\ s.cat = "PROGIF" => Shape(QueryName(s)) = <<4, 2, 1>>
<1>1. s.cat = "VENDOR" => Shape(QueryName(s)) = <<1, 4, 4>>
  BY NameOfKind, ShapeOfTuple
<1>2. s.cat = "DEVICE" => Shape(QueryName(s)) = <<2, 4, 4>>
  BY NameOfKind, ShapeOfTuple
<1>3. s.cat = "SUBSYSTEM" => Shape(QueryName(s)) = <<4, 4, 4>>
  BY NameOfKind, ShapeOfTuple
<1>4. s.cat = "GEN_SUBSYSTEM" => Shape(QueryName(s)) = <<3, 4, 1>>
  BY NameOfKind, ShapeOfTuple
<1>5. s.cat = "CLASS" => Shape(QueryName(s)) = <<2, 2, 1>>
  BY NameOfKind, ShapeOfTuple
<1>6. s.cat = "SUBCLASS" => Shape(QueryName(s)) = <<3, 2, 1>>
  BY NameOfKind, ShapeOfTuple
<1>7. s.cat = "PROGIF" => Shape(QueryName(s)) = <<4, 2, 1>>
  BY NameOfKind, ShapeOfTuple
<1>8. QED
  BY <1>1, <1>2, <1>3, <1>4, <1>5, <1>6, <1>7

\* The categories that are looked up in the DNS.
Kinds == {"VENDOR", "DEVICE", "SUBSYSTEM", "GEN_SUBSYSTEM", "CLASS", "SUBCLASS", "PROGIF"}

\* The name tells the kind, and for one kind it tells the numbers.
LEMMA KindFromName ==
  ASSUME NEW s, NEW t, s.cat \in Kinds, t.cat \in Kinds, QueryName(s) = QueryName(t)
  PROVE  s.cat = t.cat
<1>1. Shape(QueryName(s)) = Shape(QueryName(t))
  OBVIOUS
<1>2. \A a, b, c, x, y, z : <<a, b, c>> = <<x, y, z>> => a = x /\ b = y /\ c = z
  OBVIOUS
<1>3. QED
  BY <1>1, ShapeOfKind DEF Kinds

\* What an identifier is: numbers it has no use for are 0.
LEMMA SubjectsTyped ==
  ASSUME NEW s \in Subjects
  PROVE  /\ s.cat \in Kinds /\ s.ids \in [1..4 -> Nat]
         /\ s = [cat |-> s.cat, ids |-> s.ids]
         /\ \A i \in 1..4 : i > Used(s.cat) => s.ids[i] = 0
BY SubjectAssumption DEF Kinds

LEMMA SameNumbers ==
  ASSUME NEW s \in Subjects, NEW t \in Subjects, s.cat = t.cat, QueryName(s) = QueryName(t)
  PROVE  s = t
<1>1. \A i \in 1..4 : i > Used(s.cat) => s.ids[i] = 0 /\ t.ids[i] = 0
  BY SubjectsTyped
<1>2. s.ids[1] = t.ids[1] /\ s.ids[2] = t.ids[2] /\ s.ids[3] = t.ids[3] /\ s.ids[4] = t.ids[4]
  <2>1. CASE s.cat = "VENDOR"
    <3>1. <<<<4, s.ids[1]>>>>
            = <<<<4, t.ids[1]>>>>
      <4>1. QueryName(s) = <<<<4, s.ids[1]>>>>
        BY <2>1, NameOfKind, Zenon
      <4>2. QueryName(t) = <<<<4, t.ids[1]>>>>
        BY <2>1, NameOfKind, Zenon
      <4>3. QED
        BY <4>1, <4>2, Zenon
    <3>2. s.ids[1] = t.ids[1]
      BY <3>1, LabelsEqual, Zenon
    <3>3. Used(s.cat) = 1
      BY <2>1 DEF Used
    <3>4. QED
      BY <1>1, <3>2, <3>3
  <2>2. CASE s.cat = "DEVICE"
    <3>1. <<<<4, s.ids[2]>>, <<4, s.ids[1]>>>>
            = <<<<4, t.ids[2]>>, <<4, t.ids[1]>>>>
      <4>1. QueryName(s) = <<<<4, s.ids[2]>>, <<4, s.ids[1]>>>>
        BY <2>2, NameOfKind, Zenon
      <4>2. QueryName(t) = <<<<4, t.ids[2]>>, <<4, t.ids[1]>>>>
        BY <2>2, NameOfKind, Zenon
      <4>3. QED
        BY <4>1, <4>2, Zenon
    <3>2. s.ids[1] = t.ids[1] /\ s.ids[2] = t.ids[2]
      BY <3>1, LabelsEqual, Zenon
    <3>3. Used(s.cat) = 2
      BY <2>2 DEF Used
    <3>4. QED
      BY <1>1, <3>2, <3>3
  <2>3. CASE s.cat = "SUBSYSTEM"
    <3>1. <<<<4, s.ids[4]>>, <<4, s.ids[3]>>, <<4, s.ids[2]>>, <<4, s.ids[1]>>>>
            = <<<<4, t.ids[4]>>, <<4, t.ids[3]>>, <<4, t.ids[2]>>, <<4, t.ids[1]>>>>
      <4>1. QueryName(s) = <<<<4, s.ids[4]>>, <<4, s.ids[3]>>, <<4, s.ids[2]>>, <<4, s.ids[1]>>>>
        BY <2>3, NameOfKind, Zenon
      <4>2. QueryName(t) = <<<<4, t.ids[4]>>, <<4, t.ids[3]>>, <<4, t.ids[2]>>, <<4, t.ids[1]>>>>
        BY <2>3, NameOfKind, Zenon
      <4>3. QED
        BY <4>1, <4>2, Zenon
    <3>2. s.ids[1] = t.ids[1] /\ s.ids[2] = t.ids[2] /\ s.ids[3] = t.ids[3] /\ s.ids[4] = t.ids[4]
      BY <3>1, LabelsEqual, Zenon
    <3>3. QED
      BY <3>2
  <2>4. CASE s.cat = "GEN_SUBSYSTEM"
    <3>1. <<<<4, s.ids[2]>>, <<4, s.ids[1]>>, <<1, LetterS>>>>
            = <<<<4, t.ids[2]>>, <<4, t.ids[1]>>, <<1, LetterS>>>>
      <4>1. QueryName(s) = <<<<4, s.ids[2]>>, <<4, s.ids[1]>>, <<1, LetterS>>>>
        BY <2>4, NameOfKind, Zenon
      <4>2. QueryName(t) = <<<<4, t.ids[2]>>, <<4, t.ids[1]>>, <<1, LetterS>>>>
        BY <2>4, NameOfKind, Zenon
      <4>3. QED
        BY <4>1, <4>2, Zenon
    <3>2. s.ids[1] = t.ids[1] /\ s.ids[2] = t.ids[2]
      BY <3>1, LabelsEqual, Zenon
    <3>3. Used(s.cat) = 2
      BY <2>4 DEF Used
    <3>4. QED
      BY <1>1, <3>2, <3>3
  <2>5. CASE s.cat = "CLASS"
    <3>1. <<<<2, s.ids[1]>>, <<1, LetterC>>>>
            = <<<<2, t.ids[1]>>, <<1, LetterC>>>>
      <4>1. QueryName(s) = <<<<2, s.ids[1]>>, <<1, LetterC>>>>
        BY <2>5, NameOfKind, Zenon
      <4>2. QueryName(t) = <<<<2, t.ids[1]>>, <<1, LetterC>>>>
        BY <2>5, NameOfKind, Zenon
      <4>3. QED
        BY <4>1, <4>2, Zenon
    <3>2. s.ids[1] = t.ids[1]
      BY <3>1, LabelsEqual, Zenon
    <3>3. Used(s.cat) = 1
      BY <2>5 DEF Used
    <3>4. QED
      BY <1>1, <3>2, <3>3
  <2>6. CASE s.cat = "SUBCLASS"
    <3>1. <<<<2, s.ids[2]>>, <<2, s.ids[1]>>, <<1, LetterC>>>>
            = <<<<2, t.ids[2]>>, <<2, t.ids[1]>>, <<1, LetterC>>>>
      <4>1. QueryName(s) = <<<<2, s.ids[2]>>, <<2, s.ids[1]>>, <<1, LetterC>>>>
        BY <2>6, NameOfKind, Zenon
      <4>2. QueryName(t) = <<<<2, t.ids[2]>>, <<2, t.ids[1]>>, <<1, LetterC>>>>
        BY <2>6, NameOfKind, Zenon
      <4>3. QED
        BY <4>1, <4>2, Zenon
    <3>2. s.ids[1] = t.ids[1] /\ s.ids[2] = t.ids[2]
      BY <3>1, LabelsEqual, Zenon
    <3>3. Used(s.cat) = 2
      BY <2>6 DEF Used
    <3>4. QED
      BY <1>1, <3>2, <3>3
  <2>7. CASE s.cat = "PROGIF"
    <3>1. <<<<2, s.ids[3]>>, <<2, s.ids[2]>>, <<2, s.ids[1]>>, <<1, LetterC>>>>
            = <<<<2, t.ids[3]>>, <<2, t.ids[2]>>, <<2, t.ids[1]>>, <<1, LetterC>>>>
      <4>1. QueryName(s) = <<<<2, s.ids[3]>>, <<2, s.ids[2]>>, <<2, s.ids[1]>>, <<1, LetterC>>>>
        BY <2>7, NameOfKind, Zenon
      <4>2. QueryName(t) = <<<<2, t.ids[3]>>, <<2, t.ids[2]>>, <<2, t.ids[1]>>, <<1, LetterC>>>>
        BY <2>7, NameOfKind, Zenon
      <4>3. QED
        BY <4>1, <4>2, Zenon
    <3>2. s.ids[1] = t.ids[1] /\ s.ids[2] = t.ids[2] /\ s.ids[3] = t.ids[3]
      BY <3>1, LabelsEqual, Zenon
    <3>3. Used(s.cat) = 3
      BY <2>7 DEF Used
    <3>4. QED
      BY <1>1, <3>2, <3>3
  <2>8. s.cat \in Kinds
    BY SubjectsTyped
  <2>9. QED
    BY <2>1, <2>2, <2>3, <2>4, <2>5, <2>6, <2>7, <2>8 DEF Kinds
<1>3. \A i \in 1..4 : i = 1 \/ i = 2 \/ i = 3 \/ i = 4
  OBVIOUS
<1>4. s.ids = t.ids
  <2>1. s.ids \in [1..4 -> Nat] /\ t.ids \in [1..4 -> Nat]
    BY SubjectsTyped
  <2>2. \A i \in 1..4 : s.ids[i] = t.ids[i]
    BY <1>2, <1>3
  <2>3. QED
    BY <2>1, <2>2
<1>5. QED
  BY <1>4, SubjectsTyped

\* The question identifies its subject.
LEMMA AskedInv ==
  WalkInv => QuestionIsIdentity
<1> SUFFICES ASSUME WalkInv, dns = "ask", NEW s \in Subjects, QueryName(s) = QueryName(subject)
             PROVE  s = subject
  BY DEF QuestionIsIdentity
<1>1. subject \in Subjects
  BY DEF WalkInv
<1>2. s.cat = subject.cat
  BY <1>1, SubjectsTyped, KindFromName
<1>3. QED
  BY <1>1, <1>2, SameNumbers

\* Every step keeps the invariant.
LEMMA WalkInvNext ==
  WalkInv /\ [NetNext]_netVars => WalkInv'
<1> SUFFICES ASSUME WalkInv, [NetNext]_netVars PROVE WalkInv'
  OBVIOUS
<1>1. CASE NetLookup
  <2>1. /\ dns' \in {"ask", "done"} /\ subject' \in Subjects
        /\ bytes' = bytes /\ pos' = 0 /\ starts' = <<>>
    BY <1>1 DEF NetLookup, WalkInv
  <2>2. (pos <= Len(bytes) /\ InOrder(Len(bytes)))'
    <3>1. Len(bytes) \in Nat
      BY BytesLen DEF WalkInv
    <3>2. QED
      BY <2>1, <3>1, EmptySeq DEF InOrder
  <2>3. QED
    BY <2>1, <2>2 DEF WalkInv
<1>2. CASE UNCHANGED netVars
  BY <1>2, HopsStay DEF netVars, WalkInv, FirstWalk, SecondWalk, InRecord, InOrder
<1>3. QED
  BY <1>1, <1>2, QueryKeeps, RecordKeeps, SectionKeeps, ReadKeeps, TextKeeps DEF NetNext

\* For any packet, damaged or cut off in any place: no two identifiers are asked
\* for by one name, every position that the two walks of pci_id_net_lookup() read
\* at lies in the packet, and the second walk, which does not check how long the
\* data of a record are, finds exactly records that the first has checked
\* (dns_parse_packet(), dns_parse_rr()).
THEOREM WalksStayInside ==
  NetSpec => [](QuestionIsIdentity /\ WalkInside)
<1>1. NetSpec => []WalkInv
  BY WalkInvInit, WalkInvNext, PTL DEF NetSpec
<1>2. QED
  BY <1>1, AskedInv, WalkInvImplies, PTL
=============================================================================
