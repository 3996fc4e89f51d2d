--------------------------- MODULE RegistersProofs ---------------------------
(***************************************************************************)
(* Proofs about the dump back-end, setpci and a client with its cache, for *)
(* any dump, any devices, any command line and any accesses.               *)
(***************************************************************************)
EXTENDS Setpci, ConfigCache, FiniteSetTheorems, FunctionTheorems, SequenceTheorems,
        WellFoundedInduction, TLAPS

----------------------------------------------------------------------------
(***************************************************************************)
(* The dump.                                                               *)
(***************************************************************************)
IsSeq(s) == s \in Seq(Range(s))

\* What dump_init() is given: lines, those of bytes with a position.
IsFile(f) ==
  /\ IsSeq(f)
  /\ \A j \in DOMAIN f : f[j].kind = "bytes" => f[j].at \in Nat /\ IsSeq(f[j].bytes)

\* The lines that have been taken, the number of the device of a line, and what
\* has been stored of a line.
Taken == Len(file) - Len(lines)
IsSlot(i) == file[i].kind = "slot"
Slots(i) == {j \in 1..i : IsSlot(j)}
Number(i) == Cardinality(Slots(i))
Left(j) == IF j = Taken THEN Len(bytes) ELSE 0
HeldOf(j) == file[j].at .. file[j].at + Len(file[j].bytes) - Left(j) - 1
OwnedBy(i) == {j \in Owned(i) : j <= Taken}
Open(i) == \A k \in i + 1 .. Taken : file[k].kind \notin {"slot", "empty"}

BufferOK(d) ==
  /\ d \in [fn : {d.fn}, data : {d.data}, len : Nat, allocated : {256, 4096}]
  /\ DOMAIN d.data \subseteq 0 .. d.allocated - 1
  /\ d.len <= d.allocated
  /\ d.len = 0 => DOMAIN d.data = {}
  /\ d.len # 0 => d.len - 1 \in DOMAIN d.data /\ DOMAIN d.data \subseteq 0 .. d.len - 1

\* A device has what has been stored of its lines, the last one where they
\* overlap.
IsFrom(d, i) ==
  /\ d.fn = file[i].fn
  /\ \A j \in OwnedBy(i) : HeldOf(j) \subseteq DOMAIN d.data
  /\ \A x \in DOMAIN d.data : \E j \in OwnedBy(i) :
       /\ x \in HeldOf(j) /\ d.data[x] = file[j].bytes[x - file[j].at + 1]
       /\ \A l \in OwnedBy(i) : x \in HeldOf(l) => l <= j

\* Where the current line has been read to.
InLine(l) ==
  /\ l.kind = "bytes" /\ Len(bytes) <= Len(l.bytes)
  /\ bytes = SubSeq(l.bytes, Len(l.bytes) - Len(bytes) + 1, Len(l.bytes))
  /\ where = l.at + Len(l.bytes) - Len(bytes)

Progress ==
  /\ IsSeq(bytes) /\ Len(lines) \in 0..Len(file)
  /\ lines = SubSeq(file, Taken + 1, Len(file))
  /\ bytes # <<>> => Taken # 0 /\ within /\ InLine(file[Taken])
  /\ within \in BOOLEAN
  /\ within <=> \E i \in Slots(Taken) : Open(i)

DumpInv ==
  /\ IsFile(file) /\ Progress
  /\ IsSeq(dumped) /\ Len(dumped) = Number(Taken)
  /\ \A k \in DOMAIN dumped : BufferOK(dumped[k])
  /\ \A i \in Slots(Taken) : IsFrom(dumped[Number(i)], i)

----------------------------------------------------------------------------
\* The number of a line with an address, and that of its successor.
LEMMA NumberNat ==
  ASSUME NEW i \in Nat
  PROVE  IsFiniteSet(Slots(i)) /\ Number(i) \in Nat
<1>1. IsFiniteSet(1..i)
  BY FS_Interval
<1>2. IsFiniteSet(Slots(i))
  BY <1>1, FS_Subset DEF Slots
<1>3. QED
  BY <1>2, FS_CardinalityType DEF Number

LEMMA NumberStep ==
  ASSUME NEW i \in Nat
  PROVE  /\ Slots(i + 1) = IF IsSlot(i + 1) THEN Slots(i) \cup {i + 1} ELSE Slots(i)
         /\ Number(i + 1) = IF IsSlot(i + 1) THEN Number(i) + 1 ELSE Number(i)
<1>1. Slots(i + 1) = IF IsSlot(i + 1) THEN Slots(i) \cup {i + 1} ELSE Slots(i)
  BY DEF Slots
<1>2. i + 1 \notin Slots(i)
  BY DEF Slots
<1>3. Cardinality(Slots(i) \cup {i + 1}) = Cardinality(Slots(i)) + 1
  BY <1>2, NumberNat, FS_AddElement
<1>4. QED
  BY <1>1, <1>3 DEF Number

\* Later lines with an address have higher numbers.
LEMMA NumberRises ==
  ASSUME NEW i \in Nat, NEW k \in Nat, i <= k
  PROVE  /\ Number(i) <= Number(k)
         /\ Number(i) = Number(k) <=> \A j \in i + 1 .. k : ~IsSlot(j)
<1>1. Slots(i) \subseteq Slots(k)
  BY DEF Slots
<1>2. /\ Number(i) <= Number(k) /\ (Number(i) = Number(k) => Slots(i) = Slots(k))
  BY <1>1, NumberNat, FS_Subset DEF Number
<1>3. Slots(i) = Slots(k) <=> \A j \in i + 1 .. k : ~IsSlot(j)
  <2>1. \A j \in i + 1 .. k : j \notin 1..i /\ j \in 1..k
    OBVIOUS
  <2>2. \A j \in 1..k : j \in 1..i \/ j \in i + 1 .. k
    OBVIOUS
  <2>3. QED
    BY <1>1, <2>1, <2>2 DEF Slots
<1>4. QED
  BY <1>2, <1>3 DEF Number

\* A line with an address has a device.
LEMMA HasNumber ==
  ASSUME NEW n \in Nat, NEW i \in Slots(n)
  PROVE  i \in 1..n /\ IsSlot(i) /\ Number(i) \in 1..Number(n)
<1>1. i \in 1..n /\ IsSlot(i)
  BY DEF Slots
<1>2. Number(i) = Number(i - 1) + 1 /\ Number(i - 1) \in Nat
  <2>1. i - 1 \in Nat /\ (i - 1) + 1 = i
    BY <1>1
  <2>2. QED
    BY <1>1, <2>1, NumberStep, NumberNat
<1>3. Number(i) <= Number(n) /\ Number(n) \in Nat
  BY <1>1, NumberRises, NumberNat
<1>4. QED
  BY <1>1, <1>2, <1>3

\* Store() puts one byte into the buffer and keeps all others.
LEMMA StoreKeeps ==
  ASSUME NEW d, BufferOK(d), where \in Nat, where < 4096, NEW byte
  PROVE  LET e == Store(d, byte)
         IN /\ BufferOK(e) /\ e.fn = d.fn
            /\ DOMAIN e.data = DOMAIN d.data \cup {where}
            /\ e.data[where] = byte
            /\ \A x \in DOMAIN d.data : x # where => e.data[x] = d.data[x]
<1> DEFINE grows == where >= d.allocated
           kept == IF grows THEN [x \in DOMAIN d.data \cap 0..255 |-> d.data[x]]
                   ELSE d.data
           new == [x \in DOMAIN kept \cup {where} |->
                     IF x = where THEN byte ELSE kept[x]]
           was == IF grows THEN 0 ELSE d.len
           len == IF where >= was THEN where + 1 ELSE was
           e == [fn |-> d.fn, data |-> new, len |-> len,
                 allocated |-> IF grows THEN 4096 ELSE d.allocated]
<1>1. Store(d, byte) = e
  BY DEF Store, Stored
<1>2. grows => d.allocated = 256
  BY DEF BufferOK
<1>3. DOMAIN kept = DOMAIN d.data /\ \A x \in DOMAIN d.data : kept[x] = d.data[x]
  <2>1. CASE grows
    <3>1. DOMAIN d.data \subseteq 0..255
      BY <1>2, <2>1 DEF BufferOK
    <3>2. QED
      BY <2>1, <3>1
  <2>2. QED
    BY <2>1
<1>4. /\ DOMAIN new = DOMAIN d.data \cup {where} /\ new[where] = byte
      /\ \A x \in DOMAIN d.data : x # where => new[x] = d.data[x]
  <2> HIDE DEF kept
  <2>1. QED
    BY <1>3
<1>5. BufferOK(e)
  <2> HIDE DEF kept, new
  <2>1. e.data = new /\ e.len = len /\ e.allocated \in {256, 4096} /\ e.fn = d.fn
    BY DEF BufferOK
  <2>2. /\ DOMAIN d.data \subseteq Int /\ d.len \in Nat /\ where \in Nat
        /\ d.len <= d.allocated
        /\ \A x \in DOMAIN d.data : x < d.len /\ x >= 0
    BY DEF BufferOK
  <2>3. len \in Nat /\ len >= where + 1 /\ len >= d.len /\ len \in {d.len, where + 1}
    BY <1>2, <2>2 DEF BufferOK
  <2>4. len - 1 \in DOMAIN new /\ DOMAIN new \subseteq 0 .. len - 1 /\ len # 0
    BY <1>4, <2>2, <2>3 DEF BufferOK
  <2>5. len <= e.allocated
    BY <1>2, <2>2, <2>3 DEF BufferOK
  <2>6. e.allocated \in Nat
    BY <2>1
  <2>7. QED
    BY <1>4, <2>1, <2>3, <2>4, <2>5, <2>6 DEF BufferOK
<1>6. QED
  BY <1>1, <1>4, <1>5

AppendsOne(s, x) ==
  /\ IsSeq(Append(s, x)) /\ Len(Append(s, x)) = Len(s) + 1
  /\ \A k \in DOMAIN s : k \in DOMAIN Append(s, x) /\ Append(s, x)[k] = s[k]
  /\ Append(s, x)[Len(s) + 1] = x
  /\ \A k \in DOMAIN Append(s, x) : k \in DOMAIN s \/ k = Len(s) + 1

\* One more element.
LEMMA AppendAdds ==
  ASSUME NEW s, IsSeq(s), NEW x
  PROVE  AppendsOne(s, x)
<1> DEFINE S == Range(s) \cup {x}
           r == Append(s, x)
<1>1. s \in Seq(S) /\ x \in S
  BY SeqMonotonic DEF IsSeq
<1> HIDE DEF S
<1>2. /\ r \in Seq(S) /\ Len(r) = Len(s) + 1 /\ r[Len(s) + 1] = x
      /\ \A k \in 1..Len(s) : r[k] = s[k]
  BY <1>1, AppendProperties
<1>3. DOMAIN s = 1..Len(s) /\ DOMAIN r = 1..Len(s) + 1 /\ Len(s) \in Nat
  BY <1>1, <1>2, LenProperties
<1> HIDE DEF r
<1>4. r \in Seq(Range(r))
  BY <1>2, SeqOfRange
<1>5. QED
  BY <1>2, <1>3, <1>4 DEF AppendsOne, IsSeq, r

\* An element is replaced.
LEMMA ExceptKeeps ==
  ASSUME NEW s, IsSeq(s), NEW n \in DOMAIN s, NEW v
  PROVE  /\ IsSeq([s EXCEPT ![n] = v]) /\ Len([s EXCEPT ![n] = v]) = Len(s)
         /\ DOMAIN [s EXCEPT ![n] = v] = DOMAIN s
         /\ [s EXCEPT ![n] = v][n] = v
         /\ \A k \in DOMAIN s : k # n => [s EXCEPT ![n] = v][k] = s[k]
<1> DEFINE S == Range(s) \cup {v}
           r == [s EXCEPT ![n] = v]
<1>1. s \in Seq(S) /\ v \in S
  BY SeqMonotonic DEF IsSeq
<1> HIDE DEF S
<1>2. DOMAIN s = 1..Len(s)
  BY <1>1, LenProperties
<1>3. r \in Seq(S) /\ Len(r) = Len(s)
  BY <1>1, <1>2, ExceptSeq
<1>4. DOMAIN r = DOMAIN s /\ r[n] = v /\ \A k \in DOMAIN s : k # n => r[k] = s[k]
  OBVIOUS
<1> HIDE DEF r
<1>5. IsSeq(r)
  BY <1>3, SeqOfRange DEF IsSeq
<1>6. QED
  BY <1>3, <1>4, <1>5 DEF r

----------------------------------------------------------------------------
\* What is left of a list when the first t elements have been taken.
IsRest(rest, s, t) ==
  /\ Len(rest) \in 0..Len(s) /\ t = Len(s) - Len(rest)
  /\ rest = SubSeq(s, t + 1, Len(s))

LEMMA NextOf ==
  ASSUME NEW s, IsSeq(s), NEW rest, rest # <<>>, NEW t, IsRest(rest, s, t)
  PROVE  /\ Len(s) \in Nat /\ t \in Nat /\ t < Len(s)
         /\ rest[1] = s[t + 1]
         /\ Tail(rest) = SubSeq(s, t + 2, Len(s))
         /\ Len(Tail(rest)) = Len(rest) - 1
<1> DEFINE S == Range(s)
           n == Len(s)
<1>1. s \in Seq(S) /\ n \in Nat /\ Len(rest) \in Nat /\ t \in 0..n
  <2>1. s \in Seq(S) /\ n \in Nat
    BY LenProperties DEF IsSeq
  <2>2. Len(rest) \in 0..n /\ t = n - Len(rest)
    BY DEF IsRest
  <2>3. QED
    BY <2>1, <2>2
<1>r. rest = SubSeq(s, t + 1, n)
  BY DEF IsRest
<1>2. rest \in Seq(S) /\ Len(rest) = n - t
  <2>1. /\ SubSeq(s, t + 1, n) \in Seq(S)
        /\ Len(SubSeq(s, t + 1, n)) = n - t
    BY <1>1, SubSeqProperties
  <2>2. QED
    BY <1>r, <2>1
<1>3. Len(rest) # 0
  BY <1>2, EmptySeq
<1>4. t < n
  BY <1>1, <1>2, <1>3
<1> HIDE DEF S, n
<1>5. SubSeq(s, t + 1, n)[1] = s[t + 1]
  BY <1>1, <1>4, SubSeqProperties DEF n
<1>6. Tail(SubSeq(s, t + 1, n)) = SubSeq(s, t + 2, n)
  BY <1>1, <1>4, HeadTailOfSubSeq DEF n
<1>7. Len(Tail(rest)) = Len(rest) - 1
  BY <1>2, <1>3, HeadTailProperties
<1>8. QED
  BY <1>1, <1>r, <1>4, <1>5, <1>6, <1>7 DEF n

\* How the lines of a device and what is stored of them go on with a line.
LEMMA OwnedNext ==
  ASSUME IsFile(file), file' = file, Taken \in Nat, Taken' = Taken + 1,
         bytes = <<>>, NEW i \in 1..Taken
  PROVE  /\ OwnedBy(i)' = OwnedBy(i)
              \cup {j \in {Taken + 1} :
                      Taken < Len(file) /\ file[j].kind = "bytes" /\ Open(i)}
         /\ \A j \in OwnedBy(i) : HeldOf(j)' = HeldOf(j)
         /\ Open(i)' <=> Open(i) /\ file[Taken + 1].kind \notin {"slot", "empty"}
<1> DEFINE t == Taken + 1
           n == Len(file)
<1>1. n \in Nat /\ Len(bytes) = 0
  BY LenProperties, EmptySeq DEF IsFile, IsSeq
<1>2. Owned(i)' = Owned(i)
  BY DEF Owned
<1>3. t \in Owned(i) <=> t <= n /\ file[t].kind = "bytes" /\ Open(i)
  BY <1>1 DEF Owned, Open
<1>4. \A j \in Owned(i) : j \in Int
  BY <1>1 DEF Owned
<1>5. \A j \in OwnedBy(i) : Left(j) = 0 /\ Left(j)' = 0
  BY <1>1, <1>4 DEF OwnedBy, Left
<1>6. \A j \in OwnedBy(i) : HeldOf(j)' = HeldOf(j)
  BY <1>5 DEF HeldOf
<1>7. OwnedBy(i)' = OwnedBy(i) \cup {j \in {t} : t \in Owned(i)}
  BY <1>2, <1>4 DEF OwnedBy
<1>8. Open(i)' <=> Open(i) /\ file[t].kind \notin {"slot", "empty"}
  <2>1. \A k : k \in i + 1 .. t <=> k \in i + 1 .. Taken \/ k = t
    OBVIOUS
  <2>2. Open(i)' <=> \A k \in i + 1 .. t : file[k].kind \notin {"slot", "empty"}
    BY DEF Open
  <2>3. QED
    BY <2>1, <2>2 DEF Open
<1>9. QED
  BY <1>1, <1>3, <1>6, <1>7, <1>8

\* A line of the file is taken.
LEMMA LineKeeps ==
  ASSUME DumpInv, DumpLine
  PROVE  DumpInv'
<1>1. /\ IsFile(file) /\ file' = file /\ lines # <<>> /\ bytes = <<>>
      /\ lines' = Tail(lines)
  BY DEF DumpLine, DumpInv
<1>2. /\ Len(file) \in Nat /\ Taken \in Nat /\ Taken < Len(file)
      /\ lines[1] = file[Taken + 1]
      /\ lines' = SubSeq(file, Taken + 2, Len(file))
      /\ Len(lines') = Len(lines) - 1 /\ Len(lines) \in Nat
  <2>1. IsSeq(file) /\ Len(lines) \in 0..Len(file)
        /\ lines = SubSeq(file, Taken + 1, Len(file))
    BY DEF DumpInv, Progress, IsFile
  <2>2. /\ Len(file) \in Nat /\ Taken \in Nat /\ Taken < Len(file)
        /\ lines[1] = file[Taken + 1]
        /\ Tail(lines) = SubSeq(file, Taken + 2, Len(file))
        /\ Len(Tail(lines)) = Len(lines) - 1
    BY <1>1, <2>1, NextOf DEF Taken, IsRest
  <2>3. Len(lines) \in Nat
    BY <2>2 DEF DumpInv, Progress
  <2>4. QED
    BY <1>1, <2>2, <2>3
<1>t. PICK t \in Nat : t = Taken + 1
  BY <1>2
<1> DEFINE kind == file[t].kind
<1>3. /\ Taken' = t /\ Len(lines') \in 0..Len(file)
      /\ lines[1] = file[t] /\ lines' = SubSeq(file, t + 1, Len(file))
      /\ t \in 1..Len(file)
  <2>1. t + 1 = Taken + 2
    BY <1>2, <1>t
  <2>2. Taken' = t /\ Len(lines') \in 0..Len(file)
    BY <1>1, <1>2, <1>t DEF Taken
  <2>3. QED
    BY <1>2, <1>t, <2>1, <2>2
<1>4. \A i \in Nat : Slots(i)' = Slots(i) /\ Number(i)' = Number(i)
  BY <1>1 DEF Slots, Number, IsSlot
<1>5. /\ Slots(t) = IF kind = "slot" THEN Slots(Taken) \cup {t} ELSE Slots(Taken)
      /\ Number(t) = IF kind = "slot" THEN Number(Taken) + 1 ELSE Number(Taken)
      /\ Number(Taken) \in Nat
  BY <1>2, <1>t, NumberStep, NumberNat DEF IsSlot
<1>6. within' <=> \E i \in Slots(t)' : Open(i)'
  <2>1. \A i \in Slots(Taken) :
          Open(i)' <=> Open(i) /\ kind \notin {"slot", "empty"}
    BY <1>1, <1>2, <1>3, <1>t, HasNumber, OwnedNext
  <2>2. within <=> \E i \in Slots(Taken) : Open(i)
    BY DEF DumpInv, Progress
  <2>3. CASE kind = "slot"
    <3>1. Open(t)'
      BY <1>3 DEF Open
    <3>2. within' = TRUE
      BY <1>3, <2>3 DEF DumpLine, Slot
    <3>3. t \in Slots(t)'
      BY <1>2, <1>3, <1>4, <1>5, <2>3
    <3>4. QED
      BY <3>1, <3>2, <3>3
  <2>4. CASE kind # "slot"
    <3>1. Slots(t)' = Slots(Taken)
      BY <1>3, <1>4, <1>5, <2>4
    <3>2. CASE kind = "empty"
      <4>1. within' = FALSE
        BY <1>3, <3>2 DEF DumpLine
      <4>2. QED
        BY <2>1, <3>1, <3>2, <4>1
    <3>3. CASE kind # "empty"
      <4>1. within' = within
        BY <1>3, <2>4, <3>3 DEF DumpLine
      <4>2. QED
        BY <2>1, <2>2, <2>4, <3>1, <3>3, <4>1
    <3>4. QED
      BY <3>2, <3>3
  <2>5. QED
    BY <2>3, <2>4
<1>7. IF kind = "bytes" /\ within
        THEN bytes' = file[t].bytes /\ where' = file[t].at /\ within'
        ELSE bytes' = <<>>
  BY <1>1, <1>3 DEF DumpLine, Slot
<1>8. Progress'
  <2>1. kind = "bytes" => file[t].at \in Nat /\ IsSeq(file[t].bytes)
    BY <1>1, <1>3 DEF IsFile, IsSeq
  <2>2. IsSeq(bytes')
    <3>1. IsSeq(<<>>)
      BY DEF IsSeq
    <3>2. QED
      BY <1>7, <2>1, <3>1
  <2>3. ASSUME bytes' # <<>> PROVE t # 0 /\ within' /\ InLine(file[t])'
    <3>1. kind = "bytes" /\ bytes' = file[t].bytes /\ where' = file[t].at /\ within'
      BY <1>7, <2>3
    <3> DEFINE all == file[t].bytes
    <3>2. all \in Seq(Range(all)) /\ Len(all) \in Nat /\ file[t].at \in Nat
      BY <2>1, <3>1, LenProperties DEF IsSeq
    <3>3. all = SubSeq(all, 1, Len(all))
      BY <3>2, SubSeqFull
    <3> HIDE DEF all
    <3>4. Len(all) - Len(all) + 1 = 1 /\ file[t].at + Len(all) - Len(all) = file[t].at
      BY <3>2
    <3>5. QED
      BY <1>1, <1>3, <3>1, <3>2, <3>3, <3>4 DEF all, InLine
  <2>4. within' \in BOOLEAN
    <3>1. within \in BOOLEAN
      BY DEF DumpInv, Progress
    <3>2. within' \in {TRUE, FALSE, within}
      BY DEF DumpLine, Slot
    <3>3. QED
      BY <3>1, <3>2
  <2>5. QED
    BY <1>1, <1>3, <1>6, <2>2, <2>3, <2>4 DEF Progress
<1>9. /\ IsSeq(dumped') /\ Len(dumped') = Number(t)
      /\ \A k \in DOMAIN dumped' : BufferOK(dumped'[k])
      /\ \A k \in DOMAIN dumped : k \in DOMAIN dumped' /\ dumped'[k] = dumped[k]
      /\ kind = "slot" => /\ dumped'[Number(t)].fn = file[t].fn
                          /\ dumped'[Number(t)].data = <<>>
  <2>1. /\ IsSeq(dumped) /\ Len(dumped) = Number(Taken)
        /\ \A k \in DOMAIN dumped : BufferOK(dumped[k])
    BY DEF DumpInv
  <2>2. CASE kind = "slot"
    <3> DEFINE d == [fn |-> file[t].fn, data |-> <<>>, len |-> 0,
                     allocated |-> 256]
    <3>1. dumped' = Append(dumped, d)
      BY <1>3, <2>2 DEF DumpLine, Slot
    <3>2. BufferOK(d) /\ d.fn = file[t].fn /\ d.data = <<>>
      BY DEF BufferOK
    <3> HIDE DEF d
    <3>3. AppendsOne(dumped, d)
      BY <2>1, AppendAdds
    <3>4. QED
      BY <1>5, <2>1, <2>2, <3>1, <3>2, <3>3 DEF AppendsOne
  <2>3. CASE kind # "slot"
    <3>1. dumped' = dumped
      BY <1>3, <2>3 DEF DumpLine
    <3>2. QED
      BY <1>5, <2>1, <2>3, <3>1
  <2>4. QED
    BY <2>2, <2>3
<1>10. ASSUME NEW i \in Slots(t) PROVE IsFrom(dumped[Number(i)], i)'
  <2>1. CASE i = t /\ kind = "slot"
    <3>1. Number(i)' = Number(t)
      BY <1>4, <2>1
    <3>2. OwnedBy(i)' = {}
      BY <1>3, <2>1 DEF OwnedBy, Owned
    <3>3. /\ dumped'[Number(t)].fn = file'[t].fn
          /\ dumped'[Number(t)].data = <<>>
      BY <1>1, <1>9, <2>1, Zenon
    <3>4. QED
      BY <2>1, <3>1, <3>2, <3>3 DEF IsFrom
  <2>2. CASE i \in Slots(Taken)
    <3>1. i \in 1..Taken /\ i \in Nat /\ Number(i) \in 1..Number(Taken)
      BY <1>2, <2>2, HasNumber
    <3> DEFINE new == {j \in {t} : Taken < Len(file) /\ file[j].kind = "bytes"
                                  /\ Open(i)}
    <3>2. /\ OwnedBy(i)' = OwnedBy(i) \cup new
          /\ \A j \in OwnedBy(i) : HeldOf(j)' = HeldOf(j)
      BY <1>1, <1>2, <1>3, <1>t, <3>1, OwnedNext
    <3>3. ASSUME new # {} PROVE HeldOf(t)' = {}
      <4>1. kind = "bytes" /\ Open(i)
        BY <3>3
      <4>2. within
        BY <2>2, <4>1 DEF DumpInv, Progress
      <4>3. bytes' = file[t].bytes
        BY <1>7, <4>1, <4>2
      <4>4. file[t].at \in Nat /\ Len(file[t].bytes) \in Nat
        BY <1>1, <1>3, <4>1, LenProperties DEF IsFile, IsSeq
      <4>5. Left(t)' = Len(file[t].bytes)
        BY <1>3, <4>3 DEF Left
      <4>6. QED
        BY <1>1, <4>4, <4>5 DEF HeldOf
    <3>4. /\ Number(i)' = Number(i)
          /\ dumped'[Number(i)] = dumped[Number(i)]
      <4>1. Number(i) \in DOMAIN dumped
        BY <3>1, LenProperties DEF DumpInv, IsSeq
      <4>2. QED
        BY <1>4, <1>9, <3>1, <4>1, Zenon
    <3>5. IsFrom(dumped[Number(i)], i)
      BY <2>2 DEF DumpInv
    <3> DEFINE d == dumped[Number(i)]
    <3> HIDE DEF new
    <3>6. new \subseteq {t}
      BY DEF new
    <3>7. \A j \in OwnedBy(i)' : (j \in OwnedBy(i) /\ HeldOf(j)' = HeldOf(j))
                                  \/ HeldOf(j)' = {}
      BY <3>2, <3>3, <3>6
    <3>8. OwnedBy(i) \subseteq OwnedBy(i)'
      BY <3>2
    <3>9. (dumped[Number(i)])' = d
      BY <3>4
    <3> HIDE DEF d
    <3>10. IsFrom(d, i)
      BY <3>5 DEF d
    <3>11. \A j \in OwnedBy(i)' : HeldOf(j)' \subseteq DOMAIN d.data
      BY <3>7, <3>10 DEF IsFrom
    <3>12. \A x \in DOMAIN d.data : \E j \in OwnedBy(i)' :
             /\ x \in HeldOf(j)' /\ d.data[x] = file[j].bytes[x - file[j].at + 1]
             /\ \A l \in OwnedBy(i)' : x \in HeldOf(l)' => l <= j
      <4> TAKE x \in DOMAIN d.data
      <4>1. PICK j \in OwnedBy(i) :
              /\ x \in HeldOf(j) /\ d.data[x] = file[j].bytes[x - file[j].at + 1]
              /\ \A l \in OwnedBy(i) : x \in HeldOf(l) => l <= j
        BY <3>10 DEF IsFrom
      <4>2. QED
        BY <3>2, <3>7, <3>8, <4>1, Zenon
    <3>13. QED
      BY <1>1, <3>9, <3>10, <3>11, <3>12 DEF IsFrom
  <2>3. QED
    BY <1>5, <2>1, <2>2
<1>11. QED
  BY <1>1, <1>3, <1>4, <1>8, <1>9, <1>10 DEF DumpInv

\* A byte of a line is stored.
LEMMA ByteKeeps ==
  ASSUME DumpInv, DumpByte
  PROVE  DumpInv'
<1>1. /\ IsFile(file) /\ file' = file /\ lines' = lines /\ within' = within
      /\ bytes # <<>> /\ bytes' = Tail(bytes) /\ where' = where + 1
      /\ dumped' = [dumped EXCEPT ![Len(dumped)] = Store(@, bytes[1])]
      /\ where < 4096 /\ Progress
  BY DEF DumpByte, DumpInv, Current
<1>2. Len(file) \in Nat /\ Taken \in Nat /\ Taken \in 1..Len(file)
  <2>1. Len(file) \in Nat
    BY <1>1, LenProperties DEF IsFile, IsSeq
  <2>2. Len(lines) \in 0..Len(file) /\ (bytes # <<>> => Taken # 0)
    BY DEF DumpInv, Progress
  <2>3. QED
    BY <1>1, <2>1, <2>2 DEF Taken
<1>t. PICK t \in 1..Len(file) : t = Taken
  BY <1>2
<1> DEFINE all == file[t].bytes
           m == Len(all)
           n == Len(bytes)
           a == file[t].at
           p == m - n + 1
<1>3. Taken' = t /\ t \in Nat /\ Taken = t
  BY <1>1, <1>2, <1>t DEF Taken
<1>4. /\ file[t].kind = "bytes" /\ within = TRUE
      /\ bytes = SubSeq(all, p, m) /\ n <= m
      /\ where = a + m - n
      /\ a \in Nat /\ IsSeq(all) /\ m \in Nat
  <2>1. /\ file[t].kind = "bytes" /\ within = TRUE
        /\ bytes = SubSeq(all, p, m) /\ n <= m
        /\ where = a + m - n
    <3>1. within /\ InLine(file[Taken])
      BY <1>1 DEF Progress
    <3>2. within \in BOOLEAN
      BY <1>1 DEF Progress
    <3>3. QED
      BY <3>1, <3>2, <1>3 DEF InLine
  <2>2. a \in Nat /\ IsSeq(all)
    BY <1>1, <1>2, <2>1 DEF IsFile, IsSeq
  <2>3. QED
    BY <2>1, <2>2, LenProperties DEF IsSeq
<1>5. /\ n \in Nat /\ n # 0 /\ IsSeq(bytes') /\ Len(bytes') = n - 1
  <2>1. bytes \in Seq(Range(bytes)) /\ n \in Nat /\ n # 0
    BY <1>1, LenProperties, EmptySeq DEF Progress, IsSeq
  <2>2. Tail(bytes) \in Seq(Range(bytes)) /\ Len(Tail(bytes)) = n - 1
    BY <1>1, <2>1, HeadTailProperties
  <2>3. Tail(bytes) \in Seq(Range(Tail(bytes)))
    BY <2>2, SeqOfRange
  <2>4. QED
    BY <1>1, <2>1, <2>2, <2>3 DEF IsSeq
<1>6. bytes[1] = all[p] /\ bytes' = SubSeq(all, p + 1, m) /\ p \in 1..m
  <2> HIDE DEF all, m, n, a
  <2>1. p \in 1..m
    BY <1>4, <1>5
  <2> HIDE DEF p
  <2>2. all \in Seq(Range(all)) /\ m = Len(all)
    BY <1>4 DEF IsSeq, m
  <2>3. SubSeq(all, p, m)[1] = all[p]
    BY <1>4, <2>1, <2>2, SubSeqProperties
  <2>4. Tail(SubSeq(all, p, m)) = SubSeq(all, p + 1, m)
    BY <1>4, <2>1, <2>2, HeadTailOfSubSeq
  <2>5. QED
    BY <1>1, <1>4, <2>1, <2>3, <2>4
<1> HIDE DEF n
<1>7. where \in Nat /\ where = a + p - 1 /\ p + 1 = m - (n - 1) + 1
  BY <1>4, <1>5
<1>8. \A i \in Nat : Slots(i)' = Slots(i) /\ Number(i)' = Number(i)
  BY <1>1 DEF Slots, Number, IsSlot
<1>9. \A i : OwnedBy(i)' = OwnedBy(i) /\ Open(i)' = Open(i)
  BY <1>1, <1>3 DEF OwnedBy, Owned, Open
<1>10. /\ \A j : j # t => HeldOf(j)' = HeldOf(j)
       /\ HeldOf(t)' = HeldOf(t) \cup {where} /\ where \notin HeldOf(t)
  <2>1. \A j : j # t => Left(j)' = Left(j)
    BY <1>3 DEF Left
  <2>2. Left(t)' = n - 1 /\ Left(t) = n
    BY <1>3, <1>5 DEF Left, n
  <2>3. HeldOf(t)' = a .. a + m - (n - 1) - 1 /\ HeldOf(t) = a .. a + m - n - 1
    BY <1>1, <2>2 DEF HeldOf
  <2>4. a .. a + m - (n - 1) - 1 = (a .. a + m - n - 1) \cup {a + m - n}
    <3> HIDE DEF a, m
    <3>1. QED
      BY <1>4, <1>5
  <2>5. a + m - n \notin a .. a + m - n - 1
    <3> HIDE DEF a, m
    <3>1. QED
      BY <1>4, <1>5
  <2>6. \A j : j # t => HeldOf(j)' = HeldOf(j)
    BY <1>1, <2>1 DEF HeldOf
  <2>7. QED
    BY <1>4, <2>3, <2>4, <2>5, <2>6, Zenon
<1>11. Progress'
  <2>1. /\ Len(lines') \in 0..Len(file')
        /\ lines' = SubSeq(file', Taken' + 1, Len(file'))
    <3>1. Len(lines) \in 0..Len(file) /\ lines = SubSeq(file, Taken + 1, Len(file))
      BY DEF DumpInv, Progress
    <3>2. QED
      BY <1>1, <1>3, <3>1
  <2>2. t # 0 /\ within' /\ InLine(file[t])'
    <3>1. /\ n - 1 <= m /\ m - (n - 1) + 1 = p + 1 /\ t # 0
          /\ where + 1 = a + m - (n - 1)
      BY <1>4, <1>5
    <3> HIDE DEF p
    <3>2. /\ file'[t].kind = "bytes" /\ Len(bytes') <= Len(file'[t].bytes)
          /\ bytes' = SubSeq(file'[t].bytes, m - Len(bytes') + 1, m)
          /\ where' = file'[t].at + m - Len(bytes')
      <4> HIDE DEF m, a
      <4>1. file' = file /\ file[t].kind = "bytes" /\ where' = where + 1
        BY <1>1, <1>4
      <4>2. Len(file[t].bytes) = m /\ file[t].bytes = all /\ file[t].at = a
        BY DEF m, a
      <4>3. Len(bytes') = n - 1 /\ bytes' = SubSeq(all, p + 1, m)
        BY <1>5, <1>6
      <4> HIDE DEF all
      <4>4. QED
        BY <3>1, <4>1, <4>2, <4>3
    <3>3. m = Len(file'[t].bytes)
      BY <1>1
    <3>4. InLine(file[t])'
      BY <3>2, <3>3 DEF InLine
    <3>5. QED
      BY <1>1, <1>4, <3>1, <3>4
  <2>3. within' \in BOOLEAN
    BY <1>1, <1>4
  <2>4. within' <=> \E i \in Slots(Taken)' : Open(i)'
    <3>1. Slots(Taken)' = Slots(Taken)
      BY <1>3, <1>8
    <3>2. within <=> \E i \in Slots(Taken) : Open(i)
      BY <1>1 DEF Progress
    <3>3. QED
      BY <1>1, <1>9, <3>1, <3>2
  <2>5. QED
    BY <1>3, <1>5, <2>1, <2>2, <2>3, <2>4, Zenon DEF Progress
<1>12. PICK i0 \in Slots(t) : Open(i0)
  BY <1>1, <1>3, <1>4 DEF Progress
<1>13. i0 \in 1..t /\ IsSlot(i0) /\ i0 # t
  BY <1>3, <1>4, <1>12, HasNumber DEF IsSlot
<1>14. Number(i0) = Number(t) /\ t \in OwnedBy(i0)
  <2>1. \A j \in i0 + 1 .. t : ~IsSlot(j)
    BY <1>3, <1>12 DEF Open, IsSlot
  <2>2. Number(i0) = Number(t)
    BY <1>3, <1>13, <2>1, NumberRises
  <2>3. t \in OwnedBy(i0)
    BY <1>2, <1>3, <1>4, <1>12, <1>13 DEF OwnedBy, Owned, Open
  <2>4. QED
    BY <2>2, <2>3
<1>15. ASSUME NEW i \in Slots(t), i # i0
       PROVE  Number(i) # Number(t) /\ t \notin OwnedBy(i)
  <2>1. i \in 1..t /\ IsSlot(i)
    BY <1>3, HasNumber
  <2>2. i < i0
    BY <1>3, <1>12, <1>13, <1>15, <2>1 DEF Open, IsSlot
  <2>3. Number(i) # Number(i0)
    BY <1>13, <2>1, <2>2, NumberRises
  <2>4. t \notin OwnedBy(i)
    BY <1>13, <2>1, <2>2 DEF OwnedBy, Owned, IsSlot
  <2>5. QED
    BY <1>14, <2>3, <2>4
<1> DEFINE c == Number(t)
           d == dumped[c]
           e == Store(d, bytes[1])
<1>16. /\ c \in DOMAIN dumped /\ Len(dumped) = c
       /\ \A i \in Slots(t) : Number(i) \in DOMAIN dumped
       /\ BufferOK(d)
  <2>1. /\ IsSeq(dumped) /\ Len(dumped) = c
        /\ \A k \in DOMAIN dumped : BufferOK(dumped[k])
    BY <1>3 DEF DumpInv
  <2>2. DOMAIN dumped = 1..c
    BY <2>1, LenProperties DEF IsSeq
  <2>3. \A i \in Slots(t) : Number(i) \in 1..c
    BY <1>3, HasNumber
  <2>4. c \in DOMAIN dumped
    BY <1>12, <1>14, <2>2, <2>3
  <2>5. QED
    BY <2>1, <2>2, <2>3, <2>4
<1>17. /\ IsSeq(dumped') /\ Len(dumped') = c /\ DOMAIN dumped' = DOMAIN dumped
       /\ dumped'[c] = e
       /\ \A k \in DOMAIN dumped : k # c => dumped'[k] = dumped[k]
  <2> DEFINE S == Range(dumped) \cup {e}
  <2>1. dumped \in Seq(S) /\ e \in S
    BY SeqMonotonic DEF DumpInv, IsSeq
  <2> HIDE DEF S, c, e
  <2>2. dumped' = [dumped EXCEPT ![c] = e]
    BY <1>1, <1>16 DEF e
  <2>3. dumped' \in Seq(S) /\ Len(dumped') = c /\ DOMAIN dumped' = DOMAIN dumped
    BY <1>16, <2>1, <2>2, LenProperties, ExceptSeq
  <2>4. IsSeq(dumped')
    BY <2>3, SeqOfRange DEF IsSeq
  <2>5. QED
    BY <1>16, <2>2, <2>3, <2>4
<1>18. /\ BufferOK(e) /\ e.fn = d.fn
       /\ DOMAIN e.data = DOMAIN d.data \cup {where}
       /\ e.data[where] = bytes[1]
       /\ \A x \in DOMAIN d.data : x # where => e.data[x] = d.data[x]
  BY <1>1, <1>7, <1>16, StoreKeeps
<1>19. ASSUME NEW i \in Slots(t) PROVE IsFrom(dumped[Number(i)], i)'
  <2>1. IsFrom(dumped[Number(i)], i) /\ i \in Nat
    BY <1>3, HasNumber DEF DumpInv
  <2>2. Number(i)' = Number(i) /\ OwnedBy(i)' = OwnedBy(i)
    BY <1>8, <1>9, <2>1
  <2>3. CASE i # i0
    <3>1. dumped'[Number(i)] = dumped[Number(i)]
      BY <1>15, <1>16, <1>17, <2>3
    <3>2. \A j \in OwnedBy(i) : HeldOf(j)' = HeldOf(j)
      BY <1>10, <1>15, <2>3
    <3>3. PICK d0 : d0 = dumped[Number(i)]
      OBVIOUS
    <3>4. /\ d0.fn = file[i].fn
          /\ \A j \in OwnedBy(i) : HeldOf(j) \subseteq DOMAIN d0.data
          /\ \A x \in DOMAIN d0.data : \E j \in OwnedBy(i) :
               /\ x \in HeldOf(j) /\ d0.data[x] = file[j].bytes[x - file[j].at + 1]
               /\ \A l \in OwnedBy(i) : x \in HeldOf(l) => l <= j
      BY <2>1, <3>3, Zenon DEF IsFrom
    <3>5. dumped[Number(i)]' = d0
      BY <2>2, <3>1, <3>3
    <3> HIDE DEF c, d, e, all, m, a, p
    <3>6. \A x \in DOMAIN d0.data : \E j \in OwnedBy(i) :
             /\ x \in HeldOf(j)' /\ d0.data[x] = file[j].bytes[x - file[j].at + 1]
             /\ \A l \in OwnedBy(i) : x \in HeldOf(l)' => l <= j
      BY <3>2, <3>4
    <3>7. QED
      BY <1>1, <2>2, <3>2, <3>4, <3>5, <3>6 DEF IsFrom
  <2>4. CASE i = i0
    <3>1. dumped'[Number(i)] = e /\ dumped[Number(i)] = d
      BY <1>14, <1>17, <2>4
    <3> HIDE DEF d, e, all, m, a, p
    <3>2. IsFrom(d, i) /\ t \in OwnedBy(i)
      BY <1>14, <2>1, <2>4, <3>1
    <3>3. \A j \in OwnedBy(i) : HeldOf(j)' \subseteq DOMAIN e.data
      BY <1>10, <1>18, <3>2 DEF IsFrom
    <3>4. ASSUME NEW x \in DOMAIN e.data
          PROVE  \E j \in OwnedBy(i) :
                   /\ x \in HeldOf(j)'
                   /\ e.data[x] = file[j].bytes[x - file[j].at + 1]
                   /\ \A l \in OwnedBy(i) : x \in HeldOf(l)' => l <= j
      <4>1. CASE x = where
        <5>1. t \in OwnedBy(i) /\ x \in HeldOf(t)'
          BY <1>10, <3>2, <4>1
        <5>2. x - file[t].at + 1 = p
          <6>1. p \in Int /\ a \in Int
            BY <1>4, <1>6
          <6>2. QED
            BY <1>7, <4>1, <6>1 DEF a
        <5>3. e.data[x] = file[t].bytes[x - file[t].at + 1]
          BY <1>6, <1>18, <4>1, <5>2 DEF all
        <5>4. \A l \in OwnedBy(i) : l <= t
          BY <1>3 DEF OwnedBy
        <5>5. QED
          BY <5>1, <5>3, <5>4
      <4>2. CASE x # where
        <5>1. x \in DOMAIN d.data /\ e.data[x] = d.data[x]
          BY <1>18, <4>2
        <5>2. PICK j \in OwnedBy(i) :
                /\ x \in HeldOf(j)
                /\ d.data[x] = file[j].bytes[x - file[j].at + 1]
                /\ \A l \in OwnedBy(i) : x \in HeldOf(l) => l <= j
          BY <3>2, <5>1 DEF IsFrom
        <5>3. \A l : x \in HeldOf(l)' <=> x \in HeldOf(l)
          BY <1>10, <4>2
        <5>4. QED
          BY <5>1, <5>2, <5>3
      <4>3. QED
        BY <4>1, <4>2
    <3>5. e.fn = file[i].fn
      BY <1>18, <3>2 DEF IsFrom
    <3>6. QED
      BY <1>1, <2>2, <3>1, <3>3, <3>4, <3>5 DEF IsFrom
  <2>5. QED
    BY <2>3, <2>4
<1>20. QED
  BY <1>1, <1>3, <1>8, <1>11, <1>16, <1>17, <1>18, <1>19 DEF DumpInv

\* At first nothing has been taken.
LEMMA DumpStarts ==
  ASSUME NEW f, IsFile(f), DumpInit(f)
  PROVE  DumpInv
<1>1. /\ file = f /\ lines = f /\ bytes = <<>> /\ within = FALSE /\ dumped = <<>>
      /\ f \in Seq(Range(f)) /\ Len(f) \in Nat
  BY LenProperties DEF DumpInit, IsFile, IsSeq
<1>2. Taken = 0 /\ Slots(Taken) = {} /\ Number(Taken) = 0
  <2>1. Taken = 0
    BY <1>1 DEF Taken
  <2>2. Slots(0) = {}
    BY DEF Slots
  <2>3. Number(0) = 0
    BY <2>2, FS_EmptySet DEF Number
  <2>4. QED
    BY <2>1, <2>2, <2>3
<1>3. f = SubSeq(f, 1, Len(f))
  BY <1>1, SubSeqFull
<1>4. lines = SubSeq(file, Taken + 1, Len(file))
  <2>1. Taken + 1 = 1
    BY <1>2
  <2>2. QED
    BY <1>1, <1>3, <2>1
<1>5. IsSeq(<<>>) /\ Len(<<>>) = 0
  BY DEF IsSeq
<1>6. IsSeq(bytes) /\ Len(lines) \in 0..Len(file) /\ within = FALSE
  BY <1>1, <1>5
<1>7. Progress
  BY <1>1, <1>2, <1>4, <1>6, Zenon DEF Progress
<1>8. QED
  BY <1>1, <1>2, <1>5, <1>7 DEF DumpInv

\* The largest member of a set is the one that is not smaller than the others.
LEMMA MaxIs ==
  ASSUME NEW S \in SUBSET Int, NEW x \in S, \A y \in S : y <= x
  PROVE  Max(S) = x
<1>1. \A y \in S : (\A z \in S : y >= z) => y = x
  OBVIOUS
<1>2. \A z \in S : x >= z
  OBVIOUS
<1>3. (CHOOSE y \in S : \A z \in S : y >= z) = x
  BY <1>1, <1>2
<1>4. QED
  BY <1>3 DEF Max

\* The invariant is what is wanted.
LEMMA DumpIsRight ==
  ASSUME DumpInv
  PROVE  DumpRight
<1>1. DumpInside
  <2>1. SUFFICES ASSUME NEW k \in DOMAIN dumped
                 PROVE  /\ DOMAIN dumped[k].data \subseteq 0 .. dumped[k].allocated - 1
                        /\ dumped[k].len <= dumped[k].allocated
                        /\ dumped[k].len =
                              IF DOMAIN dumped[k].data = {} THEN 0
                              ELSE Max(DOMAIN dumped[k].data) + 1
    BY DEF DumpInside
  <2> DEFINE d == dumped[k]
  <2>2. BufferOK(d)
    BY DEF DumpInv
  <2> HIDE DEF d
  <2>3. d.len \in Nat
    BY <2>2 DEF BufferOK
  <2>4. CASE d.len = 0
    BY <2>2, <2>4 DEF BufferOK, d
  <2>5. CASE d.len # 0
    <3> DEFINE S == DOMAIN d.data
               n == d.len
    <3>1. n - 1 \in S /\ S \subseteq 0 .. n - 1
      BY <2>2, <2>5 DEF BufferOK
    <3> HIDE DEF S, n
    <3>2. Max(S) = n - 1
      BY <2>3, <3>1, MaxIs DEF n
    <3>3. n = Max(S) + 1 /\ S # {}
      BY <2>3, <3>1, <3>2 DEF n
    <3>4. QED
      BY <2>2, <3>3 DEF BufferOK, S, n, d
  <2>6. QED
    BY <2>4, <2>5
<1>2. ASSUME DumpDone PROVE DumpIsFile
  <2> DEFINE n == Len(file)
  <2>1. lines = <<>> /\ bytes = <<>> /\ file \in Seq(Range(file)) /\ n \in Nat
    BY <1>2, LenProperties DEF DumpDone, DumpInv, IsFile, IsSeq
  <2>2. Taken = n /\ Len(bytes) = 0 /\ DOMAIN file = 1..n
    BY <2>1, LenProperties, EmptySeq DEF Taken
  <2>3. SUFFICES ASSUME NEW i \in DOMAIN file, file[i].kind = "slot",
                        NEW d,
                        d = dumped[Cardinality({j \in 1..i : file[j].kind = "slot"})]
                 PROVE  /\ d.fn = file[i].fn
                        /\ DOMAIN d.data =
                             UNION {file[j].at .. file[j].at + Len(file[j].bytes) - 1 :
                                      j \in Owned(i)}
                        /\ \A x \in DOMAIN d.data :
                             LET j == Max({l \in Owned(i) : Covers(l, x)})
                             IN d.data[x] = file[j].bytes[x - file[j].at + 1]
    BY <1>2 DEF DumpIsFile
  <2>4. d = dumped[Number(i)]
    BY <2>3 DEF Number, Slots, IsSlot
  <2>5. i \in Slots(Taken)
    BY <2>1, <2>2, <2>3 DEF Slots, IsSlot
  <2>6. IsFrom(d, i)
    BY <2>4, <2>5 DEF DumpInv
  <2>7. OwnedBy(i) = Owned(i) /\ Owned(i) \subseteq Int
    BY <2>1, <2>2 DEF OwnedBy, Owned
  <2>8. \A j \in Owned(i) : file[j].at \in Nat /\ Len(file[j].bytes) \in Nat
    <3>1. \A j \in Owned(i) : j \in DOMAIN file /\ file[j].kind = "bytes"
      BY <2>1, <2>2 DEF Owned
    <3>2. \A j \in Owned(i) : file[j].at \in Nat /\ IsSeq(file[j].bytes)
      BY <3>1 DEF DumpInv, IsFile
    <3>3. QED
      BY <3>2, LenProperties DEF IsSeq
  <2>9. \A j \in Owned(i) :
          /\ HeldOf(j) = file[j].at .. file[j].at + Len(file[j].bytes) - 1
          /\ \A x : x \in HeldOf(j) <=> Covers(j, x)
    <3>1. \A j \in Owned(i) : Left(j) = 0
      BY <2>2 DEF Left
    <3>2. \A a \in Nat : \A m \in Nat : a + m - 0 - 1 = a + m - 1
      OBVIOUS
    <3>3. QED
      BY <2>8, <3>1, <3>2 DEF HeldOf, Covers
  <2>10. \A x \in DOMAIN d.data : \E j \in Owned(i) :
           /\ x \in HeldOf(j) /\ d.data[x] = file[j].bytes[x - file[j].at + 1]
           /\ \A l \in Owned(i) : x \in HeldOf(l) => l <= j
    BY <2>6, <2>7 DEF IsFrom
  <2>11. \A j \in Owned(i) : HeldOf(j) \subseteq DOMAIN d.data
    BY <2>6, <2>7 DEF IsFrom
  <2>12. DOMAIN d.data = UNION {HeldOf(j) : j \in Owned(i)}
    BY <2>10, <2>11
  <2>13. ASSUME NEW x \in DOMAIN d.data
         PROVE  LET j == Max({l \in Owned(i) : Covers(l, x)})
                IN d.data[x] = file[j].bytes[x - file[j].at + 1]
    <3>1. PICK j \in Owned(i) :
            /\ x \in HeldOf(j) /\ d.data[x] = file[j].bytes[x - file[j].at + 1]
            /\ \A l \in Owned(i) : x \in HeldOf(l) => l <= j
      BY <2>10
    <3> DEFINE S == {l \in Owned(i) : Covers(l, x)}
    <3>2. S \in SUBSET Int /\ j \in S /\ \A l \in S : l <= j
      BY <2>7, <2>9, <3>1
    <3> HIDE DEF S
    <3>3. Max(S) = j
      BY <3>2, MaxIs
    <3>4. QED
      BY <3>1, <3>3 DEF S
  <2>14. d.fn = file[i].fn
    BY <2>6 DEF IsFrom
  <2>15. UNION {HeldOf(j) : j \in Owned(i)} =
           UNION {file[j].at .. file[j].at + Len(file[j].bytes) - 1 : j \in Owned(i)}
    BY <2>9
  <2>16. QED
    BY <2>12, <2>13, <2>14, <2>15
<1>3. QED
  BY <1>1, <1>2 DEF DumpRight, DumpIsFile

\* Steps that leave the dump alone.
LEMMA DumpStays ==
  ASSUME DumpInv, UNCHANGED dumpVars
  PROVE  DumpInv'
<1>1. /\ file' = file /\ lines' = lines /\ bytes' = bytes /\ where' = where
      /\ within' = within /\ dumped' = dumped
  BY DEF dumpVars
<1>2. Taken' = Taken
  BY <1>1 DEF Taken
<1>3. \A i : Slots(i)' = Slots(i) /\ Number(i)' = Number(i)
  BY <1>1 DEF Slots, Number, IsSlot
<1>4. \A i : /\ OwnedBy(i)' = OwnedBy(i) /\ (Open(i)' <=> Open(i))
             /\ HeldOf(i)' = HeldOf(i)
  BY <1>1, <1>2 DEF OwnedBy, Owned, Open, HeldOf, Left
<1>5. \A d, i : IsFrom(d, i)' <=> IsFrom(d, i)
  BY <1>1, <1>4 DEF IsFrom
<1>6. \A l : InLine(l)' <=> InLine(l)
  BY <1>1 DEF InLine
<1>7. Slots(Taken)' = Slots(Taken) /\ Number(Taken)' = Number(Taken)
  BY <1>2, <1>3
<1>8. Progress' <=> Progress
  BY <1>1, <1>2, <1>4, <1>6, <1>7 DEF Progress
<1>9. \A i \in Slots(Taken) : IsFrom(dumped[Number(i)], i)'
  BY <1>1, <1>3, <1>5 DEF DumpInv
<1>10. QED
  BY <1>1, <1>2, <1>7, <1>8, <1>9 DEF DumpInv

----------------------------------------------------------------------------
(***************************************************************************)
(* Picked(): a sequence of the elements of the list that are in the set.   *)
(***************************************************************************)
\* Induction over the numbers.
LEMMA NatSetInduction ==
  ASSUME NEW S \in SUBSET Nat, 0 \in S, \A n \in S : n + 1 \in S
  PROVE  \A n \in Nat : n \in S
<1> DEFINE R == OpToRel(<, Nat)
           T == {n \in Nat : n \notin S}
<1>1. \A x, y \in Nat : <<x, y>> \in R <=> x < y
  BY DEF OpToRel
<1>2. IsWellFoundedOn(R, Nat)
  BY NatLessThanWellFounded
<1> HIDE DEF R
<1>3. SUFFICES ASSUME T # {} PROVE FALSE
  OBVIOUS
<1>4. PICK n \in T : \A m \in T : ~(<<m, n>> \in R)
  BY <1>2, <1>3, WFMin
<1>5. n # 0 /\ n - 1 \in Nat /\ n - 1 < n
  BY <1>4
<1>6. n - 1 \in S
  BY <1>1, <1>4, <1>5
<1>7. QED
  BY <1>4, <1>5, <1>6

IsPicked(f, list, S, n) ==
  f = [k \in 0..n |-> IF k = 0 THEN <<>>
                      ELSE IF list[k] \in S THEN Append(f[k - 1], list[k])
                      ELSE f[k - 1]]

\* There is such a function, though each value is defined from the last.
LEMMA PickedExists ==
  ASSUME NEW list, NEW S, NEW n \in Nat
  PROVE  \E f : IsPicked(f, list, S, n)
<1> DEFINE K == {k \in Nat : \E f : IsPicked(f, list, S, k)}
           val(f, k) == IF k = 0 THEN <<>>
                        ELSE IF list[k] \in S THEN Append(f[k - 1], list[k])
                        ELSE f[k - 1]
<1>1. 0 \in K
  <2> DEFINE g == [k \in 0..0 |-> <<>>]
  <2>1. \A k \in 0..0 : g[k] = val(g, k)
    OBVIOUS
  <2>2. g = [k \in 0..0 |-> val(g, k)]
    <3>1. g = [k \in 0..0 |-> g[k]]
      OBVIOUS
    <3> HIDE DEF g, val
    <3>2. QED
      BY <2>1, <3>1
  <2> HIDE DEF g
  <2>3. IsPicked(g, list, S, 0)
    BY <2>2, Zenon DEF IsPicked
  <2>4. QED
    BY <2>3
<1>2. ASSUME NEW n0 \in K PROVE n0 + 1 \in K
  <2>1. PICK f : IsPicked(f, list, S, n0)
    OBVIOUS
  <2> DEFINE g == [k \in 0 .. n0 + 1 |-> IF k = n0 + 1 THEN val(f, k) ELSE f[k]]
  <2>2. f = [k \in 0..n0 |-> val(f, k)]
    BY <2>1, Zenon DEF IsPicked
  <2> HIDE DEF val
  <2>3. \A k \in 0..n0 : f[k] = val(f, k)
    BY <2>2
  <2>4. \A k \in 0 .. n0 + 1 : k # 0 => g[k - 1] = f[k - 1]
    OBVIOUS
  <2>5. \A k \in 0 .. n0 + 1 : g[k] = val(f, k)
    <3>1. \A k \in 0 .. n0 + 1 : k = n0 + 1 \/ k \in 0..n0
      OBVIOUS
    <3>2. QED
      BY <2>3, <3>1
  <2>6. \A k \in 0 .. n0 + 1 : val(f, k) = val(g, k)
    BY <2>4 DEF val
  <2>7. g = [k \in 0 .. n0 + 1 |-> val(g, k)]
    <3>1. g = [k \in 0 .. n0 + 1 |-> g[k]]
      OBVIOUS
    <3> HIDE DEF g
    <3>2. QED
      BY <2>5, <2>6, <3>1
  <2> HIDE DEF g
  <2>8. IsPicked(g, list, S, n0 + 1)
    BY <2>7, Zenon DEF IsPicked, val
  <2>9. QED
    BY <2>8
<1>3. \A k \in Nat : k \in K
  <2>1. K \in SUBSET Nat
    OBVIOUS
  <2> HIDE DEF K
  <2>2. QED
    BY <1>1, <1>2, <2>1, NatSetInduction
<1>4. QED
  BY <1>3

\* Picked() keeps the elements of the list that are in the set, no others.
LEMMA PickedIs ==
  ASSUME NEW list, IsSeq(list), NEW S
  PROVE  /\ IsSeq(Picked(list, S)) /\ Len(Picked(list, S)) \in Nat
         /\ Range(Picked(list, S)) = Range(list) \cap S
<1> DEFINE n == Len(list)
           picked[k \in 0..Len(list)] ==
             IF k = 0 THEN <<>>
             ELSE IF list[k] \in S THEN Append(picked[k - 1], list[k])
             ELSE picked[k - 1]
           T == Range(list) \cap S
           upto(k) == {list[i] : i \in 1..k} \cap S
<1>1. n \in Nat /\ DOMAIN list = 1..n
  BY LenProperties DEF IsSeq
<1>2. Picked(list, S) = picked[n]
  BY Zenon DEF Picked
<1>3. picked = [k \in 0..n |-> IF k = 0 THEN <<>>
                       ELSE IF list[k] \in S THEN Append(picked[k - 1], list[k])
                       ELSE picked[k - 1]]
  <2>1. \E f : f = [k \in 0..Len(list) |-> IF k = 0 THEN <<>>
                       ELSE IF list[k] \in S THEN Append(f[k - 1], list[k])
                       ELSE f[k - 1]]
    <3>1. \E f : IsPicked(f, list, S, n)
      BY <1>1, PickedExists
    <3>2. QED
      BY <3>1, Zenon DEF IsPicked
  <2>2. QED
    BY <2>1, Zenon
<1> HIDE DEF picked
<1>4. /\ picked[0] = <<>>
      /\ \A k \in 0 .. n - 1 :
           picked[k + 1] = IF list[k + 1] \in S THEN Append(picked[k], list[k + 1])
                           ELSE picked[k]
  <2>1. \A k \in 0..n : picked[k] = IF k = 0 THEN <<>>
                       ELSE IF list[k] \in S THEN Append(picked[k - 1], list[k])
                       ELSE picked[k - 1]
    BY <1>3
  <2>2. \A k \in 0 .. n - 1 : k + 1 \in 0..n /\ k + 1 # 0 /\ (k + 1) - 1 = k
    BY <1>1
  <2>3. 0 \in 0..n
    BY <1>1
  <2> HIDE DEF n
  <2>4. QED
    BY <2>1, <2>2, <2>3
<1> DEFINE K == {k \in Nat : k <= n => /\ picked[k] \in Seq(upto(k))
                                      /\ Range(picked[k]) = upto(k)}
<1>5. 0 \in K
  <2>1. upto(0) = {}
    OBVIOUS
  <2>2. <<>> \in Seq({}) /\ Range(<<>>) = {}
    BY DEF Range
  <2>3. QED
    BY <1>4, <2>1, <2>2
<1>6. ASSUME NEW k \in K PROVE k + 1 \in K
  <2>1. SUFFICES ASSUME k + 1 <= n
                 PROVE  /\ picked[k + 1] \in Seq(upto(k + 1))
                        /\ Range(picked[k + 1]) = upto(k + 1)
    OBVIOUS
  <2>2. /\ picked[k] \in Seq(upto(k)) /\ Range(picked[k]) = upto(k)
        /\ k \in 0 .. n - 1
    BY <1>1, <2>1
  <2>3. upto(k + 1) = IF list[k + 1] \in S THEN upto(k) \cup {list[k + 1]} ELSE upto(k)
    <3>1. \A i : i \in 1 .. k + 1 <=> i \in 1..k \/ i = k + 1
      OBVIOUS
    <3>2. QED
      BY <3>1
  <2> HIDE DEF upto
  <2>4. CASE list[k + 1] \in S
    <3> DEFINE s == picked[k]
               x == list[k + 1]
               U == upto(k + 1)
    <3>1. s \in Seq(U) /\ x \in U
      BY <2>2, <2>3, <2>4, SeqMonotonic
    <3>2. picked[k + 1] = Append(s, x)
      BY <1>4, <2>2, <2>4
    <3>3. U = Range(s) \cup {x}
      BY <2>2, <2>3, <2>4
    <3> HIDE DEF s, x, U
    <3>4. /\ Append(s, x) \in Seq(U) /\ Len(Append(s, x)) = Len(s) + 1
          /\ Append(s, x)[Len(s) + 1] = x
          /\ \A i \in 1..Len(s) : Append(s, x)[i] = s[i]
      BY <3>1, AppendProperties
    <3>5. /\ DOMAIN Append(s, x) = 1 .. Len(s) + 1 /\ DOMAIN s = 1..Len(s)
          /\ Len(s) \in Nat
      BY <3>1, <3>4, LenProperties
    <3>6. Range(Append(s, x)) = Range(s) \cup {x}
      <4>1. \A i : i \in 1 .. Len(s) + 1 <=> i \in 1..Len(s) \/ i = Len(s) + 1
        BY <3>5
      <4>2. QED
        BY <3>4, <3>5, <4>1 DEF Range
    <3>7. QED
      BY <3>2, <3>3, <3>4, <3>6 DEF U
  <2>5. CASE list[k + 1] \notin S
    BY <1>4, <2>2, <2>3, <2>5
  <2>6. QED
    BY <2>4, <2>5
<1>7. n \in K
  <2>1. K \in SUBSET Nat
    OBVIOUS
  <2> HIDE DEF K
  <2>2. \A k \in Nat : k \in K
    BY <1>5, <1>6, <2>1, NatSetInduction
  <2>3. QED
    BY <1>1, <2>2
<1>8. upto(n) = T
  BY <1>1 DEF Range
<1>9. picked[n] \in Seq(T) /\ Range(picked[n]) = T
  BY <1>1, <1>7, <1>8
<1> HIDE DEF T
<1>10. Len(picked[n]) \in Nat /\ IsSeq(picked[n])
  BY <1>9, LenProperties DEF IsSeq
<1>11. QED
  BY <1>2, <1>9, <1>10 DEF T

----------------------------------------------------------------------------
(***************************************************************************)
(* Setpci.                                                                 *)
(***************************************************************************)
SetpciSpec(machines, files, commands) ==
  /\ SetpciInit(machines, files, commands)
  /\ [][SetpciStep]_<<setpciVars, machine, tree, method, space, dumpVars>>

\* No step of setpci but those of dump_init() touches the dump.
LEMMA DumpKeeps ==
  ASSUME DumpInv, [SetpciStep]_<<setpciVars, machine, tree, method, space, dumpVars>>
  PROVE  DumpInv'
<1>1. DumpLine \/ DumpByte \/ UNCHANGED dumpVars
  BY DEF SetpciStep, ParseOption, PciInit, ReadDump, ParseArg, ScanOps,
         NextGroup, BeginOp, ReadOp, WriteValue, unread
<1>2. QED
  BY <1>1, LineKeeps, ByteKeeps, DumpStays

\* For any files dump_init() may be given: what it has put together is what the
\* file says, the last line where lines overlap, and nothing is stored behind a
\* buffer, in whichever order positions and devices come.
THEOREM DumpIsKept ==
  ASSUME NEW machines, NEW files, NEW commands, \A f \in files : IsFile(f)
  PROVE  SetpciSpec(machines, files, commands) => []DumpRight
<1>1. SetpciInit(machines, files, commands) => DumpInv
  BY DumpStarts DEF SetpciInit
<1>2. DumpInv
      /\ [SetpciStep]_<<setpciVars, machine, tree, method, space, dumpVars>>
        => DumpInv'
  BY DumpKeeps
<1>3. DumpInv => DumpRight
  BY DumpIsRight
<1>4. QED
  BY <1>1, <1>2, <1>3, PTL DEF SetpciSpec

----------------------------------------------------------------------------
(***************************************************************************)
(* What setpci has understood of its command line when it begins to write. *)
(***************************************************************************)
Done == Len(argv) - Len(args)

\* What has been read has been understood, and -D is obeyed.
Heard(k) == Understood(argv[k]) /\ (argv[k].kind = "D" => set.demo)
AllHeard == \A k \in 1..Done : Heard(k)

ArgsInv ==
  /\ IsSeq(argv) /\ IsRest(args, argv, Done)
  /\ DOMAIN set = {"access", "demo", "raw"} /\ set.demo \in BOOLEAN
  /\ pc \in Stages \ {"scan"}
  /\ pc \in {"exec", "op"} => args = <<>>
  /\ pc \notin {"exit", "died"} => AllHeard

IsGroup(g) == DOMAIN g = {"filter", "ops"} /\ IsSeq(g.ops)
MeansToWrite ==
  \E g \in DOMAIN groups : \E o \in DOMAIN groups[g].ops :
    groups[g].ops[o].values # <<>> /\ ~set.demo

GroupsInv ==
  /\ IsSeq(groups) /\ \A g \in DOMAIN groups : IsGroup(groups[g])
  /\ pc \in {"options", "dump", "parse"} => turn = 0 /\ jobs = <<>>
  /\ turn \in 0..Len(groups) /\ IsSeq(jobs)
  /\ \A k \in DOMAIN jobs : /\ turn # 0
                            /\ jobs[k].op \in DOMAIN groups[turn].ops
  /\ pc = "op" => jobs # <<>>
  /\ pc \in {"exec", "op"} => (writeable <=> MeansToWrite)

\* An argument is taken.
LEMMA ArgTaken ==
  ASSUME ArgsInv, args # <<>>, args' = Tail(args), argv' = argv
  PROVE  /\ IsSeq(argv') /\ IsRest(args, argv, Done)' /\ Done' = Done + 1
         /\ Done \in Nat /\ args[1] = argv[Done + 1] /\ Done < Len(argv)
<1>1. /\ IsSeq(argv) /\ IsRest(args, argv, Done)
  BY DEF ArgsInv
<1>2. /\ Len(argv) \in Nat /\ Done \in Nat /\ Done < Len(argv)
      /\ args[1] = argv[Done + 1]
      /\ Tail(args) = SubSeq(argv, Done + 2, Len(argv))
      /\ Len(Tail(args)) = Len(args) - 1
  BY <1>1, NextOf
<1>3. Len(args) \in Nat /\ Len(args) = Len(argv) - Done
  BY <1>1, <1>2 DEF IsRest
<1>4. Done' = Done + 1
  BY <1>2, <1>3 DEF Done
<1>5. PICK d \in Nat : d = Done + 1
  BY <1>2
<1>6. Tail(args) = SubSeq(argv, d + 1, Len(argv)) /\ Done' = d
  <2>1. d + 1 = Done + 2
    BY <1>2, <1>5
  <2>2. QED
    BY <1>2, <1>4, <1>5, <2>1
<1>7. IsRest(args', argv', d)
  <2>1. Len(args') \in 0..Len(argv) /\ d = Len(argv) - Len(args')
    BY <1>2, <1>3, <1>5
  <2>2. QED
    BY <1>6, <2>1 DEF IsRest
<1>8. QED
  BY <1>1, <1>2, <1>4, <1>6, <1>7 DEF IsRest

\* Options that have been read ask for nothing but what they set.
LEMMA OptionKeeps ==
  ASSUME ArgsInv, GroupsInv, ParseOption
  PROVE  ArgsInv' /\ GroupsInv'
<1>1. /\ pc = "options" /\ args # <<>>
      /\ args[1].kind \in {"D", "r", "f", "v", "option"}
      /\ argv' = argv /\ groups' = groups /\ turn' = turn /\ jobs' = jobs
  BY DEF ParseOption, IsOption, OptionKinds
<1>2. GroupsInv'
  <2>1. pc' \in {"options", "died"}
    BY <1>1 DEF ParseOption
  <2>2. QED
    BY <1>1, <2>1 DEF GroupsInv
<1>3. CASE pc' = "died" /\ UNCHANGED <<args, set>>
  <2>1. Done' = Done /\ argv' = argv /\ args' = args /\ set' = set
    BY <1>1, <1>3 DEF Done
  <2>2. /\ IsSeq(argv) /\ IsRest(args, argv, Done)
        /\ DOMAIN set = {"access", "demo", "raw"} /\ set.demo \in BOOLEAN
    BY DEF ArgsInv
  <2>3. IsSeq(argv') /\ IsRest(args', argv', Done')
    BY <2>1, <2>2
  <2>4. QED
    BY <1>2, <1>3, <2>1, <2>2, <2>3 DEF ArgsInv, Stages
<1>4. CASE pc' = pc /\ args' = Tail(args)
           /\ set' = CASE args[1].kind = "D" -> [set EXCEPT !.demo = TRUE]
                       [] args[1].kind = "r" -> [set EXCEPT !.raw = TRUE]
                       [] args[1].kind = "option" ->
                            [set EXCEPT !.access =
                               GenericOption(set.access, args[1]).set]
                       [] OTHER -> set
  <2> DEFINE a == args[1]
  <2>1. /\ IsSeq(argv') /\ IsRest(args, argv, Done)' /\ Done' = Done + 1
        /\ Done \in Nat /\ a = argv[Done + 1]
    BY <1>1, <1>4, ArgTaken
  <2>2. DOMAIN set = {"access", "demo", "raw"} /\ set.demo \in BOOLEAN
    BY DEF ArgsInv
  <2>3. \A v : /\ DOMAIN [set EXCEPT !.access = v] = {"access", "demo", "raw"}
              /\ [set EXCEPT !.access = v].demo = set.demo
    BY <2>2
  <2>4. /\ DOMAIN [set EXCEPT !.raw = TRUE] = {"access", "demo", "raw"}
        /\ [set EXCEPT !.raw = TRUE].demo = set.demo
        /\ DOMAIN [set EXCEPT !.demo = TRUE] = {"access", "demo", "raw"}
        /\ [set EXCEPT !.demo = TRUE].demo = TRUE
    BY <2>2
  <2>5. /\ DOMAIN set' = {"access", "demo", "raw"}
        /\ set'.demo = IF a.kind = "D" THEN TRUE ELSE set.demo
    <3>1. CASE a.kind = "D"
      BY <1>4, <2>4, <3>1
    <3>2. CASE a.kind = "r"
      BY <1>4, <2>4, <3>2
    <3>3. CASE a.kind = "option"
      BY <1>4, <2>3, <3>3
    <3>4. CASE a.kind \in {"f", "v"}
      BY <1>4, <2>2, <3>4
    <3>5. QED
      BY <1>1, <3>1, <3>2, <3>3, <3>4
  <2>6. Understood(a)
    BY <1>1 DEF Understood
  <2>7. AllHeard'
    <3>1. AllHeard
      BY <1>1 DEF ArgsInv
    <3>2. \A k \in 1 .. Done + 1 : k \in 1..Done \/ k = Done + 1
      BY <2>1
    <3>3. \A k : Heard(k)' <=> Understood(argv[k]) /\ (argv[k].kind = "D" => set'.demo)
      BY <1>1 DEF Heard, Understood
    <3>4. \A k : Heard(k) => Heard(k)'
      BY <2>5, <3>3 DEF Heard
    <3>5. \A k : k = Done + 1 => Heard(k)'
      BY <2>1, <2>5, <2>6, <3>3
    <3>6. AllHeard' <=> \A k \in 1 .. Done + 1 : Heard(k)'
      BY <2>1 DEF AllHeard
    <3>7. QED
      BY <3>1, <3>2, <3>4, <3>5, <3>6 DEF AllHeard
  <2>8. set'.demo \in BOOLEAN
    BY <2>2, <2>5
  <2>9. QED
    BY <1>1, <1>2, <1>4, <2>1, <2>5, <2>7, <2>8 DEF ArgsInv, Stages
<1>5. QED
  BY <1>1, <1>2, <1>3, <1>4, Zenon DEF ParseOption

\* A filter or operation is put with the others, or ends the program.
LEMMA GroupsGrow ==
  ASSUME GroupsInv, NEW a, ParseFilter(a) \/ ParseOp(a)
  PROVE  IsSeq(groups') /\ \A g \in DOMAIN groups' : IsGroup(groups'[g])
<1> DEFINE n == Len(groups)
<1>1. /\ IsSeq(groups) /\ \A g \in DOMAIN groups : IsGroup(groups[g])
      /\ n \in Nat /\ DOMAIN groups = 1..n
      /\ groups # <<>> => n \in DOMAIN groups
  <2>1. /\ IsSeq(groups) /\ \A g \in DOMAIN groups : IsGroup(groups[g])
    BY DEF GroupsInv
  <2>2. n \in Nat /\ DOMAIN groups = 1..n /\ (groups # <<>> => n # 0)
    BY <2>1, LenProperties, EmptySeq DEF IsSeq
  <2>3. QED
    BY <2>1, <2>2
<1> HIDE DEF n
<1>2. ASSUME NEW g \in DOMAIN groups, NEW v, IsGroup(v),
             groups' = [groups EXCEPT ![g] = v]
      PROVE  IsSeq(groups') /\ \A h \in DOMAIN groups' : IsGroup(groups'[h])
  BY <1>1, <1>2, ExceptKeeps
<1>3. ASSUME NEW f, groups' = Append(groups, NewGroup(f))
      PROVE  IsSeq(groups') /\ \A h \in DOMAIN groups' : IsGroup(groups'[h])
  <2>1. IsGroup(NewGroup(f))
    BY DEF IsGroup, NewGroup, IsSeq
  <2>2. AppendsOne(groups, NewGroup(f))
    BY <1>1, AppendAdds
  <2>3. QED
    BY <1>1, <1>3, <2>1, <2>2 DEF AppendsOne
<1>4. CASE ParseFilter(a)
  <2>1. PICK f : \/ groups' = Append(groups, NewGroup(f))
                 \/ /\ groups # <<>>
                    /\ groups' = [groups EXCEPT ![n].filter = f]
    <3> DEFINE opens == groups = <<>> \/ groups[Len(groups)].ops # <<>>
               old == IF opens THEN NoFilter ELSE groups[Len(groups)].filter
               new == IF a.kind = "slot" THEN ParseSlot(old, a) ELSE ParseId(old, a)
    <3>1. groups' = IF opens THEN Append(groups, NewGroup(new.filter))
                    ELSE [groups EXCEPT ![Len(groups)].filter = new.filter]
      BY <1>4 DEF ParseFilter
    <3> HIDE DEF new
    <3>2. QED
      BY <3>1, Zenon DEF n
  <2>2. CASE groups' = Append(groups, NewGroup(f))
    BY <1>3, <2>2
  <2>3. CASE groups # <<>> /\ groups' = [groups EXCEPT ![n].filter = f]
    <3> DEFINE v == [groups[n] EXCEPT !.filter = f]
    <3>1. n \in DOMAIN groups /\ IsGroup(groups[n])
      BY <1>1, <2>3
    <3>2. DOMAIN v = {"filter", "ops"} /\ v.ops = groups[n].ops
      BY <3>1 DEF IsGroup
    <3>3. groups' = [groups EXCEPT ![n] = v]
      BY <2>3
    <3> HIDE DEF v
    <3>4. IsGroup(v)
      BY <3>1, <3>2 DEF IsGroup
    <3>5. QED
      BY <1>2, <3>1, <3>3, <3>4
  <2>4. QED
    BY <2>1, <2>2, <2>3
<1>5. CASE ParseOp(a)
  <2>1. CASE groups' = groups
    BY <1>1, <2>1
  <2>2. ASSUME NEW o, groups # <<>>,
               groups' = [groups EXCEPT ![n].ops = Append(@, o)]
        PROVE  IsSeq(groups') /\ \A h \in DOMAIN groups' : IsGroup(groups'[h])
    <3> DEFINE ops == Append(groups[n].ops, o)
               v == [groups[n] EXCEPT !.ops = ops]
    <3>1. n \in DOMAIN groups /\ IsGroup(groups[n])
      BY <1>1, <2>2
    <3>2. IsSeq(ops)
      BY <3>1, AppendAdds DEF IsGroup, AppendsOne
    <3>3. groups' = [groups EXCEPT ![n] = v]
      BY <2>2
    <3> HIDE DEF ops
    <3>4. DOMAIN v = {"filter", "ops"} /\ v.ops = ops
      BY <3>1 DEF IsGroup
    <3> HIDE DEF v
    <3>5. IsGroup(v)
      BY <3>2, <3>4 DEF IsGroup
    <3>6. QED
      BY <1>2, <3>1, <3>3, <3>5
  <2>3. QED
    BY <1>5, <2>1, <2>2 DEF ParseOp, n
<1>6. QED
  BY <1>4, <1>5

\* Reading an argument.
LEMMA ArgKeeps ==
  ASSUME ArgsInv, GroupsInv, ParseArg
  PROVE  ArgsInv' /\ GroupsInv'
<1> DEFINE a == args[1]
<1>1. /\ pc = "parse" /\ args # <<>> /\ args' = Tail(args) /\ argv' = argv
      /\ set' = set /\ turn' = turn /\ jobs' = jobs
  BY DEF ParseArg
<1>2. \/ a.kind \in {"slot", "id"} /\ ParseFilter(a)
      \/ a.kind = "op" /\ ParseOp(a)
      \/ pc' = "died" /\ groups' = groups
  BY DEF ParseArg
<1>3. pc' = "died" \/ (pc' = "parse" /\ Understood(a) /\ a.kind # "D")
  <2>1. CASE a.kind \in {"slot", "id"} /\ ParseFilter(a)
    <3>1. \A f, g : ParseSlot(f, a).ok = ParseSlot(g, a).ok
      BY DEF ParseSlot
    <3>2. ASSUME NEW f, NEW g PROVE ParseId(f, a).ok = ParseId(g, a).ok
      <4> HIDE DEF a
      <4>1. QED
        BY DEF ParseId
    <3>3. PICK f : pc' = IF (IF a.kind = "slot" THEN ParseSlot(f, a)
                             ELSE ParseId(f, a)).ok THEN pc ELSE "died"
      BY <2>1, Zenon DEF ParseFilter
    <3>4. Understood(a) <=> (IF a.kind = "slot" THEN ParseSlot(NoFilter, a)
                             ELSE ParseId(NoFilter, a)).ok
      BY <2>1, Zenon DEF Understood
    <3>5. QED
      BY <1>1, <2>1, <3>1, <3>2, <3>3, <3>4
  <2>2. CASE a.kind = "op" /\ ParseOp(a)
    <3>1. pc' = "died" \/ (parse_op(a).ok /\ pc' = pc)
      BY <2>2, Zenon DEF ParseOp
    <3>2. Understood(a) <=> parse_op(a).ok
      BY <2>2, Zenon DEF Understood
    <3>3. QED
      BY <1>1, <2>2, <3>1, <3>2
  <2>3. QED
    BY <1>2, <2>1, <2>2
<1>4. IsSeq(groups') /\ \A g \in DOMAIN groups' : IsGroup(groups'[g])
  BY <1>2, GroupsGrow DEF GroupsInv
<1>5. GroupsInv'
  <2>1. turn = 0 /\ jobs = <<>> /\ IsSeq(jobs)
    BY <1>1 DEF GroupsInv
  <2>2. Len(groups') \in Nat
    BY <1>4, LenProperties DEF IsSeq
  <2>3. DOMAIN jobs = {}
    BY <2>1
  <2>4. QED
    BY <1>1, <1>3, <1>4, <2>1, <2>2, <2>3 DEF GroupsInv
<1>6. ArgsInv'
  <2>1. /\ IsSeq(argv') /\ IsRest(args, argv, Done)' /\ Done' = Done + 1
        /\ Done \in Nat /\ a = argv[Done + 1]
    BY <1>1, ArgTaken
  <2>2. pc' = "parse" => AllHeard'
    <3>1. AllHeard
      BY <1>1 DEF ArgsInv
    <3>2. \A k \in 1 .. Done + 1 : k \in 1..Done \/ k = Done + 1
      BY <2>1
    <3>3. \A k : Heard(k)' <=> Heard(k)
      BY <1>1 DEF Heard, Understood
    <3>4. pc' = "parse" => \A k : k = Done + 1 => Heard(k)
      BY <1>3, <2>1 DEF Heard
    <3>5. AllHeard' <=> \A k \in 1 .. Done + 1 : Heard(k)'
      BY <2>1 DEF AllHeard
    <3>6. QED
      BY <3>1, <3>2, <3>3, <3>4, <3>5 DEF AllHeard
  <2>3. DOMAIN set = {"access", "demo", "raw"} /\ set.demo \in BOOLEAN
    BY DEF ArgsInv
  <2>4. QED
    BY <1>1, <1>3, <2>1, <2>2, <2>3 DEF ArgsInv, Stages
<1>7. QED
  BY <1>5, <1>6

\* Steps that take no argument.
LEMMA ArgsStay ==
  ASSUME ArgsInv, args' = args, argv' = argv, set' = set,
         pc' \in Stages \ {"scan"}, pc' \in {"exec", "op"} => args = <<>>,
         pc \notin {"exit", "died"}
  PROVE  ArgsInv'
<1>1. Done' = Done
  BY DEF Done
<1>2. AllHeard' <=> AllHeard
  BY <1>1 DEF AllHeard, Heard, Understood
<1>3. /\ IsSeq(argv) /\ IsRest(args, argv, Done) /\ AllHeard
      /\ DOMAIN set = {"access", "demo", "raw"} /\ set.demo \in BOOLEAN
  BY DEF ArgsInv
<1>4. IsSeq(argv') /\ IsRest(args', argv', Done')
  BY <1>1, <1>3
<1>5. QED
  BY <1>2, <1>3, <1>4 DEF ArgsInv

LEMMA MapSeq ==
  ASSUME NEW s, IsSeq(s), NEW f, f = [k \in DOMAIN s |-> f[k]]
  PROVE  IsSeq(f)
<1>1. Len(s) \in Nat /\ DOMAIN s = 1..Len(s)
  BY LenProperties DEF IsSeq
<1>2. f \in [1..Len(s) -> Range(f)]
  BY <1>1 DEF Range
<1>3. QED
  BY <1>1, <1>2, SeqDef DEF IsSeq

LEMMA DevicesSeq ==
  ASSUME DumpInv
  PROVE  IsSeq(Devices)
<1>1. CASE method = "dump"
  <2> DEFINE f == [k \in DOMAIN dumped |-> Device(dumped[k].fn, k)]
             g == [i \in 1..Len(f) |-> f[(Len(f) - i) + 1]]
  <2>1. IsSeq(f)
    <3>1. f = [k \in DOMAIN dumped |-> f[k]]
      OBVIOUS
    <3>2. IsSeq(dumped)
      BY DEF DumpInv
    <3> HIDE DEF f
    <3>3. QED
      BY <3>1, <3>2, MapSeq
  <2> HIDE DEF f
  <2>2. 1..Len(f) = DOMAIN f
    BY <2>1, LenProperties DEF IsSeq
  <2>3. IsSeq(g)
    <3>1. g = [k \in DOMAIN f |-> g[k]]
      BY <2>2
    <3> HIDE DEF g
    <3>2. QED
      BY <2>1, <3>1, MapSeq
  <2>4. Devices = g
    BY <1>1 DEF Devices, Reverse, f
  <2>5. QED
    BY <2>3, <2>4
<1>2. CASE method # "dump"
  <2> DEFINE found == Picked(Order, {fn \in Functions : Visible(fn)})
             f == [k \in DOMAIN found |-> Device(found[k], 0)]
  <2>1. IsSeq(Order)
    BY OrderAssumption DEF IsSeq
  <2>2. IsSeq(found)
    BY <2>1, PickedIs
  <2> HIDE DEF found
  <2>3. f = [k \in DOMAIN found |-> f[k]]
    OBVIOUS
  <2>4. Devices = f
    BY <1>2 DEF Devices, found
  <2> HIDE DEF f
  <2>5. QED
    BY <2>2, <2>3, <2>4, MapSeq
<1>3. QED
  BY <1>1, <1>2

\* The device that is named, or those of the list.
LEMMA SelectSeqIs ==
  ASSUME DumpInv, NEW f
  PROVE  IsSeq(SelectDevices(f)) /\ Len(SelectDevices(f)) \in Nat
<1> DEFINE named == Device([x \in Locations |-> f[x]], 0)
           list == IF ~needScan /\ Single(f) THEN <<named>> ELSE Devices
<1>1. IsSeq(list)
  <2>1. IsSeq(<<named>>)
    BY DEF IsSeq, Range
  <2>2. QED
    BY <2>1, DevicesSeq
<1> HIDE DEF list
<1>2. \A S : IsSeq(Picked(list, S)) /\ Len(Picked(list, S)) \in Nat
  BY <1>1, PickedIs
<1>3. SelectDevices(f) = Picked(list, {h \in Range(list) : Match(f, Described(h))})
  BY DEF SelectDevices, list
<1>4. QED
  BY <1>2, <1>3

\* The jobs of the next group are about its operations.
LEMMA GroupJobs ==
  ASSUME NEW n \in Nat, NEW m \in Nat, NEW k \in 1 .. n * m
  PROVE  ((k - 1) % n) + 1 \in 1..n
<1>1. n # 0
  <2>1. n = 0 => n * m = 0
    OBVIOUS
  <2>2. QED
    BY <2>1
<1>2. (k - 1) % n \in 0 .. n - 1
  <2>1. n * m \in Nat
    OBVIOUS
  <2>2. k - 1 \in Nat
    BY <2>1
  <2>3. QED
    BY <1>1, <2>2
<1>3. QED
  BY <1>2

LEMMA GroupBegins ==
  ASSUME ArgsInv, GroupsInv, DumpInv, NextGroup
  PROVE  ArgsInv' /\ GroupsInv'
<1>1. /\ pc = "exec" /\ args' = args /\ argv' = argv /\ set' = set
      /\ groups' = groups /\ writeable' = writeable /\ args = <<>>
      /\ pc' \in {"exec", "exit"} /\ jobs = <<>>
  BY DEF NextGroup, ArgsInv
<1>2. ArgsInv'
  BY <1>1, ArgsStay DEF Stages
<1>3. CASE turn = Len(groups)
  <2>1. turn' = turn /\ jobs' = jobs /\ pc' = "exit"
    BY <1>3 DEF NextGroup
  <2>2. QED
    BY <1>1, <1>2, <2>1 DEF GroupsInv
<1>4. CASE turn # Len(groups)
  <2> DEFINE g == groups[turn + 1]
             vec == SelectDevices(g.filter)
             n == Len(g.ops)
             m == Len(vec)
             new == [k \in 1 .. n * m |->
                       [dev |-> vec[((k - 1) \div n) + 1],
                        op |-> ((k - 1) % n) + 1]]
  <2>1. turn' = turn + 1 /\ jobs' = new /\ pc' = pc
    BY <1>4, Zenon DEF NextGroup
  <2>2. /\ IsSeq(groups) /\ Len(groups) \in Nat /\ turn + 1 \in DOMAIN groups
        /\ turn \in Nat
    <3>1. /\ IsSeq(groups) /\ turn \in 0..Len(groups)
      BY DEF GroupsInv
    <3>2. Len(groups) \in Nat /\ DOMAIN groups = 1..Len(groups)
      BY <3>1, LenProperties DEF IsSeq
    <3>3. turn \in Nat /\ turn + 1 \in 1..Len(groups)
      <4> DEFINE l == Len(groups)
      <4>1. turn \in 0..l /\ l \in Nat /\ turn # l
        BY <1>4, <3>1, <3>2
      <4> HIDE DEF l
      <4>2. turn \in Nat /\ turn + 1 \in 1..l
        BY <4>1
      <4>3. QED
        BY <4>2 DEF l
    <3>4. QED
      BY <3>1, <3>2, <3>3, Zenon
  <2>3. n \in Nat /\ DOMAIN g.ops = 1..n
    <3>1. IsSeq(g.ops)
      BY <2>2 DEF GroupsInv, IsGroup
    <3>2. QED
      BY <3>1, LenProperties DEF IsSeq
  <2>4. m \in Nat
    BY SelectSeqIs
  <2> HIDE DEF vec, m, n
  <2>5. n * m \in Nat
    BY <2>3, <2>4
  <2>6. IsSeq(new)
    <3>1. new = [k \in 1 .. n * m |-> new[k]]
      OBVIOUS
    <3> DEFINE l == n * m
    <3>2. new \in [1..l -> Range(new)]
      BY <3>1 DEF Range
    <3> HIDE DEF l, new
    <3>3. QED
      BY <2>5, <3>2, SeqDef DEF IsSeq, l
  <2>7. \A k \in DOMAIN new : new[k].op \in 1..n
    BY <2>3, <2>4, GroupJobs
  <2> HIDE DEF new
  <2>8. groups[turn'].ops = g.ops
    BY <2>1
  <2>9. GroupsInv'
    <3>1. turn' \in 0..Len(groups) /\ turn' # 0
      BY <2>1, <2>2, LenProperties DEF IsSeq
    <3>2. \A k \in DOMAIN jobs' : jobs'[k].op \in DOMAIN groups[turn'].ops
      BY <2>1, <2>3, <2>7, <2>8
    <3>3. MeansToWrite' <=> MeansToWrite
      BY <1>1 DEF MeansToWrite
    <3>4. QED
      BY <1>1, <2>1, <2>6, <3>1, <3>2, <3>3 DEF GroupsInv
  <2>10. QED
    BY <1>2, <2>9
<1>5. QED
  BY <1>3, <1>4

\* Steps before the arguments are read.
LEMMA BeginKeeps ==
  ASSUME ArgsInv, GroupsInv, PciInit \/ ReadDump
  PROVE  ArgsInv' /\ GroupsInv'
<1>1. /\ pc \in {"options", "dump"} /\ pc' \in {"died", "dump", "parse"}
      /\ args' = args /\ argv' = argv /\ set' = set /\ groups' = groups
      /\ turn' = turn /\ jobs' = jobs
  <2>1. CASE PciInit
    BY <2>1 DEF PciInit
  <2>2. CASE ReadDump
    BY <2>2 DEF ReadDump
  <2>3. QED
    BY <2>1, <2>2
<1>2. ArgsInv'
  BY <1>1, ArgsStay DEF Stages
<1>3. GroupsInv'
  BY <1>1 DEF GroupsInv
<1>4. QED
  BY <1>2, <1>3

\* The arguments are at their end when execution begins.
LEMMA ScanKeeps ==
  ASSUME ArgsInv, GroupsInv, ScanOps
  PROVE  ArgsInv' /\ GroupsInv'
<1>1. /\ pc = "parse" /\ args = <<>> /\ pc' \in {"died", "exec"}
      /\ args' = args /\ argv' = argv /\ set' = set /\ groups' = groups
      /\ turn' = turn /\ jobs' = jobs
  BY DEF ScanOps, ArgsInv
<1>2. writeable' <=> MeansToWrite
  BY DEF ScanOps, MeansToWrite
<1>3. ArgsInv'
  BY <1>1, ArgsStay DEF Stages
<1>4. MeansToWrite' <=> MeansToWrite
  BY <1>1 DEF MeansToWrite
<1>5. GroupsInv'
  BY <1>1, <1>2, <1>4 DEF GroupsInv
<1>6. QED
  BY <1>3, <1>5

\* The steps of an operation take jobs from the list one after the other.
LEMMA JobsKeep ==
  ASSUME ArgsInv, GroupsInv, BeginOp \/ ReadOp \/ WriteValue
  PROVE  ArgsInv' /\ GroupsInv'
<1>1. /\ pc \in {"exec", "op"} /\ pc' \in {"exec", "op", "died"} /\ jobs # <<>>
      /\ args' = args /\ argv' = argv /\ set' = set /\ groups' = groups
      /\ turn' = turn /\ writeable' = writeable
      /\ jobs' \in {jobs, Tail(jobs)} /\ (pc' = "op" => jobs' = jobs)
  <2>1. CASE BeginOp
    BY <2>1 DEF BeginOp
  <2>2. CASE ReadOp
    BY <2>2 DEF ReadOp, GroupsInv
  <2>3. CASE WriteValue
    BY <2>3 DEF WriteValue, GroupsInv
  <2>4. QED
    BY <2>1, <2>2, <2>3
<1>2. ArgsInv'
  BY <1>1, ArgsStay DEF ArgsInv, Stages
<1>3. IsSeq(jobs) /\ \A k \in DOMAIN jobs : jobs[k].op \in DOMAIN groups[turn].ops
  BY DEF GroupsInv
<1>4. /\ IsSeq(jobs')
      /\ \A k \in DOMAIN jobs' : jobs'[k].op \in DOMAIN groups[turn].ops
  <2>1. CASE jobs' = jobs
    BY <1>3, <2>1
  <2>2. CASE jobs' = Tail(jobs)
    <3> DEFINE S == Range(jobs)
    <3>1. jobs \in Seq(S)
      BY <1>3 DEF IsSeq
    <3> HIDE DEF S
    <3>2. /\ Tail(jobs) \in Seq(S) /\ Len(Tail(jobs)) = Len(jobs) - 1
          /\ \A i \in 1..Len(Tail(jobs)) : Tail(jobs)[i] = jobs[i + 1]
      BY <1>1, <3>1, HeadTailProperties
    <3>3. DOMAIN Tail(jobs) = 1 .. Len(jobs) - 1 /\ DOMAIN jobs = 1..Len(jobs)
          /\ Len(jobs) \in Nat
      BY <3>1, <3>2, LenProperties
    <3>4. \A i \in DOMAIN Tail(jobs) : i + 1 \in DOMAIN jobs
      BY <3>3
    <3>5. IsSeq(Tail(jobs))
      BY <3>2, SeqOfRange DEF IsSeq
    <3>6. QED
      BY <1>3, <2>2, <3>2, <3>3, <3>4, <3>5
  <2>3. QED
    BY <1>1, <2>1, <2>2
<1>5. MeansToWrite' <=> MeansToWrite
  BY <1>1 DEF MeansToWrite
<1>6. turn # 0 /\ turn \in 0..Len(groups)
  <2>1. 1 \in DOMAIN jobs
    BY <1>1, <1>3, LenProperties, EmptySeq DEF IsSeq
  <2>2. QED
    BY <2>1 DEF GroupsInv
<1>7. GroupsInv'
  BY <1>1, <1>4, <1>5, <1>6 DEF GroupsInv
<1>8. QED
  BY <1>2, <1>7

\* When a register changes, all arguments have been understood.
LEMMA WritesAreMeant ==
  ASSUME ArgsInv, GroupsInv, SetpciStep
  PROVE  ParsedFirst
<1>1. SUFFICES ASSUME space' # space
               PROVE  /\ args = <<>> /\ \A k \in DOMAIN argv : Understood(argv[k])
                      /\ writeable
                      /\ \A k \in DOMAIN argv : argv[k].kind # "D"
  BY DEF ParsedFirst
<1>2. WriteValue
  BY <1>1 DEF SetpciStep, ParseOption, PciInit, ReadDump, ParseArg, ScanOps,
              NextGroup, BeginOp, ReadOp, unread
<1>3. pc = "op" /\ Op.values # <<>> /\ ~set.demo
  BY <1>1, <1>2 DEF WriteValue
<1>4. args = <<>> /\ AllHeard /\ IsSeq(argv) /\ IsRest(args, argv, Done)
  BY <1>3 DEF ArgsInv
<1>5. \A k \in DOMAIN argv : Heard(k)
  <2>1. Len(args) = 0 /\ DOMAIN argv = 1..Len(argv) /\ Len(argv) \in Nat
    BY <1>4, LenProperties DEF IsSeq
  <2>2. Done = Len(argv)
    BY <2>1 DEF Done
  <2>3. QED
    BY <1>4, <2>1, <2>2 DEF AllHeard
<1>6. jobs # <<>> /\ IsSeq(jobs) /\ turn \in 0..Len(groups) /\ IsSeq(groups)
  BY <1>3 DEF GroupsInv
<1>7. 1 \in DOMAIN jobs
  BY <1>6, LenProperties, EmptySeq DEF IsSeq
<1>8. turn \in DOMAIN groups /\ jobs[1].op \in DOMAIN groups[turn].ops
  <2>1. turn # 0 /\ jobs[1].op \in DOMAIN groups[turn].ops
    BY <1>7 DEF GroupsInv
  <2>2. DOMAIN groups = 1..Len(groups) /\ Len(groups) \in Nat
    BY <1>6, LenProperties DEF IsSeq
  <2>3. QED
    BY <1>6, <2>1, <2>2
<1>9. MeansToWrite
  BY <1>3, <1>8 DEF MeansToWrite, Op
<1>10. writeable
  BY <1>3, <1>9 DEF GroupsInv
<1>11. QED
  BY <1>3, <1>4, <1>5, <1>10 DEF Heard

\* The invariant, and that it is kept.
SetpciInv == ArgsInv /\ GroupsInv /\ DumpInv

LEMMA SetpciStarts ==
  ASSUME NEW machines, NEW files, NEW commands, SetpciInit(machines, files, commands),
         \A f \in files : IsFile(f), \A c \in commands : IsSeq(c)
  PROVE  SetpciInv
<1>1. DumpInv
  BY DumpStarts DEF SetpciInit
<1>2. /\ args = argv /\ pc = "options" /\ IsSeq(argv) /\ groups = <<>> /\ turn = 0
      /\ jobs = <<>> /\ set = [access |-> Alloc, demo |-> FALSE, raw |-> FALSE]
  BY DEF SetpciInit
<1>3. Done = 0 /\ IsRest(args, argv, 0)
  <2>1. argv \in Seq(Range(argv)) /\ Len(argv) \in Nat
    BY <1>2, LenProperties DEF IsSeq
  <2>2. argv = SubSeq(argv, 1, Len(argv))
    BY <2>1, SubSeqFull
  <2>3. Len(argv) - Len(argv) = 0 /\ 0 + 1 = 1
    BY <2>1
  <2>4. QED
    BY <1>2, <2>1, <2>2, <2>3 DEF Done, IsRest
<1>4. AllHeard
  BY <1>3 DEF AllHeard
<1>5. ArgsInv
  <2>1. DOMAIN set = {"access", "demo", "raw"} /\ set.demo \in BOOLEAN
    BY <1>2
  <2>2. QED
    BY <1>2, <1>3, <1>4, <2>1 DEF ArgsInv, Stages
<1>6. GroupsInv
  <2>1. IsSeq(<<>>) /\ Len(<<>>) = 0 /\ DOMAIN <<>> = {}
    BY DEF IsSeq
  <2>2. QED
    BY <1>2, <2>1 DEF GroupsInv
<1>7. QED
  BY <1>1, <1>5, <1>6 DEF SetpciInv

setpciAll == <<setpciVars, machine, tree, method, space, dumpVars>>

LEMMA SetpciKeeps ==
  ASSUME SetpciInv, [SetpciStep]_setpciAll
  PROVE  SetpciInv'
<1>1. DumpInv'
  BY DumpKeeps DEF SetpciInv, setpciAll
<1>2. CASE UNCHANGED setpciAll
  <2>1. /\ pc' = pc /\ args' = args /\ argv' = argv /\ set' = set
        /\ groups' = groups /\ turn' = turn /\ jobs' = jobs
        /\ writeable' = writeable
    BY <1>2 DEF setpciAll, setpciVars
  <2>2. Done' = Done
    BY <2>1 DEF Done
  <2>3. AllHeard' <=> AllHeard
    BY <2>1, <2>2 DEF AllHeard, Heard, Understood
  <2>4. ArgsInv'
    BY <2>1, <2>2, <2>3 DEF SetpciInv, ArgsInv
  <2>5. MeansToWrite' <=> MeansToWrite
    BY <2>1 DEF MeansToWrite
  <2>6. GroupsInv'
    BY <2>1, <2>5 DEF SetpciInv, GroupsInv
  <2>7. QED
    BY <1>1, <2>4, <2>6 DEF SetpciInv
<1>3. CASE SetpciStep
  <2>1. ArgsInv' /\ GroupsInv'
    BY <1>3, OptionKeeps, BeginKeeps, ArgKeeps, ScanKeeps, GroupBegins, JobsKeep
       DEF SetpciStep, SetpciInv
  <2>2. QED
    BY <1>1, <2>1 DEF SetpciInv
<1>4. QED
  BY <1>2, <1>3

\* For any command line: no register changes before every argument has been
\* understood, without pacc->writeable or with -D.
THEOREM NothingBeforeParsed ==
  ASSUME NEW machines, NEW files, NEW commands,
         \A f \in files : IsFile(f), \A c \in commands : IsSeq(c)
  PROVE  SetpciSpec(machines, files, commands) => ParsedBeforeWritten
<1>1. SetpciInit(machines, files, commands) => SetpciInv
  BY SetpciStarts
<1>2. SetpciInv /\ [SetpciStep]_setpciAll => SetpciInv'
  BY SetpciKeeps
<1>3. SetpciInv /\ [SetpciStep]_setpciAll
        => [(pc \in Stages) => ParsedFirst]_<<space, args>>
  <2>1. UNCHANGED setpciAll => UNCHANGED <<space, args>>
    BY DEF setpciAll, setpciVars
  <2>2. QED
    BY <2>1, WritesAreMeant DEF SetpciInv
<1>4. QED
  BY <1>1, <1>2, <1>3, PTL DEF SetpciSpec, ParsedBeforeWritten, setpciAll

----------------------------------------------------------------------------
\* A bounded set of numbers has a largest member.
LEMMA LargestOf ==
  ASSUME NEW n \in Nat, NEW S \in SUBSET (0..n), S # {}
  PROVE  \E g \in S : \A x \in S : x <= g
<1> DEFINE R == OpToRel(<, Nat)
           T == {n - x : x \in S}
<1>1. \A x, y \in Nat : <<x, y>> \in R <=> x < y
  BY DEF OpToRel
<1>2. IsWellFoundedOn(R, Nat)
  BY NatLessThanWellFounded
<1>3. T \subseteq Nat /\ T # {}
  <2>1. \A x \in S : n - x \in Nat
    OBVIOUS
  <2>2. QED
    BY <2>1
<1> HIDE DEF R, T
<1>4. PICK l \in T : \A k \in T : ~(<<k, l>> \in R)
  BY <1>2, <1>3, WFMin
<1>5. \A k \in T : l <= k
  <2>1. l \in Nat
    BY <1>3, <1>4
  <2>2. ASSUME NEW k \in T PROVE k \in Nat /\ ~(k < l)
    BY <1>1, <1>3, <1>4, <2>1
  <2>3. QED
    BY <2>1, <2>2
<1>6. PICK g \in S : l = n - g
  BY <1>4 DEF T
<1>7. \A x \in S : n - x \in T
  BY DEF T
<1>8. QED
  BY <1>5, <1>6, <1>7

----------------------------------------------------------------------------
(***************************************************************************)
(* The pieces of a block.                                                  *)
(***************************************************************************)
\* The pieces lie one behind the other in a block and leave nothing out, and
\* none goes beyond the four registers a port leads to.
Splits(s, m, a, b) ==
  /\ s \in Seq(Nat \X Nat) /\ a \in Nat /\ b \in Nat /\ a <= b
  /\ \A k \in 1..Len(s) : /\ a <= s[k][1] /\ s[k][1] + s[k][2] <= b
                          /\ m \in Ports => (s[k][1] % 4) + s[k][2] <= 4
  /\ \A j, k \in 1..Len(s) : j < k => s[j][1] + s[j][2] <= s[k][1]
  /\ \A x \in a .. b - 1 : \E k \in 1..Len(s) : x \in Covered(s[k])

\* A block in two parts.
LEMMA SplitsJoin ==
  ASSUME NEW m, NEW s, NEW t, NEW a, NEW b, NEW c, Splits(s, m, a, b), Splits(t, m, b, c)
  PROVE  Splits(s \o t, m, a, c)
<1> DEFINE P == Nat \X Nat
           u == s \o t
<1>1. /\ s \in Seq(P) /\ t \in Seq(P) /\ a \in Nat /\ b \in Nat /\ c \in Nat
      /\ a <= b /\ b <= c
  BY DEF Splits
<1>2. Len(s) \in Nat /\ Len(t) \in Nat
  BY <1>1, LenProperties
<1>3. /\ u \in Seq(P) /\ Len(u) = Len(s) + Len(t)
      /\ \A k \in 1 .. Len(u) : u[k] = IF k <= Len(s) THEN s[k] ELSE t[k - Len(s)]
  BY <1>1, ConcatProperties
<1>4. \A k \in 1..Len(s) : s[k] \in P
  BY <1>1, ElementOfSeq
<1>5. \A k \in 1..Len(t) : t[k] \in P
  BY <1>1, ElementOfSeq
<1> HIDE DEF P, u
<1>6. ASSUME NEW k \in 1..Len(u)
      PROVE  /\ a <= u[k][1] /\ u[k][1] + u[k][2] <= c
             /\ m \in Ports => (u[k][1] % 4) + u[k][2] <= 4
  <2>1. CASE k <= Len(s)
    <3>1. u[k] = s[k] /\ k \in 1..Len(s)
      BY <1>2, <1>3, <2>1
    <3>2. /\ a <= s[k][1] /\ s[k][1] + s[k][2] <= b
          /\ m \in Ports => (s[k][1] % 4) + s[k][2] <= 4
      BY <3>1 DEF Splits
    <3>3. s[k][1] \in Nat /\ s[k][2] \in Nat
      BY <1>4, <3>1 DEF P
    <3>4. QED
      BY <1>1, <3>1, <3>2, <3>3
  <2>2. CASE ~(k <= Len(s))
    <3>1. u[k] = t[k - Len(s)] /\ k - Len(s) \in 1..Len(t)
      BY <1>2, <1>3, <2>2
    <3>2. PICK l \in 1..Len(t) : l = k - Len(s)
      BY <3>1
    <3>3. /\ b <= t[l][1] /\ t[l][1] + t[l][2] <= c
          /\ m \in Ports => (t[l][1] % 4) + t[l][2] <= 4
      BY <3>2 DEF Splits
    <3>4. t[l][1] \in Nat /\ t[l][2] \in Nat
      BY <1>5, <3>2 DEF P
    <3>5. QED
      BY <1>1, <3>1, <3>2, <3>3, <3>4
  <2>3. QED
    BY <2>1, <2>2
<1>7. ASSUME NEW j \in 1..Len(u), NEW k \in 1..Len(u), j < k
      PROVE  u[j][1] + u[j][2] <= u[k][1]
  <2>1. CASE k <= Len(s)
    <3>1. u[j] = s[j] /\ u[k] = s[k] /\ j \in 1..Len(s) /\ k \in 1..Len(s)
      BY <1>2, <1>3, <1>7, <2>1
    <3>2. QED
      BY <1>7, <3>1 DEF Splits
  <2>2. CASE ~(j <= Len(s))
    <3>1. /\ u[j] = t[j - Len(s)] /\ u[k] = t[k - Len(s)]
          /\ j - Len(s) \in 1..Len(t) /\ k - Len(s) \in 1..Len(t)
          /\ j - Len(s) < k - Len(s)
      BY <1>2, <1>3, <1>7, <2>2
    <3>2. QED
      BY <3>1 DEF Splits
  <2>3. CASE j <= Len(s) /\ ~(k <= Len(s))
    <3>1. /\ u[j] = s[j] /\ u[k] = t[k - Len(s)]
          /\ j \in 1..Len(s) /\ k - Len(s) \in 1..Len(t)
      BY <1>2, <1>3, <2>3
    <3>2. s[j][1] + s[j][2] <= b /\ s[j][1] \in Nat /\ s[j][2] \in Nat
      BY <1>4, <3>1 DEF Splits, P
    <3>3. PICK l \in 1..Len(t) : l = k - Len(s)
      BY <3>1
    <3>4. b <= t[l][1] /\ t[l][1] \in Nat /\ u[k] = t[l]
      BY <1>5, <3>1, <3>3 DEF Splits, P
    <3>5. u[j][1] + u[j][2] = s[j][1] + s[j][2] /\ u[k][1] = t[l][1]
      BY <3>1, <3>4, Zenon
    <3>6. s[j][1] + s[j][2] <= t[l][1]
      <4>1. PICK p \in Nat, e \in Nat, h \in Nat :
              p = s[j][1] /\ e = s[j][2] /\ h = t[l][1]
        BY <3>2, <3>4
      <4>2. p + e <= b /\ b <= h
        BY <3>2, <3>4, <4>1, Zenon
      <4>3. p + e <= h
        BY <1>1, <4>2
      <4>4. QED
        BY <4>1, <4>3, Zenon
    <3>7. QED
      BY <3>5, <3>6, Zenon
  <2>4. QED
    BY <2>1, <2>2, <2>3, Zenon
<1>8. ASSUME NEW x \in a .. c - 1 PROVE \E k \in 1..Len(u) : x \in Covered(u[k])
  <2>1. CASE x < b
    <3>0. x \in a .. b - 1
      BY <1>1, <2>1
    <3>1. PICK k \in 1..Len(s) : x \in Covered(s[k])
      BY <3>0, Zenon DEF Splits
    <3>2. k \in 1..Len(u) /\ u[k] = s[k]
      BY <1>2, <1>3
    <3>3. QED
      BY <3>1, <3>2
  <2>2. CASE ~(x < b)
    <3>0. x \in b .. c - 1
      BY <1>1, <2>2
    <3>1. PICK l \in 1..Len(t) : x \in Covered(t[l])
      BY <3>0, Zenon DEF Splits
    <3>2. PICK k \in 1..Len(u) : k = l + Len(s)
      BY <1>2, <1>3
    <3>3. u[k] = t[l]
      BY <1>2, <1>3, <3>2
    <3>4. QED
      BY <3>1, <3>3
  <2>3. QED
    BY <2>1, <2>2
<1>9. a <= c
  BY <1>1
<1>10. Splits(u, m, a, c)
  BY <1>1, <1>3, <1>6, <1>7, <1>8, <1>9, Zenon DEF Splits, P
<1>11. QED
  BY <1>10 DEF u

\* A block of one piece.
LEMMA OnePiece ==
  ASSUME NEW m, NEW p \in Nat, NEW l \in Nat, m \in Ports => (p % 4) + l <= 4
  PROVE  Splits(<<<<p, l>>>>, m, p, p + l)
<1> DEFINE s == <<<<p, l>>>>
<1>1. s \in Seq(Nat \X Nat) /\ Len(s) = 1 /\ s[1] = <<p, l>>
  OBVIOUS
<1>2. \A k \in 1..Len(s) : s[k][1] = p /\ s[k][2] = l /\ k = 1
  BY <1>1
<1>3. \A x \in p .. p + l - 1 : x \in Covered(s[1])
  BY <1>1 DEF Covered
<1> HIDE DEF s
<1>4. QED
  BY <1>1, <1>2, <1>3 DEF Splits, s

LEMMA NoPiece ==
  ASSUME NEW m, NEW p \in Nat
  PROVE  Splits(<<>>, m, p, p)
<1>1. <<>> \in Seq(Nat \X Nat) /\ Len(<<>>) = 0 /\ 1..0 = {}
  OBVIOUS
<1>2. p .. p - 1 = {}
  OBVIOUS
<1>3. QED
  BY <1>1, <1>2 DEF Splits

LEMMA MaybePiece ==
  ASSUME NEW m, NEW makes \in BOOLEAN, NEW p \in Nat, NEW l \in Nat, (p % 4) + l <= 4
  PROVE  Splits(Piece(makes, p, l), m, p, IF makes THEN p + l ELSE p)
BY OnePiece, NoPiece DEF Piece

LEMMA Quads ==
  ASSUME NEW m, NEW q \in Nat, NEW n \in Nat, q % 4 = 0
  PROVE  Splits([k \in 1..n |-> <<q + 4 * (k - 1), 4>>], m, q, q + 4 * n)
<1> DEFINE s == [k \in 1..n |-> <<q + 4 * (k - 1), 4>>]
<1>1. \A k \in 1..n : q + 4 * (k - 1) \in Nat
  OBVIOUS
<1>2. s \in [1..n -> Nat \X Nat]
  BY <1>1
<1>3. s \in Seq(Nat \X Nat) /\ Len(s) = n
  BY <1>2, SeqDef, LenProperties
<1>4. \A k \in 1..n : s[k][1] = q + 4 * (k - 1) /\ s[k][2] = 4
  OBVIOUS
<1> HIDE DEF s
<1>5. \A k \in 1..n : /\ q <= s[k][1] /\ s[k][1] + s[k][2] <= q + 4 * n
                      /\ (s[k][1] % 4) + s[k][2] <= 4
  BY <1>4
<1>6. \A j, k \in 1..n : j < k => s[j][1] + s[j][2] <= s[k][1]
  BY <1>4
<1>7. ASSUME NEW x \in q .. q + 4 * n - 1 PROVE \E k \in 1..n : x \in Covered(s[k])
  <2> DEFINE k == (x - q) \div 4 + 1
  <2>1. k \in 1..n /\ x >= q + 4 * (k - 1) /\ x <= q + 4 * (k - 1) + 3
    OBVIOUS
  <2> HIDE DEF k
  <2>2. x \in Covered(s[k])
    BY <1>4, <2>1 DEF Covered
  <2>3. QED
    BY <2>1, <2>2
<1>8. QED
  BY <1>3, <1>5, <1>6, <1>7 DEF Splits, s

\* pci_generic_block_op() covers the block.
LEMMA PiecesSplit ==
  ASSUME NEW m, NEW pos \in Nat, NEW len \in Nat
  PROVE  Splits(Pieces(pos, len), m, pos, pos + len)
<1> DEFINE odd == IF pos % 2 = 1 /\ len >= 1 THEN 1 ELSE 0
           p == pos + odd
           half == IF p % 4 # 0 /\ len - odd >= 2 THEN 2 ELSE 0
           q == p + half
           quads == (len - odd - half) \div 4
           r == q + 4 * quads
           rest == (len - odd - half) % 4
           s1 == Piece(odd = 1, pos, 1)
           s2 == Piece(half = 2, p, 2)
           s3 == [k \in 1..quads |-> <<q + 4 * (k - 1), 4>>]
           s4 == Piece(rest >= 2, r, 2)
           s5 == Piece(rest % 2 = 1, r + rest - 1, 1)
<1>1. odd \in {0, 1} /\ p \in Nat /\ odd <= len /\ (len - odd >= 1 => p % 2 = 0)
  OBVIOUS
<1> HIDE DEF odd, p
<1>2. /\ half \in {0, 2} /\ q \in Nat /\ half <= len - odd
      /\ len - odd - half >= 2 => q % 4 = 0
      /\ len - odd - half >= 1 => q % 2 = 0
      /\ half = 2 => (p % 4) + 2 <= 4
  BY <1>1 DEF p
<1>3. /\ quads \in Nat /\ rest \in 0..3 /\ r \in Nat
      /\ r + rest = pos + len
      /\ quads > 0 => q % 4 = 0
      /\ quads = 0 => r = q
      /\ rest >= 1 => r % 2 = 0
      /\ rest >= 2 => r % 4 = 0
  <2>1. len - odd - half \in Nat /\ q = pos + odd + half
    BY <1>1, <1>2 DEF p
  <2>2. PICK l \in Nat : l = len - odd - half
    BY <2>1
  <2> HIDE DEF half, q
  <2>3. /\ l \div 4 \in Nat /\ l % 4 \in 0..3 /\ l = 4 * (l \div 4) + (l % 4)
        /\ l \div 4 > 0 => l >= 4
    OBVIOUS
  <2>4. quads = l \div 4 /\ rest = l % 4
    BY <2>2
  <2>5. quads > 0 => q % 4 = 0
    BY <1>2, <2>2, <2>3, <2>4
  <2>6. r + rest = pos + len
    BY <1>1, <1>2, <2>1, <2>2, <2>3, <2>4
  <2>7. rest >= 1 => r % 2 = 0
    BY <1>2, <2>2, <2>3, <2>4
  <2>8. rest >= 2 => r % 4 = 0
    BY <1>2, <2>2, <2>3, <2>4
  <2> HIDE DEF quads, rest
  <2>9. QED
    BY <1>2, <2>3, <2>4, <2>5, <2>6, <2>7, <2>8
<1> HIDE DEF half, q, quads, rest, r
<1>4. Splits(s1, m, pos, p)
  <2>1. (odd = 1) \in BOOLEAN /\ (pos % 4) + 1 <= 4
    OBVIOUS
  <2>2. Splits(s1, m, pos, IF odd = 1 THEN pos + 1 ELSE pos)
    BY <2>1, MaybePiece
  <2>3. QED
    BY <1>1, <2>2 DEF p
<1>5. Splits(s2, m, p, q)
  <2>1. CASE half = 2
    <3>1. s2 = <<<<p, 2>>>> /\ q = p + 2 /\ (p % 4) + 2 <= 4
      BY <1>2, <2>1 DEF Piece, q
    <3>2. QED
      BY <1>1, <3>1, OnePiece
  <2>2. CASE half = 0
    <3>1. s2 = <<>> /\ q = p
      BY <1>1, <2>2 DEF Piece, q
    <3>2. QED
      BY <1>1, <3>1, NoPiece
  <2>3. QED
    BY <1>2, <2>1, <2>2
<1>6. Splits(s3, m, q, r)
  <2>1. CASE quads > 0
    BY <1>2, <1>3, <2>1, Quads DEF r
  <2>2. CASE quads = 0
    <3>1. s3 = <<>> /\ q = r
      BY <1>3, <2>2
    <3>2. QED
      BY <1>2, <3>1, NoPiece
  <2>3. QED
    BY <1>3, <2>1, <2>2
<1> DEFINE e == IF rest >= 2 THEN r + 2 ELSE r
<1> HIDE DEF e
<1>7. Splits(s4, m, r, e)
  <2>1. CASE rest >= 2
    <3>1. s4 = <<<<r, 2>>>> /\ (r % 4) + 2 <= 4
      BY <1>3, <2>1 DEF Piece
    <3>2. e = r + 2
      BY <2>1 DEF e
    <3>3. QED
      BY <1>3, <3>1, <3>2, OnePiece
  <2>2. CASE ~(rest >= 2)
    <3>1. s4 = <<>> /\ e = r
      BY <2>2 DEF Piece, e
    <3>2. QED
      BY <1>3, <3>1, NoPiece
  <2>3. QED
    BY <2>1, <2>2
<1>8. Splits(s5, m, e, r + rest)
  <2>1. e \in Nat
    BY <1>3 DEF e
  <2>2. CASE rest % 2 = 1
    <3>1. e = r + rest - 1 /\ (e % 4) + 1 <= 4 /\ e + 1 = r + rest
      BY <1>3, <2>2 DEF e
    <3>2. s5 = <<<<e, 1>>>>
      BY <2>2, <3>1 DEF Piece
    <3>3. Splits(s5, m, e, e + 1)
      BY <2>1, <3>1, <3>2, OnePiece
    <3>4. QED
      BY <3>1, <3>3, Zenon
  <2>3. CASE ~(rest % 2 = 1)
    <3>1. e = r + rest /\ s5 = <<>>
      BY <1>3, <2>3 DEF Piece, e
    <3>2. QED
      BY <2>1, <3>1, NoPiece
  <2>4. QED
    BY <2>2, <2>3
<1>9. Pieces(pos, len) = s1 \o s2 \o s3 \o s4 \o s5
  BY Zenon DEF Pieces, odd, p, half, q, quads, r, rest
<1> HIDE DEF s1, s2, s3, s4, s5, e
<1>10. Splits(s1 \o s2, m, pos, q)
  BY <1>4, <1>5, SplitsJoin
<1>11. Splits(s1 \o s2 \o s3, m, pos, r)
  BY <1>6, <1>10, SplitsJoin
<1>12. Splits(s1 \o s2 \o s3 \o s4, m, pos, e)
  BY <1>7, <1>11, SplitsJoin
<1>13. Splits(s1 \o s2 \o s3 \o s4 \o s5, m, pos, r + rest)
  BY <1>8, <1>12, SplitsJoin
<1>14. QED
  BY <1>3, <1>9, <1>13

----------------------------------------------------------------------------
(***************************************************************************)
(* Accesses.                                                               *)
(***************************************************************************)
RawMethods == Ports \cup KernelFiles

\* The smaller of two numbers.
LEMMA MinIs ==
  ASSUME NEW a \in Int, NEW b \in Int, a <= b
  PROVE  Min({a, b}) = a
<1>1. \A y \in {a, b} : (\A z \in {a, b} : y =< z) => y = a
  OBVIOUS
<1>2. \A z \in {a, b} : a =< z
  OBVIOUS
<1>3. (CHOOSE y \in {a, b} : \A z \in {a, b} : y =< z) = a
  BY <1>1, <1>2
<1>4. QED
  BY <1>3 DEF Min

\* An access that is not refused and does not leave the data ports ends where
\* it should.
LEMMA EndsRight ==
  ASSUME NEW m \in RawMethods, NEW p \in Nat, NEW l \in Nat,
         NEW d \in [domain : Nat, bus : 0..255, slot : 0..31, func : 0..7],
         m \in Ports => (p % 4) + l <= 4 /\ ~PortRefuses(m, d, p)
  PROVE  Reached(m, d, p, l) = [fn |-> d, from |-> p, count |-> l]
<1>1. d = [domain |-> d.domain, bus |-> d.bus, slot |-> d.slot, func |-> d.func]
  OBVIOUS
<1>2. m \in Ports => /\ d.domain = 0 /\ p < 256 /\ p \div 256 = 0 /\ p % 256 = p
                     /\ l <= 4 - (p % 4)
  BY DEF PortRefuses
<1>3. \A a : Or(a, 0) = a
  BY DEF Or
<1>4. CASE m = "intel-conf1"
  <2>1. /\ d.domain = 0 /\ p \div 256 = 0 /\ p % 256 = p /\ l <= 4 - (p % 4)
    BY <1>2, <1>4 DEF Ports
  <2>2. /\ d.bus % 256 = d.bus
        /\ (8 * d.slot + d.func) \div 8 = d.slot
        /\ (8 * d.slot + d.func) % 8 = d.func
    BY <1>1
  <2>3. Min({l, 4 - (p % 4)}) = l
    BY <2>1, MinIs
  <2>4. Reached(m, d, p, l) = Config1(d, p, l)
    BY <1>4, Zenon DEF Reached
  <2>5. Or(8 * d.slot + d.func, p \div 256) = 8 * d.slot + d.func
    BY <1>3, <2>1
  <2>6. Config1(d, p, l) =
          [fn |-> [domain |-> 0, bus |-> d.bus, slot |-> d.slot, func |-> d.func],
           from |-> p, count |-> l]
    <3>1. Config1(d, p, l) =
            [fn |-> [domain |-> 0, bus |-> d.bus % 256,
                     slot |-> Or(8 * d.slot + d.func, p \div 256) \div 8,
                     func |-> Or(8 * d.slot + d.func, p \div 256) % 8],
             from |-> p % 256, count |-> Min({l, 4 - (p % 4)})]
      BY Zenon DEF Config1
    <3>2. QED
      BY <2>1, <2>2, <2>3, <2>5, <3>1
  <2>7. QED
    BY <1>1, <2>1, <2>4, <2>6, Zenon
<1>5. CASE m = "intel-conf2"
  <2>1. /\ d.domain = 0 /\ p \div 256 = 0 /\ p % 256 = p
    BY <1>2, <1>5 DEF Ports
  <2>2. Reached(m, d, p, l) = Config2(d, p, l)
    BY <1>5, Zenon DEF Reached
  <2>3. Config2(d, p, l) =
          [fn |-> [domain |-> 0, bus |-> d.bus, slot |-> d.slot, func |-> d.func],
           from |-> p, count |-> l]
    BY <1>3, <2>1, Zenon DEF Config2
  <2>4. QED
    BY <1>1, <2>1, <2>2, <2>3, Zenon
<1>6. CASE m \in KernelFiles
  <2>1. m # "intel-conf1" /\ m # "intel-conf2"
    BY <1>6 DEF KernelFiles
  <2>2. QED
    BY <2>1, Zenon DEF Reached
<1>7. QED
  BY <1>4, <1>5, <1>6 DEF RawMethods, Ports

\* The pieces before the first that is refused.
LEMMA GrantedIs ==
  ASSUME NEW m, NEW d, NEW s, s \in Seq(Nat \X Nat)
  PROVE  /\ Granted(m, d, s) \in 0..Len(s)
         /\ \A k \in 1..Granted(m, d, s) : ~Refuses(m, d, s[k][1], s[k][2])
         /\ Granted(m, d, s) < Len(s) =>
              \E k \in 1..Len(s) : Refuses(m, d, s[k][1], s[k][2])
<1> DEFINE n == Len(s)
           good(k) == ~Refuses(m, d, s[k][1], s[k][2])
           S == {0} \cup {k \in DOMAIN s : \A j \in 1..k : good(j)}
<1>1. n \in Nat /\ DOMAIN s = 1..n
  BY LenProperties
<1>2. S \in SUBSET Int /\ 0 \in S /\ \A x \in S : x \in 0..n
  BY <1>1
<1>3. S \in SUBSET (0..n) /\ S # {}
  BY <1>2
<1> HIDE DEF S, n
<1>4. PICK g \in S : \A x \in S : x <= g
  BY <1>1, <1>3, LargestOf
<1>5. Max(S) = g
  BY <1>2, <1>4, MaxIs
<1>6. Granted(m, d, s) = g
  BY <1>5 DEF Granted, S
<1>7. \A k \in 1..g : good(k)
  <2> HIDE DEF good
  <2>1. QED
    BY <1>4 DEF S
<1>8. ASSUME g < n PROVE \E k \in 1..n : ~good(k)
  <2>1. g + 1 \in 1..n /\ g + 1 \notin S
    BY <1>1, <1>2, <1>4, <1>8
  <2> HIDE DEF good
  <2>2. \E k \in 1 .. g + 1 : ~good(k)
    BY <1>1, <2>1 DEF S
  <2>3. QED
    BY <1>1, <1>2, <2>1, <2>2
<1>9. QED
  BY <1>1, <1>2, <1>4, <1>6, <1>7, <1>8 DEF n

\* What a register of a device holds.
Holds(d, x) == IF x \in Positions THEN space[d][x] ELSE {}

\* An access of 1, 2 or 4 bytes through a port does not leave four registers.
FitsPort(m, pos, len) == m \in Ports /\ len \in Direct => (pos % 4) + len <= 4

LEMMA InPiecesSplit ==
  ASSUME NEW m, NEW pos \in Nat, NEW len \in Nat, FitsPort(m, pos, len)
  PROVE  Splits(InPieces(m, pos, len), m, pos, pos + len)
<1>1. CASE m \in Ports /\ len \notin Direct
  BY <1>1, PiecesSplit DEF InPieces
<1>2. CASE ~(m \in Ports /\ len \notin Direct)
  <2>1. m \in Ports => (pos % 4) + len <= 4
    BY <1>2 DEF FitsPort
  <2>2. InPieces(m, pos, len) = <<<<pos, len>>>>
    BY <1>2 DEF InPieces
  <2>3. QED
    BY <2>1, <2>2, OnePiece
<1>3. QED
  BY <1>1, <1>2

\* A piece that is not refused.
LEMMA PieceIs ==
  ASSUME NEW d \in Functions, method \in RawMethods, Answers(method, d),
         NEW p \in Nat, NEW l \in Nat, method \in Ports => (p % 4) + l <= 4,
         ~Refuses(method, d, p, l)
  PROVE  /\ Reached(method, d, p, l) = [fn |-> d, from |-> p, count |-> l]
         /\ In(method, d, p, l) = [i \in 1..l |-> Holds(d, p + i - 1)]
         /\ l # 0 => p + l <= Size(d)
<1>1. Reached(method, d, p, l) = [fn |-> d, from |-> p, count |-> l]
  <2>1. method \in Ports => ~PortRefuses(method, d, p)
    BY DEF Refuses
  <2>2. d \in [domain : Nat, bus : 0..255, slot : 0..31, func : 0..7]
    BY PositionsAssumption
  <2>3. QED
    BY <2>1, <2>2, EndsRight
<1>2. In(method, d, p, l) = [i \in 1..l |-> Holds(d, p + i - 1)]
  <2> DEFINE r == Reached(method, d, p, l)
  <2>1. In(method, d, p, l) =
          [i \in 1..l |->
             IF i > r.count \/ ~Answers(method, r.fn) THEN 0..7
             ELSE IF r.from + i - 1 \in Positions THEN space[r.fn][r.from + i - 1]
             ELSE {}]
    BY Zenon DEF In
  <2>2. r.fn = d /\ r.from = p /\ r.count = l
    BY <1>1
  <2> HIDE DEF r
  <2>3. \A i \in 1..l : /\ ~(i > r.count \/ ~Answers(method, r.fn))
                        /\ Holds(d, p + i - 1) =
                             IF r.from + i - 1 \in Positions
                             THEN space[r.fn][r.from + i - 1] ELSE {}
    BY <2>2 DEF Holds
  <2>4. QED
    BY <2>1, <2>3
<1>3. l # 0 => p + l <= Size(d)
  <2>1. CASE method \in Ports
    <3>1. ~PortRefuses(method, d, p)
      BY <2>1 DEF Refuses
    <3>2. p < 256 /\ ~PortRefuses(method, d, 0)
      BY <3>1 DEF PortRefuses
    <3>3. Size(d) = 256
      BY <2>1, <3>2 DEF Size
    <3>4. p + l <= 256
      BY <2>1, <3>2
    <3>5. QED
      BY <3>3, <3>4
  <2>2. CASE method \notin Ports
    BY <2>2 DEF Refuses, Size
  <2>3. QED
    BY <2>1, <2>2
<1>4. QED
  BY <1>1, <1>2, <1>3

\* A piece of a block ends where it should.
IsAccess(d, pos, len, p) ==
  /\ p[1] \in Nat /\ p[2] \in Nat /\ pos <= p[1] /\ p[1] + p[2] <= pos + len
  /\ Reached(method, d, p[1], p[2]) = [fn |-> d, from |-> p[1], count |-> p[2]]
  /\ In(method, d, p[1], p[2]) = [i \in 1..p[2] |-> Holds(d, p[1] + i - 1)]
  /\ p[2] # 0 => p[1] + p[2] <= Size(d)

\* The pieces of a block that are granted.
LEMMA GrantedPiece ==
  ASSUME NEW d \in Functions, method \in RawMethods, Answers(method, d),
         NEW pos \in Nat, NEW len \in Nat, FitsPort(method, pos, len),
         NEW s, s = InPieces(method, pos, len),
         NEW k \in 1..Granted(method, d, s)
  PROVE  k \in 1..Len(s) /\ IsAccess(d, pos, len, s[k])
<1>1. Splits(s, method, pos, pos + len)
  BY InPiecesSplit
<1>2. s \in Seq(Nat \X Nat)
  BY <1>1 DEF Splits
<1>3. Granted(method, d, s) \in 0..Len(s) /\ Len(s) \in Nat
  BY <1>2, GrantedIs, LenProperties
<1>4. k \in 1..Len(s)
  BY <1>3
<1>5. s[k][1] \in Nat /\ s[k][2] \in Nat
  BY <1>2, <1>4, ElementOfSeq
<1>6. /\ pos <= s[k][1] /\ s[k][1] + s[k][2] <= pos + len
      /\ method \in Ports => (s[k][1] % 4) + s[k][2] <= 4
  BY <1>1, <1>4 DEF Splits
<1>7. ~Refuses(method, d, s[k][1], s[k][2])
  BY <1>2, GrantedIs
<1>8. QED
  BY <1>4, <1>5, <1>6, <1>7, PieceIs DEF IsAccess

\* A block that could be read is what the registers hold.
LEMMA ReadIs ==
  ASSUME NEW d \in Functions, method \in RawMethods, Answers(method, d),
         NEW pos \in Nat, NEW len \in Nat, FitsPort(method, pos, len),
         Read(method, d, pos, len).ok
  PROVE  /\ Read(method, d, pos, len).bytes =
              [i \in 1..len |-> Holds(d, pos + i - 1)]
         /\ len # 0 => pos + len <= Size(d)
<1> DEFINE s == InPieces(method, pos, len)
           byte(x) == LET k == CHOOSE j \in DOMAIN s : x \in Covered(s[j])
                      IN In(method, d, s[k][1], s[k][2])[x - s[k][1] + 1]
<1>1. Splits(s, method, pos, pos + len)
  BY InPiecesSplit
<1>2. s \in Seq(Nat \X Nat) /\ Len(s) \in Nat /\ DOMAIN s = 1..Len(s)
  BY <1>1, LenProperties DEF Splits
<1>3. ~(Granted(method, d, s) < Len(s) \/ Refuses(method, d, pos, len))
  <2>1. SUFFICES ASSUME Granted(method, d, s) < Len(s) \/ Refuses(method, d, pos, len)
                 PROVE  FALSE
    OBVIOUS
  <2>2. Read(method, d, pos, len) = [ok |-> FALSE]
    BY <2>1, Zenon DEF Read
  <2>3. QED
    BY <2>2
<1>4. Read(method, d, pos, len) =
        [ok |-> TRUE, bytes |-> [i \in 1..len |-> byte(pos + i - 1)]]
  BY <1>3, Zenon DEF Read
<1>5. Granted(method, d, s) = Len(s)
  BY <1>2, <1>3, GrantedIs
<1>6. ASSUME NEW x \in pos .. pos + len - 1
      PROVE  byte(x) = Holds(d, x) /\ x < Size(d)
  <2> HIDE DEF s, byte
  <2>1. \E k \in 1..Len(s) : x \in Covered(s[k])
    <3>1. x \in pos .. (pos + len) - 1
      OBVIOUS
    <3>2. QED
      BY <1>1, <3>1, Zenon DEF Splits
  <2>2. PICK k \in 1..Len(s) :
          /\ x \in Covered(s[k])
          /\ k = CHOOSE j \in DOMAIN s : x \in Covered(s[j])
    BY <1>2, <2>1, Zenon
  <2>3. byte(x) = In(method, d, s[k][1], s[k][2])[x - s[k][1] + 1]
    BY <2>2, Zenon DEF byte
  <2>4. /\ s[k][1] \in Nat /\ s[k][2] \in Nat
        /\ In(method, d, s[k][1], s[k][2]) =
             [i \in 1..s[k][2] |-> Holds(d, s[k][1] + i - 1)]
        /\ s[k][2] # 0 => s[k][1] + s[k][2] <= Size(d)
    <3>1. k \in 1..Granted(method, d, s) /\ s = InPieces(method, pos, len)
      BY <1>5 DEF s
    <3>2. IsAccess(d, pos, len, s[k])
      BY <3>1, GrantedPiece
    <3>3. QED
      BY <3>2, Zenon DEF IsAccess
  <2>5. /\ x - s[k][1] + 1 \in 1..s[k][2] /\ s[k][2] # 0
        /\ s[k][1] + (x - s[k][1] + 1) - 1 = x
        /\ x < s[k][1] + s[k][2]
    <3>1. PICK p \in Nat, l \in Nat : p = s[k][1] /\ l = s[k][2]
      BY <2>4
    <3>2. x \in p .. p + l - 1
      BY <2>2, <3>1 DEF Covered
    <3>3. x - p + 1 \in 1..l /\ l # 0 /\ p + (x - p + 1) - 1 = x /\ x < p + l
      BY <3>2
    <3>4. QED
      BY <3>1, <3>3, Zenon
  <2>6. byte(x) = Holds(d, x)
    BY <2>3, <2>4, <2>5
  <2>7. Size(d) \in Nat
    BY DEF Size
  <2>8. QED
    <3>1. s[k][1] + s[k][2] <= Size(d) /\ x < s[k][1] + s[k][2]
      BY <2>4, <2>5, Zenon
    <3>2. PICK e \in Nat : e = s[k][1] + s[k][2]
      BY <2>4
    <3>3. x < Size(d)
      BY <2>7, <3>1, <3>2
    <3>4. QED
      BY <2>6, <3>3
<1> HIDE DEF byte
<1>7. \A i \in 1..len : byte(pos + i - 1) = Holds(d, pos + i - 1)
  BY <1>6
<1>8. len # 0 => pos + len <= Size(d)
  <2>1. len # 0 => pos + len - 1 < Size(d)
    BY <1>6
  <2>2. Size(d) \in Nat
    BY DEF Size
  <2>3. QED
    BY <2>1, <2>2
<1>9. [i \in 1..len |-> byte(pos + i - 1)] = [i \in 1..len |-> Holds(d, pos + i - 1)]
  BY <1>7
<1>10. Read(method, d, pos, len).bytes = [i \in 1..len |-> byte(pos + i - 1)]
  <2>1. PICK b : b = [i \in 1..len |-> byte(pos + i - 1)]
    OBVIOUS
  <2>2. Read(method, d, pos, len) = [ok |-> TRUE, bytes |-> b]
    BY <1>4, <2>1, Zenon
  <2>3. QED
    BY <2>1, <2>2
<1>11. QED
  BY <1>8, <1>9, <1>10, Zenon

\* A unit that could not be read is outside the registers.
LEMMA UnitRefused ==
  ASSUME NEW d \in Functions, method \in RawMethods, Answers(method, d),
         NEW pos \in Nat, NEW len \in Direct, pos % len = 0,
         ~Read(method, d, pos, len).ok
  PROVE  pos >= Size(d)
<1> DEFINE s == <<<<pos, len>>>>
<1>1. InPieces(method, pos, len) = s
  BY DEF InPieces
<1>2. Refuses(method, d, pos, len)
  <2>1. SUFFICES ASSUME ~Refuses(method, d, pos, len)
                 PROVE  FALSE
    OBVIOUS
  <2>2. /\ s \in Seq(Nat \X Nat) /\ Len(s) = 1
        /\ \A k \in 1..Len(s) : s[k][1] = pos /\ s[k][2] = len
    BY DEF Direct
  <2> HIDE DEF s
  <2>3. ~(Granted(method, d, s) < Len(s))
    BY <2>1, <2>2, GrantedIs
  <2>4. \E b : Read(method, d, pos, len) = [ok |-> TRUE, bytes |-> b]
    BY <1>1, <2>1, <2>3, Zenon DEF Read
  <2>5. QED
    BY <2>4
<1>3. CASE method \in Ports
  <2>1. PortRefuses(method, d, pos)
    BY <1>2, <1>3 DEF Refuses
  <2>2. CASE PortRefuses(method, d, 0)
    <3>1. Size(d) = 0
      BY <1>3, <2>2 DEF Size
    <3>2. QED
      BY <3>1
  <2>3. CASE ~PortRefuses(method, d, 0)
    <3>1. Size(d) = 256 /\ pos >= 256
      BY <1>3, <2>1, <2>3 DEF Size, PortRefuses
    <3>2. QED
      BY <3>1
  <2>4. QED
    BY <2>2, <2>3
<1>4. CASE method \notin Ports
  <2>1. pos + len > 4096 /\ Size(d) = 4096
    BY <1>2, <1>4 DEF Refuses, Size
  <2>2. len = 1 \/ (len = 2 /\ pos % 2 = 0) \/ (len = 4 /\ pos % 4 = 0)
    BY DEF Direct
  <2>3. pos >= 4096
    BY <2>1, <2>2
  <2>4. QED
    BY <2>1, <2>3
<1>5. QED
  BY <1>3, <1>4

\* A block that is written: its registers get the contents, or some of them if
\* it is refused, and no other register changes.
Wrote(r, d, pos, len, f) ==
  /\ \A fn \in Functions : \A x \in Positions :
       \/ r.space[fn][x] = space[fn][x]
       \/ fn = d /\ x \in Block(pos, len)
  /\ r.ok => \A x \in Positions \cap Block(pos, len) : r.space[d][x] = f
  /\ \A fn \in Functions : \A x \in Positions : r.space[fn][x] \in {space[fn][x], f}

LEMMA WriteIs ==
  ASSUME NEW d \in Functions, method \in RawMethods, Answers(method, d),
         NEW pos \in Nat, NEW len \in Nat, FitsPort(method, pos, len),
         NEW f, NEW all, all = [i \in 1..len |-> f]
  PROVE  Wrote(Write(method, d, pos, all), d, pos, len, f)
<1> DEFINE r == Write(method, d, pos, all)
           s == InPieces(method, pos, Len(all))
           g == IF Refuses(method, d, pos, Len(all)) THEN 0
                ELSE Granted(method, d, s)
           ends == [k \in 1..g |-> Reached(method, d, s[k][1], s[k][2])]
           reaching(fn, x) == {k \in 1..g : Out(method, ends[k], fn, x)}
           byte(k, x) == all[s[k][1] - pos + x - ends[k].from + 1]
           reg(fn, x) == IF reaching(fn, x) = {} THEN space[fn][x]
                         ELSE byte(Max(reaching(fn, x)), x)
<1>1. r = [ok |-> g = Len(s),
           space |-> [fn \in Functions |-> [x \in Positions |-> reg(fn, x)]]]
  BY Zenon DEF Write
<1>2. Len(all) = len /\ \A i \in 1..len : all[i] = f
  <2>1. all \in Seq({f}) /\ Len(all) = len
    OBVIOUS
  <2>2. QED
    BY <2>1
<1>3. /\ r.ok = (g = Len(s))
      /\ \A fn \in Functions : \A x \in Positions : r.space[fn][x] = reg(fn, x)
  <2>1. PICK t : t = [fn \in Functions |-> [x \in Positions |-> reg(fn, x)]]
    OBVIOUS
  <2>2. r = [ok |-> g = Len(s), space |-> t]
    BY <1>1, <2>1, Zenon
  <2>3. r.ok = (g = Len(s)) /\ r.space = t
    BY <2>2
  <2> HIDE DEF reg
  <2>4. \A fn \in Functions : \A x \in Positions : t[fn][x] = reg(fn, x)
    BY <2>1
  <2>5. QED
    BY <2>3, <2>4
<1> HIDE DEF r
<1>4. s = InPieces(method, pos, len) /\ Splits(s, method, pos, pos + len)
  BY <1>2, InPiecesSplit
<1>5. g \in 0..Len(s) /\ Len(s) \in Nat
  BY <1>4, GrantedIs, LenProperties DEF Splits
<1>6. ASSUME NEW k \in 1..g
      PROVE  k \in 1..Len(s) /\ IsAccess(d, pos, len, s[k])
  <2>1. g = Granted(method, d, s)
    BY <1>6
  <2> HIDE DEF g, s
  <2>2. k \in 1..Granted(method, d, s)
    BY <2>1
  <2>3. QED
    BY <1>4, <2>2, GrantedPiece
<1> HIDE DEF g, s
<1>7. ASSUME NEW k \in 1..g
      PROVE  ends[k].fn = d /\ ends[k].from = s[k][1] /\ ends[k].count = s[k][2]
  <2>1. Reached(method, d, s[k][1], s[k][2]) =
          [fn |-> d, from |-> s[k][1], count |-> s[k][2]]
    BY <1>6, <1>7, Zenon DEF IsAccess
  <2>2. ends[k] = Reached(method, d, s[k][1], s[k][2])
    OBVIOUS
  <2> HIDE DEF ends
  <2>3. QED
    BY <2>1, <2>2
<1> HIDE DEF ends
<1>8. ASSUME NEW fn \in Functions, NEW x \in Positions
      PROVE  reaching(fn, x) = {k \in 1..g : fn = d /\ x \in Covered(s[k])}
  <2>1. ASSUME NEW k \in 1..g
        PROVE  Out(method, ends[k], fn, x) <=> fn = d /\ x \in Covered(s[k])
    <3>1. /\ ends[k].fn = d /\ ends[k].from = s[k][1] /\ ends[k].count = s[k][2]
      BY <1>7
    <3>2. QED
      BY <3>1, Zenon DEF Out, Covered
  <2>2. QED
    BY <2>1
<1>9. ASSUME NEW k \in 1..g, NEW x \in Covered(s[k])
      PROVE  byte(k, x) = f /\ x \in Block(pos, len)
  <2>1. PICK p \in Nat, l \in Nat :
          /\ p = s[k][1] /\ l = s[k][2] /\ pos <= p /\ p + l <= pos + len
    BY <1>6 DEF IsAccess
  <2>2. ends[k].from = p
    BY <1>7, <2>1
  <2>3. x \in p .. p + l - 1
    BY <2>1, Zenon DEF Covered
  <2>7. pos <= p /\ p + l <= pos + len
    BY <2>1, Zenon
  <2>4. p - pos + x - p + 1 \in 1..len /\ x \in pos .. pos + len - 1
    BY <2>3, <2>7
  <2>5. byte(k, x) = all[p - pos + x - p + 1]
    BY <2>1, <2>2, Zenon
  <2>6. QED
    BY <1>2, <2>4, <2>5 DEF Block
<1>10. ASSUME NEW fn \in Functions, NEW x \in Positions, reaching(fn, x) # {}
       PROVE  reg(fn, x) = f /\ fn = d /\ x \in Block(pos, len)
  <2>1. PICK S : S = reaching(fn, x)
    OBVIOUS
  <2>2. /\ S \in SUBSET (0..Len(s)) /\ S # {} /\ S \in SUBSET Int
        /\ \A k \in S : k \in 1..g /\ fn = d /\ x \in Covered(s[k])
    BY <1>5, <1>8, <1>10, <2>1
  <2>3. PICK k \in S : \A j \in S : j <= k
    BY <1>5, <2>2, LargestOf
  <2>4. Max(S) = k
    BY <2>2, <2>3, MaxIs
  <2>5. reg(fn, x) = byte(k, x)
    BY <1>10, <2>1, <2>4, Zenon
  <2>6. QED
    BY <1>9, <2>2, <2>3, <2>5
<1>11. ASSUME r.ok, NEW x \in Positions \cap Block(pos, len)
       PROVE  r.space[d][x] = f
  <2>0. x \in pos .. (pos + len) - 1
    BY DEF Block
  <2>1. PICK k \in 1..Len(s) : x \in Covered(s[k])
    BY <1>4, <2>0, Zenon DEF Splits
  <2>2. k \in 1..g
    BY <1>3, <1>11, <2>1
  <2>3. reaching(d, x) # {}
    BY <1>8, <1>11, <2>1, <2>2
  <2> HIDE DEF reaching, reg
  <2>4. QED
    BY <1>3, <1>10, <2>3
<1>12. \A fn \in Functions : \A x \in Positions :
         \/ r.space[fn][x] = space[fn][x]
         \/ fn = d /\ x \in Block(pos, len)
  <2>1. \A fn, x : reaching(fn, x) = {} => reg(fn, x) = space[fn][x]
    OBVIOUS
  <2> HIDE DEF reaching, reg
  <2>2. QED
    BY <1>3, <1>10, <2>1
<1>13. \A fn \in Functions : \A x \in Positions : r.space[fn][x] \in {space[fn][x], f}
  <2>1. \A fn, x : reaching(fn, x) = {} => reg(fn, x) = space[fn][x]
    OBVIOUS
  <2> HIDE DEF reaching, reg
  <2>2. QED
    BY <1>3, <1>10, <2>1
<1>14. QED
  BY <1>11, <1>12, <1>13 DEF Wrote, r

----------------------------------------------------------------------------
(***************************************************************************)
(* The cache.                                                              *)
(***************************************************************************)
\* A unit does not begin in a cache and end behind it.
WholeCaches == \A len \in CacheLens : len % 4 = 0

\* The client's blocks of 2 and 4 bytes do not leave the data ports.
FitPorts == \A a \in Accesses : FitsPort(method, a[1], a[2])

\* Registers hold bytes.
HoldsBytes == \A fn \in Functions : \A x \in Positions : space[fn][x] \in Byte

\* Where the client begins: with a device that answers.
ClientStart ==
  /\ CacheInit /\ HoldsBytes
  /\ method \in RawMethods /\ Answers(method, dev) /\ FitPorts

ClientSpec ==
  /\ ClientStart
  /\ [][ClientStep]_<<machine, tree, method, space, cacheVars>>

CacheInv ==
  /\ dev \in Functions /\ method \in RawMethods /\ Answers(method, dev) /\ FitPorts
  /\ cacheLen \in Nat /\ cacheLen % 4 = 0 /\ cacheLen <= Size(dev)
  /\ DOMAIN cache = Positions \cap 0 .. cacheLen - 1
  /\ CacheIsSpace /\ CacheTypeOK /\ HoldsBytes

\* What no step of the client changes.
LEMMA SameDevice ==
  ASSUME CacheInv, UNCHANGED <<machine, tree, method, dev>>
  PROVE  /\ (dev \in Functions /\ method \in RawMethods /\ Answers(method, dev) /\ FitPorts)'
         /\ Size(dev)' = Size(dev)
         /\ \A d : Size(d)' = Size(d)
<1>1. FitPorts' = FitPorts
  BY DEF FitPorts, FitsPort
<1>2. \A d : Size(d)' = Size(d)
  BY DEF Size
<1>3. Answers(method, dev)' = Answers(method, dev)
  BY DEF Answers
<1>4. Size(dev)' = Size(dev)
  BY DEF Size
<1>5. QED
  BY <1>1, <1>2, <1>3, <1>4 DEF CacheInv

\* The registers are handed over.
LEMMA SetupKeeps ==
  ASSUME WholeCaches, CacheInv, NEW len \in CacheLens, SetupCache(len)
  PROVE  CacheInv' /\ ReadIsSpace' /\ StaysInside
<1>1. /\ Read(method, dev, 0, len).ok /\ cacheLen' = len
      /\ cache' = [x \in Positions \cap 0 .. len - 1 |->
                     Read(method, dev, 0, len).bytes[x + 1]]
      /\ last' = [call |-> "setup"] /\ UNCHANGED <<machine, tree, method, space, dev>>
  BY DEF SetupCache
<1>2. len \in Nat /\ len % 4 = 0 /\ FitsPort(method, 0, len)
  BY AccessAssumption DEF WholeCaches, FitsPort, Direct
<1>3. /\ Read(method, dev, 0, len).bytes = [i \in 1..len |-> Holds(dev, 0 + i - 1)]
      /\ len # 0 => 0 + len <= Size(dev)
  BY <1>1, <1>2, ReadIs DEF CacheInv
<1>4. len <= Size(dev)
  <2>1. Size(dev) \in Nat
    BY DEF Size
  <2>2. QED
    BY <1>2, <1>3, <2>1
<1>5. \A x \in Positions \cap 0 .. len - 1 : cache'[x] = space'[dev'][x]
  <2>1. ASSUME NEW x \in Positions \cap 0 .. len - 1
        PROVE  cache'[x] = space[dev][x]
    <3>1. x + 1 \in 1..len /\ 0 + (x + 1) - 1 = x
      BY <1>2
    <3>2. cache'[x] = Holds(dev, x)
      BY <1>1, <1>3, <3>1
    <3>3. QED
      BY <3>2 DEF Holds
  <2>2. QED
    BY <1>1, <2>1
<1>6. DOMAIN cache' = Positions \cap 0 .. len - 1
  BY <1>1
<1>7. CacheInv'
  <2>1. /\ dev' \in Functions /\ \A x \in Positions \cap 0 .. len - 1 : x \in Positions
        /\ HoldsBytes /\ HoldsBytes'
    BY <1>1 DEF CacheInv, HoldsBytes
  <2>2. \A x \in DOMAIN cache' : cache'[x] \in Byte
    BY <1>1, <1>5, <1>6, <2>1 DEF HoldsBytes
  <2>3. doubtful' = {}
    BY DEF SetupCache
  <2>4. last'.call \in Calls
    BY <1>1 DEF Calls
  <2>5. CacheTypeOK'
    BY <1>1, <1>6, <2>2, <2>3, <2>4 DEF CacheInv, CacheTypeOK
  <2>6. QED
    BY <1>1, <1>2, <1>4, <1>5, <1>6, <2>1, <2>5, SameDevice DEF CacheInv, CacheIsSpace
<1>8. ReadIsSpace'
  BY <1>1 DEF ReadIsSpace
<1>9. StaysInside
  BY <1>1 DEF StaysInside
<1>10. QED
  BY <1>7, <1>8, <1>9

\* A call that changes nothing but what the client has been told.
LEMMA CacheStays ==
  ASSUME CacheInv, UNCHANGED <<machine, tree, method, space, dev, cache, cacheLen, doubtful>>,
         last'.call \in Calls
  PROVE  CacheInv' /\ StaysInside
<1>1. CacheIsSpace' /\ CacheTypeOK' /\ HoldsBytes'
  BY DEF CacheInv, CacheIsSpace, CacheTypeOK, HoldsBytes
<1>2. CacheInv'
  BY <1>1, SameDevice DEF CacheInv
<1>3. QED
  BY <1>2 DEF StaysInside

\* A unit is read.
LEMMA DataIs ==
  ASSUME CacheInv, NEW pos \in Nat, NEW len \in Direct, pos % len = 0,
         FitsPort(method, pos, len)
  PROVE  /\ Len(Data(pos, len)) = len
         /\ \A i \in 1..len :
              LET x == pos + i - 1
              IN \/ Data(pos, len)[i] = IF x >= Size(dev) THEN 0..7 ELSE Holds(dev, x)
                 \/ x \in doubtful
<1>1. len \in Nat /\ Size(dev) \in Nat
  BY DEF Direct, Size
<1>2. CASE pos + len <= cacheLen
  <2>1. Data(pos, len) = [i \in 1..len |-> IF pos + i - 1 \in Positions
                                          THEN cache[pos + i - 1] ELSE {}]
    BY <1>2, Zenon DEF Data
  <2>2. Len(Data(pos, len)) = len
    BY <1>1, <2>1
  <2>3. ASSUME NEW i \in 1..len, NEW x, x = pos + i - 1
        PROVE  \/ Data(pos, len)[i] = IF x >= Size(dev) THEN 0..7 ELSE Holds(dev, x)
               \/ x \in doubtful
    <3>1. x \in 0 .. cacheLen - 1 /\ ~(x >= Size(dev))
      BY <1>1, <1>2, <2>3 DEF CacheInv
    <3>2. x \in Positions => x \in doubtful \/ cache[x] = space[dev][x]
      BY <3>1 DEF CacheInv, CacheIsSpace
    <3>3. Data(pos, len)[i] = IF x \in Positions THEN cache[x] ELSE {}
      BY <2>1, <2>3
    <3>4. QED
      BY <3>1, <3>2, <3>3 DEF Holds
  <2>4. QED
    BY <2>2, <2>3
<1>3. CASE ~(pos + len <= cacheLen) /\ Read(method, dev, pos, len).ok
  <2>1. Data(pos, len) = Read(method, dev, pos, len).bytes
    BY <1>3, Zenon DEF Data
  <2>2. /\ Read(method, dev, pos, len).bytes =
             [i \in 1..len |-> Holds(dev, pos + i - 1)]
        /\ len # 0 => pos + len <= Size(dev)
    BY <1>1, <1>3, ReadIs DEF CacheInv
  <2>3. Len(Data(pos, len)) = len
    BY <1>1, <2>1, <2>2
  <2>4. \A i \in 1..len : /\ Data(pos, len)[i] = Holds(dev, pos + i - 1)
                          /\ ~(pos + i - 1 >= Size(dev))
    BY <1>1, <2>1, <2>2
  <2>5. QED
    BY <2>3, <2>4
<1>4. CASE ~(pos + len <= cacheLen) /\ ~Read(method, dev, pos, len).ok
  <2>1. Data(pos, len) = [i \in 1..len |-> 0..7]
    BY <1>4, Zenon DEF Data, Ones
  <2>2. pos >= Size(dev)
    BY <1>4, UnitRefused DEF CacheInv
  <2>3. Len(Data(pos, len)) = len
    BY <1>1, <2>1
  <2>4. \A i \in 1..len : Data(pos, len)[i] = 0..7 /\ pos + i - 1 >= Size(dev)
    BY <1>1, <2>1, <2>2
  <2>5. QED
    BY <2>3, <2>4
<1>5. QED
  BY <1>2, <1>3, <1>4

\* The client reads.
LEMMA ReadKeeps ==
  ASSUME CacheInv, NEW a \in Accesses, ReadData(a[1], a[2]) \/ ReadBlock(a[1], a[2])
  PROVE  CacheInv' /\ ReadIsSpace' /\ StaysInside
<1> DEFINE pos == a[1]
           len == a[2]
<1>1. UNCHANGED <<machine, tree, method, space, dev, cache, cacheLen, doubtful>>
  BY DEF ReadData, ReadBlock
<1>2. pos \in Nat /\ len \in Nat /\ FitsPort(method, pos, len)
  BY AccessAssumption DEF CacheInv, FitPorts
<1> HIDE DEF pos, len
<1>3. PICK l : l = last'
  OBVIOUS
<1>4. PICK d : d = dev
  OBVIOUS
<1> DEFINE right(got) ==
             \A i \in 1..Len(got) :
               LET x == l.pos + i - 1
               IN \/ got[i] = IF x >= Size(d) THEN 0..7 ELSE Holds(d, x)
                  \/ l.call = "read" /\ x \in doubtful
<1>5. (l.call \in {"read", "block"} =>
         ((Len(l.bytes) \in Direct => l.pos % Len(l.bytes) = 0) => right(l.bytes)))
      => ReadIsSpace'
  <2>1. /\ last' = l /\ dev' = d /\ doubtful' = doubtful /\ space' = space
        /\ \A e : Size(e)' = Size(e)
    BY <1>1, <1>3, <1>4, SameDevice
  <2>2. QED
    BY <2>1 DEF ReadIsSpace, Holds
<1>9. last'.call \in Calls
  BY DEF ReadData, ReadBlock, Calls, pos, len
<1>6. CASE ReadData(pos, len)
  <2>1. /\ l = [call |-> "read", pos |-> pos, bytes |-> Data(pos, len)]
        /\ len \in Direct /\ pos % len = 0
    BY <1>3, <1>6 DEF ReadData
  <2>2. l.call = "read" /\ l.pos = pos /\ l.bytes = Data(pos, len)
    BY <2>1
  <2>3. /\ Len(Data(pos, len)) = len
        /\ \A i \in 1..len :
             LET x == pos + i - 1
             IN \/ Data(pos, len)[i] = IF x >= Size(d) THEN 0..7 ELSE Holds(d, x)
                \/ x \in doubtful
    BY <1>2, <1>4, <2>1, DataIs
  <2>4. right(l.bytes)
    BY <2>2, <2>3
  <2>5. QED
    BY <1>1, <1>5, <2>4, <1>9, CacheStays
<1>7. CASE ReadBlock(pos, len)
  <2>1. CASE Read(method, dev, pos, len).ok /\ (len \in Direct => pos % len = 0)
    <3>1. l = [call |-> "block", pos |-> pos, bytes |-> Read(method, dev, pos, len).bytes]
      BY <1>3, <1>7, <2>1 DEF ReadBlock
    <3>2. /\ Read(method, d, pos, len).bytes = [i \in 1..len |-> Holds(d, pos + i - 1)]
          /\ len # 0 => pos + len <= Size(d)
      <4>1. d \in Functions /\ method \in RawMethods /\ Answers(method, d)
        BY <1>4 DEF CacheInv
      <4>2. Read(method, d, pos, len).ok
        BY <1>4, <2>1
      <4>3. QED
        BY <1>2, <4>1, <4>2, ReadIs
    <3>3. l.pos = pos /\ l.bytes = [i \in 1..len |-> Holds(d, pos + i - 1)]
      BY <1>4, <3>1, <3>2
    <3>4. /\ Len(l.bytes) = len
          /\ \A i \in 1..len : /\ l.bytes[i] = Holds(d, l.pos + i - 1)
                               /\ ~(l.pos + i - 1 >= Size(d))
      <4>1. Size(d) \in Nat
        BY DEF Size
      <4>2. QED
        BY <1>2, <3>2, <3>3, <4>1
    <3>5. right(l.bytes)
      BY <3>4
    <3>6. QED
      BY <1>1, <1>5, <3>5, <1>9, CacheStays
  <2>2. CASE Read(method, dev, pos, len).ok /\ ~(len \in Direct => pos % len = 0)
    <3>1. l = [call |-> "block", pos |-> pos, bytes |-> Read(method, dev, pos, len).bytes]
      BY <1>3, <1>7, <2>2 DEF ReadBlock
    <3>2. Read(method, dev, pos, len).bytes = [i \in 1..len |-> Holds(dev, pos + i - 1)]
      BY <1>2, <2>2, ReadIs DEF CacheInv
    <3>3. l.pos = pos /\ Len(l.bytes) = len
      BY <1>2, <3>1, <3>2
    <3>4. QED
      BY <1>1, <1>5, <2>2, <3>3, <1>9, CacheStays
  <2>3. CASE ~Read(method, dev, pos, len).ok
    <3>1. l = [call |-> "none"]
      BY <1>3, <1>7, <2>3 DEF ReadBlock
    <3>2. QED
      BY <1>1, <1>5, <3>1, <1>9, CacheStays
  <2>4. QED
    BY <2>1, <2>2, <2>3
<1>8. QED
  BY <1>6, <1>7 DEF pos, len

\* memcpy() into the cache.
LEMMA CopiedIs ==
  ASSUME CacheInv, NEW pos \in Nat, NEW count \in Nat, pos + count <= cacheLen, NEW f
  PROVE  /\ DOMAIN Copied(pos, count, f) = DOMAIN cache
         /\ \A x \in DOMAIN cache :
              Copied(pos, count, f)[x] = IF x \in Block(pos, count) THEN f ELSE cache[x]
<1>1. Positions \cap Block(pos, count) \subseteq DOMAIN cache
  BY DEF CacheInv, Block
<1>2. QED
  BY <1>1 DEF Copied

\* The write method and what the client has been told of it.
LEMMA WritesKeep ==
  ASSUME CacheInv, NEW a \in Accesses, NEW f \in Fills, NEW call \in {"write", "writeblock"},
         Writes(a[1], a[2], f, call),
         DOMAIN cache' = DOMAIN cache,
         \A x \in DOMAIN cache : cache'[x] = IF x \in Block(a[1], a[2]) THEN f
                                             ELSE cache[x]
  PROVE  CacheInv' /\ ReadIsSpace' /\ StaysInside
<1> DEFINE pos == a[1]
           len == a[2]
<1>1. pos \in Nat /\ len \in Nat /\ FitsPort(method, pos, len)
  BY AccessAssumption DEF CacheInv, FitPorts
<1>2. /\ UNCHANGED <<machine, tree, method, dev, cacheLen>>
      /\ last' = [call |-> call, pos |-> pos, len |-> len]
  BY DEF Writes
<1>3. PICK d, all, r : /\ d \in Functions /\ d = dev
                       /\ all = [i \in 1..len |-> f]
                       /\ r = Write(method, d, pos, all)
  BY DEF CacheInv
<1>4. /\ space' = r.space
      /\ doubtful' = IF r.ok THEN doubtful \ Block(pos, len)
                     ELSE doubtful \cup Block(pos, len)
  BY <1>3 DEF Writes
<1>5. /\ \A fn \in Functions : \A x \in Positions :
           \/ r.space[fn][x] = space[fn][x]
           \/ fn = d /\ x \in Block(pos, len)
      /\ r.ok => \A x \in Positions \cap Block(pos, len) : r.space[d][x] = f
      /\ \A fn \in Functions : \A x \in Positions : r.space[fn][x] \in {space[fn][x], f}
  <2>1. method \in RawMethods /\ Answers(method, d)
    BY <1>3 DEF CacheInv
  <2> HIDE DEF pos, len
  <2>2. Wrote(r, d, pos, len, f)
    BY <1>1, <1>3, <2>1, WriteIs
  <2>3. QED
    BY <2>2 DEF Wrote
<1>6. StaysInside
  BY <1>2, <1>3, <1>4, <1>5 DEF StaysInside
<1>7. ReadIsSpace'
  BY <1>2 DEF ReadIsSpace
<1>8. CacheIsSpace'
  <2>1. ASSUME NEW x \in DOMAIN cache
        PROVE  x \in doubtful' \/ cache'[x] = r.space[d][x]
    <3>1. x \in Positions /\ (x \in doubtful \/ cache[x] = space[d][x])
      BY <1>3 DEF CacheInv, CacheIsSpace
    <3>2. CASE x \in Block(pos, len)
      BY <1>4, <1>5, <3>1, <3>2
    <3>3. CASE x \notin Block(pos, len)
      <4>1. r.space[d][x] = space[d][x] /\ cache'[x] = cache[x]
        BY <1>3, <1>5, <3>1, <3>3
      <4>2. x \in doubtful => x \in doubtful'
        BY <1>4, <3>3
      <4>3. QED
        BY <3>1, <4>1, <4>2
    <3>4. QED
      BY <3>2, <3>3
  <2>2. QED
    BY <1>2, <1>3, <1>4, <2>1 DEF CacheIsSpace
<1>9. CacheInv'
  <2>1. f \in Byte /\ CacheTypeOK /\ HoldsBytes
    BY AccessAssumption DEF CacheInv
  <2>2. HoldsBytes'
    BY <1>4, <1>5, <2>1 DEF HoldsBytes
  <2>3. \A x \in DOMAIN cache' : cache'[x] \in Byte
    BY <2>1 DEF CacheTypeOK
  <2>4. doubtful' \subseteq Nat
    <3>1. Block(pos, len) \subseteq Nat /\ doubtful \subseteq Nat
      BY <1>1, <2>1 DEF Block, CacheTypeOK
    <3>2. QED
      BY <1>4, <3>1
  <2>5. last'.call \in Calls
    BY <1>2 DEF Calls
  <2>6. CacheTypeOK'
    BY <1>2, <2>1, <2>3, <2>4, <2>5 DEF CacheTypeOK
  <2>7. QED
    BY <1>2, <1>8, <2>2, <2>6, SameDevice DEF CacheInv
<1>10. QED
  BY <1>6, <1>7, <1>9

\* The client writes.
LEMMA WriteKeeps ==
  ASSUME CacheInv, NEW a \in Accesses, NEW f \in Fills,
         WriteData(a[1], a[2], f) \/ WriteBlock(a[1], a[2], f)
  PROVE  CacheInv' /\ ReadIsSpace' /\ StaysInside
<1> DEFINE pos == a[1]
           len == a[2]
<1>1. pos \in Nat /\ len \in Nat /\ len > 0
  BY AccessAssumption
<1>2. /\ cacheLen \in Nat /\ cacheLen % 4 = 0
      /\ DOMAIN cache = Positions \cap 0 .. cacheLen - 1
  BY DEF CacheInv
<1> HIDE DEF pos, len
<1>3. ASSUME NEW count \in Nat, pos + count <= cacheLen, cache' = Copied(pos, count, f),
             \A x \in DOMAIN cache : x \in Block(pos, count) <=> x \in Block(pos, len)
      PROVE  /\ DOMAIN cache' = DOMAIN cache
             /\ \A x \in DOMAIN cache : cache'[x] = IF x \in Block(pos, len) THEN f
                                                    ELSE cache[x]
  BY <1>1, <1>3, CopiedIs
<1>4. ASSUME pos >= cacheLen, cache' = cache
      PROVE  /\ DOMAIN cache' = DOMAIN cache
             /\ \A x \in DOMAIN cache : cache'[x] = IF x \in Block(pos, len) THEN f
                                                    ELSE cache[x]
  <2>1. \A x \in DOMAIN cache : x \notin Block(pos, len)
    BY <1>1, <1>2, <1>4 DEF Block
  <2>2. QED
    BY <1>4, <2>1
<1>5. CASE WriteData(pos, len, f)
  <2>1. /\ len \in Direct /\ pos % len = 0 /\ Writes(pos, len, f, "write")
        /\ cache' = IF pos + len <= cacheLen THEN Copied(pos, len, f) ELSE cache
    BY <1>5 DEF WriteData
  <2>2. CASE pos + len <= cacheLen
    BY <1>1, <1>3, <2>1, <2>2, WritesKeep DEF pos, len
  <2>3. CASE ~(pos + len <= cacheLen)
    <3>1. len = 1 \/ (len = 2 /\ pos % 2 = 0) \/ (len = 4 /\ pos % 4 = 0)
      BY <2>1 DEF Direct
    <3>2. pos >= cacheLen
      BY <1>1, <1>2, <2>3, <3>1
    <3>3. QED
      BY <1>4, <2>1, <2>3, <3>2, WritesKeep DEF pos, len
  <2>4. QED
    BY <2>2, <2>3
<1>6. CASE WriteBlock(pos, len, f)
  <2> DEFINE count == IF pos + len >= cacheLen THEN cacheLen - pos ELSE len
  <2>1. /\ Writes(pos, len, f, "writeblock")
        /\ cache' = IF pos >= cacheLen THEN cache ELSE Copied(pos, count, f)
    BY <1>6 DEF WriteBlock
  <2>2. CASE pos >= cacheLen
    BY <1>4, <2>1, <2>2, WritesKeep DEF pos, len
  <2>3. CASE ~(pos >= cacheLen)
    <3>1. count \in Nat /\ pos + count <= cacheLen /\ cache' = Copied(pos, count, f)
      BY <1>1, <1>2, <2>1, <2>3
    <3>2. \A x \in DOMAIN cache : x \in Block(pos, count) <=> x \in Block(pos, len)
      BY <1>1, <1>2, <2>3 DEF Block
    <3> HIDE DEF count
    <3>3. QED
      BY <1>3, <2>1, <3>1, <3>2, WritesKeep DEF pos, len
  <2>4. QED
    BY <2>2, <2>3
<1>7. QED
  BY <1>5, <1>6 DEF pos, len

\* Where the client begins.
LEMMA ClientStarts ==
  ASSUME ClientStart
  PROVE  CacheInv /\ ReadIsSpace
<1>1. dev \in Functions /\ cacheLen = 0 /\ cache = <<>> /\ last = [call |-> "none"]
  BY AccessAssumption DEF ClientStart, CacheInit
<1>2. DOMAIN cache = {} /\ 0 .. cacheLen - 1 = {}
  BY <1>1
<1>3. 0 <= Size(dev)
  BY DEF Size
<1>4. CacheTypeOK
  BY <1>1, <1>2 DEF ClientStart, CacheInit, CacheTypeOK, Calls
<1>5. QED
  BY <1>1, <1>2, <1>3, <1>4 DEF ClientStart, CacheInv, CacheIsSpace, ReadIsSpace

LEMMA ClientKeeps ==
  ASSUME WholeCaches, CacheInv, ClientStep
  PROVE  CacheInv' /\ ReadIsSpace' /\ StaysInside
<1>1. ASSUME NEW len \in CacheLens, SetupCache(len)
      PROVE  CacheInv' /\ ReadIsSpace' /\ StaysInside
  BY <1>1, SetupKeeps
<1>2. ASSUME NEW a \in Accesses, Unaligned(a[1], a[2])
      PROVE  CacheInv' /\ ReadIsSpace' /\ StaysInside
  <2>1. /\ UNCHANGED <<machine, tree, method, space, dev, cache, cacheLen, doubtful>>
        /\ last' = [call |-> "error"]
    BY <1>2 DEF Unaligned
  <2>2. ReadIsSpace' /\ last'.call \in Calls
    BY <2>1 DEF ReadIsSpace, Calls
  <2>3. QED
    BY <2>1, <2>2, CacheStays
<1>3. ASSUME NEW a \in Accesses, ReadData(a[1], a[2]) \/ ReadBlock(a[1], a[2])
      PROVE  CacheInv' /\ ReadIsSpace' /\ StaysInside
  BY <1>3, ReadKeeps
<1>4. ASSUME NEW a \in Accesses, NEW f \in Fills,
             WriteData(a[1], a[2], f) \/ WriteBlock(a[1], a[2], f)
      PROVE  CacheInv' /\ ReadIsSpace' /\ StaysInside
  BY <1>4, WriteKeeps
<1>5. QED
  BY <1>1, <1>2, <1>3, <1>4 DEF ClientStep

\* For any device, method, registers and accesses: as long as a cache ends with
\* a whole unit of 4 bytes and blocks of 2 and 4 bytes do not leave the data
\* ports, a client is given what the registers hold, from the cache or not, and
\* changes no register but those it writes.
THEOREM ClientIsGivenRegisters ==
  ASSUME WholeCaches
  PROVE  ClientSpec => ClientIsRaw
<1> DEFINE vs == <<machine, tree, method, space, cacheVars>>
           I == CacheInv /\ ReadIsSpace
<1>1. ClientStart => I
  BY ClientStarts
<1>2. I /\ [ClientStep]_vs => I'
  <2> SUFFICES ASSUME I, [ClientStep]_vs PROVE I'
    OBVIOUS
  <2>1. CASE ClientStep
    BY <2>1, ClientKeeps
  <2>2. CASE UNCHANGED vs
    <3>1. CacheIsSpace' /\ ReadIsSpace' /\ CacheTypeOK' /\ HoldsBytes'
      <4>1. \A d : Size(d)' = Size(d)
        BY <2>2 DEF Size
      <4>2. PICK d, l : d = dev /\ l = last
        OBVIOUS
      <4>3. /\ dev' = d /\ last' = l /\ space' = space /\ cache' = cache
            /\ doubtful' = doubtful
        BY <2>2, <4>2 DEF cacheVars
      <4>4. CacheIsSpace'
        <5>1. CacheIsSpace
          BY DEF CacheInv
        <5>2. QED
          BY <4>2, <4>3, <5>1 DEF CacheIsSpace
      <4>7. CacheTypeOK' /\ HoldsBytes'
        <5>1. cacheLen' = cacheLen
          BY <2>2 DEF cacheVars
        <5>2. CacheTypeOK /\ HoldsBytes
          BY DEF CacheInv
        <5>3. QED
          BY <4>2, <4>3, <5>1, <5>2 DEF CacheTypeOK, HoldsBytes
      <4>5. ReadIsSpace'
        BY <4>1, <4>2, <4>3 DEF ReadIsSpace
      <4>6. QED
        BY <4>4, <4>5, <4>7
    <3>2. QED
      BY <2>2, <3>1, SameDevice DEF CacheInv, cacheVars
  <2>3. QED
    BY <2>1, <2>2
<1>3. I => CacheTypeOK /\ CacheIsSpace /\ ReadIsSpace
  BY DEF CacheInv
<1>4. I /\ [ClientStep]_vs => [StaysInside \/ ~ClientStep]_<<space, last>>
  <2>1. CASE ClientStep
    BY <2>1, ClientKeeps
  <2>2. CASE ~ClientStep
    BY <2>2
  <2>3. QED
    BY <2>1, <2>2
<1>5. QED
  BY <1>1, <1>2, <1>3, <1>4, PTL DEF ClientSpec, ClientIsRaw

----------------------------------------------------------------------------
(***************************************************************************)
(* setpci does what it is told: each value of a group becomes a job for    *)
(* each device the group selects, and waits until it is written.           *)
(***************************************************************************)
\* A number of jobs is one of a device and an operation.
LEMMA QuotientIs ==
  ASSUME NEW n \in Nat, NEW q \in Nat, NEW r \in 0 .. n - 1
  PROVE  (n * q + r) \div n = q /\ (n * q + r) % n = r
OBVIOUS

LEMMA JobsCover ==
  ASSUME NEW n \in Nat, NEW m \in Nat
  PROVE  /\ \A k \in 1 .. n * m : ((k - 1) \div n) + 1 \in 1..m
         /\ \A i \in 1..m : \A o \in 1..n :
              \E k \in 1 .. n * m : ((k - 1) \div n) + 1 = i /\ ((k - 1) % n) + 1 = o
<1>1. ASSUME NEW k \in 1 .. n * m PROVE ((k - 1) \div n) + 1 \in 1..m
  <2>1. n # 0
    <3>1. n = 0 => n * m = 0
      OBVIOUS
    <3>2. QED
      BY <3>1
  <2>2. k - 1 \in Nat /\ k - 1 < n * m
    <3>1. n * m \in Nat
      OBVIOUS
    <3>2. QED
      BY <3>1
  <2> DEFINE q == (k - 1) \div n
             r == (k - 1) % n
  <2>3. q \in Nat /\ r \in 0 .. n - 1 /\ k - 1 = n * q + r
    BY <2>1, <2>2
  <2> HIDE DEF q, r
  <2>4. n * q < n * m
    <3>1. n * q \in Nat /\ n * m \in Nat
      BY <2>3
    <3>2. QED
      BY <2>2, <2>3, <3>1
  <2>5. q < m
    <3>1. CASE m <= q
      <4>1. PICK e \in Nat : q = m + e
        BY <2>3, <3>1
      <4>2. n * q = n * m + n * e
        BY <4>1
      <4>3. n * e \in Nat /\ n * m \in Nat
        BY <4>1
      <4>4. QED
        BY <2>4, <4>2, <4>3
    <3>2. QED
      BY <2>3, <3>1
  <2>6. QED
    BY <2>3, <2>5 DEF q
<1>2. ASSUME NEW i \in 1..m, NEW o \in 1..n
      PROVE  \E k \in 1 .. n * m : ((k - 1) \div n) + 1 = i /\ ((k - 1) % n) + 1 = o
  <2>1. PICK q \in Nat, r \in 0 .. n - 1 : i = q + 1 /\ o = r + 1
    <3>1. i - 1 \in Nat /\ o - 1 \in 0 .. n - 1 /\ i = (i - 1) + 1 /\ o = (o - 1) + 1
      OBVIOUS
    <3>2. QED
      BY <3>1
  <2>2. (n * q + r) \div n = q /\ (n * q + r) % n = r
    BY <2>1, QuotientIs
  <2>3. i - 1 = q /\ n * (i - 1) = n * q /\ n * q \in Nat
    BY <2>1
  <2>4. n * (i - 1) + o - 1 = n * q + r
    BY <2>1, <2>3
  <2>5. n * (i - 1) + o <= n * m
    <3>1. PICK e \in Nat : m = q + 1 + e
      <4>1. m - (q + 1) \in Nat /\ m = q + 1 + (m - (q + 1))
        BY <2>1
      <4>2. QED
        BY <4>1
    <3>2. n * m = n * q + n + n * e
      BY <3>1, <2>1
    <3>3. n * e \in Nat
      BY <3>1
    <3>4. QED
      BY <2>1, <2>3, <3>2, <3>3
  <2>6. n * (i - 1) + o \in 1 .. n * m
    <3>1. n * m \in Nat
      OBVIOUS
    <3>2. QED
      BY <2>1, <2>3, <2>5, <3>1
  <2> WITNESS n * (i - 1) + o \in 1 .. n * m
  <2>7. QED
    BY <2>1, <2>2, <2>4
<1>3. QED
  BY <1>1, <1>2

----------------------------------------------------------------------------
(***************************************************************************)
(* What setpci has written when it ends.                                   *)
(***************************************************************************)
Selection == <<needScan, method, tree, machine, dumped>>

\* The functions whose devices are selected for a group do not change.
Sel(g) == {h.fn : h \in Range(SelectDevices(groups[g].filter))}

LEMMA SelectStays ==
  ASSUME UNCHANGED Selection
  PROVE  \A f : SelectDevices(f)' = SelectDevices(f)
<1>1. /\ needScan' = needScan /\ method' = method /\ tree' = tree /\ machine' = machine
      /\ dumped' = dumped
  BY DEF Selection
<1>2. \A fn : Visible(fn)' = Visible(fn)
  BY <1>1 DEF Visible, Answers
<1>3. \A h : BufferOf(h)' = BufferOf(h)
  BY <1>1 DEF BufferOf
<1>4. \A h : Described(h)' = Described(h)
  BY <1>1, <1>2, <1>3 DEF Described
<1>5. Devices' = Devices
  <2>1. {fn \in Functions : Visible(fn)}' = {fn \in Functions : Visible(fn)}
    BY <1>2
  <2>2. QED
    BY <1>1, <2>1 DEF Devices
<1>6. ASSUME NEW f PROVE SelectDevices(f)' = SelectDevices(f)
  <2> DEFINE list == IF ~needScan /\ Single(f) THEN <<Device([x \in Locations |-> f[x]], 0)>>
                     ELSE Devices
             S == {h \in Range(list) : Match(f, Described(h))}
  <2>1. list' = list
    BY <1>1, <1>5
  <2>2. S' = S
    BY <1>4, <2>1
  <2>3. SelectDevices(f) = Picked(list, S)
    BY DEF SelectDevices
  <2>4. SelectDevices(f)' = Picked(list', S')
    BY DEF SelectDevices
  <2>5. QED
    BY <2>1, <2>2, <2>3, <2>4
<1>7. QED
  BY <1>6

LEMMA SelStays ==
  ASSUME UNCHANGED Selection, UNCHANGED groups
  PROVE  \A g : Sel(g)' = Sel(g)
BY SelectStays DEF Sel

WriteOf(g, o, v, fn) == [fn |-> fn, group |-> g, op |-> o, value |-> v]
ValuesOf(g, o) == DOMAIN groups[g].ops[o].values

\* A value that has not been written belongs to a job that is left.
Waits(g, o, v, fn) ==
  /\ g = turn
  /\ \E k \in DOMAIN jobs : /\ jobs[k].dev.fn = fn /\ jobs[k].op = o
                            /\ pc = "op" /\ k = 1 => v >= at.value

AllDone ==
  ~set.demo =>
    \A g \in 1..turn : \A o \in DOMAIN groups[g].ops : \A v \in ValuesOf(g, o) :
      \A fn \in Sel(g) : WriteOf(g, o, v, fn) \in written \/ Waits(g, o, v, fn)

OnlySelected ==
  /\ \A w \in written : w.group \in 1..turn /\ w.fn \in Sel(w.group)
  /\ \A k \in DOMAIN jobs : jobs[k].dev.fn \in Sel(turn)

Executing == {"exec", "op", "exit"}

ExecInv ==
  /\ pc \notin Executing \cup {"died"} => written = {}
  /\ pc \in Executing => OnlySelected /\ AllDone /\ args = <<>>
  /\ pc = "op" => at.value \in Nat \ {0}
  /\ pc = "exit" => turn = Len(groups) /\ jobs = <<>>
  /\ \A g \in DOMAIN groups : \A o \in DOMAIN groups[g].ops :
       IsSeq(groups[g].ops[o].values)

\* The next group.
LEMMA NextGroupExec ==
  ASSUME ArgsInv, GroupsInv, DumpInv, ExecInv, NextGroup
  PROVE  ExecInv'
<1>1. /\ pc = "exec" /\ jobs = <<>> /\ args = <<>> /\ OnlySelected /\ AllDone
      /\ UNCHANGED Selection /\ groups' = groups /\ args' = args /\ set' = set
      /\ written' = written /\ pc' \in {"exec", "exit"}
  BY DEF NextGroup, ArgsInv, ExecInv, Executing, Selection, unread, dumpVars
<1>2. \A g : Sel(g)' = Sel(g)
  BY <1>1, SelStays
<1>3. DOMAIN jobs = {}
  BY <1>1
<1>4. \A g \in 1..turn : \A o \in DOMAIN groups[g].ops : \A v \in ValuesOf(g, o) :
        \A fn \in Sel(g) : ~set.demo => WriteOf(g, o, v, fn) \in written
  BY <1>1, <1>3 DEF AllDone, Waits
<1>5. CASE turn = Len(groups)
  <2>1. turn' = turn /\ jobs' = jobs /\ pc' = "exit"
    BY <1>5 DEF NextGroup
  <2>2. OnlySelected'
    BY <1>1, <1>2, <2>1 DEF OnlySelected
  <2>3. AllDone'
    BY <1>1, <1>2, <1>4, <2>1 DEF AllDone, ValuesOf, WriteOf
  <2>4. QED
    BY <1>1, <1>5, <2>1, <2>2, <2>3 DEF ExecInv, Executing
<1>6. CASE turn # Len(groups)
  <2> DEFINE g == groups[turn + 1]
             vec == SelectDevices(g.filter)
             n == Len(g.ops)
             m == Len(vec)
             new == [k \in 1 .. n * m |->
                       [dev |-> vec[((k - 1) \div n) + 1],
                        op |-> ((k - 1) % n) + 1]]
  <2>1. turn' = turn + 1 /\ jobs' = new /\ pc' = pc
    BY <1>6, Zenon DEF NextGroup
  <2>2. turn \in Nat /\ turn + 1 \in DOMAIN groups
    <3>1. /\ IsSeq(groups) /\ turn \in 0..Len(groups)
      BY DEF GroupsInv
    <3>2. Len(groups) \in Nat /\ DOMAIN groups = 1..Len(groups)
      BY <3>1, LenProperties DEF IsSeq
    <3>3. turn \in Nat /\ turn + 1 \in 1..Len(groups)
      <4> DEFINE l == Len(groups)
      <4>1. turn \in 0..l /\ l \in Nat /\ turn # l
        BY <1>6, <3>1, <3>2
      <4> HIDE DEF l
      <4>2. turn \in Nat /\ turn + 1 \in 1..l
        BY <4>1
      <4>3. QED
        BY <4>2 DEF l
    <3>4. QED
      BY <3>2, <3>3, Zenon
  <2>3. n \in Nat /\ DOMAIN g.ops = 1..n
    <3>1. IsSeq(g.ops)
      BY <2>2 DEF GroupsInv, IsGroup
    <3>2. QED
      BY <3>1, LenProperties DEF IsSeq
  <2>4. m \in Nat /\ DOMAIN vec = 1..m /\ IsSeq(vec)
    <3>1. IsSeq(vec)
      BY SelectSeqIs
    <3>2. QED
      BY <3>1, LenProperties DEF IsSeq
  <2>5. Sel(turn + 1) = {vec[i].fn : i \in 1..m}
    BY <2>4 DEF Sel, Range
  <2> HIDE DEF vec, m, n
  <2>6. \A k \in 1 .. n * m : new[k].dev.fn \in Sel(turn + 1)
    <3>1. ASSUME NEW k \in 1 .. n * m PROVE new[k].dev.fn \in Sel(turn + 1)
      <4>1. ((k - 1) \div n) + 1 \in 1..m
        BY <2>3, <2>4, JobsCover
      <4>2. QED
        BY <2>5, <4>1
    <3>2. QED
      BY <3>1
  <2>7. ASSUME NEW fn \in Sel(turn + 1), NEW o \in 1..n
        PROVE  \E k \in DOMAIN new : new[k].dev.fn = fn /\ new[k].op = o
    <3>1. PICK i \in 1..m : fn = vec[i].fn
      BY <2>5
    <3>2. PICK k \in 1 .. n * m : ((k - 1) \div n) + 1 = i /\ ((k - 1) % n) + 1 = o
      <4>1. n \in Nat /\ m \in Nat
        BY <2>3, <2>4
      <4>2. \A p \in 1..m : \A q \in 1..n :
              \E k \in 1 .. n * m : ((k - 1) \div n) + 1 = p /\ ((k - 1) % n) + 1 = q
        BY ONLY <4>1, JobsCover
      <4>3. QED
        BY <4>2
    <3>3. QED
      BY <3>1, <3>2
  <2> HIDE DEF new
  <2>8. DOMAIN jobs' = 1 .. n * m
    BY <2>1 DEF new
  <2>9. OnlySelected'
    <3>1. \A w \in written : w.group \in 1..turn + 1
      BY <1>1, <2>2 DEF OnlySelected
    <3>2. QED
      BY <1>1, <1>2, <2>1, <2>6, <2>8, <3>1 DEF OnlySelected
  <2>10. AllDone'
    <3>1. ASSUME ~set.demo, NEW h \in 1..turn + 1, NEW o \in DOMAIN groups[h].ops,
                 NEW v \in ValuesOf(h, o), NEW fn \in Sel(h)
          PROVE  WriteOf(h, o, v, fn) \in written \/ Waits(h, o, v, fn)'
      <4>1. CASE h \in 1..turn
        BY <1>4, <3>1, <4>1
      <4>2. CASE h = turn + 1
        <5>1. PICK k \in DOMAIN new : new[k].dev.fn = fn /\ new[k].op = o
          BY <2>3, <2>7, <4>2
        <5>2. QED
          BY <1>1, <2>1, <4>2, <5>1 DEF Waits
      <4>3. QED
        BY <2>2, <4>1, <4>2
    <3>2. \A h, o, v, fn : WriteOf(h, o, v, fn)' = WriteOf(h, o, v, fn)
      BY DEF WriteOf
    <3>3. \A h, o : ValuesOf(h, o)' = ValuesOf(h, o)
      BY <1>1 DEF ValuesOf
    <3>4. QED
      BY <1>1, <1>2, <2>1, <3>1, <3>2, <3>3 DEF AllDone
  <2>11. QED
    BY <1>1, <2>1, <2>9, <2>10 DEF ExecInv, Executing
<1>7. QED
  BY <1>5, <1>6

\* What is left when the first job is done.
LEMMA TailOf ==
  ASSUME NEW s, IsSeq(s), s # <<>>
  PROVE  /\ 1 \in DOMAIN s
         /\ \A k \in DOMAIN Tail(s) : k + 1 \in DOMAIN s /\ Tail(s)[k] = s[k + 1]
         /\ \A k \in DOMAIN s : k # 1 => k - 1 \in DOMAIN Tail(s) /\ Tail(s)[k - 1] = s[k]
<1> DEFINE S == Range(s)
<1>1. s \in Seq(S)
  BY DEF IsSeq
<1> HIDE DEF S
<1>2. /\ Tail(s) \in Seq(S) /\ Len(Tail(s)) = Len(s) - 1
      /\ \A i \in 1..Len(Tail(s)) : Tail(s)[i] = s[i + 1]
  BY <1>1, HeadTailProperties
<1>3. /\ DOMAIN Tail(s) = 1 .. Len(s) - 1 /\ DOMAIN s = 1..Len(s) /\ Len(s) \in Nat
      /\ Len(s) # 0
  BY <1>1, <1>2, LenProperties, EmptySeq
<1>4. \A k \in 1..Len(s) : k # 1 => k - 1 \in 1 .. Len(s) - 1 /\ (k - 1) + 1 = k
  BY <1>3
<1>5. \A k \in 1 .. Len(s) - 1 : k + 1 \in 1..Len(s)
  BY <1>3
<1>6. 1 \in 1..Len(s)
  BY <1>3
<1>7. QED
  BY <1>2, <1>3, <1>4, <1>5, <1>6

\* The first access of an operation.
LEMMA BeginOpExec ==
  ASSUME GroupsInv, ExecInv, BeginOp
  PROVE  ExecInv'
<1>1. /\ pc = "exec" /\ args = <<>> /\ OnlySelected /\ AllDone /\ pc' \in {"op", "died"}
      /\ UNCHANGED Selection /\ groups' = groups /\ args' = args /\ set' = set
      /\ written' = written /\ turn' = turn /\ jobs' = jobs
      /\ pc' = "op" => at'.value = 1
  BY DEF BeginOp, ExecInv, Executing, Selection, unread, dumpVars
<1>2. \A g : Sel(g)' = Sel(g)
  BY <1>1, SelStays
<1>3. pc' = "op" => OnlySelected' /\ AllDone'
  <2>1. SUFFICES ASSUME pc' = "op" PROVE OnlySelected' /\ AllDone'
    OBVIOUS
  <2>2. OnlySelected'
    BY <1>1, <1>2 DEF OnlySelected
  <2>3. \A g, o : ValuesOf(g, o)' = ValuesOf(g, o)
    BY <1>1 DEF ValuesOf
  <2>4. \A g, o, v, fn : WriteOf(g, o, v, fn)' = WriteOf(g, o, v, fn)
    BY DEF WriteOf
  <2>5. ASSUME NEW g \in 1..turn, NEW o \in DOMAIN groups[g].ops, NEW v \in ValuesOf(g, o),
               NEW fn, Waits(g, o, v, fn)
        PROVE  Waits(g, o, v, fn)'
    <3>1. v \in Nat /\ v >= 1
      <4>1. g \in DOMAIN groups
        BY LenProperties DEF GroupsInv, IsSeq
      <4>2. IsSeq(groups[g].ops[o].values)
        BY <4>1 DEF ExecInv
      <4>3. PICK l \in Nat : ValuesOf(g, o) = 1..l
        BY <4>2, LenProperties DEF ValuesOf, IsSeq
      <4>4. QED
        BY <2>5, <4>3
    <3>2. QED
      BY <1>1, <2>1, <2>5, <3>1 DEF Waits
  <2>6. QED
    BY <1>1, <1>2, <2>2, <2>3, <2>4, <2>5 DEF AllDone
<1>4. QED
  BY <1>1, <1>3 DEF ExecInv, Executing

\* A register is printed: the operation has no values to write.
LEMMA ReadOpExec ==
  ASSUME GroupsInv, ExecInv, ReadOp
  PROVE  ExecInv'
<1>1. /\ pc = "op" /\ args = <<>> /\ OnlySelected /\ AllDone /\ pc' = "exec"
      /\ UNCHANGED Selection /\ groups' = groups /\ args' = args /\ set' = set
      /\ written' = written /\ turn' = turn /\ jobs' = Tail(jobs)
      /\ groups[turn].ops[jobs[1].op].values = <<>>
  BY DEF ReadOp, ExecInv, Executing, Selection, unread, dumpVars, Op
<1>2. \A g : Sel(g)' = Sel(g)
  BY <1>1, SelStays
<1>3. jobs # <<>> /\ IsSeq(jobs)
  BY <1>1 DEF GroupsInv
<1>4. OnlySelected'
  BY <1>1, <1>2, <1>3, TailOf DEF OnlySelected
<1>5. AllDone'
  <2>1. \A g, o : ValuesOf(g, o)' = ValuesOf(g, o)
    BY <1>1 DEF ValuesOf
  <2>2. \A g, o, v, fn : WriteOf(g, o, v, fn)' = WriteOf(g, o, v, fn)
    BY DEF WriteOf
  <2>3. ASSUME NEW g \in 1..turn, NEW o \in DOMAIN groups[g].ops, NEW v \in ValuesOf(g, o),
               NEW fn, Waits(g, o, v, fn)
        PROVE  Waits(g, o, v, fn)'
    <3>0. \E k \in DOMAIN jobs : /\ jobs[k].dev.fn = fn /\ jobs[k].op = o
                                 /\ pc = "op" /\ k = 1 => v >= at.value
      BY <2>3, Zenon DEF Waits
    <3>1. PICK k \in DOMAIN jobs : jobs[k].dev.fn = fn /\ jobs[k].op = o
      BY ONLY <3>0
    <3> g = turn
      BY <2>3, Zenon DEF Waits
    <3>2. k # 1
      BY <1>1, <3>1 DEF ValuesOf
    <3>3. k - 1 \in DOMAIN Tail(jobs) /\ Tail(jobs)[k - 1] = jobs[k]
      BY <1>3, <3>2, TailOf
    <3>4. QED
      BY <1>1, <3>1, <3>3 DEF Waits
  <2>4. QED
    BY <1>1, <1>2, <2>1, <2>2, <2>3 DEF AllDone
<1>6. QED
  BY <1>1, <1>4, <1>5 DEF ExecInv, Executing

\* A value is written, or would be without -D.
LEMMA WriteValueExec ==
  ASSUME GroupsInv, ExecInv, WriteValue
  PROVE  ExecInv'
<1> DEFINE vals == groups[turn].ops[jobs[1].op].values
<1>1. /\ pc = "op" /\ args = <<>> /\ OnlySelected /\ AllDone
      /\ UNCHANGED Selection /\ groups' = groups /\ args' = args /\ set' = set
      /\ turn' = turn /\ at.value \in Nat \ {0}
  BY DEF WriteValue, ExecInv, Executing, Selection, dumpVars
<1>2. \A g : Sel(g)' = Sel(g)
  BY <1>1, SelStays
<1>3. jobs # <<>> /\ IsSeq(jobs)
  BY <1>1 DEF GroupsInv
<1>4. /\ 1 \in DOMAIN jobs /\ turn \in DOMAIN groups /\ turn \in 1..turn
      /\ jobs[1].op \in DOMAIN groups[turn].ops
  <2>1. 1 \in DOMAIN jobs
    BY <1>3, TailOf
  <2>2. turn # 0 /\ turn \in 0..Len(groups) /\ DOMAIN groups = 1..Len(groups)
        /\ Len(groups) \in Nat /\ jobs[1].op \in DOMAIN groups[turn].ops
    BY <2>1, LenProperties DEF GroupsInv, IsSeq
  <2>3. QED
    BY <2>1, <2>2
<1>5. CASE pc' = "died" /\ UNCHANGED <<jobs, at, space, written>>
  BY <1>1, <1>5 DEF ExecInv, Executing
<1>6. CASE /\ written' = IF set.demo THEN written
                         ELSE written \cup {[fn |-> Dev.fn, group |-> turn,
                                             op |-> jobs[1].op, value |-> at.value]}
           /\ jobs' = IF at.value < Len(vals) THEN jobs ELSE Tail(jobs)
           /\ pc' = IF at.value < Len(vals) THEN "op" ELSE "exec"
           /\ at'.value = at.value + 1
  <2> DEFINE w == WriteOf(turn, jobs[1].op, at.value, jobs[1].dev.fn)
  <2>1. written' = IF set.demo THEN written ELSE written \cup {w}
    BY <1>6 DEF WriteOf, Dev
  <2>2. OnlySelected'
    <3>1. w.group = turn /\ w.fn \in Sel(turn)
      BY <1>1, <1>4 DEF WriteOf, OnlySelected
    <3> HIDE DEF w
    <3>2. \A x \in written' : x.group \in 1..turn /\ x.fn \in Sel(x.group)
      BY <1>1, <1>4, <2>1, <3>1 DEF OnlySelected
    <3>3. \A k \in DOMAIN jobs' : jobs'[k].dev.fn \in Sel(turn)
      BY <1>1, <1>3, <1>6, TailOf DEF OnlySelected
    <3>4. QED
      BY <1>1, <1>2, <3>2, <3>3 DEF OnlySelected
  <2>3. AllDone'
    <3>1. \A g, o : ValuesOf(g, o)' = ValuesOf(g, o)
      BY <1>1 DEF ValuesOf
    <3>2. \A g, o, v, fn : WriteOf(g, o, v, fn)' = WriteOf(g, o, v, fn)
      BY DEF WriteOf
    <3>3. ASSUME ~set.demo, NEW g \in 1..turn, NEW o \in DOMAIN groups[g].ops,
                 NEW v \in ValuesOf(g, o), NEW fn, Waits(g, o, v, fn)
          PROVE  WriteOf(g, o, v, fn) = w \/ Waits(g, o, v, fn)'
      <4>0. g = turn
        BY <3>3, Zenon DEF Waits
      <4>00. \E k \in DOMAIN jobs : /\ jobs[k].dev.fn = fn /\ jobs[k].op = o
                                    /\ pc = "op" /\ k = 1 => v >= at.value
        BY <3>3, Zenon DEF Waits
      <4>01. PICK k \in DOMAIN jobs : /\ jobs[k].dev.fn = fn /\ jobs[k].op = o
                                      /\ pc = "op" /\ k = 1 => v >= at.value
        BY ONLY <4>00
      <4>1. g = turn /\ jobs[k].dev.fn = fn /\ jobs[k].op = o /\ (k = 1 => v >= at.value)
        BY <1>1, <4>0, <4>01
      <4>2. CASE k # 1
        <5>1. CASE at.value < Len(vals)
          BY <1>1, <1>6, <4>1, <4>2, <5>1 DEF Waits
        <5>2. CASE ~(at.value < Len(vals))
          <6>1. k - 1 \in DOMAIN Tail(jobs) /\ Tail(jobs)[k - 1] = jobs[k]
            BY <1>3, <4>2, TailOf
          <6>2. jobs' = Tail(jobs) /\ pc' = "exec"
            BY <1>6, <5>2
          <6>3. QED
            BY <1>1, <4>1, <6>1, <6>2 DEF Waits
        <5>3. QED
          BY <5>1, <5>2
      <4>3. CASE k = 1
        <5>1. IsSeq(vals)
          BY <1>4 DEF ExecInv
        <5>2. Len(vals) \in Nat /\ v \in 1..Len(vals)
          BY <4>1, <4>3, <5>1, LenProperties DEF IsSeq, ValuesOf
        <5> HIDE DEF vals
        <5>3. CASE v = at.value
          BY <4>1, <4>3, <5>3
        <5>4. CASE v # at.value
          <6>1. v >= at.value + 1 /\ at.value < Len(vals)
            BY <1>1, <4>1, <4>3, <5>2, <5>4
          <6>2. jobs' = jobs /\ pc' = "op" /\ at'.value = at.value + 1
            BY <1>6, <6>1
          <6>3. QED
            BY <1>1, <4>1, <4>3, <6>1, <6>2 DEF Waits
        <5>5. QED
          BY <5>3, <5>4
      <4>4. QED
        BY <4>2, <4>3
    <3> HIDE DEF w
    <3>4. QED
      BY <1>1, <1>2, <2>1, <3>1, <3>2, <3>3 DEF AllDone
  <2>4. at'.value \in Nat \ {0}
    BY <1>1, <1>6
  <2> HIDE DEF vals
  <2>5. pc' \in {"op", "exec"}
    BY <1>6
  <2>6. QED
    BY <1>1, <2>2, <2>3, <2>4, <2>5 DEF ExecInv, Executing
<1>7. QED
  <2>1. PICK x :
          IF ~set.demo /\ method = "dump"
            THEN pc' = "died" /\ UNCHANGED <<jobs, at, space, written>>
            ELSE /\ written' = IF set.demo THEN written
                               ELSE written \cup {[fn |-> Dev.fn, group |-> turn,
                                                   op |-> jobs[1].op, value |-> at.value]}
                 /\ jobs' = IF at.value < Len(Op.values) THEN jobs ELSE Tail(jobs)
                 /\ pc' = IF at.value < Len(Op.values) THEN "op" ELSE "exec"
                 /\ at' = [addr |-> x, value |-> at.value + 1]
    BY Zenon DEF WriteValue
  <2>2. Op.values = vals
    BY DEF Op
  <2> HIDE DEF vals
  <2>3. QED
    BY <1>5, <1>6, <2>1, <2>2

----------------------------------------------------------------------------
(***************************************************************************)
(* What the command line says of an operation: its filters and its place.  *)
(***************************************************************************)
Newest(i) == Max(Openings(i))
OpsTo(i) == {m \in Newest(i) .. i : IsOp(m)}

LEMMA OpeningsAre ==
  ASSUME NEW k \in Nat
  PROVE  /\ Openings(k) \subseteq 1..k /\ IsFiniteSet(Openings(k))
         /\ Cardinality(Openings(k)) \in Nat
         /\ Cardinality(Openings(k)) = 0 <=> Openings(k) = {}
<1>1. Openings(k) \subseteq 1..k /\ IsFiniteSet(1..k)
  BY FS_Interval DEF Openings
<1>2. IsFiniteSet(Openings(k))
  BY <1>1, FS_Subset
<1>3. QED
  BY <1>1, <1>2, FS_CardinalityType, FS_EmptySet

LEMMA LastIs ==
  ASSUME NEW k \in Nat, NEW m \in Openings(k), \A l \in Openings(k) : l <= m
  PROVE  Newest(k) = m
<1>1. Openings(k) \in SUBSET Int
  BY OpeningsAre
<1>2. QED
  BY <1>1, MaxIs DEF Newest

LEMMA LastOf ==
  ASSUME NEW k \in Nat, Openings(k) # {}
  PROVE  /\ Newest(k) \in Openings(k) /\ Newest(k) \in 1..k
         /\ \A l \in Openings(k) : l <= Newest(k)
<1>1. Openings(k) \subseteq 1..k
  BY OpeningsAre
<1>2. Openings(k) \in SUBSET (0..k)
  BY <1>1
<1>3. PICK m \in Openings(k) : \A l \in Openings(k) : l <= m
  BY <1>2, LargestOf
<1>4. Newest(k) = m
  BY <1>3, LastIs
<1>5. QED
  BY <1>1, <1>3, <1>4

\* The next argument begins a group, or it belongs to the last one.
LEMMA OpeningNext ==
  ASSUME NEW k \in Nat, IsFilter(k + 1), ~IsFilter(k)
  PROVE  /\ Openings(k + 1) = Openings(k) \cup {k + 1}
         /\ Cardinality(Openings(k + 1)) = Cardinality(Openings(k)) + 1
         /\ Newest(k + 1) = k + 1
<1>1. (k + 1) - 1 = k
  OBVIOUS
<1>2. Openings(k + 1) = Openings(k) \cup {k + 1}
  BY <1>1 DEF Openings
<1>3. k + 1 \notin Openings(k) /\ \A l \in Openings(k) : l <= k + 1
  BY OpeningsAre
<1>4. Cardinality(Openings(k) \cup {k + 1}) = Cardinality(Openings(k)) + 1
  BY <1>3, OpeningsAre, FS_AddElement
<1>5. Newest(k + 1) = k + 1
  <2>1. k + 1 \in Nat /\ k + 1 \in Openings(k + 1)
    BY <1>2
  <2>2. \A l \in Openings(k + 1) : l <= k + 1
    BY <1>2, <1>3
  <2>3. QED
    BY <2>1, <2>2, LastIs
<1>6. QED
  BY <1>2, <1>4, <1>5

LEMMA NoOpeningNext ==
  ASSUME NEW k \in Nat, ~(IsFilter(k + 1) /\ ~IsFilter(k))
  PROVE  Openings(k + 1) = Openings(k) /\ Newest(k + 1) = Newest(k)
<1>1. (k + 1) - 1 = k
  OBVIOUS
<1>2. Openings(k + 1) = Openings(k)
  <2>1. \A m \in 1 .. k + 1 : m \in 1..k \/ m = k + 1
    OBVIOUS
  <2>2. \A m \in 1..k : m \in 1 .. k + 1
    OBVIOUS
  <2>3. QED
    BY <1>1, <2>1, <2>2 DEF Openings
<1>3. QED
  BY <1>2 DEF Newest

LEMMA OneKind ==
  ASSUME NEW m
  PROVE  ~(IsFilter(m) /\ IsOp(m))
BY DEF IsFilter, IsOp

\* The operations of a group, and its filters.
LEMMA OpsFinite ==
  ASSUME NEW k \in Nat, Openings(k) # {}
  PROVE  IsFiniteSet(OpsTo(k)) /\ Cardinality(OpsTo(k)) \in Nat /\ OpsTo(k) \subseteq 1..k
<1>1. Newest(k) \in 1..k
  BY LastOf
<1>2. OpsTo(k) \subseteq 1..k /\ IsFiniteSet(1..k)
  BY <1>1, FS_Interval DEF OpsTo
<1>3. QED
  BY <1>2, FS_Subset, FS_CardinalityType

LEMMA GroupGoesOn ==
  ASSUME NEW k \in Nat, Openings(k) # {}, ~(IsFilter(k + 1) /\ ~IsFilter(k))
  PROVE  /\ OpsTo(k + 1) = IF IsOp(k + 1) THEN OpsTo(k) \cup {k + 1} ELSE OpsTo(k)
         /\ Cardinality(OpsTo(k + 1)) =
              IF IsOp(k + 1) THEN Cardinality(OpsTo(k)) + 1 ELSE Cardinality(OpsTo(k))
         /\ FiltersOf(k + 1) =
              IF IsFilter(k + 1) THEN FiltersOf(k) \cup {k + 1} ELSE FiltersOf(k)
<1>1. Newest(k + 1) = Newest(k) /\ Newest(k) \in 1..k
  BY LastOf, NoOpeningNext
<1>2. \A m : m \in Newest(k) .. k + 1 <=> m \in Newest(k) .. k \/ m = k + 1
  BY <1>1
<1>3. OpsTo(k + 1) = IF IsOp(k + 1) THEN OpsTo(k) \cup {k + 1} ELSE OpsTo(k)
  BY <1>1, <1>2 DEF OpsTo
<1>4. FiltersOf(k + 1) =
        IF IsFilter(k + 1) THEN FiltersOf(k) \cup {k + 1} ELSE FiltersOf(k)
  BY <1>1, <1>2 DEF FiltersOf, Newest
<1>5. k + 1 \notin OpsTo(k) /\ IsFiniteSet(OpsTo(k))
  BY OpsFinite
<1>6. Cardinality(OpsTo(k) \cup {k + 1}) = Cardinality(OpsTo(k)) + 1
  BY <1>5, FS_AddElement
<1>7. QED
  BY <1>3, <1>4, <1>6

LEMMA GroupOpens ==
  ASSUME NEW k \in Nat, IsFilter(k + 1), ~IsFilter(k)
  PROVE  OpsTo(k + 1) = {} /\ Cardinality(OpsTo(k + 1)) = 0 /\ FiltersOf(k + 1) = {k + 1}
<1>1. Newest(k + 1) = k + 1
  BY OpeningNext
<1>2. \A m : m \in k + 1 .. k + 1 <=> m = k + 1
  OBVIOUS
<1>3. OpsTo(k + 1) = {}
  BY <1>1, <1>2, OneKind DEF OpsTo
<1>4. FiltersOf(k + 1) = {k + 1}
  BY <1>1, <1>2 DEF FiltersOf, Newest
<1>5. QED
  BY <1>3, <1>4, FS_EmptySet

----------------------------------------------------------------------------
(***************************************************************************)
(* A filter has of each component what the last argument says that gives   *)
(* it.                                                                     *)
(***************************************************************************)
Givens(F, kind, c) == {m \in F : argv[m].kind = kind /\ Given(argv[m][c])}

Says(F, kind, c, x) ==
  \/ Givens(F, kind, c) = {} /\ x = ANY
  \/ \E m \in Givens(F, kind, c) : /\ \A l \in Givens(F, kind, c) : l <= m
                                   /\ x = argv[m][c] /\ x \in Nat

IsClass(f, x) ==
  IF x = ANY THEN f.super = ANY /\ f.sub = ANY
  ELSE f.super = x \div 256 /\ f.sub = x % 256

FilterIs(f, F) ==
  /\ DOMAIN f = Locations \cup Identities
  /\ \A c \in Locations : Says(F, "slot", c, f[c])
  /\ Says(F, "id", "vendor", f.vendor) /\ Says(F, "id", "device", f.device)
  /\ \E x : Says(F, "id", "class", x) /\ IsClass(f, x)

LEMMA NothingSaid == FilterIs(NoFilter, {})
<1>1. \A kind, c : Says({}, kind, c, ANY)
  BY DEF Says, Givens
<1>2. QED
  BY <1>1 DEF FilterIs, NoFilter, Locations, Identities, IsClass

LEMMA SaysNext ==
  ASSUME NEW F \in SUBSET Int, NEW n \in Nat, \A m \in F : m <= n,
         NEW kind, NEW c, NEW x, Says(F, kind, c, x)
  PROVE  /\ argv[n].kind = kind /\ Given(argv[n][c]) /\ argv[n][c] \in Nat
              => Says(F \cup {n}, kind, c, argv[n][c])
         /\ ~(argv[n].kind = kind /\ Given(argv[n][c]))
              => Says(F \cup {n}, kind, c, x)
<1> DEFINE G == Givens(F, kind, c)
           H == Givens(F \cup {n}, kind, c)
<1>1. CASE argv[n].kind = kind /\ Given(argv[n][c]) /\ argv[n][c] \in Nat
  <2>1. n \in H
    BY <1>1 DEF Givens
  <2>2. \A l \in H : l \in F \/ l = n
    BY DEF Givens
  <2>3. ASSUME NEW l \in H PROVE l <= n
    <3>1. l \in F \/ l = n
      BY <2>2
    <3>2. n <= n
      OBVIOUS
    <3>3. QED
      BY <3>1, <3>2, Zenon
  <2>4. QED
    BY <1>1, <2>1, <2>3 DEF Says
<1>2. CASE ~(argv[n].kind = kind /\ Given(argv[n][c]))
  <2>1. H = G
    BY <1>2 DEF Givens
  <2>2. QED
    BY <1>2, <2>1 DEF Says
<1>3. QED
  BY <1>1, <1>2

LEMMA GivenIsNat ==
  ASSUME NEW x, NEW m \in Nat, InRange(x, m), Given(x)
  PROVE  x \in Nat
BY DEF InRange

LEMMA InBoundIsNat ==
  ASSUME NEW x, x \in 0..MaxId
  PROVE  x \in Nat
BY DEF MaxId

LEMMA FilterMade ==
  ASSUME NEW g, NEW E, DOMAIN g = Locations \cup Identities,
         \A c \in Locations : Says(E, "slot", c, g[c]),
         Says(E, "id", "vendor", g.vendor), Says(E, "id", "device", g.device),
         NEW x, Says(E, "id", "class", x), IsClass(g, x)
  PROVE  FilterIs(g, E)
BY Zenon DEF FilterIs

LEMMA SlotNext ==
  ASSUME NEW F \in SUBSET Int, NEW n \in Nat, \A m \in F : m <= n,
         NEW f, FilterIs(f, F), argv[n].kind = "slot", ParseSlot(f, argv[n]).ok
  PROVE  FilterIs(ParseSlot(f, argv[n]).filter, F \cup {n})
<1> DEFINE s == argv[n]
           g == ParseSlot(f, argv[n]).filter
           E == F \cup {n}
<1>1. DOMAIN f = Locations \cup Identities
  BY DEF FilterIs
<1>2. \A c \in Locations : InRange(s[c], MaxOf[c])
  BY DEF ParseSlot, Locations
<1>3. /\ DOMAIN g = DOMAIN f
      /\ \A c \in Locations : g[c] = IF Given(s[c]) THEN s[c] ELSE f[c]
      /\ \A c \in Identities : g[c] = f[c]
  <2> DEFINE new == [domain |-> IF Given(s.domain) THEN s.domain ELSE f.domain,
                     bus |-> IF Given(s.bus) THEN s.bus ELSE f.bus,
                     slot |-> IF Given(s.slot) THEN s.slot ELSE f.slot,
                     func |-> IF Given(s.func) THEN s.func ELSE f.func]
  <2>1. g = Updated(f, new)
    BY <1>2 DEF ParseSlot, Locations, Field
  <2>2. DOMAIN new = Locations
    BY DEF Locations
  <2>3. \A c \in Locations : new[c] = IF Given(s[c]) THEN s[c] ELSE f[c]
    BY DEF Locations
  <2>4. Locations \cap Identities = {}
    BY DEF Locations, Identities
  <2> HIDE DEF new
  <2>5. QED
    BY <1>1, <2>1, <2>2, <2>3, <2>4 DEF Updated
<1>4. \A c \in Locations : s[c] \in Nat \/ ~Given(s[c])
  <2>1. \A c \in Locations : MaxOf[c] \in Nat
    BY DEF Locations, MaxOf
  <2>2. QED
    BY <1>2, <2>1, GivenIsNat
<1> HIDE DEF g
<1>5. ASSUME NEW c \in Locations PROVE Says(E, "slot", c, g[c])
  <2>1. Says(F, "slot", c, f[c])
    BY DEF FilterIs
  <2>2. CASE Given(s[c])
    BY <1>3, <1>4, <2>1, <2>2, SaysNext
  <2>3. CASE ~Given(s[c])
    BY <1>3, <2>1, <2>3, SaysNext
  <2>4. QED
    BY <2>2, <2>3
<1>6. \A c, x : Says(F, "id", c, x) => Says(E, "id", c, x)
  <2>1. s.kind # "id"
    OBVIOUS
  <2>2. QED
    BY <2>1, SaysNext
<1>7. /\ Says(F, "id", "vendor", f.vendor) /\ Says(F, "id", "device", f.device)
      /\ \E x : Says(F, "id", "class", x) /\ IsClass(f, x)
  BY Zenon DEF FilterIs
<1>8. g.vendor = f.vendor /\ g.device = f.device /\ g.super = f.super /\ g.sub = f.sub
  BY <1>3 DEF Identities
<1>9. PICK x : Says(F, "id", "class", x) /\ IsClass(f, x)
  BY <1>7, Zenon
<1>10. IsClass(g, x)
  BY <1>8, <1>9 DEF IsClass
<1>11. /\ Says(E, "id", "vendor", g.vendor) /\ Says(E, "id", "device", g.device)
       /\ Says(E, "id", "class", x)
  BY <1>6, <1>7, <1>8, <1>9
<1>12. DOMAIN g = Locations \cup Identities
  BY <1>1, <1>3
<1> HIDE DEF E
<1>13. QED
  BY ONLY <1>5, <1>10, <1>11, <1>12, FilterMade DEF g, E

\* What a regular argument of -d is: an empty one has no components, and behind
\* a device "*" there is no class.
IsId(s) ==
  /\ s.text = "empty" => ~Given(s.vendor) /\ ~Given(s.device) /\ ~Given(s.class)
  /\ s.device = Star => ~Given(s.class)

LEMMA IdNext ==
  ASSUME NEW F \in SUBSET Int, NEW n \in Nat, \A m \in F : m <= n,
         NEW f, FilterIs(f, F), argv[n].kind = "id", IsId(argv[n]),
         ParseId(f, argv[n]).ok
  PROVE  FilterIs(ParseId(f, argv[n]).filter, F \cup {n})
<1> DEFINE s == argv[n]
           g == ParseId(f, argv[n]).filter
           E == F \cup {n}
           classed == s.text = "ids" /\ ClassUsed(s)
<1>1. DOMAIN f = Locations \cup Identities
  BY DEF FilterIs
<1>2. /\ DOMAIN g = DOMAIN f
      /\ \A c \in Locations : g[c] = f[c]
      /\ g.vendor = IF Given(s.vendor) THEN s.vendor ELSE f.vendor
      /\ g.device = IF Given(s.device) THEN s.device ELSE f.device
      /\ g.super = IF Given(s.class) THEN s.class \div 256 ELSE f.super
      /\ g.sub = IF Given(s.class) THEN s.class % 256 ELSE f.sub
      /\ Given(s.vendor) => s.vendor \in Nat
      /\ Given(s.device) => s.device \in Nat
      /\ Given(s.class) => s.class \in Nat
  <2> DEFINE new == [vendor |-> IF Given(s.vendor) THEN s.vendor ELSE f.vendor,
                     device |-> IF Given(s.device) THEN s.device ELSE f.device,
                     super |-> IF Given(s.class) THEN s.class \div 256 ELSE f.super,
                     sub |-> IF Given(s.class) THEN s.class % 256 ELSE f.sub]
  <2>1. DOMAIN new = Identities
    BY DEF Identities
  <2>2. Locations \cap Identities = {}
    BY DEF Locations, Identities
  <2>3. /\ g = Updated(f, new)
        /\ Given(s.vendor) => s.vendor \in Nat
        /\ Given(s.device) => s.device \in Nat
        /\ Given(s.class) => s.class \in Nat
    <3> DEFINE vendor == s.text = "ids" /\ InRange(s.vendor, MaxId)
               device == vendor /\ InRange(s.device, MaxId)
               class == device /\ (ClassUsed(s) => s.class \in 0..MaxId)
               uses == class /\ ClassUsed(s)
    <3>1. /\ s.text = "empty" \/ class
          /\ g = Updated(f, [vendor |-> Field(vendor, s.vendor, f.vendor),
                             device |-> Field(device, s.device, f.device),
                             super |-> Field(uses, s.class \div 256, f.super),
                             sub |-> Field(uses, s.class % 256, f.sub)])
      BY DEF ParseId
    <3>2. CASE s.text = "empty"
      <4>1. ~Given(s.vendor) /\ ~Given(s.device) /\ ~Given(s.class)
        BY <3>2 DEF IsId
      <4>2. ~vendor /\ ~device /\ ~uses
        BY <3>2
      <4> HIDE DEF vendor, device, class, uses
      <4>3. QED
        BY <3>1, <4>1, <4>2 DEF Field
    <3>3. CASE s.text # "empty"
      <4>1. vendor /\ device /\ class
        BY <3>1, <3>3
      <4>2. /\ Given(s.vendor) => s.vendor \in Nat
            /\ Given(s.device) => s.device \in Nat
        <5>1. InRange(s.vendor, MaxId) /\ InRange(s.device, MaxId)
          BY <4>1
        <5>2. MaxId \in Nat
          BY DEF MaxId
        <5> HIDE DEF vendor, device, class, uses, g
        <5>3. QED
          BY <5>1, <5>2, GivenIsNat
      <4>3. uses <=> Given(s.class)
        <5>1. CASE uses
          <6>1. s.class \in 0..MaxId
            BY <5>1, Zenon
          <6>2. s.class \in Nat
            BY ONLY <6>1, InBoundIsNat
          <6>3. QED
            BY ONLY <5>1, <6>2 DEF Given, Empty, Star
        <5>2. CASE ~uses
          <6>1. ~ClassUsed(s)
            BY <4>1, <5>2
          <6>2. s.class = Empty \/ s.device = Star
            BY ONLY <6>1 DEF ClassUsed
          <6>3. s.device = Star => ~Given(s.class)
            BY DEF IsId
          <6>4. ~Given(s.class)
            BY ONLY <6>2, <6>3 DEF Given
          <6>5. QED
            BY <5>2, <6>4
        <5>3. QED
          BY <5>1, <5>2
      <4>4. Given(s.class) => s.class \in Nat
        <5>1. Given(s.class) => s.class \in 0..MaxId
          BY <4>3, Zenon
        <5>2. QED
          BY ONLY <5>1, InBoundIsNat
      <4> HIDE DEF vendor, device, class, uses
      <4>5. Given(s.class) => Given(s.class \div 256) /\ Given(s.class % 256)
        BY <4>4 DEF Given, Empty, Star
      <4>6. QED
        BY <3>1, <4>1, <4>2, <4>3, <4>4, <4>5 DEF Field
    <3>4. QED
      BY <3>2, <3>3
  <2>4. "vendor" \in Identities /\ "device" \in Identities /\ "super" \in Identities
        /\ "sub" \in Identities
    BY DEF Identities
  <2> HIDE DEF g
  <2>5. \A c \in Locations : g[c] = f[c]
    BY <1>1, <2>1, <2>2, <2>3 DEF Updated
  <2>6. \A c \in Identities : g[c] = new[c]
    BY <1>1, <2>1, <2>3 DEF Updated
  <2>7. DOMAIN g = DOMAIN f
    BY <2>3 DEF Updated
  <2>8. QED
    BY <2>3, <2>4, <2>5, <2>6, <2>7
<1> HIDE DEF g
<1>3. \A c \in Locations : Says(E, "slot", c, g[c])
  <2>1. \A c \in Locations : Says(F, "slot", c, f[c])
    BY DEF FilterIs
  <2>2. s.kind # "slot"
    OBVIOUS
  <2>3. QED
    BY <1>2, <2>1, <2>2, SaysNext
<1>4. Says(E, "id", "vendor", g.vendor)
  <2>1. Says(F, "id", "vendor", f.vendor)
    BY DEF FilterIs
  <2>2. QED
    BY <1>2, <2>1, SaysNext
<1>5. Says(E, "id", "device", g.device)
  <2>1. Says(F, "id", "device", f.device)
    BY DEF FilterIs
  <2>2. QED
    BY <1>2, <2>1, SaysNext
<1>6. PICK x : Says(F, "id", "class", x) /\ IsClass(f, x)
  BY Zenon DEF FilterIs
<1>7. DOMAIN g = Locations \cup Identities
  BY <1>1, <1>2
<1>8. CASE Given(s.class)
  <2>1. Says(E, "id", "class", s.class)
    BY <1>2, <1>6, <1>8, SaysNext
  <2>2. IsClass(g, s.class)
    BY <1>2, <1>8 DEF IsClass, ANY
  <2> HIDE DEF E
  <2>3. QED
    BY ONLY <1>3, <1>4, <1>5, <1>7, <2>1, <2>2, FilterMade DEF g, E
<1>9. CASE ~Given(s.class)
  <2>1. Says(E, "id", "class", x)
    BY <1>6, <1>9, SaysNext
  <2>2. IsClass(g, x)
    BY <1>2, <1>6, <1>9 DEF IsClass
  <2> HIDE DEF E
  <2>3. QED
    BY ONLY <1>3, <1>4, <1>5, <1>7, <2>1, <2>2, FilterMade DEF g, E
<1>10. QED
  BY <1>8, <1>9

\* A device matches a filter if it agrees with the last of its arguments that
\* give the components.
LEMMA SaysWhat ==
  ASSUME NEW F \in SUBSET Int, NEW kind, NEW c, NEW x, Says(F, kind, c, x), NEW v
  PROVE  /\ x = ANY <=> Givens(F, kind, c) = {}
         /\ x # ANY => x \in Nat /\ x = argv[Max(Givens(F, kind, c))][c]
<1> DEFINE G == Givens(F, kind, c)
<1>1. CASE G = {} /\ x = ANY
  BY <1>1
<1>2. ASSUME NEW m \in G, \A l \in G : l <= m, x = argv[m][c], x \in Nat
      PROVE  G # {} /\ x # ANY /\ x = argv[Max(G)][c]
  <2>1. G \in SUBSET Int
    BY DEF Givens
  <2> HIDE DEF G
  <2>2. Max(G) = m
    BY <1>2, <2>1, MaxIs
  <2>3. QED
    BY <1>2, <2>2 DEF ANY
<1>3. QED
  BY <1>1, <1>2 DEF Says

LEMMA DigitsAre ==
  ASSUME NEW a \in Nat, NEW b \in Nat
  PROVE  a \div 256 = b \div 256 /\ a % 256 = b % 256 <=> a = b
OBVIOUS

LEMMA MatchIsAsked ==
  ASSUME NEW i, NEW f, FilterIs(f, FiltersOf(i)), NEW d, d.class \in Nat
  PROVE  Match(f, d) <=> Asked(i, d)
<1> DEFINE F == FiltersOf(i)
           G(kind, c) == {m \in F : argv[m].kind = kind /\ Given(argv[m][c])}
           agrees(kind, c) == G(kind, c) # {} => argv[Max(G(kind, c))][c] = d[c]
<1>1. F \in SUBSET Int
  BY DEF FiltersOf
<1>2. ASSUME NEW kind, NEW c, NEW x, Says(F, kind, c, x)
      PROVE  agrees(kind, c) <=> (x >= 0 => x = d[c])
  <2>1. /\ x = ANY <=> Givens(F, kind, c) = {}
        /\ x # ANY => x \in Nat /\ x = argv[Max(Givens(F, kind, c))][c]
    BY <1>1, <1>2, SaysWhat
  <2>2. G(kind, c) = Givens(F, kind, c)
    BY DEF Givens
  <2> HIDE DEF G, F
  <2>3. QED
    BY <2>1, <2>2 DEF ANY
<1>3. Asked(i, d) <=> /\ \A c \in Locations : agrees("slot", c)
                      /\ \A c \in {"vendor", "device", "class"} : agrees("id", c)
  BY DEF Asked
<1>4. \A c \in Locations : Says(F, "slot", c, f[c])
  BY DEF FilterIs
<1>5. /\ Says(F, "id", "vendor", f.vendor) /\ Says(F, "id", "device", f.device)
      /\ \E x : Says(F, "id", "class", x) /\ IsClass(f, x)
  BY Zenon DEF FilterIs
<1>6. PICK x : Says(F, "id", "class", x) /\ IsClass(f, x)
  BY <1>5
<1>7. x = ANY \/ x \in Nat
  BY <1>1, <1>6, SaysWhat
<1> HIDE DEF agrees, F, G
<1>8. agrees("id", "class") <=> /\ f.super >= 0 => f.super = d.class \div 256
                                /\ f.sub >= 0 => f.sub = d.class % 256
  <2>1. agrees("id", "class") <=> (x >= 0 => x = d.class)
    BY <1>2, <1>6
  <2>2. CASE x = ANY
    BY <1>6, <2>1, <2>2 DEF IsClass, ANY
  <2>3. CASE x \in Nat
    <3>1. f.super = x \div 256 /\ f.sub = x % 256 /\ f.super >= 0 /\ f.sub >= 0
      BY <1>6, <2>3 DEF IsClass, ANY
    <3>2. x \div 256 = d.class \div 256 /\ x % 256 = d.class % 256 <=> x = d.class
      BY <2>3, DigitsAre
    <3>3. QED
      BY <2>1, <2>3, <3>1, <3>2
  <2>4. QED
    BY <1>7, <2>2, <2>3
<1>9. \A c \in Locations : agrees("slot", c) <=> (f[c] >= 0 => f[c] = d[c])
  BY <1>2, <1>4
<1>10. /\ agrees("id", "vendor") <=> (f.vendor >= 0 => f.vendor = d.vendor)
       /\ agrees("id", "device") <=> (f.device >= 0 => f.device = d.device)
  BY <1>2, <1>5
<1>11. Match(f, d) <=> /\ \A c \in Locations : f[c] >= 0 => f[c] = d[c]
                       /\ f.vendor >= 0 => f.vendor = d.vendor
                       /\ f.device >= 0 => f.device = d.device
                       /\ f.super >= 0 => f.super = d.class \div 256
                       /\ f.sub >= 0 => f.sub = d.class % 256
  BY DEF Match, Locations
<1>12. QED
  BY <1>3, <1>8, <1>9, <1>10, <1>11

----------------------------------------------------------------------------
(***************************************************************************)
(* The groups that parse_ops() puts together are those of the line.        *)
(***************************************************************************)
\* Command lines.
IsCommand(c) ==
  /\ IsSeq(c)
  /\ \A k \in DOMAIN c : /\ c[k].kind = "op" => IsSeq(c[k].values)
                         /\ c[k].kind = "id" => IsId(c[k])

Latest == groups[Len(groups)]

PlaceIn(gs, g, o, i) ==
  /\ g \in DOMAIN gs /\ o \in DOMAIN gs[g].ops
  /\ DOMAIN gs[g].ops[o].values = DOMAIN argv[i].values
  /\ FilterIs(gs[g].filter, FiltersOf(i))
Placed(i) ==
  /\ Openings(i) # {}
  /\ PlaceIn(groups, Cardinality(Openings(i)), Cardinality(OpsTo(i)), i)

GroupsAre(k) ==
  /\ Len(groups) = Cardinality(Openings(k))
  /\ IsFilter(k) <=> groups # <<>> /\ Latest.ops = <<>>
  /\ groups # <<>> => /\ Len(Latest.ops) = Cardinality(OpsTo(k))
                      /\ FilterIs(Latest.filter, FiltersOf(k))
  /\ \A i \in 1..k : IsOp(i) => Placed(i)

OptionsFirst == \A j \in 1..Done : argv[j].kind \in OptionKinds

LineInv ==
  /\ IsCommand(argv)
  /\ pc = "options" => groups = <<>> /\ OptionsFirst
  /\ pc # "died" => GroupsAre(Done)

\* The line itself does not change.
LEMMA LineStays ==
  ASSUME argv' = argv
  PROVE  /\ \A m : (IsFilter(m)' <=> IsFilter(m)) /\ (IsOp(m)' <=> IsOp(m))
         /\ \A i : /\ Openings(i)' = Openings(i) /\ OpsTo(i)' = OpsTo(i)
                   /\ FiltersOf(i)' = FiltersOf(i)
         /\ \A f, F : FilterIs(f, F)' <=> FilterIs(f, F)
<1>1. \A m : (IsFilter(m)' <=> IsFilter(m)) /\ (IsOp(m)' <=> IsOp(m))
  BY DEF IsFilter, IsOp
<1>2. \A i : Openings(i)' = Openings(i)
  BY <1>1 DEF Openings
<1>3. \A i : OpsTo(i)' = OpsTo(i) /\ FiltersOf(i)' = FiltersOf(i)
  BY <1>1, <1>2 DEF OpsTo, FiltersOf, Newest
<1>4. \A F, kind, c : Givens(F, kind, c)' = Givens(F, kind, c)
  BY DEF Givens
<1>5. \A F, kind, c, x : Says(F, kind, c, x)' <=> Says(F, kind, c, x)
  BY <1>4 DEF Says
<1>6. \A f, F : FilterIs(f, F)' <=> FilterIs(f, F)
  BY <1>5 DEF FilterIs
<1>7. QED
  BY <1>1, <1>2, <1>3, <1>6

\* The place of an operation depends on the groups only.
LEMMA PlacesStay ==
  ASSUME argv' = argv
  PROVE  \A i : Placed(i)' <=>
           /\ Openings(i) # {}
           /\ PlaceIn(groups', Cardinality(Openings(i)), Cardinality(OpsTo(i)), i)
<1>1. /\ \A i : /\ Openings(i)' = Openings(i) /\ OpsTo(i)' = OpsTo(i)
                /\ FiltersOf(i)' = FiltersOf(i)
      /\ \A f, F : FilterIs(f, F)' <=> FilterIs(f, F)
  BY LineStays
<1>2. \A i : Placed(i)' <=>
         /\ Openings(i)' # {}
         /\ Cardinality(Openings(i)') \in DOMAIN groups'
         /\ Cardinality(OpsTo(i)') \in DOMAIN groups'[Cardinality(Openings(i)')].ops
         /\ DOMAIN groups'[Cardinality(Openings(i)')].ops[Cardinality(OpsTo(i)')].values
              = DOMAIN argv'[i].values
         /\ FilterIs(groups[Cardinality(Openings(i))].filter, FiltersOf(i))'
  BY DEF Placed, PlaceIn
<1>3. \A i : FilterIs(groups[Cardinality(Openings(i))].filter, FiltersOf(i))' <=>
             FilterIs(groups'[Cardinality(Openings(i))].filter, FiltersOf(i))
  <2>1. \A f, F : FilterIs(f, F)' <=> FilterIs(f, F)
    BY <1>1
  <2>2. \A F, kind, c : Givens(F, kind, c)' = Givens(F, kind, c)
    BY DEF Givens
  <2>3. \A F, kind, c, x : Says(F, kind, c, x)' <=> Says(F, kind, c, x)
    BY <2>2 DEF Says
  <2>4. QED
    BY <1>1, <2>3 DEF FilterIs
<1>4. QED
  BY <1>1, <1>2, <1>3 DEF PlaceIn

LEMMA GroupsAreStay ==
  ASSUME argv' = argv, groups' = groups, NEW k, GroupsAre(k)
  PROVE  GroupsAre(k)'
<1>1. /\ \A m : (IsFilter(m)' <=> IsFilter(m)) /\ (IsOp(m)' <=> IsOp(m))
      /\ \A i : /\ Openings(i)' = Openings(i) /\ OpsTo(i)' = OpsTo(i)
                /\ FiltersOf(i)' = FiltersOf(i)
      /\ \A f, F : FilterIs(f, F)' <=> FilterIs(f, F)
  BY LineStays
<1>2. \A i : Placed(i)' <=> Placed(i)
  BY PlacesStay DEF Placed
<1>3. Latest' = Latest
  BY DEF Latest
<1>4. QED
  BY <1>1, <1>2, <1>3 DEF GroupsAre

LEMMA GroupsLength ==
  ASSUME GroupsInv
  PROVE  /\ IsSeq(groups) /\ Len(groups) \in Nat /\ DOMAIN groups = 1..Len(groups)
         /\ Len(groups) = 0 <=> groups = <<>>
         /\ groups # <<>> => Len(groups) \in DOMAIN groups
<1>1. IsSeq(groups)
  BY DEF GroupsInv
<1>2. Len(groups) \in Nat /\ DOMAIN groups = 1..Len(groups)
  BY <1>1, LenProperties DEF IsSeq
<1>3. Len(groups) = 0 <=> groups = <<>>
  BY <1>1, EmptySeq DEF IsSeq
<1>4. QED
  BY <1>1, <1>2, <1>3

\* An option.
LEMMA OptionLine ==
  ASSUME NEW k \in Nat, k + 1 \in DOMAIN argv, argv[k + 1].kind \in OptionKinds,
         groups = <<>>, GroupsAre(k)
  PROVE  GroupsAre(k + 1)
<1>1. ~IsFilter(k + 1) /\ ~IsOp(k + 1)
  BY DEF IsFilter, IsOp, OptionKinds
<1>2. Openings(k + 1) = Openings(k)
  BY <1>1, NoOpeningNext
<1>3. \A i \in 1 .. k + 1 : i \in 1..k \/ i = k + 1
  OBVIOUS
<1>4. QED
  BY <1>1, <1>2, <1>3 DEF GroupsAre

\* A filter that begins a group.
LEMMA OpeningLine ==
  ASSUME GroupsInv, NEW k \in Nat, IsFilter(k + 1), ~IsFilter(k), GroupsAre(k),
         argv' = argv, NEW f, FilterIs(f, {k + 1}), groups' = Append(groups, NewGroup(f))
  PROVE  GroupsAre(k + 1)'
<1> DEFINE n == Len(groups)
<1>1. /\ IsSeq(groups) /\ n \in Nat /\ DOMAIN groups = 1..n
  BY GroupsLength
<1>2. AppendsOne(groups, NewGroup(f))
  BY <1>1, AppendAdds
<1>3. /\ Len(groups') = n + 1 /\ Latest' = NewGroup(f) /\ groups' # <<>>
      /\ \A g \in DOMAIN groups : g \in DOMAIN groups' /\ groups'[g] = groups[g]
  <2>1. groups'[n + 1] = NewGroup(f) /\ Len(groups') = n + 1
    BY <1>2 DEF AppendsOne
  <2>2. groups' # <<>>
    BY <1>1, <2>1
  <2>3. Latest' = groups'[Len(groups')]
    BY DEF Latest
  <2>4. QED
    BY <1>2, <2>1, <2>2, <2>3 DEF AppendsOne
<1>4. /\ Cardinality(Openings(k + 1)) = Cardinality(Openings(k)) + 1
      /\ Cardinality(OpsTo(k + 1)) = 0 /\ FiltersOf(k + 1) = {k + 1}
  BY OpeningNext, GroupOpens
<1>5. Len(groups') = Cardinality(Openings(k + 1))
  BY <1>3, <1>4 DEF GroupsAre
<1>6. Latest'.ops = <<>> /\ Len(Latest'.ops) = Cardinality(OpsTo(k + 1))
      /\ FilterIs(Latest'.filter, FiltersOf(k + 1))
  BY <1>3, <1>4 DEF NewGroup
<1>7. ASSUME NEW i \in 1 .. k + 1, IsOp(i) PROVE Placed(i)'
  <2>1. i \in 1..k
    BY <1>7, OneKind
  <2>2. Placed(i)
    BY <1>7, <2>1 DEF GroupsAre
  <2>3. PlaceIn(groups', Cardinality(Openings(i)), Cardinality(OpsTo(i)), i)
    BY <1>3, <2>2 DEF Placed, PlaceIn
  <2>4. QED
    <3>1. Openings(i) # {}
      BY <2>2 DEF Placed
    <3>2. QED
      BY <2>3, <3>1, PlacesStay
<1>8. QED
  <2>1. /\ \A m : (IsFilter(m)' <=> IsFilter(m)) /\ (IsOp(m)' <=> IsOp(m))
        /\ \A i : /\ Openings(i)' = Openings(i) /\ OpsTo(i)' = OpsTo(i)
                  /\ FiltersOf(i)' = FiltersOf(i)
        /\ \A h, F : FilterIs(h, F)' <=> FilterIs(h, F)
    BY LineStays
  <2> HIDE DEF n
  <2>2. QED
    BY <1>3, <1>5, <1>6, <1>7, <2>1 DEF GroupsAre

\* A filter that is added to the others of a group without operations.
LEMMA AddedLine ==
  ASSUME GroupsInv, NEW k \in Nat, IsFilter(k + 1), IsFilter(k), GroupsAre(k),
         argv' = argv, NEW f, FilterIs(f, FiltersOf(k) \cup {k + 1}),
         groups' = [groups EXCEPT ![Len(groups)].filter = f]
  PROVE  GroupsAre(k + 1)'
<1> DEFINE n == Len(groups)
           v == [groups[n] EXCEPT !.filter = f]
<1>1. /\ IsSeq(groups) /\ n \in Nat /\ DOMAIN groups = 1..n /\ n \in DOMAIN groups
      /\ groups # <<>> /\ Latest.ops = <<>>
  BY GroupsLength DEF GroupsAre
<1>2. DOMAIN groups[n] = {"filter", "ops"}
  BY <1>1 DEF GroupsInv, IsGroup
<1>3. v.ops = <<>> /\ v.filter = f
  BY <1>1, <1>2 DEF Latest
<1>4. groups' = [groups EXCEPT ![n] = v]
  OBVIOUS
<1> HIDE DEF v
<1>5. /\ Len(groups') = n /\ DOMAIN groups' = DOMAIN groups
      /\ Latest' = v /\ \A g \in DOMAIN groups : g # n => groups'[g] = groups[g]
  <2>1. /\ Len(groups') = n /\ DOMAIN groups' = DOMAIN groups /\ groups'[n] = v
        /\ \A g \in DOMAIN groups : g # n => groups'[g] = groups[g]
    BY <1>1, <1>4, ExceptKeeps
  <2>2. Latest' = groups'[Len(groups')]
    BY DEF Latest
  <2>3. QED
    BY <2>1, <2>2
<1>6. Openings(k) # {} /\ Openings(k + 1) = Openings(k)
  <2>1. Openings(k + 1) = Openings(k)
    BY NoOpeningNext
  <2>2. QED
    BY <1>1, <2>1, OpeningsAre, GroupsLength DEF GroupsAre
<1>7. /\ Cardinality(OpsTo(k + 1)) = Cardinality(OpsTo(k))
      /\ FiltersOf(k + 1) = FiltersOf(k) \cup {k + 1}
  BY <1>6, GroupGoesOn, OneKind
<1>8. Len(Latest'.ops) = Cardinality(OpsTo(k + 1))
      /\ FilterIs(Latest'.filter, FiltersOf(k + 1))
  BY <1>1, <1>3, <1>5, <1>7 DEF GroupsAre
<1>9. ASSUME NEW i \in 1 .. k + 1, IsOp(i) PROVE Placed(i)'
  <2>1. i \in 1..k
    BY <1>9, OneKind
  <2>2. Placed(i)
    BY <1>9, <2>1 DEF GroupsAre
  <2>3. Cardinality(Openings(i)) # n
    <3>1. DOMAIN Latest.ops = {}
      BY <1>1
    <3>2. QED
      BY <2>2, <3>1 DEF Placed, PlaceIn, Latest
  <2>4. PlaceIn(groups', Cardinality(Openings(i)), Cardinality(OpsTo(i)), i)
    BY <1>5, <2>2, <2>3 DEF Placed, PlaceIn
  <2>5. QED
    <3>1. Openings(i) # {}
      BY <2>2 DEF Placed
    <3>2. QED
      BY <2>4, <3>1, PlacesStay
<1>10. Len(groups') = Cardinality(Openings(k + 1)) /\ groups' # <<>> /\ Latest'.ops = <<>>
  BY <1>1, <1>3, <1>5, <1>6, GroupsLength DEF GroupsAre
<1>11. QED
  <2>1. /\ \A m : (IsFilter(m)' <=> IsFilter(m)) /\ (IsOp(m)' <=> IsOp(m))
        /\ \A i : /\ Openings(i)' = Openings(i) /\ OpsTo(i)' = OpsTo(i)
                  /\ FiltersOf(i)' = FiltersOf(i)
        /\ \A h, F : FilterIs(h, F)' <=> FilterIs(h, F)
    BY LineStays
  <2> HIDE DEF n
  <2>2. QED
    BY <1>8, <1>9, <1>10, <2>1 DEF GroupsAre

\* An operation.
LEMMA OpLine ==
  ASSUME GroupsInv, NEW k \in Nat, IsOp(k + 1), GroupsAre(k), argv' = argv,
         groups # <<>>, NEW op, DOMAIN op.values = DOMAIN argv[k + 1].values,
         groups' = [groups EXCEPT ![Len(groups)].ops = Append(@, op)]
  PROVE  GroupsAre(k + 1)'
<1> DEFINE n == Len(groups)
           ops == Append(groups[n].ops, op)
           v == [groups[n] EXCEPT !.ops = ops]
<1>1. /\ IsSeq(groups) /\ n \in Nat /\ DOMAIN groups = 1..n /\ n \in DOMAIN groups
  BY GroupsLength
<1>2. DOMAIN groups[n] = {"filter", "ops"} /\ IsSeq(groups[n].ops)
  BY <1>1 DEF GroupsInv, IsGroup
<1>3. AppendsOne(groups[n].ops, op)
  BY <1>2, AppendAdds
<1>4. groups' = [groups EXCEPT ![n] = v]
  OBVIOUS
<1>5. /\ Len(ops) = Len(groups[n].ops) + 1 /\ ops[Len(groups[n].ops) + 1] = op
      /\ \A o \in DOMAIN groups[n].ops : o \in DOMAIN ops /\ ops[o] = groups[n].ops[o]
      /\ Len(groups[n].ops) \in Nat
      /\ DOMAIN ops = 1..Len(ops)
  <2>1. Len(groups[n].ops) \in Nat
    BY <1>2, LenProperties DEF IsSeq
  <2>2. IsSeq(ops)
    BY <1>3 DEF AppendsOne
  <2> HIDE DEF ops
  <2>3. DOMAIN ops = 1..Len(ops)
    BY <2>2, LenProperties DEF IsSeq
  <2>4. QED
    BY <1>3, <2>1, <2>3 DEF AppendsOne, ops
<1> HIDE DEF ops
<1>6. v.ops = ops /\ v.filter = groups[n].filter
  BY <1>2
<1> HIDE DEF v
<1>7. /\ Len(groups') = n /\ DOMAIN groups' = DOMAIN groups /\ groups'[n] = v
      /\ \A g \in DOMAIN groups : g # n => groups'[g] = groups[g]
  BY <1>1, <1>4, ExceptKeeps
<1>8. Latest' = v /\ Latest = groups[n]
  <2>1. Latest' = groups'[Len(groups')]
    BY DEF Latest
  <2>2. QED
    BY <1>7, <2>1 DEF Latest
<1>9. ~IsFilter(k + 1)
  BY OneKind
<1>10. Openings(k) # {} /\ Openings(k + 1) = Openings(k)
  <2>1. Openings(k + 1) = Openings(k)
    BY <1>9, NoOpeningNext
  <2>2. QED
    BY <2>1, OpeningsAre, GroupsLength DEF GroupsAre
<1>11. /\ Cardinality(OpsTo(k + 1)) = Cardinality(OpsTo(k)) + 1
       /\ FiltersOf(k + 1) = FiltersOf(k)
  BY <1>9, <1>10, GroupGoesOn
<1>12. Len(v.ops) = Cardinality(OpsTo(k + 1)) /\ Len(v.ops) \in DOMAIN v.ops
       /\ v.ops[Len(v.ops)] = op /\ v.ops # <<>>
       /\ FilterIs(v.filter, FiltersOf(k + 1))
  <2>1. Len(ops) = Cardinality(OpsTo(k + 1))
    BY <1>5, <1>8, <1>11 DEF GroupsAre
  <2>2. Len(ops) \in DOMAIN ops /\ ops[Len(ops)] = op /\ ops # <<>>
    BY <1>5
  <2>3. FilterIs(groups[n].filter, FiltersOf(k))
    BY <1>8 DEF GroupsAre
  <2>4. QED
    BY <1>6, <1>11, <2>1, <2>2, <2>3
<1>13. ASSUME NEW i \in 1 .. k + 1, IsOp(i) PROVE Placed(i)'
  <2>1. CASE i \in 1..k
    <3>1. Placed(i)
      BY <1>13, <2>1 DEF GroupsAre
    <3> DEFINE g == Cardinality(Openings(i))
               o == Cardinality(OpsTo(i))
    <3>2. /\ g \in DOMAIN groups /\ o \in DOMAIN groups[g].ops
          /\ DOMAIN groups[g].ops[o].values = DOMAIN argv[i].values
          /\ FilterIs(groups[g].filter, FiltersOf(i))
      BY <3>1 DEF Placed, PlaceIn
    <3> HIDE DEF g, o
    <3>3. PlaceIn(groups', g, o, i)
      <4>1. CASE g # n
        BY <1>7, <3>2, <4>1 DEF PlaceIn
      <4>2. CASE g = n
        <5>1. o \in DOMAIN groups'[g].ops /\ groups'[g].ops[o] = groups[g].ops[o]
              /\ groups'[g].filter = groups[g].filter
          BY <1>5, <1>6, <1>7, <3>2, <4>2
        <5>2. QED
          BY <1>7, <3>2, <5>1 DEF PlaceIn
      <4>3. QED
        BY <4>1, <4>2
    <3>4. QED
      BY <3>1, <3>3, PlacesStay DEF Placed, g, o
  <2>2. CASE i = k + 1
    <3>1. Cardinality(Openings(i)) = n /\ Openings(i) # {}
      BY <1>10, <2>2 DEF GroupsAre
    <3>2. Cardinality(OpsTo(i)) = Len(v.ops)
      BY <1>12, <2>2
    <3>3. PlaceIn(groups', n, Len(v.ops), i)
      BY <1>1, <1>7, <1>12, <2>2 DEF PlaceIn
    <3>4. QED
      BY <3>1, <3>2, <3>3, PlacesStay
  <2>3. QED
    BY <2>1, <2>2
<1>14. Len(groups') = Cardinality(Openings(k + 1)) /\ groups' # <<>>
  BY <1>1, <1>7, <1>10, GroupsLength DEF GroupsAre
<1>15. QED
  <2>1. /\ \A m : (IsFilter(m)' <=> IsFilter(m)) /\ (IsOp(m)' <=> IsOp(m))
        /\ \A i : /\ Openings(i)' = Openings(i) /\ OpsTo(i)' = OpsTo(i)
                  /\ FiltersOf(i)' = FiltersOf(i)
        /\ \A h, F : FilterIs(h, F)' <=> FilterIs(h, F)
    BY LineStays
  <2> HIDE DEF n
  <2>2. QED
    BY <1>8, <1>9, <1>12, <1>13, <1>14, <2>1 DEF GroupsAre

----------------------------------------------------------------------------
(***************************************************************************)
(* The steps.                                                              *)
(***************************************************************************)
LEMMA OptionStep ==
  ASSUME ArgsInv, GroupsInv, LineInv, ExecInv, ParseOption
  PROVE  LineInv' /\ ExecInv'
<1>1. /\ pc = "options" /\ args # <<>> /\ args[1].kind \in OptionKinds
      /\ argv' = argv /\ groups' = groups /\ written' = written
      /\ pc' = "died" \/ (pc' = "options" /\ args' = Tail(args))
  BY DEF ParseOption, IsOption
<1>2. ExecInv'
  BY <1>1 DEF ExecInv, Executing
<1>3. CASE pc' = "died"
  BY <1>1, <1>2, <1>3 DEF LineInv
<1>4. CASE pc' = "options" /\ args' = Tail(args)
  <2>1. /\ Done' = Done + 1 /\ Done \in Nat /\ args[1] = argv[Done + 1]
        /\ Done < Len(argv) /\ IsSeq(argv)
    BY <1>1, <1>4, ArgTaken
  <2>2. PICK k \in Nat : k = Done
    BY <2>1
  <2>3. groups = <<>> /\ OptionsFirst /\ GroupsAre(k)
    BY <1>1, <2>2 DEF LineInv
  <2>4. k + 1 \in DOMAIN argv /\ argv[k + 1].kind \in OptionKinds
    <3>1. DOMAIN argv = 1..Len(argv) /\ Len(argv) \in Nat
      BY <2>1, LenProperties DEF IsSeq
    <3>2. QED
      BY <1>1, <2>1, <2>2, <3>1
  <2>5. GroupsAre(k + 1)
    BY <2>3, <2>4, OptionLine
  <2>6. GroupsAre(k + 1)'
    BY <1>1, <2>5, GroupsAreStay
  <2>7. Done' = k + 1
    BY <2>1, <2>2
  <2>8. OptionsFirst'
    <3>1. \A j \in 1 .. k + 1 : j \in 1..k \/ j = k + 1
      BY <2>2
    <3>2. \A j \in 1 .. k + 1 : argv[j].kind \in OptionKinds
      BY <2>2, <2>3, <2>4, <3>1 DEF OptionsFirst
    <3>3. QED
      BY <1>1, <2>7, <3>2 DEF OptionsFirst
  <2>9. IsCommand(argv')
    BY <1>1 DEF LineInv
  <2>10. QED
    BY <1>1, <1>2, <1>4, <2>3, <2>6, <2>7, <2>8, <2>9 DEF LineInv
<1>5. QED
  BY <1>1, <1>3, <1>4

\* Steps that leave the line and the groups.
LEMMA LineKeptBy ==
  ASSUME LineInv, argv' = argv, args' = args, groups' = groups, pc # "died",
         pc' # "options"
  PROVE  LineInv'
<1>1. GroupsAre(Done)
  BY DEF LineInv
<1>2. Done' = Done
  BY DEF Done
<1>3. PICK k : k = Done
  OBVIOUS
<1>4. GroupsAre(k)'
  BY <1>1, <1>3, GroupsAreStay
<1>5. QED
  BY <1>2, <1>3, <1>4 DEF LineInv

\* The values of an operation are those of its argument.
LEMMA ParsedValues ==
  ASSUME NEW a, IsSeq(a.values), parse_op(a).ok
  PROVE  DOMAIN parse_op(a).op.values = DOMAIN a.values /\ IsSeq(parse_op(a).op.values)
<1> DEFINE n == Len(a.values)
           f == [i \in 1..n |-> Masked(a.values[i])]
<1>1. parse_op(a).op.values = f
  <2>1. PICK ok, op : /\ parse_op(a) = IF ~ok THEN [ok |-> FALSE]
                                       ELSE [ok |-> TRUE, op |-> op]
                      /\ op.values = f
    <3> DEFINE register == parse_register(a.base)
               width == IF a.width = Empty THEN register.width ELSE a.width
               addr == register.addr + (IF a.offset = Empty THEN 0 ELSE a.offset)
               good == /\ a.width # Bad /\ a.number # Bad
                       /\ register # Unknown /\ width # 0
                       /\ a.offset \in 0..4095 \cup {Empty}
                       /\ Fits(addr, width, n)
                       /\ \A i \in 1..n : GoodValue(a.values[i], width)
               made == [type |-> register.type, id |-> register.id, addr |-> addr,
                        width |-> width,
                        number |-> IF a.number = Empty THEN 0 ELSE a.number,
                        values |-> f]
    <3>1. parse_op(a) = IF ~good THEN [ok |-> FALSE] ELSE [ok |-> TRUE, op |-> made]
      BY Zenon DEF parse_op
    <3>2. made.values = f
      OBVIOUS
    <3> HIDE DEF good, made, f
    <3>3. QED
      BY <3>1, <3>2
  <2> HIDE DEF f
  <2>2. QED
    BY <2>1
<1>2. n \in Nat /\ DOMAIN a.values = 1..n
  BY LenProperties DEF IsSeq
<1>3. f = [i \in DOMAIN a.values |-> f[i]]
  BY <1>2
<1> HIDE DEF f
<1>4. QED
  BY <1>1, <1>3, MapSeq

\* A filter.
LEMMA FilterStep ==
  ASSUME GroupsInv, NEW k \in Nat, k + 1 \in DOMAIN argv, IsCommand(argv), GroupsAre(k),
         argv' = argv, argv[k + 1].kind \in {"slot", "id"}, ParseFilter(argv[k + 1]),
         pc = "parse", pc' = "parse"
  PROVE  /\ GroupsAre(k + 1)'
         /\ \A g \in DOMAIN groups' : \A o \in DOMAIN groups'[g].ops :
              g \in DOMAIN groups /\ groups'[g].ops = groups[g].ops
<1> DEFINE a == argv[k + 1]
           n == Len(groups)
           opens == groups = <<>> \/ groups[n].ops # <<>>
           old == IF opens THEN NoFilter ELSE groups[n].filter
           new == IF a.kind = "slot" THEN ParseSlot(old, a) ELSE ParseId(old, a)
           F == IF opens THEN {} ELSE FiltersOf(k)
<1>1. /\ groups' = IF opens THEN Append(groups, NewGroup(new.filter))
                   ELSE [groups EXCEPT ![n].filter = new.filter]
      /\ pc' = IF new.ok THEN pc ELSE "died"
  BY Zenon DEF ParseFilter
<1>2. opens <=> ~IsFilter(k)
  BY DEF GroupsAre, Latest
<1>3. IsFilter(k + 1)
  BY DEF IsFilter
<1>4. F \in SUBSET Int /\ \A m \in F : m <= k + 1
  <2>1. FiltersOf(k) \in SUBSET Int /\ \A m \in FiltersOf(k) : m <= k
    BY DEF FiltersOf
  <2>2. QED
    BY <2>1
<1>5. FilterIs(old, F)
  BY NothingSaid DEF GroupsAre, Latest
<1>6. new.ok
  BY <1>1
<1>7. k + 1 \in Nat
  OBVIOUS
<1> HIDE DEF old, F, opens
<1>8. FilterIs(new.filter, F \cup {k + 1})
  <2>1. CASE a.kind = "slot"
    <3>1. new = ParseSlot(old, a)
      BY <2>1
    <3> HIDE DEF new
    <3>2. QED
      BY <1>4, <1>5, <1>6, <1>7, <2>1, <3>1, SlotNext
  <2>2. CASE a.kind = "id"
    <3>1. new = ParseId(old, a)
      BY <2>2
    <3>2. IsId(a)
      BY <2>2 DEF IsCommand
    <3> HIDE DEF new
    <3>3. QED
      BY <1>4, <1>5, <1>6, <1>7, <2>2, <3>1, <3>2, IdNext
  <2>3. QED
    BY <2>1, <2>2
<1>9. /\ IsSeq(groups) /\ n \in Nat /\ DOMAIN groups = 1..n
      /\ groups # <<>> => n \in DOMAIN groups
  BY GroupsLength
<1> HIDE DEF new
<1>f. PICK f : f = new.filter
  OBVIOUS
<1>10. CASE opens
  <2>1. groups' = Append(groups, NewGroup(f)) /\ FilterIs(f, {k + 1})
    BY <1>1, <1>8, <1>10, <1>f DEF F
  <2>2. GroupsAre(k + 1)'
    BY <1>2, <1>3, <1>10, <2>1, OpeningLine
  <2>3. AppendsOne(groups, NewGroup(f))
    BY <1>9, AppendAdds
  <2>4. ASSUME NEW g \in DOMAIN groups', NEW o \in DOMAIN groups'[g].ops
        PROVE  g \in DOMAIN groups /\ groups'[g].ops = groups[g].ops
    <3>1. CASE g \in DOMAIN groups
      BY <2>1, <2>3, <3>1 DEF AppendsOne
    <3>2. CASE g = n + 1
      <4>1. groups'[g].ops = <<>>
        BY <2>1, <2>3, <3>2 DEF AppendsOne, NewGroup
      <4>2. QED
        BY <2>4, <4>1
    <3>3. QED
      BY <2>1, <2>3, <3>1, <3>2 DEF AppendsOne
  <2>5. QED
    BY <2>2, <2>4
<1>11. CASE ~opens
  <2>1. groups' = [groups EXCEPT ![n].filter = f] /\ FilterIs(f, FiltersOf(k) \cup {k + 1})
    BY <1>1, <1>8, <1>11, <1>f DEF F
  <2>2. IsFilter(k)
    BY <1>2, <1>11
  <2>3. GroupsAre(k + 1)'
    BY <1>3, <2>1, <2>2, AddedLine
  <2>4. n \in DOMAIN groups /\ DOMAIN groups[n] = {"filter", "ops"}
    BY <1>9, <1>11 DEF opens, GroupsInv, IsGroup
  <2>5. DOMAIN groups' = DOMAIN groups /\ \A g \in DOMAIN groups : groups'[g].ops = groups[g].ops
    <3> DEFINE v == [groups[n] EXCEPT !.filter = f]
    <3>1. v.ops = groups[n].ops /\ groups' = [groups EXCEPT ![n] = v]
      BY <2>1, <2>4
    <3> HIDE DEF v
    <3>2. QED
      BY <3>1
  <2>6. QED
    BY <2>3, <2>5
<1>12. QED
  BY <1>10, <1>11

\* An argument.
LEMMA ArgStep ==
  ASSUME ArgsInv, GroupsInv, LineInv, ExecInv, ParseArg
  PROVE  LineInv' /\ ExecInv'
<1> DEFINE a == args[1]
<1>1. /\ pc = "parse" /\ args # <<>> /\ args' = Tail(args) /\ argv' = argv
      /\ written' = written /\ written = {}
  BY DEF ParseArg, ExecInv, Executing
<1>2. /\ Done' = Done + 1 /\ Done \in Nat /\ a = argv[Done + 1]
      /\ Done < Len(argv) /\ IsSeq(argv)
  BY <1>1, ArgTaken
<1>3. PICK k \in Nat : k = Done
  BY <1>2
<1>4. k + 1 \in DOMAIN argv
  <2>1. DOMAIN argv = 1..Len(argv) /\ Len(argv) \in Nat
    BY <1>2, LenProperties DEF IsSeq
  <2>2. QED
    BY <1>2, <1>3, <2>1
<1>5. a = argv[k + 1] /\ Done' = k + 1 /\ GroupsAre(k) /\ IsCommand(argv)
  BY <1>1, <1>2, <1>3 DEF LineInv
<1>6. \A g \in DOMAIN groups : \A o \in DOMAIN groups[g].ops :
        IsSeq(groups[g].ops[o].values)
  BY DEF ExecInv
<1> HIDE DEF a
<1>7. CASE a.kind \in {"slot", "id"} /\ ParseFilter(a)
  <2>1. pc' \in {"parse", "died"}
    BY <1>1, <1>7, Zenon DEF ParseFilter
  <2>2. CASE pc' = "parse"
    <3>1. /\ GroupsAre(k + 1)'
          /\ \A g \in DOMAIN groups' : \A o \in DOMAIN groups'[g].ops :
               g \in DOMAIN groups /\ groups'[g].ops = groups[g].ops
      BY <1>1, <1>4, <1>5, <1>7, <2>2, FilterStep
    <3>2. \A g \in DOMAIN groups' : \A o \in DOMAIN groups'[g].ops :
            IsSeq(groups'[g].ops[o].values)
      BY <1>6, <3>1
    <3>3. LineInv'
      BY <1>1, <1>5, <2>2, <3>1 DEF LineInv
    <3>4. ExecInv'
      BY <1>1, <2>2, <3>2 DEF ExecInv, Executing
    <3>5. QED
      BY <3>3, <3>4
  <2>3. CASE pc' = "died"
    <3>1. LineInv'
      BY <1>1, <1>5, <2>3 DEF LineInv
    <3>2. \A g \in DOMAIN groups' : \A o \in DOMAIN groups'[g].ops :
            IsSeq(groups'[g].ops[o].values)
      <4> DEFINE n == Len(groups)
      <4>1. /\ IsSeq(groups) /\ n \in Nat /\ DOMAIN groups = 1..n
            /\ groups # <<>> => n \in DOMAIN groups
        BY GroupsLength
      <4>2. PICK f : \/ groups' = Append(groups, NewGroup(f))
                     \/ groups # <<>> /\ groups' = [groups EXCEPT ![n].filter = f]
        <5> DEFINE opens == groups = <<>> \/ groups[Len(groups)].ops # <<>>
                   old == IF opens THEN NoFilter ELSE groups[Len(groups)].filter
                   new == IF a.kind = "slot" THEN ParseSlot(old, a) ELSE ParseId(old, a)
        <5>1. groups' = IF opens THEN Append(groups, NewGroup(new.filter))
                        ELSE [groups EXCEPT ![Len(groups)].filter = new.filter]
          BY <1>7, Zenon DEF ParseFilter
        <5> HIDE DEF new
        <5>2. QED
          BY <5>1, Zenon
      <4>3. CASE groups' = Append(groups, NewGroup(f))
        <5>1. AppendsOne(groups, NewGroup(f))
          BY <4>1, AppendAdds
        <5>2. NewGroup(f).ops = <<>>
          BY DEF NewGroup
        <5>3. QED
          BY <1>6, <4>3, <5>1, <5>2 DEF AppendsOne
      <4>4. CASE groups # <<>> /\ groups' = [groups EXCEPT ![n].filter = f]
        <5> DEFINE v == [groups[n] EXCEPT !.filter = f]
        <5>1. DOMAIN groups[n] = {"filter", "ops"}
          BY <4>1, <4>4 DEF GroupsInv, IsGroup
        <5>2. v.ops = groups[n].ops /\ groups' = [groups EXCEPT ![n] = v]
          BY <4>4, <5>1
        <5> HIDE DEF v
        <5>3. QED
          BY <1>6, <4>1, <4>4, <5>2
      <4>5. QED
        BY <4>2, <4>3, <4>4
    <3>3. ExecInv'
      BY <1>1, <2>3, <3>2 DEF ExecInv, Executing
    <3>4. QED
      BY <3>1, <3>3
  <2>4. QED
    BY <2>1, <2>2, <2>3
<1>8. CASE a.kind = "op" /\ ParseOp(a)
  <2>1. \/ pc' = "died" /\ groups' = groups
        \/ /\ groups # <<>> /\ parse_op(a).ok /\ pc' = pc
           /\ groups' = [groups EXCEPT ![Len(groups)].ops = Append(@, parse_op(a).op)]
    BY <1>8, Zenon DEF ParseOp
  <2>2. CASE pc' = "died" /\ groups' = groups
    <3>1. LineInv'
      BY <1>1, <1>5, <2>2 DEF LineInv
    <3>2. ExecInv'
      BY <1>1, <1>6, <2>2 DEF ExecInv, Executing
    <3>3. QED
      BY <3>1, <3>2
  <2>3. ASSUME groups # <<>>, parse_op(a).ok, pc' = pc,
               groups' = [groups EXCEPT ![Len(groups)].ops = Append(@, parse_op(a).op)]
        PROVE  LineInv' /\ ExecInv'
    <3> DEFINE op == parse_op(a).op
               n == Len(groups)
    <3>1. IsSeq(a.values)
      BY <1>4, <1>5, <1>8 DEF IsCommand
    <3>2. DOMAIN op.values = DOMAIN argv[k + 1].values /\ IsSeq(op.values)
      BY <1>5, <2>3, <3>1, ParsedValues
    <3> HIDE DEF op
    <3>3. IsOp(k + 1)
      BY <1>4, <1>5, <1>8 DEF IsOp
    <3>4. groups' = [groups EXCEPT ![n].ops = Append(@, op)]
      BY <2>3 DEF op
    <3>5. GroupsAre(k + 1)'
      BY <1>1, <1>5, <2>3, <3>2, <3>3, <3>4, OpLine
    <3>6. \A g \in DOMAIN groups' : \A o \in DOMAIN groups'[g].ops :
            IsSeq(groups'[g].ops[o].values)
      <4> DEFINE ops == Append(groups[n].ops, op)
                 v == [groups[n] EXCEPT !.ops = ops]
      <4>1. n \in DOMAIN groups
        BY <2>3, GroupsLength
      <4>2. DOMAIN groups[n] = {"filter", "ops"} /\ IsSeq(groups[n].ops)
        BY <4>1 DEF GroupsInv, IsGroup
      <4>3. AppendsOne(groups[n].ops, op)
        BY <4>2, AppendAdds
      <4>4. \A o \in DOMAIN ops : IsSeq(ops[o].values)
        BY <1>6, <3>2, <4>1, <4>3 DEF AppendsOne
      <4> HIDE DEF ops
      <4>5. v.ops = ops
        BY <4>2
      <4>6. groups' = [groups EXCEPT ![n] = v]
        BY <3>4 DEF ops
      <4> HIDE DEF v
      <4>7. QED
        BY <1>6, <4>1, <4>4, <4>5, <4>6
    <3>7. LineInv'
      BY <1>1, <1>5, <2>3, <3>5 DEF LineInv
    <3>8. ExecInv'
      BY <1>1, <2>3, <3>6 DEF ExecInv, Executing
    <3>9. QED
      BY <3>7, <3>8
  <2>4. QED
    BY <2>1, <2>2, <2>3
<1>9. CASE pc' = "died" /\ groups' = groups
  <2>1. LineInv'
    BY <1>1, <1>5, <1>9 DEF LineInv
  <2>2. ExecInv'
    BY <1>1, <1>6, <1>9 DEF ExecInv, Executing
  <2>3. QED
    BY <2>1, <2>2
<1>10. QED
  <2>1. \/ a.kind \in {"slot", "id"} /\ ParseFilter(a)
        \/ a.kind = "op" /\ ParseOp(a)
        \/ pc' = "died" /\ groups' = groups
    BY DEF ParseArg, a
  <2>2. QED
    BY <1>7, <1>8, <1>9, <2>1

\* Steps before and after the arguments are read.
LEMMA BeginStep ==
  ASSUME LineInv, ExecInv, PciInit \/ ReadDump
  PROVE  LineInv' /\ ExecInv'
<1>1. /\ pc \in {"options", "dump"} /\ pc' \in {"died", "dump", "parse"}
      /\ args' = args /\ argv' = argv /\ groups' = groups /\ written' = written
  <2>1. CASE PciInit
    BY <2>1 DEF PciInit
  <2>2. CASE ReadDump
    BY <2>2 DEF ReadDump
  <2>3. QED
    BY <2>1, <2>2
<1>2. LineInv'
  BY <1>1, LineKeptBy
<1>3. ExecInv'
  BY <1>1 DEF ExecInv, Executing
<1>4. QED
  BY <1>2, <1>3

LEMMA ScanStep ==
  ASSUME ArgsInv, GroupsInv, LineInv, ExecInv, ScanOps
  PROVE  LineInv' /\ ExecInv'
<1>1. /\ pc = "parse" /\ args = <<>> /\ pc' \in {"died", "exec"}
      /\ args' = args /\ argv' = argv /\ groups' = groups /\ written' = written
      /\ turn' = turn /\ jobs' = jobs
  BY DEF ScanOps, ArgsInv
<1>2. LineInv'
  BY <1>1, LineKeptBy
<1>3. written' = {} /\ turn' = 0 /\ jobs' = <<>>
  BY <1>1 DEF ExecInv, Executing, GroupsInv
<1>4. OnlySelected'
  <2>1. DOMAIN jobs' = {}
    BY <1>3
  <2>2. QED
    BY <1>3, <2>1 DEF OnlySelected
<1>5. AllDone'
  <2>1. \A g : g \notin 1..0
    OBVIOUS
  <2>2. QED
    BY <1>3, <2>1 DEF AllDone
<1>6. ExecInv'
  BY <1>1, <1>4, <1>5 DEF ExecInv, Executing
<1>7. QED
  BY <1>2, <1>6

LEMMA ExecStep ==
  ASSUME ArgsInv, GroupsInv, DumpInv, LineInv, ExecInv,
         NextGroup \/ BeginOp \/ ReadOp \/ WriteValue
  PROVE  LineInv' /\ ExecInv'
<1>1. /\ pc \in {"exec", "op"} /\ pc' # "options"
      /\ args' = args /\ argv' = argv /\ groups' = groups
  <2>1. CASE NextGroup
    BY <2>1 DEF NextGroup
  <2>2. CASE BeginOp
    BY <2>2 DEF BeginOp
  <2>3. CASE ReadOp
    BY <2>3 DEF ReadOp
  <2>4. CASE WriteValue
    BY <2>4 DEF WriteValue
  <2>5. QED
    BY <2>1, <2>2, <2>3, <2>4
<1>2. LineInv'
  BY <1>1, LineKeptBy
<1>3. ExecInv'
  BY NextGroupExec, BeginOpExec, ReadOpExec, WriteValueExec
<1>4. QED
  BY <1>2, <1>3

----------------------------------------------------------------------------
(***************************************************************************)
(* The devices that are selected are those asked for.                      *)
(***************************************************************************)
IsIdentity == \A fn \in Functions : Identity[fn].class \in Nat

LEMMA DescribedClass ==
  ASSUME IsIdentity, NEW fn \in Functions, NEW k
  PROVE  Described(Device(fn, k)).class \in Nat
<1>1. Device(fn, k).fn = fn
  BY DEF Device
<1>2. "class" \notin Locations
  BY DEF Locations
<1>3. QED
  BY <1>1, <1>2 DEF Described, IsIdentity

LEMMA OneRange ==
  ASSUME NEW x
  PROVE  Range(<<x>>) = {x}
BY DEF Range

LEMMA SelectedAre ==
  ASSUME DumpInv, method = "dump" => ~tree, NEW f
  PROVE  {h.fn : h \in Range(SelectDevices(f))} \cap {fn \in Functions : Visible(fn)}
           = {fn \in Functions : Visible(fn) /\ Match(f, Described(Device(fn, 0)))}
<1> DEFINE loc == [x \in Locations |-> f[x]]
           list == IF ~needScan /\ Single(f) THEN <<Device(loc, 0)>> ELSE Devices
           S == {h \in Range(list) : Match(f, Described(h))}
           V == {fn \in Functions : Visible(fn)}
<1>1. IsSeq(list)
  <2>1. IsSeq(<<Device(loc, 0)>>)
    BY DEF IsSeq, Range
  <2>2. QED
    BY <2>1, DevicesSeq
<1>2. SelectDevices(f) = Picked(list, S)
  BY DEF SelectDevices
<1>3. Range(SelectDevices(f)) = Range(list) \cap S
  <2> HIDE DEF list, S
  <2>1. QED
    BY <1>1, <1>2, PickedIs
<1>4. Range(SelectDevices(f)) = S
  BY <1>3
<1>5. CASE ~needScan /\ Single(f)
  <2>1. list = <<Device(loc, 0)>>
    BY <1>5
  <2>2. Range(list) = {Device(loc, 0)}
    <3> HIDE DEF list, loc, S, V
    <3>1. QED
      BY <2>1, OneRange
  <2>3. S = {h \in {Device(loc, 0)} : Match(f, Described(h))}
    BY <2>2
  <2>4. Device(loc, 0).fn = loc
    BY DEF Device
  <2> HIDE DEF S, list
  <2>5. ASSUME NEW fn \in V, Match(f, Described(Device(fn, 0))) PROVE fn = loc
    <3>1. /\ \A x \in Locations : f[x] >= 0 => f[x] = Described(Device(fn, 0))[x]
      BY <2>5 DEF Match, Locations
    <3>2. \A x \in Locations : f[x] >= 0
      BY <1>5 DEF Single
    <3>3. \A x \in Locations : Described(Device(fn, 0))[x] = fn[x]
      BY DEF Described, Device
    <3>4. fn = [x \in Locations |-> fn[x]]
      <4>1. fn \in [domain : Nat, bus : 0..255, slot : 0..31, func : 0..7]
        BY PositionsAssumption
      <4>2. QED
        BY <4>1 DEF Locations
    <3>5. QED
      BY <3>1, <3>2, <3>3, <3>4
  <2> HIDE DEF loc
  <2>6. QED
    BY <1>4, <2>3, <2>4, <2>5
<1>6. CASE ~(~needScan /\ Single(f)) /\ method = "dump"
  <2>1. V = {}
    BY <1>6 DEF Visible, Answers, Ports
  <2>2. QED
    BY <2>1
<1>7. CASE ~(~needScan /\ Single(f)) /\ method # "dump"
  <2> DEFINE found == Picked(Order, V)
             l == [k \in DOMAIN found |-> Device(found[k], 0)]
  <2>1. list = l
    BY <1>7 DEF Devices
  <2>2. Range(found) = V
    <3>1. IsSeq(Order) /\ Range(Order) = Functions
      BY OrderAssumption DEF IsSeq
    <3> HIDE DEF V
    <3>2. Range(found) = Functions \cap V
      BY <3>1, PickedIs
    <3>3. QED
      BY <3>2 DEF V
  <2> HIDE DEF found
  <2>3. Range(l) = {Device(fn, 0) : fn \in V}
    BY <2>2 DEF Range
  <2>4. \A fn : Device(fn, 0).fn = fn
    BY DEF Device
  <2>5. S = {h \in {Device(fn, 0) : fn \in V} : Match(f, Described(h))}
    BY <2>1, <2>3
  <2> HIDE DEF S, V
  <2>6. {h.fn : h \in S} = {fn \in V : Match(f, Described(Device(fn, 0)))}
    BY <2>4, <2>5
  <2>7. QED
    BY <1>4, <2>6 DEF V
<1>8. QED
  BY <1>5, <1>6, <1>7

\* What has been written when the program ends.
LEMMA WrittenAre ==
  ASSUME ArgsInv, GroupsInv, DumpInv, LineInv, ExecInv, IsIdentity,
         method = "dump" => ~tree
  PROVE  WrittenWhereAsked
<1>1. SUFFICES ASSUME pc = "exit", ~set.demo, NEW i \in DOMAIN argv, IsOp(i),
                      NEW v \in DOMAIN argv[i].values
               PROVE  {w.fn : w \in {u \in written :
                         /\ u.group = Cardinality(Openings(i)) /\ u.value = v
                         /\ u.op = Cardinality(OpsTo(i))}}
                        \cap {fn \in Functions : Visible(fn)}
                      = {fn \in Functions : Visible(fn) /\ Asked(i, Described(Device(fn, 0)))}
  BY DEF WrittenWhereAsked, OpsTo, Newest
<1> DEFINE g == Cardinality(Openings(i))
           o == Cardinality(OpsTo(i))
           W == {w.fn : w \in {u \in written : u.group = g /\ u.value = v /\ u.op = o}}
           V == {fn \in Functions : Visible(fn)}
           f == groups[g].filter
<1>2. OnlySelected /\ AllDone /\ args = <<>> /\ turn = Len(groups) /\ jobs = <<>>
  BY <1>1 DEF ExecInv, Executing
<1>3. i \in 1..Done
  <2>1. IsSeq(argv)
    BY DEF ArgsInv
  <2>2. DOMAIN argv = 1..Len(argv) /\ Len(argv) \in Nat
    BY <2>1, LenProperties DEF IsSeq
  <2>3. Len(args) = 0
    BY <1>2
  <2>4. QED
    BY <2>2, <2>3 DEF Done
<1>4. PlaceIn(groups, g, o, i)
  BY <1>1, <1>3 DEF LineInv, GroupsAre, Placed
<1>5. /\ g \in DOMAIN groups /\ o \in DOMAIN groups[g].ops
      /\ DOMAIN groups[g].ops[o].values = DOMAIN argv[i].values
      /\ FilterIs(f, FiltersOf(i))
  BY <1>4 DEF PlaceIn
<1> HIDE DEF g, o
<1>6. g \in 1..turn
  BY <1>2, <1>5, GroupsLength
<1>7. \A fn \in Sel(g) : WriteOf(g, o, v, fn) \in written
  <2>1. v \in ValuesOf(g, o)
    BY <1>5 DEF ValuesOf
  <2>2. \A fn \in Sel(g) : WriteOf(g, o, v, fn) \in written \/ Waits(g, o, v, fn)
    BY <1>1, <1>2, <1>5, <1>6, <2>1 DEF AllDone
  <2>3. \A fn : ~Waits(g, o, v, fn)
    <3>1. DOMAIN jobs = {}
      BY <1>2
    <3>2. QED
      BY <3>1 DEF Waits
  <2>4. QED
    BY <2>2, <2>3
<1>8. W = Sel(g)
  <2>1. ASSUME NEW fn \in W PROVE fn \in Sel(g)
    BY <1>2, <2>1 DEF OnlySelected
  <2>2. ASSUME NEW fn \in Sel(g) PROVE fn \in W
    <3>1. WriteOf(g, o, v, fn) \in written
      BY <1>7, <2>2
    <3>2. /\ WriteOf(g, o, v, fn).group = g /\ WriteOf(g, o, v, fn).value = v
          /\ WriteOf(g, o, v, fn).op = o /\ WriteOf(g, o, v, fn).fn = fn
      BY DEF WriteOf
    <3>3. QED
      BY <3>1, <3>2
  <2> HIDE DEF W
  <2>3. QED
    BY <2>1, <2>2
<1>9. Sel(g) \cap V = {fn \in Functions : Visible(fn) /\ Match(f, Described(Device(fn, 0)))}
  BY SelectedAre DEF Sel
<1>10. \A fn \in Functions : Match(f, Described(Device(fn, 0)))
                               <=> Asked(i, Described(Device(fn, 0)))
  <2>1. ASSUME NEW fn \in Functions
        PROVE  Match(f, Described(Device(fn, 0))) <=> Asked(i, Described(Device(fn, 0)))
    <3> DEFINE d == Described(Device(fn, 0))
    <3>1. d.class \in Nat
      BY DescribedClass
    <3> HIDE DEF d, f
    <3>2. Match(f, d) <=> Asked(i, d)
      BY <1>5, <3>1, MatchIsAsked
    <3>3. QED
      BY <3>2 DEF d
  <2>2. QED
    BY <2>1
<1> HIDE DEF W, f
<1>11. W \cap V = {fn \in Functions : Visible(fn) /\ Asked(i, Described(Device(fn, 0)))}
  BY <1>8, <1>9, <1>10
<1>12. QED
  BY <1>11 DEF W, g, o

----------------------------------------------------------------------------
(***************************************************************************)
(* The method is the one that was asked for.                               *)
(***************************************************************************)
Naming(k) == {j \in 1..k : argv[j].kind = "option" /\ argv[j].opt \in {"A", "H", "F"}}
MethodOf(a) == IF a.opt = "H" THEN PortMethod(a.arg) ELSE a.arg

ChosenIs(k, m) ==
  \/ Naming(k) = {} /\ m = "auto"
  \/ \E j \in Naming(k) : /\ \A l \in Naming(k) : l <= j
                          /\ m = MethodOf(argv[j]) /\ m \in Methods

MethodInv ==
  /\ DOMAIN set.access = {"params", "method"}
  /\ pc = "options" => method = "none" /\ ChosenIs(Done, set.access.method)
  /\ pc # "options" => MethodAsAsked
  /\ method = "dump" => ~tree
  /\ method \in Methods \cup {"none"}
  /\ pc \notin {"options", "died"} => method \in Methods

\* What an option says of the method.
LEMMA GenericIs ==
  ASSUME NEW s, DOMAIN s = {"params", "method"}, NEW a, GenericOption(s, a).ok, a.opt # "F"
  PROVE  /\ DOMAIN GenericOption(s, a).set = {"params", "method"}
         /\ a.opt \in {"A", "H"} => /\ GenericOption(s, a).set.method = MethodOf(a)
                                    /\ MethodOf(a) \in Methods
         /\ a.opt \notin {"A", "H"} => GenericOption(s, a).set.method = s.method
<1> DEFINE r == GenericOption(s, a)
           with(m) == [s EXCEPT !.method = m]
<1>1. \A m : DOMAIN with(m) = {"params", "method"} /\ with(m).method = m
  OBVIOUS
<1>2. /\ \A t : Ok(t).ok = TRUE /\ Ok(t).set = t
      /\ \A t : Die(t).ok = FALSE
  BY DEF Ok, Die
<1>3. CASE a.opt = "H"
  <2>1. r = IF a.arg \in {"1", "2"} THEN Ok(with(PortMethod(a.arg))) ELSE Die(s)
    BY <1>3, Zenon DEF GenericOption
  <2> HIDE DEF r, with
  <2>2. r = Ok(with(PortMethod(a.arg)))
    BY <1>2, <2>1 DEF r
  <2>3. PortMethod(a.arg) \in Methods
    BY DEF PortMethod, Methods, Ports
  <2>4. MethodOf(a) = PortMethod(a.arg)
    BY <1>3 DEF MethodOf
  <2>5. QED
    BY <1>1, <1>2, <1>3, <2>2, <2>3, <2>4 DEF r
<1>4. CASE a.opt = "A"
  <2>1. r = IF a.arg \in Methods THEN Ok(with(a.arg)) ELSE Die(s)
    BY <1>4, Zenon DEF GenericOption
  <2> HIDE DEF r, with
  <2>2. r = Ok(with(a.arg)) /\ a.arg \in Methods
    BY <1>2, <2>1 DEF r
  <2>3. MethodOf(a) = a.arg
    BY <1>4 DEF MethodOf
  <2>4. QED
    BY <1>1, <1>2, <1>4, <2>2, <2>3 DEF r
<1>5. CASE a.opt = "G"
  <2>1. r = Ok(s)
    BY <1>5, Zenon DEF GenericOption
  <2> HIDE DEF r
  <2>2. QED
    BY <1>2, <1>5, <2>1 DEF r
<1>6. CASE a.opt = "O"
  <2>1. r = SetParam(s, a.arg, a.value)
    BY <1>6, Zenon DEF GenericOption
  <2>2. r = Die(s) \/ r = Ok([s EXCEPT !.params[a.arg] = a.value])
    BY <2>1 DEF SetParam
  <2> DEFINE t == [s EXCEPT !.params[a.arg] = a.value]
  <2>3. DOMAIN t = {"params", "method"} /\ t.method = s.method
    OBVIOUS
  <2> HIDE DEF r, t
  <2>4. r = Ok(t)
    BY <1>2, <2>2 DEF r, t
  <2>5. QED
    BY <1>2, <1>6, <2>3, <2>4 DEF r
<1>7. CASE a.opt \notin {"H", "F", "A", "G", "O"}
  <2>1. r = Die(s)
    BY <1>7, Zenon DEF GenericOption
  <2> HIDE DEF r
  <2>2. QED
    BY <1>2, <2>1 DEF r
<1>8. QED
  BY <1>3, <1>4, <1>5, <1>6, <1>7

LEMMA ChosenStays ==
  ASSUME argv' = argv
  PROVE  \A k, m : ChosenIs(k, m)' <=> ChosenIs(k, m)
<1>1. \A k : Naming(k)' = Naming(k)
  BY DEF Naming
<1>2. QED
  BY <1>1 DEF ChosenIs

LEMMA AskedStays ==
  ASSUME argv' = argv, set' = set, method' = method, machine' = machine
  PROVE  MethodAsAsked' <=> MethodAsAsked
BY DEF MethodAsAsked

LEMMA ChosenNext ==
  ASSUME NEW k \in Nat, NEW m, ChosenIs(k, m), NEW x,
         IF argv[k + 1].kind = "option" /\ argv[k + 1].opt \in {"A", "H", "F"}
           THEN x = MethodOf(argv[k + 1]) /\ x \in Methods ELSE x = m
  PROVE  ChosenIs(k + 1, x)
<1>1. \A j : j \in 1 .. k + 1 <=> j \in 1..k \/ j = k + 1
  OBVIOUS
<1>2. CASE argv[k + 1].kind = "option" /\ argv[k + 1].opt \in {"A", "H", "F"}
  <2>1. k + 1 \in Naming(k + 1) /\ \A l \in Naming(k + 1) : l <= k + 1
    BY <1>2 DEF Naming
  <2>2. x = MethodOf(argv[k + 1]) /\ x \in Methods
    BY <1>2
  <2>3. QED
    BY <2>1, <2>2 DEF ChosenIs
<1>3. CASE ~(argv[k + 1].kind = "option" /\ argv[k + 1].opt \in {"A", "H", "F"})
  <2>1. Naming(k + 1) = Naming(k)
    BY <1>1, <1>3 DEF Naming
  <2>2. x = m
    BY <1>3
  <2>3. QED
    BY <2>1, <2>2 DEF ChosenIs
<1>4. QED
  BY <1>2, <1>3

\* An option.
LEMMA OptionMethod ==
  ASSUME ArgsInv, MethodInv, ParseOption
  PROVE  MethodInv'
<1> DEFINE a == args[1]
           o == GenericOption(set.access, a)
<1>1. /\ pc = "options" /\ args # <<>> /\ a.kind \in OptionKinds
      /\ argv' = argv /\ method' = method /\ tree' = tree /\ machine' = machine
      /\ method = "none" /\ ChosenIs(Done, set.access.method)
      /\ DOMAIN set.access = {"params", "method"}
  BY DEF ParseOption, IsOption, unread, MethodInv
<1>2. ASSUME pc' = "died", UNCHANGED <<args, set>>
      PROVE  MethodInv'
  <2>1. MethodAsAsked'
    BY <1>1 DEF MethodAsAsked
  <2>2. QED
    BY <1>1, <1>2, <2>1 DEF MethodInv, Methods
<1>3. ASSUME ~(a.kind = "option" /\ (a.opt = "F" \/ ~o.ok)),
             set' = CASE a.kind = "D" -> [set EXCEPT !.demo = TRUE]
                      [] a.kind = "r" -> [set EXCEPT !.raw = TRUE]
                      [] a.kind = "option" -> [set EXCEPT !.access = o.set]
                      [] OTHER -> set,
             args' = Tail(args), pc' = pc
      PROVE  MethodInv'
  <2>1. /\ Done' = Done + 1 /\ Done \in Nat /\ a = argv[Done + 1]
    BY <1>1, <1>3, ArgTaken
  <2>2. PICK k \in Nat : k = Done
    BY <2>1
  <2>3. DOMAIN set = {"access", "demo", "raw"}
    BY DEF ArgsInv
  <2> HIDE DEF o
  <2>4. set'.access = IF a.kind = "option" THEN o.set ELSE set.access
    <3>1. CASE a.kind = "D"
      <4>1. set' = [set EXCEPT !.demo = TRUE]
        BY <1>3, <3>1
      <4>2. QED
        BY <2>3, <3>1, <4>1
    <3>2. CASE a.kind = "r"
      <4>1. set' = [set EXCEPT !.raw = TRUE]
        BY <1>3, <3>2
      <4>2. QED
        BY <2>3, <3>2, <4>1
    <3>3. CASE a.kind = "option"
      <4>1. set' = [set EXCEPT !.access = o.set]
        BY <1>3, <3>3
      <4>2. QED
        BY <2>3, <3>3, <4>1
    <3>4. CASE a.kind \in {"f", "v"}
      <4>1. set' = set
        BY <1>3, <3>4
      <4>2. QED
        BY <3>4, <4>1
    <3>5. QED
      BY <1>1, <3>1, <3>2, <3>3, <3>4 DEF OptionKinds
  <2> HIDE DEF a
  <2>5. a.kind = "option" =>
          /\ DOMAIN o.set = {"params", "method"}
          /\ a.opt \in {"A", "H"} => o.set.method = MethodOf(a) /\ MethodOf(a) \in Methods
          /\ a.opt \notin {"A", "H"} => o.set.method = set.access.method
          /\ a.opt # "F"
    <3>1. SUFFICES ASSUME a.kind = "option"
                   PROVE  /\ DOMAIN o.set = {"params", "method"}
                          /\ a.opt \in {"A", "H"} => /\ o.set.method = MethodOf(a)
                                                     /\ MethodOf(a) \in Methods
                          /\ a.opt \notin {"A", "H"} => o.set.method = set.access.method
                          /\ a.opt # "F"
      OBVIOUS
    <3>2. GenericOption(set.access, a).ok /\ a.opt # "F"
      BY <1>3, <3>1 DEF o
    <3>3. QED
      BY <1>1, <3>2, GenericIs DEF o
  <2>6. IF a.kind = "option" /\ a.opt \in {"A", "H", "F"}
          THEN set'.access.method = MethodOf(a) /\ set'.access.method \in Methods
          ELSE set'.access.method = set.access.method
    BY <2>4, <2>5
  <2>7. PICK x : x = set'.access.method
    OBVIOUS
  <2>8. ChosenIs(k, set.access.method) /\ a = argv[k + 1]
    BY <1>1, <2>1, <2>2
  <2>9. ChosenIs(k + 1, x)
    BY <2>6, <2>7, <2>8, ChosenNext
  <2>10. ChosenIs(k + 1, x)'
    BY <1>1, <2>9, ChosenStays
  <2>11. Done' = k + 1 /\ DOMAIN set'.access = {"params", "method"}
    BY <1>1, <2>1, <2>2, <2>4, <2>5
  <2>12. QED
    BY <1>1, <1>3, <2>7, <2>10, <2>11 DEF MethodInv
<1>4. QED
  BY <1>2, <1>3, Zenon DEF ParseOption

\* The first method of the sequence that works.
LEMMA ProbedIs ==
  ASSUME NEW params, NEW garbage, NEW m, m = Probed(params, garbage), m # "none"
  PROVE  /\ m \in Ports => /\ params["sysfs.path"] \notin machine.files
                           /\ params["proc.path"] \notin machine.files
         /\ m = "linux-proc" => params["sysfs.path"] \notin machine.files
         /\ m \in Methods
<1> DEFINE found == {k \in DOMAIN ProbeSequence :
                       Detect(ProbeSequence[k], params, garbage)}
<1>1. found # {} /\ m = ProbeSequence[Min(found)]
  BY DEF Probed
<1>2. /\ DOMAIN ProbeSequence = 1..4
      /\ ProbeSequence[1] = "linux-sysfs" /\ ProbeSequence[2] = "linux-proc"
      /\ ProbeSequence[3] = "intel-conf1" /\ ProbeSequence[4] = "intel-conf2"
  BY DEF ProbeSequence
<1>3. /\ 1 \in found <=> params["sysfs.path"] \in machine.files
      /\ 2 \in found <=> params["proc.path"] \in machine.files
  <2>1. /\ Detect("linux-sysfs", params, garbage) <=> params["sysfs.path"] \in machine.files
        /\ Detect("linux-proc", params, garbage) <=> params["proc.path"] \in machine.files
    BY Zenon DEF Detect
  <2>2. QED
    BY <1>2, <2>1
<1>4. found \subseteq 1..4
  BY <1>2
<1> HIDE DEF found
<1>5. PICK l \in found : \A k \in found : l <= k
  <2>1. CASE 1 \in found
    BY <1>4, <2>1
  <2>2. CASE 1 \notin found /\ 2 \in found
    BY <1>4, <2>2
  <2>3. CASE 1 \notin found /\ 2 \notin found /\ 3 \in found
    BY <1>4, <2>3
  <2>4. CASE 1 \notin found /\ 2 \notin found /\ 3 \notin found
    <3>1. \A k \in found : k = 4
      BY <1>4, <2>4
    <3>2. 4 \in found
      BY <1>1, <3>1
    <3>3. 4 <= 4
      OBVIOUS
    <3>4. QED
      BY <3>1, <3>2, <3>3
  <2>5. QED
    BY <2>1, <2>2, <2>3, <2>4
<1>6. Min(found) = l
  <2>1. \A y \in found : (\A z \in found : y <= z) => y = l
    BY <1>4, <1>5
  <2>2. (CHOOSE y \in found : \A z \in found : y <= z) = l
    BY <1>5, <2>1
  <2>3. QED
    BY <2>2 DEF Min
<1>7. l \in 1..4 /\ m = ProbeSequence[l]
  BY <1>1, <1>4, <1>5, <1>6
<1>8. m \in Ports => l \in {3, 4}
  BY <1>2, <1>7 DEF Ports
<1>9. m = "linux-proc" => l = 2
  <2>1. l = 1 \/ l = 2 \/ l = 3 \/ l = 4
    BY <1>7
  <2>2. QED
    BY <1>2, <1>7, <2>1
<1>10. l \in {3, 4} => 1 \notin found /\ 2 \notin found
  BY <1>5
<1>11. l = 2 => 1 \notin found
  BY <1>5
<1>12. m \in Methods
  <2>1. l = 1 \/ l = 2 \/ l = 3 \/ l = 4
    BY <1>7
  <2>2. QED
    BY <1>2, <1>7, <2>1 DEF Methods, KernelFiles, Ports
<1>13. QED
  BY <1>3, <1>8, <1>9, <1>10, <1>11, <1>12

LEMMA TakenOf ==
  ASSUME NEW n \in Nat, NEW r \in 0..n, NEW t, t = n - r
  PROVE  t \in 0..n
OBVIOUS

\* The options that name a method are those that have been read when
\* pci_init() is called.
LEMMA NamingIs ==
  ASSUME ArgsInv, OptionsFirst, ~IsOption
  PROVE  {k \in DOMAIN argv : /\ argv[k].kind = "option"
                              /\ argv[k].opt \in {"A", "H", "F"}
                              /\ \A j \in 1..k : argv[j].kind \in OptionKinds}
           = Naming(Done)
<1> DEFINE S == {k \in DOMAIN argv : /\ argv[k].kind = "option"
                                     /\ argv[k].opt \in {"A", "H", "F"}
                                     /\ \A j \in 1..k : argv[j].kind \in OptionKinds}
<1>1. /\ IsSeq(argv) /\ IsRest(args, argv, Done)
  BY DEF ArgsInv
<1>2. DOMAIN argv = 1..Len(argv) /\ Len(argv) \in Nat
  BY <1>1, LenProperties DEF IsSeq
<1>3. Done \in 0..Len(argv)
  <2>1. Len(args) \in 0..Len(argv) /\ Done = Len(argv) - Len(args)
    BY <1>1 DEF IsRest
  <2>2. QED
    BY ONLY <1>2, <2>1, TakenOf
<1>4. Done \in Nat
  BY <1>2, <1>3
<1>5. ASSUME NEW k \in Naming(Done) PROVE k \in S
  <2>1. k \in 1..Done /\ k \in 1..Len(argv)
    BY <1>2, <1>3 DEF Naming
  <2>2. \A j \in 1..k : j \in 1..Done
    BY <1>4, <2>1
  <2>3. QED
    BY <1>2, <2>1, <2>2 DEF Naming, OptionsFirst
<1>6. ASSUME NEW k \in S PROVE k \in Naming(Done)
  <2>1. CASE k \in 1..Done
    BY <2>1 DEF Naming
  <2>2. CASE k \notin 1..Done
    <3>1. Done + 1 \in 1..k /\ Done < Len(argv)
      BY <1>2, <1>4, <2>2
    <3>2. args # <<>>
      <4>1. Done = Len(argv) - Len(args) /\ Len(args) \in 0..Len(argv)
        BY <1>1 DEF IsRest
      <4>2. Len(args) # 0
        BY <1>2, <3>1, <4>1
      <4>3. QED
        BY <4>2
    <3>3. args[1] = argv[Done + 1]
      BY <1>1, <3>2, NextOf
    <3>4. argv[Done + 1].kind \in OptionKinds
      BY <3>1
    <3>5. QED
      BY <3>2, <3>3, <3>4 DEF IsOption
  <2>3. QED
    BY <2>1, <2>2
<1> HIDE DEF S
<1>7. S = Naming(Done)
  BY <1>5, <1>6
<1>8. QED
  BY <1>7 DEF S

\* pci_init()
LEMMA InitMethod ==
  ASSUME ArgsInv, LineInv, MethodInv, PciInit
  PROVE  MethodInv'
<1>1. PICK garbage \in {0, 1} :
        /\ method' = Decided(set.access, garbage)
        /\ tree' = TreeOf(Decided(set.access, garbage), set.access.params)
        /\ pc' = CASE Decided(set.access, garbage) = "none" -> "died"
                   [] Decided(set.access, garbage) = "dump" -> "dump"
                   [] OTHER -> "parse"
  BY Zenon DEF PciInit
<1>2. /\ pc = "options" /\ ~IsOption /\ argv' = argv /\ args' = args /\ set' = set
      /\ machine' = machine /\ pc' # "options"
  BY DEF PciInit
<1>3. OptionsFirst /\ ChosenIs(Done, set.access.method)
      /\ DOMAIN set.access = {"params", "method"}
  BY <1>2 DEF LineInv, MethodInv
<1> DEFINE m == IF set.access.method = "auto" THEN Probed(set.access.params, garbage)
                ELSE set.access.method
           N == Naming(Done)
<1>4. method' = "none" \/ method' = m
  BY <1>1 DEF Decided
<1>5. method' = "dump" => ~tree'
  <2>1. tree' = TreeOf(method', set.access.params)
    BY <1>1
  <2>2. QED
    BY <2>1 DEF TreeOf, KernelFiles
<1>6. MethodAsAsked'
  <2> DEFINE p == set.access.params
             naming == {k \in DOMAIN argv : /\ argv[k].kind = "option"
                                            /\ argv[k].opt \in {"A", "H", "F"}
                                            /\ \A j \in 1..k : argv[j].kind \in OptionKinds}
             asked == argv[Max(naming)]
  <2>1. naming = N
    BY <1>2, <1>3, NamingIs
  <2>2. SUFFICES ASSUME method' # "none"
                 PROVE  IF naming = {}
                          THEN /\ method' \in Ports => /\ p["sysfs.path"] \notin machine.files
                                                       /\ p["proc.path"] \notin machine.files
                               /\ method' = "linux-proc" => p["sysfs.path"] \notin machine.files
                          ELSE method' = MethodOf(asked)
    BY <1>2 DEF MethodAsAsked, MethodOf
  <2>3. CASE N = {}
    <3>1. set.access.method = "auto"
      BY <1>3, <2>3 DEF ChosenIs
    <3>2. method' = Probed(p, garbage)
      BY <1>4, <2>2, <3>1
    <3> HIDE DEF naming, p
    <3>3. QED
      BY <2>1, <2>2, <2>3, <3>2, ProbedIs
  <2>4. CASE N # {}
    <3>1. PICK j \in N : /\ \A l \in N : l <= j
                         /\ set.access.method = MethodOf(argv[j])
                         /\ set.access.method # "auto"
      BY <1>3, <2>4 DEF ChosenIs, Methods, KernelFiles, Ports
    <3>2. N \in SUBSET Int
      BY DEF Naming
    <3> HIDE DEF N
    <3>3. Max(N) = j
      BY <3>1, <3>2, MaxIs
    <3>4. method' = MethodOf(argv[j])
      BY <1>4, <2>2, <3>1
    <3> HIDE DEF naming
    <3>5. QED
      BY <2>1, <2>4, <3>3, <3>4
  <2>5. QED
    BY <2>3, <2>4
<1>7. method' \in Methods \cup {"none"}
  <2>1. set.access.method \in Methods \cup {"auto"}
    BY <1>3 DEF ChosenIs
  <2>2. Probed(set.access.params, garbage) \in Methods \cup {"none"}
    BY ProbedIs
  <2>3. QED
    BY <1>4, <2>1, <2>2
<1>8. pc' # "died" => method' \in Methods
  BY <1>1, <1>7
<1>9. QED
  BY <1>2, <1>3, <1>5, <1>6, <1>7, <1>8 DEF MethodInv

\* The others leave the method alone.
LEMMA OtherMethod ==
  ASSUME MethodInv, ReadDump \/ ParseArg \/ ScanOps \/ NextGroup \/ BeginOp \/ ReadOp
                    \/ WriteValue
  PROVE  MethodInv'
<1>1. /\ pc \notin {"options", "died"} /\ pc' # "options" /\ argv' = argv /\ set' = set
      /\ machine' = machine /\ method' = method /\ tree' = tree
  <2>1. CASE ReadDump
    BY <2>1 DEF ReadDump
  <2>2. CASE ParseArg
    <3>1. pc = "parse" /\ UNCHANGED <<argv, set, method, unread>>
      BY <2>2 DEF ParseArg
    <3>2. pc' \in {pc, "died"}
      BY <2>2 DEF ParseArg, ParseFilter, ParseOp
    <3>3. QED
      BY <3>1, <3>2 DEF unread
  <2>3. CASE ScanOps
    BY <2>3 DEF ScanOps, unread
  <2>4. CASE NextGroup
    BY <2>4 DEF NextGroup, unread
  <2>5. CASE BeginOp
    BY <2>5 DEF BeginOp, unread
  <2>6. CASE ReadOp
    BY <2>6 DEF ReadOp, unread
  <2>7. CASE WriteValue
    BY <2>7 DEF WriteValue
  <2>8. QED
    BY <2>1, <2>2, <2>3, <2>4, <2>5, <2>6, <2>7
<1>2. MethodAsAsked'
  BY <1>1, AskedStays DEF MethodInv
<1>3. QED
  BY <1>1, <1>2 DEF MethodInv

----------------------------------------------------------------------------
\* All together.
ToldInv == SetpciInv /\ LineInv /\ ExecInv /\ MethodInv

LEMMA ToldStarts ==
  ASSUME NEW machines, NEW files, NEW commands, SetpciInit(machines, files, commands),
         \A f \in files : IsFile(f), \A c \in commands : IsCommand(c)
  PROVE  ToldInv
<1>1. SetpciInv
  BY SetpciStarts DEF IsCommand
<1>2. /\ args = argv /\ pc = "options" /\ IsCommand(argv) /\ groups = <<>> /\ turn = 0
      /\ jobs = <<>> /\ set = [access |-> Alloc, demo |-> FALSE, raw |-> FALSE]
      /\ method = "none" /\ tree = FALSE /\ written = {}
  BY DEF SetpciInit
<1>3. Done = 0
  <2>1. Len(argv) \in Nat
    BY <1>2, LenProperties DEF IsCommand, IsSeq
  <2>2. QED
    BY <1>2, <2>1 DEF Done
<1>4. \A j : j \notin 1..0
  OBVIOUS
<1>5. LineInv
  <2>1. ~IsFilter(0)
    <3>1. 0 \notin DOMAIN argv
      BY <1>2, LenProperties DEF IsCommand, IsSeq
    <3>2. QED
      BY <3>1 DEF IsFilter
  <2>2. Openings(0) = {}
    BY <1>4 DEF Openings
  <2>3. Len(groups) = Cardinality(Openings(0))
    BY <1>2, <2>2, FS_EmptySet
  <2>4. GroupsAre(0)
    BY <1>2, <1>4, <2>1, <2>3 DEF GroupsAre
  <2>5. QED
    BY <1>2, <1>3, <1>4, <2>4 DEF LineInv, OptionsFirst
<1>6. ExecInv
  <2>1. DOMAIN groups = {}
    BY <1>2
  <2>2. QED
    BY <1>2, <2>1 DEF ExecInv, Executing
<1>7. MethodInv
  <2>1. Naming(0) = {}
    BY <1>4 DEF Naming
  <2>2. set.access.method = "auto" /\ DOMAIN set.access = {"params", "method"}
    BY <1>2 DEF Alloc
  <2>3. QED
    BY <1>2, <1>3, <2>1, <2>2 DEF MethodInv, ChosenIs
<1>8. QED
  BY <1>1, <1>5, <1>6, <1>7 DEF ToldInv

LEMMA ToldKeeps ==
  ASSUME ToldInv, [SetpciStep]_setpciAll
  PROVE  ToldInv'
<1>1. SetpciInv'
  BY SetpciKeeps DEF ToldInv
<1>2. CASE SetpciStep
  <2>1. ArgsInv /\ GroupsInv /\ DumpInv /\ LineInv /\ ExecInv /\ MethodInv
    BY DEF ToldInv, SetpciInv
  <2>2. LineInv' /\ ExecInv'
    BY <1>2, <2>1, OptionStep, BeginStep, ArgStep, ScanStep, ExecStep DEF SetpciStep
  <2>3. MethodInv'
    BY <1>2, <2>1, OptionMethod, InitMethod, OtherMethod DEF SetpciStep
  <2>4. QED
    BY <1>1, <2>2, <2>3 DEF ToldInv
<1>3. CASE UNCHANGED setpciAll
  <2>1. /\ pc' = pc /\ args' = args /\ argv' = argv /\ set' = set /\ method' = method
        /\ groups' = groups /\ turn' = turn /\ jobs' = jobs /\ written' = written
        /\ tree' = tree /\ machine' = machine /\ at' = at /\ UNCHANGED Selection
    BY <1>3 DEF setpciAll, setpciVars, Selection, dumpVars
  <2>2. Done' = Done
    BY <2>1 DEF Done
  <2>3. LineInv'
    <3>1. PICK k : k = Done
      OBVIOUS
    <3>2. GroupsAre(k) => GroupsAre(k)'
      BY <2>1, GroupsAreStay
    <3>3. OptionsFirst' <=> OptionsFirst
      BY <2>1, <2>2 DEF OptionsFirst
    <3>4. QED
      BY <2>1, <2>2, <3>1, <3>2, <3>3 DEF ToldInv, LineInv
  <2>4. ExecInv'
    <3>1. \A g : Sel(g)' = Sel(g)
      BY <2>1, SelStays
    <3>2. OnlySelected' <=> OnlySelected
      BY <2>1, <3>1 DEF OnlySelected
    <3>3. /\ \A g, o : ValuesOf(g, o)' = ValuesOf(g, o)
          /\ \A g, o, v, fn : WriteOf(g, o, v, fn)' = WriteOf(g, o, v, fn)
      BY <2>1 DEF ValuesOf, WriteOf
    <3>4. \A g, o, v, fn : Waits(g, o, v, fn)' <=> Waits(g, o, v, fn)
      BY <2>1 DEF Waits
    <3>5. AllDone' <=> AllDone
      BY <2>1, <3>1, <3>3, <3>4 DEF AllDone
    <3>6. QED
      BY <2>1, <3>2, <3>5 DEF ToldInv, ExecInv
  <2>5. MethodInv'
    <3>1. MethodAsAsked' <=> MethodAsAsked
      BY <2>1, AskedStays
    <3>2. PICK k : k = Done
      OBVIOUS
    <3>3. ChosenIs(k, set.access.method)' <=> ChosenIs(k, set.access.method)
      BY <2>1, ChosenStays
    <3>4. QED
      BY <2>1, <2>2, <3>1, <3>2, <3>3 DEF ToldInv, MethodInv
  <2>6. QED
    BY <1>1, <2>3, <2>4, <2>5 DEF ToldInv
<1>4. QED
  BY <1>2, <1>3

\* For any machines, dumps, devices and command lines, except that an empty
\* argument of -d has no components and that behind a device "*" there is no
\* class: setpci writes each value of each operation to exactly the visible
\* devices that the filters before it ask for, unless it dies or has -D, and uses
\* the method that the last of its options that names one says, or the first that
\* works, the ports only if the kernel's directories cannot be read.
THEOREM SetpciDoesAsTold ==
  ASSUME NEW machines, NEW files, NEW commands, IsIdentity,
         \A f \in files : IsFile(f), \A c \in commands : IsCommand(c)
  PROVE  SetpciSpec(machines, files, commands) => []DoneAsAsked
<1>1. SetpciInit(machines, files, commands) => ToldInv
  BY ToldStarts
<1>2. ToldInv /\ [SetpciStep]_setpciAll => ToldInv'
  BY ToldKeeps
<1>3. ToldInv => DoneAsAsked
  <2>1. SUFFICES ASSUME ToldInv PROVE WrittenWhereAsked /\ MethodAsAsked
    BY DEF DoneAsAsked
  <2>2. WrittenWhereAsked
    BY <2>1, WrittenAre DEF ToldInv, SetpciInv, MethodInv
  <2>3. MethodAsAsked
    BY <2>1 DEF ToldInv, MethodInv, MethodAsAsked
  <2>4. QED
    BY <2>2, <2>3
<1>4. QED
  BY <1>1, <1>2, <1>3, PTL DEF SetpciSpec, setpciAll

----------------------------------------------------------------------------
(***************************************************************************)
(* What the registers hold while setpci writes.                            *)
(***************************************************************************)
\* No element twice.
Once(s) == \A i, j \in 1..Len(s) : s[i] = s[j] => i = j

LEMMA PickedSteps ==
  ASSUME NEW list, IsSeq(list), NEW S
  PROVE  \E p : /\ Picked(list, S) = p[Len(list)] /\ p[0] = <<>>
                /\ \A k \in 0 .. Len(list) - 1 :
                     p[k + 1] = IF list[k + 1] \in S THEN Append(p[k], list[k + 1])
                                ELSE p[k]
<1> DEFINE n == Len(list)
           picked[k \in 0..Len(list)] ==
             IF k = 0 THEN <<>>
             ELSE IF list[k] \in S THEN Append(picked[k - 1], list[k])
             ELSE picked[k - 1]
<1>1. n \in Nat /\ DOMAIN list = 1..n
  BY LenProperties DEF IsSeq
<1>2. Picked(list, S) = picked[n]
  BY Zenon DEF Picked
<1>3. picked = [k \in 0..n |-> IF k = 0 THEN <<>>
                       ELSE IF list[k] \in S THEN Append(picked[k - 1], list[k])
                       ELSE picked[k - 1]]
  <2>1. \E f : f = [k \in 0..Len(list) |-> IF k = 0 THEN <<>>
                       ELSE IF list[k] \in S THEN Append(f[k - 1], list[k])
                       ELSE f[k - 1]]
    <3>1. \E f : IsPicked(f, list, S, n)
      BY <1>1, PickedExists
    <3>2. QED
      BY <3>1, Zenon DEF IsPicked
  <2>2. QED
    BY <2>1, Zenon
<1> HIDE DEF picked
<1>4. /\ picked[0] = <<>>
      /\ \A k \in 0 .. n - 1 :
           picked[k + 1] = IF list[k + 1] \in S THEN Append(picked[k], list[k + 1])
                           ELSE picked[k]
  <2>1. \A k \in 0..n : picked[k] = IF k = 0 THEN <<>>
                       ELSE IF list[k] \in S THEN Append(picked[k - 1], list[k])
                       ELSE picked[k - 1]
    BY <1>3
  <2>2. \A k \in 0 .. n - 1 : k + 1 \in 0..n /\ k + 1 # 0 /\ (k + 1) - 1 = k
    BY <1>1
  <2>3. 0 \in 0..n
    BY <1>1
  <2> HIDE DEF n
  <2>4. QED
    BY <2>1, <2>2, <2>3
<1>5. QED
  BY <1>2, <1>4

\* A list without an element twice is picked from.
LEMMA PickedOnce ==
  ASSUME NEW list, IsSeq(list), Once(list), NEW S
  PROVE  Once(Picked(list, S))
<1>1. PICK p : /\ Picked(list, S) = p[Len(list)] /\ p[0] = <<>>
               /\ \A k \in 0 .. Len(list) - 1 :
                    p[k + 1] = IF list[k + 1] \in S THEN Append(p[k], list[k + 1])
                               ELSE p[k]
  BY PickedSteps
<1>2. PICK n \in Nat : n = Len(list)
  BY LenProperties DEF IsSeq
<1> DEFINE early(s, k) == \A i \in 1..Len(s) : \E l \in 1..k : s[i] = list[l]
           K == {k \in Nat : k <= n => IsSeq(p[k]) /\ Once(p[k]) /\ early(p[k], k)}
<1>3. 0 \in K
  <2>1. IsSeq(<<>>) /\ Len(<<>>) = 0
    BY DEF IsSeq
  <2>2. \A i : i \notin 1..0
    OBVIOUS
  <2>3. Once(<<>>) /\ early(<<>>, 0)
    BY <2>1, <2>2 DEF Once
  <2> HIDE DEF early
  <2>4. QED
    BY <1>1, <2>1, <2>3
<1>4. ASSUME NEW k \in K PROVE k + 1 \in K
  <2>1. SUFFICES ASSUME k + 1 <= n
                 PROVE  IsSeq(p[k + 1]) /\ Once(p[k + 1]) /\ early(p[k + 1], k + 1)
    OBVIOUS
  <2>2. PICK s, x : s = p[k] /\ x = list[k + 1]
    OBVIOUS
  <2>3. /\ k \in 0 .. n - 1 /\ IsSeq(s) /\ Once(s) /\ early(s, k)
    BY <2>1, <2>2
  <2>4. p[k + 1] = IF x \in S THEN Append(s, x) ELSE s
    BY <1>1, <1>2, <2>2, <2>3
  <2>5. \A l \in 1..k : l \in 1 .. k + 1
    OBVIOUS
  <2>6. CASE p[k + 1] = s
    <3>1. early(s, k + 1)
      BY <2>3, <2>5
    <3> HIDE DEF early
    <3>2. QED
      BY <2>3, <2>6, <3>1
  <2>7. CASE p[k + 1] = Append(s, x)
    <3>1. PICK r : r = Append(s, x)
      OBVIOUS
    <3>2. AppendsOne(s, x)
      BY <2>3, AppendAdds
    <3>3. PICK m \in Nat : m = Len(s) /\ DOMAIN s = 1..m
      BY <2>3, LenProperties DEF IsSeq
    <3>4. /\ IsSeq(r) /\ Len(r) = m + 1 /\ r[m + 1] = x
          /\ \A i \in 1..m : r[i] = s[i]
      BY <3>1, <3>2, <3>3 DEF AppendsOne
    <3>5. \A i \in 1..m : s[i] # x
      <4>1. ASSUME NEW i \in 1..m, s[i] = x PROVE FALSE
        <5>1. PICK l \in 1..k : s[i] = list[l]
          BY <2>3, <3>3
        <5>2. l \in 1..n /\ k + 1 \in 1..n /\ l # k + 1
          BY <2>3, <5>1
        <5>3. QED
          BY <1>2, <2>2, <4>1, <5>1, <5>2 DEF Once
      <4>2. QED
        BY <4>1
    <3>6. \A i \in 1 .. m + 1 : i \in 1..m \/ i = m + 1
      OBVIOUS
    <3>7. Once(r)
      <4>1. ASSUME NEW i \in 1 .. m + 1, NEW j \in 1 .. m + 1, r[i] = r[j]
            PROVE  i = j
        <5>1. CASE i \in 1..m /\ j \in 1..m
          BY <2>3, <3>3, <3>4, <4>1, <5>1 DEF Once
        <5>2. CASE i = m + 1 \/ j = m + 1
          BY <3>4, <3>5, <3>6, <4>1, <5>2
        <5>3. QED
          BY <3>6, <5>1, <5>2
      <4>2. QED
        BY <3>4, <4>1 DEF Once
    <3>8. early(r, k + 1)
      <4>1. k + 1 \in 1 .. k + 1
        BY <2>3
      <4>2. ASSUME NEW i \in 1 .. m + 1 PROVE \E l \in 1 .. k + 1 : r[i] = list[l]
        BY <2>2, <2>3, <2>5, <3>3, <3>4, <3>6, <4>1
      <4>3. QED
        BY <3>4, <4>2
    <3> HIDE DEF early
    <3>9. QED
      BY <2>7, <3>1, <3>4, <3>7, <3>8
  <2>8. QED
    BY <2>4, <2>6, <2>7
<1>5. n \in K
  <2>1. K \in SUBSET Nat
    OBVIOUS
  <2> HIDE DEF K
  <2>2. \A k \in Nat : k \in K
    BY <1>3, <1>4, <2>1, NatSetInduction
  <2>3. QED
    BY <2>2
<1>6. QED
  BY <1>1, <1>2, <1>5

\* A place a device can have, whether it exists or not.
Located(d) == d \in [domain : Nat, bus : 0..255, slot : 0..31, func : 0..7]

\* The lists of capabilities.
HasLists ==
  \A fn \in Functions :
    /\ IsSeq(Capabilities[fn])
    /\ \A c \in Range(Capabilities[fn]) : c.addr \in Nat

LEMMA RankRises ==
  ASSUME NEW n \in Nat, NEW S \in SUBSET (1..n), NEW i \in S, NEW j \in S,
         Cardinality({k \in S : k < i}) = Cardinality({k \in S : k < j})
  PROVE  i = j
<1>1. IsFiniteSet(S)
  <2>1. IsFiniteSet(1..n)
    BY FS_Interval
  <2>2. QED
    BY <2>1, FS_Subset
<1>2. ASSUME NEW p \in S, NEW q \in S, p < q,
             Cardinality({k \in S : k < p}) = Cardinality({k \in S : k < q})
      PROVE  FALSE
  <2>1. IsFiniteSet({k \in S : k < q})
    BY <1>1, FS_Subset
  <2>2. {k \in S : k < p} \in SUBSET {k \in S : k < q}
    <3>1. \A k \in S : k \in Int
      OBVIOUS
    <3>2. \A k \in S : k < p => k < q
      BY <1>2, <3>1
    <3>3. QED
      BY <3>2
  <2>3. {k \in S : k < p} = {k \in S : k < q}
    BY <1>2, <2>1, <2>2, FS_Subset
  <2>4. p \in {k \in S : k < q} /\ p \notin {k \in S : k < p}
    BY <1>2
  <2>5. QED
    BY <2>3, <2>4
<1>3. i \in Int /\ j \in Int
  OBVIOUS
<1>4. ~(i < j) /\ ~(j < i)
  BY <1>2
<1>5. QED
  BY <1>3, <1>4

\* The base of an operation is one address, the same for each object that
\* stands for a device.
LEMMA OneBase ==
  ASSUME HasLists, NEW h, NEW op, NEW p \in Base(h, op)
  PROVE  p \in Nat /\ Base(h, op) = {p} /\ Base(Device(h.fn, 0), op) = {p}
<1>1. Base(Device(h.fn, 0), op) = Base(h, op)
  <2>1. Device(h.fn, 0).fn = h.fn
    BY DEF Device
  <2>2. CapabilitiesOf(Device(h.fn, 0)) = CapabilitiesOf(h)
    BY <2>1 DEF CapabilitiesOf
  <2> DEFINE cap(l) == LET same == {i \in DOMAIN l : l[i].type = op.type /\ l[i].id = op.id}
                       IN {l[i].addr : i \in {j \in same :
                             Cardinality({k \in same : k < j}) = op.number}}
  <2>3. \A o : CapAddr(o, op) = cap(CapabilitiesOf(o))
    BY DEF CapAddr
  <2> HIDE DEF cap
  <2>4. QED
    BY <2>2, <2>3 DEF Base
<1>2. CASE op.type = 0
  BY <1>1, <1>2 DEF Base
<1>3. CASE op.type # 0
  <2> DEFINE caps == CapabilitiesOf(h)
             same == {i \in DOMAIN caps : caps[i].type = op.type /\ caps[i].id = op.id}
             rank(i) == Cardinality({k \in same : k < i})
  <2>1. Base(h, op) = {caps[i].addr : i \in {j \in same : rank(j) = op.number}}
    BY <1>3 DEF Base, CapAddr
  <2>2. PICK n \in Nat : DOMAIN caps = 1..n /\ \A i \in 1..n : caps[i].addr \in Nat
    <3>1. CASE caps = <<>>
      <4>1. DOMAIN caps = 1..0 /\ \A i : i \notin 1..0
        BY <3>1
      <4>2. QED
        BY <4>1
    <3>2. CASE caps # <<>>
      <4> DEFINE reached == {c \in Range(Capabilities[h.fn]) :
                               method \in Ports => c.type = NORMAL}
                 l == Capabilities[h.fn]
      <4>1. caps = Picked(l, reached) /\ h.fn \in Functions
        BY <3>2 DEF CapabilitiesOf, Visible, Answers
      <4>2. IsSeq(l) /\ \A c \in Range(l) : c.addr \in Nat
        BY <4>1 DEF HasLists
      <4> HIDE DEF reached, l, caps
      <4>3. IsSeq(caps) /\ Range(caps) \subseteq Range(l)
        BY <4>1, <4>2, PickedIs
      <4>4. PICK n \in Nat : DOMAIN caps = 1..n
        BY <4>3, LenProperties DEF IsSeq
      <4>5. \A i \in 1..n : caps[i] \in Range(caps)
        BY <4>4 DEF Range
      <4>6. QED
        BY <4>2, <4>3, <4>4, <4>5
    <3>3. QED
      BY <3>1, <3>2
  <2> HIDE DEF caps
  <2>3. same \in SUBSET (1..n)
    BY <2>2
  <2> HIDE DEF same
  <2>4. \A i, j \in same : rank(i) = rank(j) => i = j
    BY <2>3, RankRises
  <2> HIDE DEF rank
  <2>5. PICK i \in same : rank(i) = op.number /\ p = caps[i].addr
    BY <2>1
  <2>6. {j \in same : rank(j) = op.number} = {i}
    BY <2>4, <2>5
  <2>7. Base(h, op) = {p}
    BY <2>1, <2>5, <2>6
  <2>8. QED
    BY <1>1, <2>2, <2>3, <2>5, <2>7
<1>4. QED
  BY <1>2, <1>3

\* Where the registers of operations are does not change.
LEMMA BaseStays ==
  ASSUME UNCHANGED <<method, tree, machine>>
  PROVE  \A h, op : Base(h, op)' = Base(h, op)
<1>1. \A fn : Visible(fn)' = Visible(fn)
  BY DEF Visible, Answers
<1>2. \A h : CapabilitiesOf(h)' = CapabilitiesOf(h)
  BY <1>1 DEF CapabilitiesOf
<1>3. \A h, op : CapAddr(h, op)' = CapAddr(h, op)
  BY <1>2 DEF CapAddr
<1>4. QED
  BY <1>3 DEF Base

----------------------------------------------------------------------------
\* An access to an aligned register does not leave what it belongs to.
LEMMA AlignedFits ==
  ASSUME NEW a \in Nat, NEW len \in Direct, a % len = 0
  PROVE  /\ (a % 4) + len <= 4
         /\ a < 256 => a + len <= 256
         /\ a < 4096 => a + len <= 4096
<1>1. len = 1 \/ (len = 2 /\ a % 2 = 0) \/ (len = 4 /\ a % 4 = 0)
  BY DEF Direct
<1>2. QED
  BY <1>1

\* What an access to one register may reach.
LEMMA UnitRefuses ==
  ASSUME NEW d, method \in RawMethods, NEW a \in Nat, NEW len \in Direct, a % len = 0
  PROVE  /\ Refuses(method, d, a, len) => ~Visible(d) \/ a >= Limit
         /\ ~Refuses(method, d, a, len) /\ Answers(method, d) =>
              Visible(d) /\ a + len <= Limit
<1>1. /\ a < 256 => a + len <= 256
      /\ a < 4096 => a + len <= 4096
  BY AlignedFits
<1>2. len \in Nat
  BY DEF Direct
<1>3. CASE method \in Ports
  <2>1. Refuses(method, d, a, len) <=> PortRefuses(method, d, a)
    BY <1>3 DEF Refuses
  <2>2. PortRefuses(method, d, a) <=> PortRefuses(method, d, 0) \/ a >= 256
    BY DEF PortRefuses
  <2>3. Limit = 256
    BY <1>3 DEF Limit
  <2>4. Visible(d) <=> Answers(method, d) /\ ~PortRefuses(method, d, 0)
    BY <1>3 DEF Visible
  <2>5. QED
    BY <1>1, <1>2, <2>1, <2>2, <2>3, <2>4
<1>4. CASE method \notin Ports
  <2>1. Refuses(method, d, a, len) <=> ~Answers(method, d) \/ a + len > 4096
    BY <1>4 DEF Refuses
  <2>2. Limit = 4096
    BY <1>4 DEF Limit
  <2>3. Visible(d) <=> Answers(method, d)
    BY <1>4 DEF Visible
  <2>4. QED
    BY <1>1, <1>2, <2>1, <2>2, <2>3
<1>5. QED
  BY <1>3, <1>4

\* What an access to one register writes.
UnitOf(r, d, a, len, c) ==
  \A fn \in Functions : \A x \in Positions :
    r[fn][x] = IF fn = d /\ x \in a .. a + len - 1 /\ Visible(fn) /\ x < Limit
                 THEN c[x - a + 1] ELSE space[fn][x]

IsSpace(s) == \E r : s = [fn \in Functions |-> [x \in Positions |-> r[fn][x]]]

LEMMA UnitIs ==
  ASSUME NEW d, Located(d), method \in RawMethods, NEW a \in Nat, NEW len \in Direct,
         a % len = 0, NEW c \in [1..len -> Byte]
  PROVE  /\ UnitOf(Write(method, d, a, c).space, d, a, len, c)
         /\ IsSpace(Write(method, d, a, c).space)
<1> DEFINE s == InPieces(method, a, Len(c))
           g == IF Refuses(method, d, a, Len(c)) THEN 0 ELSE Granted(method, d, s)
           ends == [k \in 1..g |-> Reached(method, d, s[k][1], s[k][2])]
           reaching(fn, x) == {k \in 1..g : Out(method, ends[k], fn, x)}
           byte(k, x) == c[s[k][1] - a + x - ends[k].from + 1]
           reg(fn, x) == IF reaching(fn, x) = {} THEN space[fn][x]
                         ELSE byte(Max(reaching(fn, x)), x)
           t == [fn \in Functions |-> [x \in Positions |-> reg(fn, x)]]
           v == Write(method, d, a, c)
           w == Write(method, d, a, c).space
           off == Refuses(method, d, a, len)
<1>1. w = t
  <2>1. PICK u : u = t
    OBVIOUS
  <2>2. v = [ok |-> g = Len(s),
             space |-> [fn \in Functions |-> [x \in Positions |-> reg(fn, x)]]]
    BY Zenon DEF Write
  <2>3. v = [ok |-> g = Len(s), space |-> u]
    BY <2>1, <2>2, Zenon
  <2>4. w = v.space
    OBVIOUS
  <2> HIDE DEF v, w, t
  <2>5. v.space = u
    BY <2>3
  <2>6. QED
    BY <2>1, <2>4, <2>5
<1>2. len \in Nat /\ Len(c) = len
  BY DEF Direct
<1>3. s = <<<<a, len>>>> /\ s[1][1] = a /\ s[1][2] = len /\ Len(s) = 1
      /\ s \in Seq(Nat \X Nat)
  <2>1. s = <<<<a, len>>>>
    BY <1>2 DEF InPieces
  <2> HIDE DEF s
  <2>2. QED
    BY <1>2, <2>1
<1>4. g = IF off THEN 0 ELSE 1
  <2> HIDE DEF s
  <2>1. CASE off
    BY <1>2, <2>1
  <2>2. CASE ~off
    <3>1. \A k \in 1..Len(s) : ~Refuses(method, d, s[k][1], s[k][2])
      BY <1>3, <2>2
    <3>2. Granted(method, d, s) \in 0..1 /\ ~(Granted(method, d, s) < 1)
      BY <1>3, <3>1, GrantedIs
    <3>3. g = Granted(method, d, s)
      BY <1>2, <2>2
    <3>4. QED
      BY <2>2, <3>2, <3>3
  <2>3. QED
    BY <2>1, <2>2
<1> HIDE DEF g, off
<1>5. \A fn \in Functions : \A x \in Positions : t[fn][x] = reg(fn, x)
  <2> HIDE DEF reg
  <2>1. QED
    OBVIOUS
<1>6. CASE off
  <2>1. \A k : k \notin 1..g
    BY <1>4, <1>6
  <2>2. \A fn, x : reaching(fn, x) = {}
    BY <2>1
  <2>3. \A fn, x : reg(fn, x) = space[fn][x]
    BY <2>2
  <2>4. ~Visible(d) \/ a >= Limit
    BY <1>6, UnitRefuses DEF off
  <2>5. \A x \in Positions : ~(x \in a .. a + len - 1 /\ Visible(d) /\ x < Limit)
    <3>1. Limit \in Nat
      BY DEF Limit
    <3>2. QED
      BY <1>2, <2>4, <3>1
  <2> HIDE DEF t, reg, w
  <2>6. UnitOf(w, d, a, len, c)
    BY <1>1, <1>5, <2>3, <2>5 DEF UnitOf
  <2>7. QED
    BY <2>6, <1>1, <1>5 DEF t, w, IsSpace
<1>7. CASE ~off
  <2>1. Reached(method, d, a, len) = [fn |-> d, from |-> a, count |-> len]
    <3>1. method \in Ports => (a % 4) + len <= 4 /\ ~PortRefuses(method, d, a)
      BY <1>7, AlignedFits DEF off, Refuses
    <3>2. QED
      BY <1>2, <3>1, EndsRight DEF Located
  <2>2. g = 1 /\ 1..g = {1}
    BY <1>4, <1>7
  <2>3. ends[1].fn = d /\ ends[1].from = a /\ ends[1].count = len
    <3>1. ends[1] = Reached(method, d, s[1][1], s[1][2])
      BY <2>2
    <3> HIDE DEF ends, s
    <3>2. ends[1] = [fn |-> d, from |-> a, count |-> len]
      BY <1>3, <2>1, <3>1
    <3>3. QED
      BY <3>2
  <2> HIDE DEF ends, s
  <2>4. ASSUME NEW fn \in Functions, NEW x \in Positions
        PROVE  reg(fn, x) = IF fn = d /\ x \in a .. a + len - 1 /\ Visible(fn) /\ x < Limit
                            THEN c[x - a + 1] ELSE space[fn][x]
    <3> DEFINE hit == fn = d /\ x \in a .. a + len - 1 /\ Answers(method, fn)
    <3>1. reaching(fn, x) = IF hit THEN {1} ELSE {}
      <4>1. Out(method, ends[1], fn, x) <=> hit
        BY <2>3 DEF Out
      <4> HIDE DEF hit
      <4>2. QED
        BY <2>2, <4>1
    <3>2. hit <=> fn = d /\ x \in a .. a + len - 1 /\ Visible(fn) /\ x < Limit
      <4>1. Visible(fn) => Answers(method, fn)
        BY DEF Visible
      <4>2. fn = d /\ Answers(method, fn) => Visible(d) /\ a + len <= Limit
        BY <1>7, UnitRefuses DEF off
      <4>3. Limit \in Nat
        BY DEF Limit
      <4>4. a + len <= Limit /\ x \in a .. a + len - 1 => x < Limit
        BY <1>2, <4>3
      <4>5. QED
        BY <4>1, <4>2, <4>4
    <3>3. Max({1}) = 1
      <4>1. {1} \in SUBSET Int /\ \A y \in {1} : y <= 1
        OBVIOUS
      <4>2. QED
        BY <4>1, MaxIs
    <3>4. hit => byte(1, x) = c[x - a + 1]
      <4>1. SUFFICES ASSUME hit PROVE byte(1, x) = c[x - a + 1]
        OBVIOUS
      <4>2. byte(1, x) = c[a - a + x - a + 1]
        BY <1>3, <2>3
      <4>3. a - a + x - a + 1 = x - a + 1
        BY <4>1
      <4>4. QED
        BY <4>2, <4>3
    <3> HIDE DEF hit, byte
    <3>5. QED
      BY <3>1, <3>2, <3>3, <3>4
  <2> HIDE DEF t, reg, w
  <2>5. UnitOf(w, d, a, len, c)
    BY <1>1, <1>5, <2>4 DEF UnitOf
  <2>6. QED
    BY <2>5, <1>1, <1>5 DEF t, w, IsSpace
<1>8. QED
  BY <1>6, <1>7

\* What an access to one register reads.
LEMMA UnitHolds ==
  ASSUME NEW h, h.fn \in Functions, method \in RawMethods, Visible(h.fn), NEW a \in Nat,
         NEW len \in Direct, a % len = 0, a < Limit
  PROVE  ReadRegister(h, a, len) = [i \in 1..len |-> Holds(h.fn, a + i - 1)]
<1> DEFINE d == h.fn
<1>1. Answers(method, d) /\ method # "dump" /\ Size(d) = Limit
  BY DEF Visible, Size, Limit, RawMethods, Ports, KernelFiles
<1>2. FitsPort(method, a, len) /\ len \in Nat
  BY AlignedFits DEF FitsPort, Direct
<1>3. Read(method, d, a, len).ok
  <2>1. Limit \in Nat
    BY DEF Limit
  <2>2. ~(a >= Size(d))
    BY <1>1, <2>1
  <2>3. QED
    BY <1>1, <2>2, UnitRefused
<1>4. Read(method, d, a, len).bytes = [i \in 1..len |-> Holds(d, a + i - 1)]
  BY <1>1, <1>2, <1>3, ReadIs
<1>5. ReadRegister(h, a, len) = Read(method, d, a, len).bytes
  BY <1>1, <1>3, Zenon DEF ReadRegister
<1>6. QED
  BY <1>4, <1>5

----------------------------------------------------------------------------
\* The bits of a number that is put together from bytes.
LEMMA BitOf ==
  ASSUME NEW len \in Nat, NEW c \in [1..len -> Byte], NEW i \in 1..len, NEW b \in 0..7
  PROVE  b + 8 * (i - 1) \in Value(c) <=> b \in c[i]
<1>1. b \in c[i] => b + 8 * (i - 1) \in Value(c)
  BY DEF Value
<1>2. ASSUME b + 8 * (i - 1) \in Value(c) PROVE b \in c[i]
  <2>1. PICK j \in 1..len : b + 8 * (i - 1) \in {x + 8 * (j - 1) : x \in c[j]}
    BY <1>2 DEF Value
  <2>2. PICK x \in c[j] : b + 8 * (i - 1) = x + 8 * (j - 1)
    BY <2>1
  <2>3. x \in 0..7
    BY <2>2 DEF Byte
  <2>4. i = j /\ b = x
    BY <2>2, <2>3
  <2>5. QED
    BY <2>2, <2>4
<1>3. QED
  BY <1>1, <1>2

\* A bit of a register is that of the value if the mask covers it, or what it is.
LEMMA BitWritten ==
  ASSUME NEW v, NEW len \in Nat, NEW old \in [1..len -> Byte], NEW z,
         Low(len) \subseteq v.mask \/ v.value \subseteq v.mask,
         z = IF Low(len) \subseteq v.mask THEN v.value ELSE Merged(v, Value(old)),
         NEW i \in 1..len, NEW b \in 0..7
  PROVE  b \in Bytes(z, len)[i] <=> IF b + 8 * (i - 1) \in v.mask
                                    THEN b + 8 * (i - 1) \in v.value ELSE b \in old[i]
<1> DEFINE n == b + 8 * (i - 1)
<1>1. b \in Bytes(z, len)[i] <=> n \in z
  BY DEF Bytes
<1>2. n \in Low(len)
  BY DEF Low
<1>3. n \in Value(old) <=> b \in old[i]
  BY BitOf
<1> HIDE DEF n
<1>4. QED
  BY <1>1, <1>2, <1>3 DEF Merged, n

LEMMA BytesAre ==
  ASSUME NEW z, NEW len \in Nat
  PROVE  Bytes(z, len) \in [1..len -> Byte]
BY DEF Bytes, Byte

\* What the parsers make of arguments, also in front of an error.
FilterOK(f) ==
  /\ DOMAIN f = Locations \cup Identities
  /\ \A x \in Locations : f[x] \in {ANY} \cup 0..MaxOf[x]
  /\ \A x \in Identities : f[x] \in Int
OpOK(op) ==
  /\ op.addr \in Nat /\ op.width \in Direct
  /\ \A i \in DOMAIN op.values :
       Low(op.width) \subseteq op.values[i].mask \/ op.values[i].value \subseteq op.values[i].mask
GroupsOK ==
  \A g \in DOMAIN groups :
    FilterOK(groups[g].filter) /\ \A o \in DOMAIN groups[g].ops : OpOK(groups[g].ops[o])

\* An operation has a width, and a number in front of its offset is one.
HasNumbers(a) ==
  /\ a.width \in Direct \cup {Empty, Bad}
  /\ a.base.kind = "number" => a.base.value \in Nat

LEMMA NoFilterOK == FilterOK(NoFilter)
BY DEF FilterOK, NoFilter, ANY

LEMMA SlotGood ==
  ASSUME NEW f, FilterOK(f), NEW s
  PROVE  FilterOK(ParseSlot(f, s).filter)
<1> DEFINE domain == InRange(s.domain, MaxOf.domain)
           bus == domain /\ InRange(s.bus, MaxOf.bus)
           slot == bus /\ InRange(s.slot, MaxOf.slot)
           func == slot /\ InRange(s.func, MaxOf.func)
           new == [domain |-> Field(domain, s.domain, f.domain),
                   bus |-> Field(bus, s.bus, f.bus),
                   slot |-> Field(slot, s.slot, f.slot),
                   func |-> Field(func, s.func, f.func)]
           g == ParseSlot(f, s).filter
<1>1. g = Updated(f, new)
  BY DEF ParseSlot
<1>2. \A x \in Locations : f[x] \in {ANY} \cup 0..MaxOf[x]
  BY DEF FilterOK
<1>3. /\ new.domain \in {ANY} \cup 0..MaxOf.domain
      /\ new.bus \in {ANY} \cup 0..MaxOf.bus
      /\ new.slot \in {ANY} \cup 0..MaxOf.slot
      /\ new.func \in {ANY} \cup 0..MaxOf.func
  <2>1. /\ f.domain \in {ANY} \cup 0..MaxOf.domain
        /\ f.bus \in {ANY} \cup 0..MaxOf.bus
        /\ f.slot \in {ANY} \cup 0..MaxOf.slot
        /\ f.func \in {ANY} \cup 0..MaxOf.func
    BY <1>2 DEF Locations
  <2>2. /\ bus => InRange(s.bus, MaxOf.bus)
        /\ slot => InRange(s.slot, MaxOf.slot)
        /\ func => InRange(s.func, MaxOf.func)
    OBVIOUS
  <2>3. \A max : 0..max \subseteq {ANY} \cup 0..max
    OBVIOUS
  <2> HIDE DEF bus, slot, func
  <2>4. /\ Field(domain, s.domain, f.domain) \in {ANY} \cup 0..MaxOf.domain
        /\ Field(bus, s.bus, f.bus) \in {ANY} \cup 0..MaxOf.bus
        /\ Field(slot, s.slot, f.slot) \in {ANY} \cup 0..MaxOf.slot
        /\ Field(func, s.func, f.func) \in {ANY} \cup 0..MaxOf.func
    BY <2>1, <2>2 DEF Field, InRange
  <2>5. QED
    BY <2>4
<1>4. DOMAIN new = Locations /\ \A x \in Locations : new[x] \in {ANY} \cup 0..MaxOf[x]
  <2>1. DOMAIN new = Locations
    BY DEF Locations
  <2> HIDE DEF new
  <2>2. QED
    BY <1>3, <2>1 DEF Locations
<1> HIDE DEF new, g
<1>5. Locations \cap Identities = {}
  BY DEF Locations, Identities
<1>6. DOMAIN f = Locations \cup Identities /\ \A x \in Identities : f[x] \in Int
  BY DEF FilterOK
<1>7. /\ DOMAIN g = DOMAIN f
      /\ \A x \in DOMAIN f : g[x] = IF x \in DOMAIN new THEN new[x] ELSE f[x]
  BY <1>1 DEF Updated
<1>8. FilterOK(g)
  BY <1>4, <1>5, <1>6, <1>7 DEF FilterOK
<1>9. QED
  BY <1>8 DEF g

LEMMA IdGood ==
  ASSUME NEW f, FilterOK(f), NEW s
  PROVE  FilterOK(ParseId(f, s).filter)
<1> DEFINE vendor == s.text = "ids" /\ InRange(s.vendor, MaxId)
           device == vendor /\ InRange(s.device, MaxId)
           class == device /\ (ClassUsed(s) => s.class \in 0..MaxId)
           uses == class /\ ClassUsed(s)
           new == [vendor |-> Field(vendor, s.vendor, f.vendor),
                   device |-> Field(device, s.device, f.device),
                   super |-> Field(uses, s.class \div 256, f.super),
                   sub |-> Field(uses, s.class % 256, f.sub)]
           g == ParseId(f, s).filter
<1>1. g = Updated(f, new)
  BY DEF ParseId
<1>2. \A x \in Identities : f[x] \in Int
  BY DEF FilterOK
<1>3. new.vendor \in Int /\ new.device \in Int /\ new.super \in Int /\ new.sub \in Int
  <2>1. f.vendor \in Int /\ f.device \in Int /\ f.super \in Int /\ f.sub \in Int
    BY <1>2 DEF Identities
  <2>2. /\ vendor => InRange(s.vendor, MaxId)
        /\ device => InRange(s.device, MaxId)
        /\ uses => s.class \in 0..MaxId
    OBVIOUS
  <2>3. uses => s.class \div 256 \in Int /\ s.class % 256 \in Int
    <3>1. ASSUME NEW c \in 0..MaxId PROVE c \div 256 \in Int /\ c % 256 \in Int
      BY DEF MaxId
    <3>2. QED
      BY <2>2, <3>1
  <2>4. 0..MaxId \subseteq Int
    BY DEF MaxId
  <2> HIDE DEF vendor, device, uses
  <2>5. /\ Field(vendor, s.vendor, f.vendor) \in Int
        /\ Field(device, s.device, f.device) \in Int
        /\ Field(uses, s.class \div 256, f.super) \in Int
        /\ Field(uses, s.class % 256, f.sub) \in Int
    BY <2>1, <2>2, <2>3, <2>4 DEF Field, InRange
  <2>6. QED
    BY <2>5
<1>4. DOMAIN new = Identities /\ \A x \in Identities : new[x] \in Int
  <2>1. DOMAIN new = Identities
    BY DEF Identities
  <2> HIDE DEF new
  <2>2. QED
    BY <1>3, <2>1 DEF Identities
<1> HIDE DEF new, g
<1>5. Locations \cap Identities = {}
  BY DEF Locations, Identities
<1>6. DOMAIN f = Locations \cup Identities
      /\ \A x \in Locations : f[x] \in {ANY} \cup 0..MaxOf[x]
  BY DEF FilterOK
<1>7. /\ DOMAIN g = DOMAIN f
      /\ \A x \in DOMAIN f : g[x] = IF x \in DOMAIN new THEN new[x] ELSE f[x]
  BY <1>1 DEF Updated
<1>8. FilterOK(g)
  BY <1>4, <1>5, <1>6, <1>7 DEF FilterOK
<1>9. QED
  BY <1>8 DEF g

\* What an operation is about.
LEMMA RegisterCases ==
  ASSUME NEW base
  PROVE  \/ base.kind = "number" /\ parse_register(base) = Plain(base.value)
         \/ /\ base.value \in DOMAIN pci_reg_names
            /\ parse_register(base) = pci_reg_names[base.value]
         \/ parse_register(base) = [Plain(0) EXCEPT !.type = NORMAL, !.id = base.value]
         \/ parse_register(base) = [Plain(0) EXCEPT !.type = EXTENDED, !.id = base.value]
         \/ parse_register(base) = Unknown
<1>1. ASSUME base.kind = "number"
      PROVE  parse_register(base) = Plain(base.value)
  BY <1>1, Zenon DEF parse_register
<1>2. ASSUME base.kind = "name", base.value \in DOMAIN pci_reg_names
      PROVE  parse_register(base) = pci_reg_names[base.value]
  BY <1>2, Zenon DEF parse_register
<1>3. ASSUME base.kind = "CAP", base.value \in CapIds
      PROVE  parse_register(base) = [Plain(0) EXCEPT !.type = NORMAL, !.id = base.value]
  BY <1>3, Zenon DEF parse_register
<1>4. ASSUME base.kind = "ECAP", base.value \in ExtendedIds
      PROVE  parse_register(base) = [Plain(0) EXCEPT !.type = EXTENDED, !.id = base.value]
  BY <1>4, Zenon DEF parse_register
<1>5. ASSUME base.kind # "number",
             ~(base.kind = "name" /\ base.value \in DOMAIN pci_reg_names),
             ~(base.kind = "CAP" /\ base.value \in CapIds),
             ~(base.kind = "ECAP" /\ base.value \in ExtendedIds)
      PROVE  parse_register(base) = Unknown
  BY <1>5, Zenon DEF parse_register
<1>6. QED
  BY <1>1, <1>2, <1>3, <1>4, <1>5, Zenon

LEMMA RegisterIs ==
  ASSUME NEW base, base.kind = "number" => base.value \in Nat,
         parse_register(base) # Unknown
  PROVE  parse_register(base).addr \in Nat /\ parse_register(base).width \in 0..2
<1>1. PICK r : r = parse_register(base)
  OBVIOUS
<1>2. \A n : Plain(n).addr = n /\ Plain(n).width = 0
  BY DEF Plain
<1>3. \/ base.kind = "number" /\ r = Plain(base.value)
      \/ base.value \in DOMAIN pci_reg_names /\ r = pci_reg_names[base.value]
      \/ r = [Plain(0) EXCEPT !.type = NORMAL, !.id = base.value]
      \/ r = [Plain(0) EXCEPT !.type = EXTENDED, !.id = base.value]
  BY <1>1, RegisterCases, Zenon
<1>4. CASE base.kind = "number" /\ r = Plain(base.value)
  BY <1>1, <1>2, <1>4
<1>5. CASE base.value \in DOMAIN pci_reg_names /\ r = pci_reg_names[base.value]
  <2>1. \A x \in DOMAIN pci_reg_names :
          pci_reg_names[x].addr \in Nat /\ pci_reg_names[x].width \in 0..2
    BY DEF pci_reg_names
  <2>2. QED
    BY <1>1, <1>5, <2>1
<1>6. ASSUME NEW type, NEW id, r = [Plain(0) EXCEPT !.type = type, !.id = id]
      PROVE  r.addr \in Nat /\ r.width \in 0..2
  <2>1. r = [type |-> type, id |-> id, addr |-> 0, width |-> 0]
    BY <1>6 DEF Plain
  <2>2. QED
    BY <2>1
<1>7. QED
  BY <1>1, <1>3, <1>4, <1>5, <1>6

LEMMA OffsetIs ==
  ASSUME NEW x, x \in 0..4095
  PROVE  x \in Nat
OBVIOUS

LEMMA OpGood ==
  ASSUME NEW a, IsSeq(a.values), HasNumbers(a), parse_op(a).ok
  PROVE  OpOK(parse_op(a).op)
<1> DEFINE n == Len(a.values)
           f == [i \in 1..n |-> Masked(a.values[i])]
           register == parse_register(a.base)
           width == IF a.width = Empty THEN register.width ELSE a.width
           addr == register.addr + (IF a.offset = Empty THEN 0 ELSE a.offset)
           good == /\ a.width # Bad /\ a.number # Bad
                   /\ register # Unknown /\ width # 0
                   /\ a.offset \in 0..4095 \cup {Empty}
                   /\ Fits(addr, width, n)
                   /\ \A i \in 1..n : GoodValue(a.values[i], width)
           made == [type |-> register.type, id |-> register.id, addr |-> addr,
                    width |-> width,
                    number |-> IF a.number = Empty THEN 0 ELSE a.number,
                    values |-> f]
<1>1. parse_op(a) = IF ~good THEN [ok |-> FALSE] ELSE [ok |-> TRUE, op |-> made]
  BY Zenon DEF parse_op
<1>2. made.addr = addr /\ made.width = width /\ made.values = f
  OBVIOUS
<1>3. good /\ parse_op(a).op = made
  <2> HIDE DEF good, made
  <2>1. QED
    BY <1>1
<1>4. /\ a.width # Bad /\ register # Unknown /\ width # 0
      /\ a.offset \in 0..4095 \cup {Empty}
  BY <1>3
<1> HIDE DEF good, made
<1>5. register.addr \in Nat /\ register.width \in 0..2
  BY <1>4, RegisterIs DEF HasNumbers
<1> HIDE DEF register
<1>6. width \in Direct
  BY <1>4, <1>5 DEF HasNumbers, Direct, Empty, Bad
<1>7. addr \in Nat
  <2>1. CASE a.offset = Empty
    BY <1>5, <2>1
  <2>2. CASE a.offset # Empty
    <3>1. a.offset \in 0..4095 \cup {Empty}
      BY <1>4
    <3>2. a.offset \in 0..4095
      BY ONLY <2>2, <3>1
    <3>3. \A r, o \in Nat : r + o \in Nat
      BY ONLY TRUE
    <3>4. addr = register.addr + a.offset
      BY <2>2
    <3> HIDE DEF addr
    <3>5. a.offset \in Nat
      BY ONLY <3>2, OffsetIs
    <3>6. register.addr + a.offset \in Nat
      BY ONLY <1>5, <3>3, <3>5, Zenon
    <3>7. QED
      BY <3>4, <3>6
  <2>3. QED
    BY <2>1, <2>2
<1>8. \A i \in 1..n : Low(width) \subseteq f[i].mask \/ f[i].value \subseteq f[i].mask
  <2>1. Low(width) \subseteq Bits
    BY <1>6 DEF Low, Bits, Direct
  <2>2. \A v : Masked(v).mask = Bits \/ Masked(v).value \subseteq Masked(v).mask
    BY DEF Masked
  <2>3. \A i \in 1..n : f[i] = Masked(a.values[i])
    OBVIOUS
  <2> HIDE DEF f
  <2>4. QED
    BY <2>1, <2>2, <2>3
<1>9. DOMAIN f = 1..n
  OBVIOUS
<1> HIDE DEF f, addr, width
<1>10. QED
  BY <1>2, <1>3, <1>6, <1>7, <1>8, <1>9 DEF OpOK

----------------------------------------------------------------------------
\* An argument.
LEMMA ArgGood ==
  ASSUME GroupsInv, GroupsOK, ParseArg, args[1].kind = "op" =>
           IsSeq(args[1].values) /\ HasNumbers(args[1])
  PROVE  GroupsOK'
<1> DEFINE a == args[1]
           n == Len(groups)
<1>1. /\ IsSeq(groups) /\ n \in Nat /\ DOMAIN groups = 1..n
      /\ groups # <<>> => n \in DOMAIN groups
  BY GroupsLength
<1>2. \/ a.kind \in {"slot", "id"} /\ ParseFilter(a)
      \/ a.kind = "op" /\ ParseOp(a)
      \/ groups' = groups
  BY DEF ParseArg, a
<1> HIDE DEF a, n
<1>3. CASE a.kind \in {"slot", "id"} /\ ParseFilter(a)
  <2> DEFINE opens == groups = <<>> \/ groups[n].ops # <<>>
             old == IF opens THEN NoFilter ELSE groups[n].filter
             new == IF a.kind = "slot" THEN ParseSlot(old, a) ELSE ParseId(old, a)
  <2>1. groups' = IF opens THEN Append(groups, NewGroup(new.filter))
                  ELSE [groups EXCEPT ![n].filter = new.filter]
    BY <1>3, Zenon DEF ParseFilter, n
  <2>2. FilterOK(old)
    <3>1. ~opens => n \in DOMAIN groups
      BY <1>1
    <3>2. QED
      BY <3>1, NoFilterOK DEF GroupsOK
  <2> HIDE DEF old
  <2>3. FilterOK(new.filter)
    BY <2>2, SlotGood, IdGood
  <2> HIDE DEF new
  <2>4. CASE opens
    <3>1. AppendsOne(groups, NewGroup(new.filter))
      BY <1>1, AppendAdds
    <3>2. NewGroup(new.filter).ops = <<>> /\ NewGroup(new.filter).filter = new.filter
      BY DEF NewGroup
    <3>3. groups' = Append(groups, NewGroup(new.filter))
      BY <2>1, <2>4
    <3>4. QED
      BY <2>3, <3>1, <3>2, <3>3 DEF GroupsOK, AppendsOne, n
  <2>5. CASE ~opens
    <3> DEFINE v == [groups[n] EXCEPT !.filter = new.filter]
    <3>1. n \in DOMAIN groups /\ DOMAIN groups[n] = {"filter", "ops"}
      BY <1>1, <2>5 DEF GroupsInv, IsGroup
    <3>2. /\ v.ops = groups[n].ops /\ v.filter = new.filter
          /\ groups' = [groups EXCEPT ![n] = v]
      BY <2>1, <2>5, <3>1
    <3> HIDE DEF v, opens
    <3>3. QED
      BY <2>3, <3>1, <3>2 DEF GroupsOK
  <2>6. QED
    BY <2>4, <2>5
<1>4. CASE a.kind = "op" /\ ParseOp(a)
  <2>1. \/ groups' = groups
        \/ /\ groups # <<>> /\ parse_op(a).ok
           /\ groups' = [groups EXCEPT ![n].ops = Append(@, parse_op(a).op)]
    BY <1>4, Zenon DEF ParseOp, n
  <2>2. CASE groups' = groups
    BY <2>2 DEF GroupsOK
  <2>3. ASSUME groups # <<>>, parse_op(a).ok,
               groups' = [groups EXCEPT ![n].ops = Append(@, parse_op(a).op)]
        PROVE  GroupsOK'
    <3> DEFINE op == parse_op(a).op
               ops == Append(groups[n].ops, op)
               v == [groups[n] EXCEPT !.ops = ops]
    <3>1. OpOK(op)
      BY <1>4, <2>3, OpGood DEF a
    <3>2. n \in DOMAIN groups /\ DOMAIN groups[n] = {"filter", "ops"}
          /\ IsSeq(groups[n].ops)
      BY <1>1, <2>3 DEF GroupsInv, IsGroup
    <3> HIDE DEF op
    <3>3. AppendsOne(groups[n].ops, op)
      BY <3>2, AppendAdds
    <3>4. \A o \in DOMAIN ops : OpOK(ops[o])
      BY <3>1, <3>2, <3>3 DEF GroupsOK, AppendsOne
    <3>5. groups' = [groups EXCEPT ![n].ops = ops]
      BY <2>3 DEF op
    <3> HIDE DEF ops
    <3>6. v.ops = ops /\ v.filter = groups[n].filter /\ groups' = [groups EXCEPT ![n] = v]
      BY <3>2, <3>5
    <3> HIDE DEF v
    <3>7. QED
      BY <3>2, <3>4, <3>6 DEF GroupsOK
  <2>4. QED
    BY <2>1, <2>2, <2>3
<1>5. CASE groups' = groups
  BY <1>5 DEF GroupsOK
<1>6. QED
  BY <1>2, <1>3, <1>4, <1>5

\* What is selected from the list, or named, is a device once.
IsListed(h) == h = Device(h.fn, 0) /\ Located(h.fn)
Separate(vec) == \A i, j \in 1..Len(vec) : vec[i].fn = vec[j].fn => i = j

LEMMA InNat ==
  ASSUME NEW m, NEW x, x \in {ANY} \cup 0..m, x >= 0
  PROVE  x \in 0..m
BY DEF ANY

LEMMA NamedIs ==
  ASSUME NEW f, FilterOK(f), Single(f)
  PROVE  Located([x \in Locations |-> f[x]])
<1> DEFINE loc == [x \in Locations |-> f[x]]
<1>1. \A x \in Locations : f[x] \in 0..MaxOf[x]
  <2>1. ASSUME NEW x \in Locations PROVE f[x] \in 0..MaxOf[x]
    <3>1. f[x] \in {ANY} \cup 0..MaxOf[x] /\ f[x] >= 0
      BY DEF FilterOK, Single
    <3>2. QED
      BY ONLY <3>1, InNat
  <2>2. QED
    BY <2>1
<1>2. /\ f["domain"] \in 0..MaxOf["domain"] /\ f["bus"] \in 0..MaxOf["bus"]
      /\ f["slot"] \in 0..MaxOf["slot"] /\ f["func"] \in 0..MaxOf["func"]
  BY <1>1 DEF Locations
<1>3. MaxOf["bus"] = 255 /\ MaxOf["slot"] = 31 /\ MaxOf["func"] = 7
  BY DEF MaxOf
<1>4. f["domain"] \in Nat /\ f["bus"] \in 0..255 /\ f["slot"] \in 0..31
      /\ f["func"] \in 0..7
  <2>1. \A m, x : x \in 0..m => x \in Nat
    OBVIOUS
  <2>2. QED
    BY ONLY <1>2, <1>3, <2>1
<1>5. DOMAIN loc = {"domain", "bus", "slot", "func"}
  BY DEF Locations
<1>6. /\ loc = [x \in {"domain", "bus", "slot", "func"} |-> loc[x]]
      /\ loc["domain"] = f["domain"] /\ loc["bus"] = f["bus"]
      /\ loc["slot"] = f["slot"] /\ loc["func"] = f["func"]
  BY <1>5 DEF Locations
<1> HIDE DEF loc
<1>7. loc \in [domain : Nat, bus : 0..255, slot : 0..31, func : 0..7]
  BY <1>4, <1>6
<1>8. QED
  BY <1>7 DEF Located, loc

LEMMA SelectOnce ==
  ASSUME method # "dump", NEW f, FilterOK(f)
  PROVE  /\ Separate(SelectDevices(f))
         /\ \A i \in 1..Len(SelectDevices(f)) : Located(SelectDevices(f)[i].fn)
<1> DEFINE loc == [x \in Locations |-> f[x]]
           list == IF ~needScan /\ Single(f) THEN <<Device(loc, 0)>> ELSE Devices
           S == {h \in Range(list) : Match(f, Described(h))}
<1>1. SelectDevices(f) = Picked(list, S)
  BY DEF SelectDevices
<1>2. \A fn : Device(fn, 0).fn = fn
  BY DEF Device
<1>3. IsSeq(list) /\ Once(list) /\ \A h \in Range(list) : IsListed(h)
  <2>1. CASE ~needScan /\ Single(f)
    <3>1. PICK h : h = Device(loc, 0)
      OBVIOUS
    <3>2. IsListed(h)
      BY <1>2, <2>1, <3>1, NamedIs DEF IsListed
    <3>3. list = <<h>>
      BY <2>1, <3>1
    <3> HIDE DEF list, S, loc
    <3>4. IsSeq(list) /\ Len(list) = 1 /\ Range(list) = {h}
      BY <3>3, OneRange DEF IsSeq
    <3>5. QED
      BY <3>2, <3>4 DEF Once
  <2>2. CASE ~(~needScan /\ Single(f))
    <3> DEFINE V == {fn \in Functions : Visible(fn)}
               found == Picked(Order, V)
               l == [k \in DOMAIN found |-> Device(found[k], 0)]
    <3>1. list = l
      BY <2>2 DEF Devices
    <3>2. IsSeq(Order) /\ Once(Order) /\ Range(Order) = Functions
      BY OrderAssumption DEF IsSeq, Once
    <3> HIDE DEF V
    <3>3. IsSeq(found) /\ Once(found) /\ Range(found) \subseteq Functions
      BY <3>2, PickedIs, PickedOnce
    <3> HIDE DEF found
    <3>4. PICK n \in Nat : n = Len(found) /\ DOMAIN found = 1..n
      BY <3>3, LenProperties DEF IsSeq
    <3>5. l = [k \in 1..n |-> l[k]] /\ \A k \in 1..n : l[k] = Device(found[k], 0)
      BY <3>4
    <3>6. IsSeq(l)
      BY <3>3, <3>4, <3>5, MapSeq
    <3> HIDE DEF l
    <3>7. Len(l) = n
      BY <3>5, <3>6, LenProperties DEF IsSeq
    <3>8. Once(l)
      BY <1>2, <3>3, <3>4, <3>5, <3>7 DEF Once
    <3>9. ASSUME NEW h \in Range(l) PROVE IsListed(h)
      <4>1. PICK k \in 1..n : h = Device(found[k], 0)
        BY <3>5 DEF Range
      <4>2. found[k] \in Functions
        BY <3>3, <3>4 DEF Range
      <4>3. Located(found[k])
        BY <4>2, PositionsAssumption DEF Located
      <4>4. QED
        BY <1>2, <4>1, <4>3 DEF IsListed
    <3>10. QED
      BY <3>1, <3>6, <3>8, <3>9
  <2>3. QED
    BY <2>1, <2>2
<1> HIDE DEF list, S
<1>4. PICK vec : vec = Picked(list, S)
  OBVIOUS
<1>5. IsSeq(vec) /\ Once(vec) /\ Range(vec) \subseteq Range(list)
  BY <1>3, <1>4, PickedIs, PickedOnce
<1>6. \A i \in 1..Len(vec) : vec[i] \in Range(vec)
  <2>1. DOMAIN vec = 1..Len(vec)
    BY <1>5, LenProperties DEF IsSeq
  <2>2. QED
    BY <2>1 DEF Range
<1>7. \A i \in 1..Len(vec) : vec[i] = Device(vec[i].fn, 0) /\ Located(vec[i].fn)
  BY <1>3, <1>5, <1>6 DEF IsListed
<1>8. Separate(vec)
  BY <1>5, <1>7 DEF Separate, Once
<1>9. QED
  BY <1>1, <1>4, <1>7, <1>8

\* The operations on one device stand in their order.
LEMMA JobsRise ==
  ASSUME NEW n \in Nat, NEW i \in Nat, NEW j \in Nat, n # 0, i < j, i \div n = j \div n
  PROVE  i % n < j % n
<1>1. /\ i \div n \in Nat /\ i % n \in 0 .. n - 1 /\ i = n * (i \div n) + (i % n)
      /\ j \div n \in Nat /\ j % n \in 0 .. n - 1 /\ j = n * (j \div n) + (j % n)
  OBVIOUS
<1>2. PICK q \in Nat : q = i \div n /\ q = j \div n
  BY <1>1
<1>3. PICK p : p = n * q
  OBVIOUS
<1>4. p \in Nat
  BY <1>2, <1>3
<1>5. i = p + (i % n) /\ j = p + (j % n)
  BY <1>1, <1>2, <1>3
<1>6. \A r, s \in Nat : p + r < p + s => r < s
  BY <1>4
<1>7. i % n \in Nat /\ j % n \in Nat
  BY <1>1
<1>8. QED
  BY <1>5, <1>6, <1>7

(***************************************************************************)
(* What a set of writes demands of a bit.                                  *)
(***************************************************************************)
HitsOf(W, fn, x, b) == {w \in W : Sets(w, fn, x, b)}
FinalOf(H) == {w \in H : \A v \in H : v = w \/ After(w, v)}
Hidden(fn, x) == ~Visible(fn) \/ x >= Limit
BitOfValue(w, x, b) ==
  b + 8 * (x - FirstByte(w)) \in OpOf(w).values[w.value].value
Demanded(W, fn, x, b) ==
  IF HitsOf(W, fn, x, b) = {} \/ Hidden(fn, x) THEN b \in Initial[fn][x]
  ELSE \A w \in FinalOf(HitsOf(W, fn, x, b)) : BitOfValue(w, x, b)

LEMMA FollowIs ==
  RegistersFollow <=>
    \A fn \in Functions : \A x \in Positions : \A b \in 0..7 :
      b \in space[fn][x] <=> Demanded(written, fn, x, b)
BY Zenon DEF RegistersFollow, Demanded, Hidden, HitsOf, FinalOf, BitOfValue

\* What is demanded depends on the operations and on what is where only.
LEMMA DemandsStay ==
  ASSUME UNCHANGED <<groups, method, tree, machine>>
  PROVE  \A W, fn, x, b : Demanded(W, fn, x, b)' <=> Demanded(W, fn, x, b)
<1>1. \A h, op : Base(h, op)' = Base(h, op)
  BY BaseStays
<1>2. \A w : OpOf(w)' = OpOf(w)
  BY DEF OpOf
<1>3. \A w : FirstByte(w)' = FirstByte(w)
  BY <1>1, <1>2 DEF FirstByte
<1>4. \A w, fn, x, b : Sets(w, fn, x, b)' <=> Sets(w, fn, x, b)
  BY <1>2, <1>3 DEF Sets
<1>5. \A fn, x : Hidden(fn, x)' <=> Hidden(fn, x)
  BY DEF Hidden, Visible, Answers, Limit
<1>6. \A W, fn, x, b : HitsOf(W, fn, x, b)' = HitsOf(W, fn, x, b)
  BY <1>4 DEF HitsOf
<1>7. \A w, x, b : BitOfValue(w, x, b)' <=> BitOfValue(w, x, b)
  BY <1>2, <1>3 DEF BitOfValue
<1>8. \A H : FinalOf(H)' = FinalOf(H)
  BY DEF FinalOf, After
<1>9. QED
  BY <1>5, <1>6, <1>7, <1>8 DEF Demanded

LEMMA FollowStays ==
  ASSUME RegistersFollow, UNCHANGED <<groups, method, tree, machine, space, written>>
  PROVE  RegistersFollow'
<1>1. \A W, fn, x, b : Demanded(W, fn, x, b)' <=> Demanded(W, fn, x, b)
  BY DemandsStay
<1>2. RegistersFollow' <=>
        \A fn \in Functions : \A x \in Positions : \A b \in 0..7 :
          b \in space'[fn][x] <=> Demanded(written, fn, x, b)'
  BY Zenon DEF RegistersFollow, Demanded, Hidden, HitsOf, FinalOf, BitOfValue
<1>3. QED
  BY <1>1, <1>2, FollowIs

\* A write that does not set the bit, and one that comes after all others.
LEMMA Ignored ==
  ASSUME NEW W, NEW w, NEW fn, NEW x, NEW b, ~Sets(w, fn, x, b) \/ Hidden(fn, x)
  PROVE  Demanded(W \cup {w}, fn, x, b) <=> Demanded(W, fn, x, b)
<1>1. CASE Hidden(fn, x)
  BY <1>1 DEF Demanded
<1>2. CASE ~Sets(w, fn, x, b)
  <2>1. HitsOf(W \cup {w}, fn, x, b) = HitsOf(W, fn, x, b)
    BY <1>2 DEF HitsOf
  <2>2. QED
    BY <2>1 DEF Demanded
<1>3. QED
  BY <1>1, <1>2

LEMMA Prevails ==
  ASSUME NEW W, NEW w, NEW fn, NEW x, NEW b, Sets(w, fn, x, b), ~Hidden(fn, x),
         \A v \in W : v.fn = fn => After(w, v) /\ ~After(v, w)
  PROVE  Demanded(W \cup {w}, fn, x, b) <=> BitOfValue(w, x, b)
<1> DEFINE H == HitsOf(W \cup {w}, fn, x, b)
<1>1. w \in H /\ \A v \in H : v = w \/ (v \in W /\ v.fn = fn)
  BY DEF HitsOf, Sets
<1> HIDE DEF H
<1>2. FinalOf(H) = {w}
  <2>1. w \in FinalOf(H)
    BY <1>1 DEF FinalOf
  <2>2. ASSUME NEW v \in FinalOf(H) PROVE v = w
    <3>1. v \in H /\ (w = v \/ After(v, w))
      BY <1>1, <2>2 DEF FinalOf
    <3>2. QED
      BY <1>1, <3>1
  <2>3. QED
    BY <2>1, <2>2
<1>3. QED
  BY <1>1, <1>2 DEF Demanded, H

----------------------------------------------------------------------------
\* A value is written to a register of a function.
NewWrite == WriteOf(turn, jobs[1].op, at.value, Dev.fn)
Written(v) ==
  IF Low(Op.width) \subseteq v.mask THEN v.value
  ELSE Merged(v, Value(ReadRegister(Dev, at.addr, Op.width)))
AtPlace ==
  \E base \in Base(Dev, Op) :
    /\ at.addr = base + Op.addr + Op.width * (at.value - 1)
    /\ (base + Op.addr) % Op.width = 0

LEMMA PlaceIs ==
  ASSUME HasLists, AtPlace, Op.width \in Direct, Op.addr \in Nat, at.value \in Nat \ {0}
  PROVE  /\ at.addr \in Nat /\ at.addr % Op.width = 0
         /\ FirstByte(NewWrite) = at.addr
<1>1. PICK p \in Base(Dev, Op) :
        /\ at.addr = p + Op.addr + Op.width * (at.value - 1)
        /\ (p + Op.addr) % Op.width = 0
  BY DEF AtPlace
<1>2. p \in Nat /\ Base(Device(Dev.fn, 0), Op) = {p}
  BY OneBase
<1>3. ASSUME NEW a \in Nat, NEW q \in Nat, NEW len \in Direct, NEW k \in Nat \ {0},
             (q + a) % len = 0
      PROVE  /\ q + a + len * (k - 1) \in Nat
             /\ (q + a + len * (k - 1)) % len = 0
  <2>1. len = 1 \/ len = 2 \/ len = 4
    BY DEF Direct
  <2>2. QED
    BY <1>3, <2>1
<1>4. at.addr \in Nat /\ at.addr % Op.width = 0
  BY <1>1, <1>2, <1>3
<1>5. OpOf(NewWrite) = Op /\ NewWrite.fn = Dev.fn /\ NewWrite.value = at.value
  BY DEF OpOf, NewWrite, WriteOf, Op
<1>6. FirstByte(NewWrite) = p + Op.addr + Op.width * (at.value - 1)
  <2>1. (CHOOSE b \in {p} : TRUE) = p
    OBVIOUS
  <2>2. Base(Device(NewWrite.fn, 0), OpOf(NewWrite)) = {p}
    BY <1>2, <1>5
  <2>3. FirstByte(NewWrite) =
          (CHOOSE b \in Base(Device(NewWrite.fn, 0), OpOf(NewWrite)) : TRUE)
            + OpOf(NewWrite).addr + OpOf(NewWrite).width * (NewWrite.value - 1)
    BY Zenon DEF FirstByte
  <2>4. QED
    BY <1>5, <2>1, <2>2, <2>3
<1>7. QED
  BY <1>1, <1>4, <1>6

LEMMA WriteFollows ==
  ASSUME HasLists, RegistersFollow, method \in RawMethods, AtPlace, OpOK(Op),
         at.value \in Nat \ {0}, at.value \in DOMAIN Op.values, Located(Dev.fn),
         HoldsBytes,
         \A w \in written : w.fn = Dev.fn => After(NewWrite, w) /\ ~After(w, NewWrite),
         NEW s,
         s = Write(method, Dev.fn, at.addr,
                   Bytes(Written(Op.values[at.value]), Op.width)).space,
         space' = s, written' = written \cup {NewWrite},
         UNCHANGED <<groups, method, tree, machine>>
  PROVE  /\ RegistersFollow'
         /\ \A fn \in Functions : s[fn] = [x \in Positions |-> s[fn][x]]
         /\ \A fn \in Functions : \A x \in Positions : s[fn][x] \in Byte
<1> DEFINE d == Dev.fn
           a == at.addr
           len == Op.width
           v == Op.values[at.value]
           z == Written(v)
           c == Bytes(z, len)
           new == NewWrite
<1>1. /\ len \in Direct /\ len \in Nat /\ Op.addr \in Nat
      /\ Low(len) \subseteq v.mask \/ v.value \subseteq v.mask
  BY DEF OpOK, Direct
<1>2. a \in Nat /\ a % len = 0 /\ FirstByte(new) = a
  BY <1>1, PlaceIs
<1>3. c \in [1..len -> Byte]
  BY <1>1, BytesAre
<1>4. OpOf(new) = Op /\ new.fn = d /\ new.value = at.value
  BY DEF OpOf, NewWrite, WriteOf, Op
<1>5. s = Write(method, d, a, c).space
  OBVIOUS
<1> HIDE DEF d, a, len, c, z, new, v
<1>6. UnitOf(s, d, a, len, c) /\ IsSpace(s)
  <2>1. Located(d)
    BY DEF d
  <2>2. /\ UnitOf(Write(method, d, a, c).space, d, a, len, c)
        /\ IsSpace(Write(method, d, a, c).space)
    BY <1>1, <1>2, <1>3, <2>1, UnitIs
  <2>3. QED
    BY <1>5, <2>2, Zenon
<1>7. \A fn, x, b : Sets(new, fn, x, b) <=>
        fn = d /\ x \in a .. a + len - 1 /\ b + 8 * (x - a) \in v.mask
  BY <1>2, <1>4 DEF Sets, v, len
<1>8. \A x, b : BitOfValue(new, x, b) <=> b + 8 * (x - a) \in v.value
  BY <1>2, <1>4 DEF BitOfValue, v
<1>9. ASSUME NEW fn \in Functions, NEW x \in Positions, NEW b \in 0..7
      PROVE  b \in s[fn][x] <=> Demanded(written \cup {new}, fn, x, b)
  <2>1. b \in space[fn][x] <=> Demanded(written, fn, x, b)
    BY FollowIs
  <2>2. CASE fn = d /\ x \in a .. a + len - 1 /\ Visible(fn) /\ x < Limit
    <3>1. ~Hidden(fn, x)
      <4>1. Limit \in Nat /\ x \in Int
        BY <1>1, <1>2, <2>2 DEF Limit
      <4>2. QED
        BY <2>2, <4>1 DEF Hidden
    <3>2. s[fn][x] = c[x - a + 1]
      BY <1>6, <2>2 DEF UnitOf
    <3> DEFINE i == x - a + 1
               old == ReadRegister(Dev, a, len)
    <3>3. i \in 1..len /\ i - 1 = x - a /\ a + i - 1 = x
      BY <1>1, <1>2, <2>2
    <3>4. old = [j \in 1..len |-> Holds(d, a + j - 1)]
      <4>1. a < Limit
        <5>1. Limit \in Nat
          BY DEF Limit
        <5>2. QED
          BY <1>1, <1>2, <2>2, <5>1
      <4>2. QED
        BY <1>1, <1>2, <2>2, <4>1, UnitHolds DEF d
    <3>5. old[i] = space[fn][x]
      <4>1. old[i] = Holds(d, a + i - 1)
        <5> HIDE DEF i, old
        <5>1. QED
          BY <3>3, <3>4
      <4>2. Holds(d, x) = space[fn][x]
        BY <2>2 DEF Holds
      <4>3. QED
        BY <3>3, <4>1, <4>2
    <3>6. old \in [1..len -> Byte]
      <4>1. \A j : Holds(d, j) \in Byte
        BY <2>2 DEF Holds, HoldsBytes, Byte
      <4> HIDE DEF old
      <4>2. QED
        BY <3>4, <4>1
    <3>7. z = IF Low(len) \subseteq v.mask THEN v.value ELSE Merged(v, Value(old))
      BY DEF z, Written, len, a
    <3>8. b \in Bytes(z, len)[i] <=> IF b + 8 * (i - 1) \in v.mask
                                     THEN b + 8 * (i - 1) \in v.value ELSE b \in old[i]
      <4> HIDE DEF i, old
      <4>1. QED
        BY <1>1, <3>3, <3>6, <3>7, BitWritten
    <3>9. b \in s[fn][x] <=> IF b + 8 * (x - a) \in v.mask
                             THEN b + 8 * (x - a) \in v.value ELSE b \in space[fn][x]
      BY <3>2, <3>3, <3>5, <3>8 DEF c
    <3>10. CASE b + 8 * (x - a) \in v.mask
      <4>1. Sets(new, fn, x, b)
        BY <1>7, <2>2, <3>10
      <4>2. \A w \in written : w.fn = fn => After(new, w) /\ ~After(w, new)
        BY <2>2 DEF d, new
      <4>3. Demanded(written \cup {new}, fn, x, b) <=> BitOfValue(new, x, b)
        BY <3>1, <4>1, <4>2, Prevails
      <4>4. QED
        BY <1>8, <3>9, <3>10, <4>3
    <3>11. CASE b + 8 * (x - a) \notin v.mask
      <4>1. ~Sets(new, fn, x, b)
        BY <1>7, <3>11
      <4>2. Demanded(written \cup {new}, fn, x, b) <=> Demanded(written, fn, x, b)
        BY <4>1, Ignored
      <4>3. QED
        BY <2>1, <3>9, <3>11, <4>2
    <3>12. QED
      BY <3>10, <3>11
  <2>3. CASE ~(fn = d /\ x \in a .. a + len - 1 /\ Visible(fn) /\ x < Limit)
    <3>1. s[fn][x] = space[fn][x]
      BY <1>6, <2>3 DEF UnitOf
    <3>2. ~Sets(new, fn, x, b) \/ Hidden(fn, x)
      <4>1. ASSUME Sets(new, fn, x, b) PROVE Hidden(fn, x)
        <5>1. fn = d /\ x \in a .. a + len - 1
          BY <1>7, <4>1
        <5>2. Limit \in Nat /\ x \in Int
          BY <1>1, <1>2, <5>1 DEF Limit
        <5>3. ~Visible(fn) \/ ~(x < Limit)
          BY <2>3, <5>1
        <5>4. QED
          BY <5>2, <5>3 DEF Hidden
      <4>2. QED
        BY <4>1
    <3>3. Demanded(written \cup {new}, fn, x, b) <=> Demanded(written, fn, x, b)
      BY <3>2, Ignored
    <3>4. QED
      BY <2>1, <3>1, <3>3
  <2>4. QED
    BY <2>2, <2>3
<1>10. RegistersFollow'
  <2>1. \A W, fn, x, b : Demanded(W, fn, x, b)' <=> Demanded(W, fn, x, b)
    BY DemandsStay
  <2>2. RegistersFollow' <=>
          \A fn \in Functions : \A x \in Positions : \A b \in 0..7 :
            b \in space'[fn][x] <=> Demanded(written, fn, x, b)'
    BY Zenon DEF RegistersFollow, Demanded, Hidden, HitsOf, FinalOf, BitOfValue
  <2>3. \A fn, x, b : Demanded(written, fn, x, b)' <=> Demanded(written', fn, x, b)
    <3>1. PICK W : W = written'
      OBVIOUS
    <3>2. \A fn, x, b : Demanded(written, fn, x, b)' <=> Demanded(W, fn, x, b)'
      BY <3>1, Zenon DEF Demanded, HitsOf
    <3>3. QED
      BY <2>1, <3>1, <3>2
  <2>4. QED
    BY <1>9, <2>2, <2>3 DEF new
<1>11. \A fn \in Functions : s[fn] = [x \in Positions |-> s[fn][x]]
  <2>1. PICK r : s = [fn \in Functions |-> [x \in Positions |-> r[fn][x]]]
    BY <1>6 DEF IsSpace
  <2>2. QED
    BY <2>1
<1>12. ASSUME NEW fn \in Functions, NEW x \in Positions PROVE s[fn][x] \in Byte
  <2>1. x \in a .. a + len - 1 => x - a + 1 \in 1..len
    BY <1>1, <1>2
  <2>2. \/ s[fn][x] = c[x - a + 1] /\ x \in a .. a + len - 1
        \/ s[fn][x] = space[fn][x]
    BY <1>6 DEF UnitOf
  <2>3. space[fn][x] \in Byte
    BY DEF HoldsBytes
  <2>4. QED
    BY <1>3, <2>1, <2>2, <2>3
<1>13. QED
  BY <1>10, <1>11, <1>12

NumbersGiven ==
  \A k \in DOMAIN argv : argv[k].kind = "op" => HasNumbers(argv[k])
SpaceOK ==
  HoldsBytes /\ \A fn \in Functions : space[fn] = [x \in Positions |-> space[fn][x]]
AtInv ==
  pc = "op" => AtPlace /\ (Op.values # <<>> => at.value \in DOMAIN Op.values)
JobsOK ==
  /\ \A k \in DOMAIN jobs : Located(jobs[k].dev.fn)
  /\ \A i, k \in DOMAIN jobs :
       i < k /\ jobs[i].dev.fn = jobs[k].dev.fn => jobs[i].op < jobs[k].op

\* What has been written comes before what the jobs that are left will write.
OrderInv ==
  /\ \A w \in written : w.group \in 1..turn /\ w.op \in Nat /\ w.value \in Nat
  /\ \A w \in written : \A k \in DOMAIN jobs :
       w.group = turn /\ w.fn = jobs[k].dev.fn =>
         \/ w.op < jobs[k].op
         \/ k = 1 /\ pc = "op" /\ w.op = jobs[k].op /\ w.value < at.value

FollowInv ==
  /\ NumbersGiven /\ GroupsOK /\ SpaceOK /\ AtInv /\ RegistersFollow
  /\ IF method = "dump" THEN written = {} ELSE JobsOK /\ OrderInv

\* Nothing is demanded where nothing has been written.
LEMMA NothingDemanded ==
  /\ \A fn, x, b : Demanded({}, fn, x, b) <=> b \in Initial[fn][x]
  /\ \A fn, x, b : Demanded({}, fn, x, b)' <=> b \in Initial[fn][x]
BY DEF Demanded, HitsOf

LEMMA QuietFollows ==
  ASSUME FollowInv, written = {}, jobs = <<>>, UNCHANGED <<argv, written, space, jobs, turn>>,
         pc' # "op", GroupsOK'
  PROVE  FollowInv'
<1>1. NumbersGiven' /\ SpaceOK' /\ AtInv'
  BY DEF FollowInv, NumbersGiven, SpaceOK, HoldsBytes, AtInv
<1>2. RegistersFollow'
  <2>1. \A fn \in Functions : \A x \in Positions : \A b \in 0..7 :
          b \in space[fn][x] <=> b \in Initial[fn][x]
    BY NothingDemanded, FollowIs DEF FollowInv
  <2>2. RegistersFollow' <=>
          \A fn \in Functions : \A x \in Positions : \A b \in 0..7 :
            b \in space'[fn][x] <=> Demanded(written, fn, x, b)'
    BY Zenon DEF RegistersFollow, Demanded, Hidden, HitsOf, FinalOf, BitOfValue
  <2>3. \A fn, x, b : Demanded(written, fn, x, b)' <=> b \in Initial[fn][x]
    <3>1. written' = {}
      OBVIOUS
    <3>2. QED
      BY <3>1 DEF Demanded, HitsOf
  <2>4. QED
    BY <2>1, <2>2, <2>3
<1>3. DOMAIN jobs' = {}
  OBVIOUS
<1>4. JobsOK' /\ OrderInv'
  BY <1>3 DEF JobsOK, OrderInv
<1>5. QED
  BY <1>1, <1>2, <1>4 DEF FollowInv

LEMMA FirstOp ==
  ASSUME GroupsInv, GroupsOK, jobs # <<>>
  PROVE  OpOK(Op) /\ jobs[1].op \in Nat /\ 1 \in DOMAIN jobs /\ turn \in Nat
<1>1. 1 \in DOMAIN jobs
  BY TailOf DEF GroupsInv
<1>2. turn \in DOMAIN groups /\ jobs[1].op \in DOMAIN groups[turn].ops /\ turn \in Nat
  BY <1>1, GroupsLength DEF GroupsInv
<1>3. IsSeq(groups[turn].ops)
  BY <1>2 DEF GroupsInv, IsGroup
<1>4. jobs[1].op \in Nat
  BY <1>2, <1>3, LenProperties DEF IsSeq
<1>5. QED
  BY <1>1, <1>2, <1>4 DEF GroupsOK, Op

LEMMA BeginFollows ==
  ASSUME HasLists, GroupsInv, ExecInv, FollowInv, BeginOp
  PROVE  FollowInv'
<1>1. /\ pc = "exec" /\ jobs # <<>> /\ pc' \in {"op", "died"}
      /\ UNCHANGED <<groups, method, tree, machine, space, written, argv, turn, jobs>>
  BY DEF BeginOp, unread
<1>2. OpOK(Op)
  BY <1>1, FirstOp DEF FollowInv
<1>3. RegistersFollow'
  BY <1>1, FollowStays DEF FollowInv
<1>4. Op' = Op /\ Dev' = Dev /\ \A h, op : Base(h, op)' = Base(h, op)
  BY <1>1, BaseStays DEF Op, Dev
<1>5. AtInv'
  <2>1. SUFFICES ASSUME pc' = "op"
                 PROVE  AtPlace' /\ (Op.values # <<>> => at'.value \in DOMAIN Op.values)
    BY <1>4 DEF AtInv
  <2>2. PICK p \in Base(Dev, Op) : at' = [addr |-> p + Op.addr, value |-> 1]
    BY <2>1 DEF BeginOp
  <2>3. PICK q \in Base(Dev, Op) : (q + Op.addr) % Op.width = 0
    BY <2>1 DEF BeginOp
  <2>4. p = q /\ p \in Nat
    BY <2>2, <2>3, OneBase
  <2>5. at'.addr = p + Op.addr /\ at'.value = 1
    BY <2>2
  <2>6. p + Op.addr + Op.width * (1 - 1) = p + Op.addr
    <3>1. Op.addr \in Nat /\ Op.width \in Nat
      BY <1>2 DEF OpOK, Direct
    <3>2. QED
      BY <2>4, <3>1
  <2>7. AtPlace'
    <3>1. AtPlace' <=> \E base \in Base(Dev, Op) :
                         /\ at'.addr = base + Op.addr + Op.width * (at'.value - 1)
                         /\ (base + Op.addr) % Op.width = 0
      BY <1>4 DEF AtPlace
    <3>2. QED
      BY <2>2, <2>3, <2>4, <2>5, <2>6, <3>1
  <2>8. Op.values # <<>> => 1 \in DOMAIN Op.values
    <3>1. IsSeq(Op.values)
      <4>1. turn \in DOMAIN groups /\ jobs[1].op \in DOMAIN groups[turn].ops
        BY <1>1, FirstOp, GroupsLength DEF GroupsInv, FollowInv
      <4>2. QED
        BY <4>1 DEF ExecInv, Op
    <3>2. QED
      BY <3>1, TailOf
  <2>9. QED
    BY <2>5, <2>7, <2>8
<1>6. NumbersGiven' /\ SpaceOK' /\ GroupsOK'
  BY <1>1 DEF FollowInv, NumbersGiven, SpaceOK, HoldsBytes, GroupsOK
<1>7. method # "dump" => JobsOK' /\ OrderInv'
  BY <1>1 DEF FollowInv, JobsOK, OrderInv
<1>8. QED
  BY <1>1, <1>3, <1>5, <1>6, <1>7 DEF FollowInv

\* The first job is done.
LEMMA JobGoes ==
  ASSUME JobsOK, IsSeq(jobs), jobs # <<>>, jobs' = Tail(jobs)
  PROVE  /\ JobsOK'
         /\ \A k \in DOMAIN jobs' :
              /\ k + 1 \in DOMAIN jobs /\ jobs'[k] = jobs[k + 1] /\ k + 1 # 1
              /\ jobs[k + 1].dev.fn = jobs[1].dev.fn => jobs[1].op < jobs[k + 1].op
<1>1. 1 \in DOMAIN jobs /\ \A k \in DOMAIN jobs' : k + 1 \in DOMAIN jobs /\ jobs'[k] = jobs[k + 1]
  BY TailOf
<1>2. \A k \in DOMAIN jobs : k \in Nat
  BY LenProperties DEF IsSeq
<1>3. \A k \in DOMAIN jobs' : k \in Nat /\ k # 0
  <2>1. PICK S : jobs \in Seq(S)
    BY DEF IsSeq
  <2>2. jobs' \in Seq(S)
    BY <2>1, HeadTailProperties
  <2>3. QED
    BY <2>2, LenProperties
<1>4. \A k \in DOMAIN jobs' : k + 1 # 1 /\ 1 < k + 1
  BY <1>3
<1>5. \A i, k \in DOMAIN jobs' : i < k => i + 1 < k + 1
  BY <1>3
<1>6. JobsOK'
  BY <1>1, <1>5 DEF JobsOK
<1>7. QED
  BY <1>1, <1>4, <1>6 DEF JobsOK

LEMMA ReadFollows ==
  ASSUME GroupsInv, FollowInv, ReadOp
  PROVE  FollowInv'
<1>1. /\ pc = "op" /\ jobs # <<>> /\ IsSeq(jobs) /\ pc' = "exec" /\ jobs' = Tail(jobs)
      /\ UNCHANGED <<groups, method, tree, machine, space, written, argv, turn>>
      /\ Op.values = <<>>
  BY DEF ReadOp, unread, GroupsInv
<1>2. RegistersFollow'
  BY <1>1, FollowStays DEF FollowInv
<1>3. NumbersGiven' /\ SpaceOK' /\ GroupsOK' /\ AtInv'
  BY <1>1 DEF FollowInv, NumbersGiven, SpaceOK, HoldsBytes, GroupsOK, AtInv
<1>4. ASSUME method # "dump" PROVE JobsOK' /\ OrderInv'
  <2>1. JobsOK /\ OrderInv
    BY <1>4 DEF FollowInv
  <2>2. OpOK(Op) /\ jobs[1].op \in Nat /\ 1 \in DOMAIN jobs
    BY <1>1, FirstOp DEF FollowInv
  <2>3. JobsOK'
    BY <1>1, <2>1, JobGoes
  <2>4. ASSUME NEW w \in written, NEW k \in DOMAIN jobs', w.group = turn,
               w.fn = jobs'[k].dev.fn
        PROVE  w.op < jobs'[k].op
    <3>1. k + 1 \in DOMAIN jobs /\ jobs'[k] = jobs[k + 1] /\ k + 1 # 1
      BY <1>1, <2>1, JobGoes
    <3>2. QED
      BY <2>1, <2>4, <3>1 DEF OrderInv
  <2>5. OrderInv'
    BY <1>1, <2>1, <2>4 DEF OrderInv
  <2>6. QED
    BY <2>3, <2>5
<1>5. QED
  BY <1>1, <1>2, <1>3, <1>4 DEF FollowInv

LEMMA NextFollows ==
  ASSUME GroupsInv, DumpInv, FollowInv, NextGroup
  PROVE  FollowInv'
<1>1. /\ pc = "exec" /\ jobs = <<>> /\ pc' \in {"exec", "exit"}
      /\ UNCHANGED <<groups, method, tree, machine, space, written, argv>>
  BY DEF NextGroup, unread
<1>2. RegistersFollow'
  BY <1>1, FollowStays DEF FollowInv
<1>3. NumbersGiven' /\ SpaceOK' /\ GroupsOK' /\ AtInv'
  BY <1>1 DEF FollowInv, NumbersGiven, SpaceOK, HoldsBytes, GroupsOK, AtInv
<1>4. CASE turn = Len(groups)
  <2>1. turn' = turn /\ jobs' = jobs
    BY <1>4 DEF NextGroup
  <2>2. DOMAIN jobs = {}
    BY <1>1
  <2>3. method # "dump" => JobsOK' /\ OrderInv'
    BY <1>1, <2>1, <2>2 DEF FollowInv, JobsOK, OrderInv
  <2>4. QED
    BY <1>1, <1>2, <1>3, <2>3 DEF FollowInv
<1>5. CASE turn # Len(groups)
  <2> DEFINE g == groups[turn + 1]
             vec == SelectDevices(g.filter)
             n == Len(g.ops)
             m == Len(vec)
             new == [k \in 1 .. n * m |->
                       [dev |-> vec[((k - 1) \div n) + 1],
                        op |-> ((k - 1) % n) + 1]]
  <2>1. turn' = turn + 1 /\ jobs' = new
    BY <1>5, Zenon DEF NextGroup
  <2>2. turn \in Nat /\ turn + 1 \in DOMAIN groups
    <3>1. /\ IsSeq(groups) /\ turn \in 0..Len(groups)
          /\ Len(groups) \in Nat /\ DOMAIN groups = 1..Len(groups)
      BY GroupsLength DEF GroupsInv
    <3> DEFINE l == Len(groups)
    <3>2. turn \in 0..l /\ l \in Nat /\ turn # l
      BY <1>5, <3>1
    <3> HIDE DEF l
    <3>3. turn \in Nat /\ turn + 1 \in 1..l
      BY <3>2
    <3>4. QED
      BY <3>1, <3>3 DEF l
  <2>3. n \in Nat /\ FilterOK(g.filter)
    <3>1. IsSeq(g.ops)
      BY <2>2 DEF GroupsInv, IsGroup
    <3>2. QED
      BY <2>2, <3>1, LenProperties DEF IsSeq, FollowInv, GroupsOK
  <2>4. m \in Nat
    BY SelectSeqIs
  <2>5. ASSUME method # "dump" PROVE JobsOK' /\ OrderInv'
    <3>1. Separate(vec) /\ \A i \in 1..m : Located(vec[i].fn)
      BY <2>3, <2>5, SelectOnce
    <3>2. \A i, j \in 1..m : vec[i].fn = vec[j].fn => i = j
      BY <3>1 DEF Separate
    <3> HIDE DEF vec, m, n, g
    <3>3. \A k \in 1 .. n * m : ((k - 1) \div n) + 1 \in 1..m
      BY <2>3, <2>4, JobsCover
    <3>4. DOMAIN new = 1 .. n * m
      OBVIOUS
    <3>5. \A k \in 1 .. n * m : Located(new[k].dev.fn)
      BY <3>1, <3>3
    <3>6. ASSUME NEW i \in 1 .. n * m, NEW k \in 1 .. n * m, i < k,
                 new[i].dev.fn = new[k].dev.fn
          PROVE  new[i].op < new[k].op
      <4>1. ((i - 1) \div n) + 1 = ((k - 1) \div n) + 1
        BY <3>2, <3>3, <3>6
      <4>2. n # 0 /\ i - 1 \in Nat /\ k - 1 \in Nat /\ i - 1 < k - 1
        <5>1. n = 0 => n * m = 0
          BY <2>4
        <5>2. n * m \in Nat
          BY <2>3, <2>4
        <5>3. QED
          BY <3>6, <5>1, <5>2
      <4>3. PICK p \in Nat, q \in Nat : p = i - 1 /\ q = k - 1
        BY <4>2
      <4>4. p \div n = q \div n
        <5>1. p \div n \in Int /\ q \div n \in Int
          BY <2>3, <4>2
        <5>2. QED
          BY <4>1, <4>3, <5>1
      <4>5. p % n < q % n
        BY <2>3, <4>2, <4>3, <4>4, JobsRise
      <4>6. p % n \in Int /\ q % n \in Int
        BY <2>3, <4>2
      <4>7. new[i].op = (p % n) + 1 /\ new[k].op = (q % n) + 1
        BY <4>3
      <4>8. QED
        BY <4>5, <4>6, <4>7
    <3> HIDE DEF new
    <3>7. JobsOK'
      BY <2>1, <3>4, <3>5, <3>6 DEF JobsOK
    <3>8. \A w \in written : w.group \in 1..turn + 1 /\ w.group # turn + 1
                             /\ w.op \in Nat /\ w.value \in Nat
      BY <2>2, <2>5 DEF FollowInv, OrderInv
    <3>9. OrderInv'
      BY <1>1, <2>1, <3>8 DEF OrderInv
    <3>10. QED
      BY <3>7, <3>9
  <2>6. QED
    BY <1>1, <1>2, <1>3, <2>5 DEF FollowInv
<1>6. QED
  BY <1>4, <1>5

LEMMA ValueFollows ==
  ASSUME HasLists, GroupsInv, ExecInv, MethodInv, FollowInv, WriteValue
  PROVE  FollowInv'
<1> DEFINE v == Op.values[at.value]
           s == Write(method, Dev.fn, at.addr, Bytes(Written(v), Op.width)).space
           more == at.value < Len(Op.values)
           writes == ~set.demo
           Dies == /\ writes /\ method = "dump" /\ pc' = "died"
                   /\ UNCHANGED <<jobs, at, space, written>>
           Goes == /\ ~(writes /\ method = "dump")
                   /\ space' = IF set.demo THEN space ELSE s
                   /\ written' = IF set.demo THEN written ELSE written \cup {NewWrite}
                   /\ jobs' = IF more THEN jobs ELSE Tail(jobs)
                   /\ pc' = IF more THEN "op" ELSE "exec"
                   /\ at' = [addr |-> at.addr + Op.width, value |-> at.value + 1]
<1>1. /\ pc = "op" /\ jobs # <<>> /\ IsSeq(jobs) /\ Op.values # <<>>
      /\ UNCHANGED <<groups, method, tree, machine, argv, turn>>
      /\ at.value \in Nat \ {0} /\ at.value \in DOMAIN Op.values /\ AtPlace
  BY DEF WriteValue, GroupsInv, ExecInv, FollowInv, AtInv
<1>2. OpOK(Op) /\ jobs[1].op \in Nat /\ 1 \in DOMAIN jobs /\ turn \in Nat
  BY <1>1, FirstOp DEF FollowInv
<1>3. NumbersGiven' /\ GroupsOK'
  BY <1>1 DEF FollowInv, NumbersGiven, GroupsOK
<1>4. Dies \/ Goes
  BY Zenon DEF WriteValue, Written, NewWrite, WriteOf
<1>5. CASE Dies
  <2>1. RegistersFollow'
    BY <1>1, <1>5, FollowStays DEF FollowInv
  <2>2. SpaceOK' /\ AtInv'
    BY <1>5 DEF FollowInv, SpaceOK, HoldsBytes, AtInv
  <2>3. QED
    BY <1>1, <1>3, <1>5, <2>1, <2>2 DEF FollowInv
<1>6. CASE Goes
  <2>1. at'.addr = at.addr + Op.width /\ at'.value = at.value + 1
    BY <1>6
  <2>2. NewWrite.group = turn /\ NewWrite.op = jobs[1].op /\ NewWrite.value = at.value
        /\ NewWrite.fn = jobs[1].dev.fn
    BY DEF NewWrite, WriteOf, Dev
  <2> HIDE DEF s
  <2>3. AtInv'
    <3>1. SUFFICES ASSUME pc' = "op" PROVE AtPlace' /\ at'.value \in DOMAIN Op'.values
      BY DEF AtInv
    <3>2. more /\ jobs' = jobs
      BY <1>6, <3>1
    <3>3. Op' = Op /\ Dev' = Dev /\ \A h, op : Base(h, op)' = Base(h, op)
      BY <1>1, <3>2, BaseStays DEF Op, Dev
    <3>4. PICK p \in Base(Dev, Op) :
            /\ at.addr = p + Op.addr + Op.width * (at.value - 1)
            /\ (p + Op.addr) % Op.width = 0
      BY <1>1 DEF AtPlace
    <3>5. p \in Nat
      BY <3>4, OneBase
    <3>6. \A q, a, k \in Nat : \A len \in Direct :
            q + a + len * (k - 1) + len = q + a + len * ((k + 1) - 1)
      BY DEF Direct
    <3>7. at'.addr = p + Op.addr + Op.width * (at'.value - 1)
      BY <1>1, <1>2, <2>1, <3>4, <3>5, <3>6 DEF OpOK
    <3>8. AtPlace' <=> \E base \in Base(Dev, Op) :
                         /\ at'.addr = base + Op.addr + Op.width * (at'.value - 1)
                         /\ (base + Op.addr) % Op.width = 0
      BY <3>3 DEF AtPlace
    <3>9. at'.value \in DOMAIN Op.values
      <4>1. IsSeq(Op.values)
        <5>1. turn \in DOMAIN groups /\ jobs[1].op \in DOMAIN groups[turn].ops
          BY <1>2, GroupsLength DEF GroupsInv
        <5>2. QED
          BY <5>1 DEF ExecInv, Op
      <4>2. PICK l \in Nat : l = Len(Op.values) /\ DOMAIN Op.values = 1..l
        BY <4>1, LenProperties DEF IsSeq
      <4>3. at.value \in Nat /\ at.value < l
        BY <1>1, <3>2, <4>2
      <4>4. QED
        BY <2>1, <4>2, <4>3
    <3>10. QED
      BY <3>3, <3>4, <3>7, <3>8, <3>9
  <2>4. ASSUME method # "dump" PROVE JobsOK' /\ OrderInv'
    <3>1. /\ \A w \in written' : w \in written \/ w = NewWrite
          /\ JobsOK /\ OrderInv
      BY <1>6, <2>4 DEF FollowInv
    <3>6. \A w \in written' : w.group \in 1..turn /\ w.op \in Nat /\ w.value \in Nat
      <4>1. turn \in 1..turn
        <5>1. turn # 0
          BY <1>2 DEF GroupsInv
        <5>2. QED
          BY <1>2, <5>1
      <4>2. QED
        BY <1>1, <1>2, <2>2, <3>1, <4>1 DEF OrderInv
    <3>7. CASE more
      <4>1. jobs' = jobs /\ pc' = "op"
        BY <1>6, <3>7
      <4>2. ASSUME NEW w \in written', NEW k \in DOMAIN jobs, w.group = turn,
                   w.fn = jobs[k].dev.fn
            PROVE  \/ w.op < jobs[k].op
                   \/ k = 1 /\ w.op = jobs[k].op /\ w.value < at'.value
        <5>1. CASE w \in written
          <6>1. \/ w.op < jobs[k].op
                \/ k = 1 /\ w.op = jobs[k].op /\ w.value < at.value
            BY <3>1, <4>2, <5>1 DEF OrderInv
          <6>2. w.value \in Nat /\ at.value \in Nat
            BY <1>1, <3>6
          <6>3. w.value < at.value => w.value < at'.value
            BY <2>1, <6>2
          <6>4. QED
            BY <6>1, <6>3
        <5>2. CASE w = NewWrite
          <6>1. k = 1 => w.value < at'.value
            <7>1. at.value \in Nat
              BY <1>1
            <7>2. QED
              BY <2>1, <2>2, <5>2, <7>1
          <6>2. k # 1 => jobs[1].op < jobs[k].op
            <7>1. k # 1 => 1 < k
              BY <1>1, LenProperties DEF IsSeq
            <7>2. QED
              BY <1>2, <2>2, <3>1, <4>2, <5>2, <7>1 DEF JobsOK
          <6>3. QED
            BY <2>2, <5>2, <6>1, <6>2
        <5>3. QED
          BY <3>1, <5>1, <5>2
      <4>3. JobsOK' /\ OrderInv'
        BY <1>1, <3>1, <3>6, <4>1, <4>2 DEF JobsOK, OrderInv
      <4>4. QED
        BY <4>3
    <3>8. CASE ~more
      <4>1. jobs' = Tail(jobs) /\ pc' = "exec"
        BY <1>6, <3>8
      <4>2. ASSUME NEW w \in written', NEW k \in DOMAIN jobs', w.group = turn,
                   w.fn = jobs'[k].dev.fn
            PROVE  w.op < jobs'[k].op
        <5>1. /\ k + 1 \in DOMAIN jobs /\ jobs'[k] = jobs[k + 1] /\ k + 1 # 1
              /\ jobs[k + 1].dev.fn = jobs[1].dev.fn => jobs[1].op < jobs[k + 1].op
          BY <1>1, <3>1, <4>1, JobGoes
        <5>2. CASE w \in written
          BY <3>1, <4>2, <5>1, <5>2 DEF OrderInv
        <5>3. CASE w = NewWrite
          BY <2>2, <4>2, <5>1, <5>3
        <5>4. QED
          BY <3>1, <5>2, <5>3
      <4>3. JobsOK'
        BY <1>1, <3>1, <4>1, JobGoes
      <4>4. OrderInv'
        BY <1>1, <3>6, <4>2 DEF OrderInv
      <4>5. QED
        BY <4>3, <4>4
    <3>9. QED
      BY <3>7, <3>8
  <2>5. CASE ~writes
    <3>1. space' = space /\ written' = written
      BY <1>6, <2>5
    <3>2. RegistersFollow'
      BY <1>1, <3>1, FollowStays DEF FollowInv
    <3>3. SpaceOK'
      BY <3>1 DEF FollowInv, SpaceOK, HoldsBytes
    <3>4. QED
      BY <1>1, <1>3, <2>3, <2>4, <3>1, <3>2, <3>3 DEF FollowInv
  <2>6. CASE writes
    <3>1. /\ method # "dump" /\ space' = s /\ written' = written \cup {NewWrite}
          /\ JobsOK /\ OrderInv
      BY <1>6, <2>6 DEF FollowInv
    <3>2. method \in RawMethods
      BY <1>1, <3>1 DEF MethodInv, Methods, RawMethods
    <3>3. ASSUME NEW w \in written, w.fn = Dev.fn
          PROVE  After(NewWrite, w) /\ ~After(w, NewWrite)
      <4>1. /\ w.group \in 1..turn /\ w.op \in Nat /\ w.value \in Nat
            /\ w.group = turn => w.op < jobs[1].op
                                 \/ (w.op = jobs[1].op /\ w.value < at.value)
        BY <1>2, <3>1, <3>3 DEF OrderInv, Dev
      <4>2. w.group = turn \/ w.group < turn
        BY <1>2, <4>1
      <4>3. at.value \in Nat /\ w.group \in Nat
        BY <1>1, <4>1
      <4> HIDE <3>3
      <4>4. QED
        BY <1>2, <2>2, <4>1, <4>2, <4>3 DEF After
    <3>4. /\ RegistersFollow'
          /\ \A fn \in Functions : s[fn] = [x \in Positions |-> s[fn][x]]
          /\ \A fn \in Functions : \A x \in Positions : s[fn][x] \in Byte
      <4>1. Located(Dev.fn)
        BY <1>2, <3>1 DEF JobsOK, Dev
      <4>2. RegistersFollow /\ HoldsBytes
        BY DEF FollowInv, SpaceOK
      <4>3. s = Write(method, Dev.fn, at.addr,
                      Bytes(Written(Op.values[at.value]), Op.width)).space
        BY DEF s
      <4>4. QED
        BY <1>1, <1>2, <3>1, <3>2, <3>3, <4>1, <4>2, <4>3, WriteFollows
    <3>5. SpaceOK'
      BY <3>1, <3>4 DEF SpaceOK, HoldsBytes
    <3>6. QED
      BY <1>1, <1>3, <2>3, <2>4, <3>1, <3>4, <3>5 DEF FollowInv
  <2>7. QED
    BY <2>5, <2>6
<1> HIDE DEF Dies, Goes
<1>7. QED
  BY <1>4, <1>5, <1>6

\* The operations of a command line have widths and numbers of bytes.
IsNumbered(c) == \A k \in DOMAIN c : c[k].kind = "op" => HasNumbers(c[k])

LEMMA EarlyFollows ==
  ASSUME ToldInv, FollowInv,
         ParseOption \/ PciInit \/ ReadDump \/ ParseArg \/ ScanOps
  PROVE  FollowInv'
<1>1. ArgsInv /\ GroupsInv /\ LineInv /\ ExecInv /\ GroupsOK /\ NumbersGiven
  BY DEF ToldInv, SetpciInv, FollowInv
<1>2. /\ pc \in {"options", "dump", "parse"} /\ pc' # "op"
      /\ UNCHANGED <<argv, written, space, jobs, turn>>
      /\ ParseArg \/ UNCHANGED groups
  <2>1. CASE ParseOption
    BY <2>1 DEF ParseOption, unread
  <2>2. CASE PciInit
    BY <2>2 DEF PciInit
  <2>3. CASE ReadDump
    BY <2>3 DEF ReadDump
  <2>4. CASE ParseArg
    <3>1. pc = "parse" /\ UNCHANGED <<argv, written, space, jobs, turn>>
      BY <2>4 DEF ParseArg, unread
    <3>2. pc' \in {pc, "died"}
      BY <2>4, Zenon DEF ParseArg, ParseFilter, ParseOp
    <3>3. QED
      BY <2>4, <3>1, <3>2
  <2>5. CASE ScanOps
    <3>1. pc = "parse"
      BY <1>1, <2>5 DEF ScanOps, ArgsInv
    <3>2. QED
      BY <2>5, <3>1 DEF ScanOps, unread
  <2>6. QED
    BY <2>1, <2>2, <2>3, <2>4, <2>5
<1>3. written = {} /\ jobs = <<>>
  BY <1>1, <1>2 DEF ExecInv, Executing, GroupsInv
<1>4. GroupsOK'
  <2>1. CASE UNCHANGED groups
    BY <1>1, <2>1 DEF GroupsOK
  <2>2. CASE ParseArg
    <3>1. args # <<>> /\ args' = Tail(args) /\ argv' = argv
      BY <2>2 DEF ParseArg
    <3>2. Done \in Nat /\ args[1] = argv[Done + 1] /\ Done < Len(argv)
      BY <1>1, <3>1, ArgTaken
    <3>3. Done + 1 \in DOMAIN argv
      BY <1>1, <3>2, LenProperties DEF ArgsInv, IsSeq
    <3>4. args[1].kind = "op" => IsSeq(args[1].values) /\ HasNumbers(args[1])
      BY <1>1, <3>2, <3>3 DEF NumbersGiven, LineInv, IsCommand
    <3>5. QED
      BY <1>1, <2>2, <3>4, ArgGood
  <2>3. QED
    BY <1>2, <2>1, <2>2
<1>5. QED
  BY <1>2, <1>3, <1>4, QuietFollows

LEMMA FollowKeeps ==
  ASSUME HasLists, ToldInv, FollowInv, [SetpciStep]_setpciAll
  PROVE  FollowInv'
<1>1. GroupsInv /\ DumpInv /\ ExecInv /\ MethodInv
  BY DEF ToldInv, SetpciInv
<1>2. CASE SetpciStep
  BY <1>1, <1>2, EarlyFollows, NextFollows, BeginFollows, ReadFollows, ValueFollows
     DEF SetpciStep
<1>3. CASE UNCHANGED setpciAll
  <2>1. UNCHANGED <<groups, method, tree, machine, space, written, argv, turn, jobs, at, pc>>
    BY <1>3 DEF setpciAll, setpciVars
  <2>2. RegistersFollow'
    BY <2>1, FollowStays DEF FollowInv
  <2>3. NumbersGiven' /\ SpaceOK' /\ GroupsOK' /\ JobsOK' = JobsOK /\ OrderInv' = OrderInv
    BY <2>1 DEF FollowInv, NumbersGiven, SpaceOK, HoldsBytes, GroupsOK, JobsOK, OrderInv
  <2>4. AtInv'
    <3>1. Op' = Op /\ Dev' = Dev /\ \A h, op : Base(h, op)' = Base(h, op)
      BY <2>1, BaseStays DEF Op, Dev
    <3>2. AtPlace' <=> AtPlace
      BY <2>1, <3>1 DEF AtPlace
    <3>3. QED
      BY <2>1, <3>1, <3>2 DEF FollowInv, AtInv
  <2>5. QED
    BY <2>1, <2>2, <2>3, <2>4 DEF FollowInv
<1>4. QED
  BY <1>2, <1>3

LEMMA FollowStarts ==
  ASSUME NEW machines, NEW files, NEW commands, SetpciInit(machines, files, commands),
         \A c \in commands : IsNumbered(c)
  PROVE  FollowInv
<1>1. /\ argv \in commands /\ space = Initial /\ method = "none" /\ written = {}
      /\ groups = <<>> /\ jobs = <<>> /\ pc = "options"
  BY DEF SetpciInit
<1>2. DOMAIN groups = {} /\ DOMAIN jobs = {}
  BY <1>1
<1>3. NumbersGiven /\ GroupsOK /\ AtInv /\ JobsOK /\ OrderInv
  BY <1>1, <1>2 DEF NumbersGiven, IsNumbered, GroupsOK, AtInv, JobsOK, OrderInv
<1>4. SpaceOK
  <2>1. \A fn \in Functions : Initial[fn] \in [Positions -> Byte]
    BY InitialAssumption
  <2>2. QED
    BY <1>1, <2>1 DEF SpaceOK, HoldsBytes
<1>5. RegistersFollow
  <2>1. \A fn, x, b : Demanded(written, fn, x, b) <=> b \in Initial[fn][x]
    BY <1>1, NothingDemanded
  <2>2. QED
    BY <1>1, <2>1, FollowIs
<1>6. QED
  BY <1>1, <1>3, <1>4, <1>5 DEF FollowInv

LEMMA FollowTypeOK ==
  ASSUME ToldInv, FollowInv
  PROVE  SetpciTypeOK
<1>1. /\ method \in Methods \cup {"none"} /\ turn \in 0..Len(groups)
      /\ \A k \in DOMAIN jobs : jobs[k].op \in DOMAIN groups[turn].ops
  BY DEF ToldInv, SetpciInv, MethodInv, GroupsInv
<1>2. pc = "op" /\ Op.values # <<>> => at.value \in DOMAIN Op.values
  BY DEF FollowInv, AtInv
<1>3. \A g \in DOMAIN groups : \A x \in Locations \cup Identities :
        groups[g].filter[x] \in Int
  <2>1. ASSUME NEW f, FilterOK(f), NEW x \in Locations PROVE f[x] \in Int
    <3>1. f[x] \in {ANY} \cup 0..MaxOf[x]
      BY <2>1 DEF FilterOK
    <3>2. \A m, y : y \in {ANY} \cup 0..m => y \in Int
      BY DEF ANY
    <3>3. QED
      BY ONLY <3>1, <3>2
  <2>2. \A f : FilterOK(f) => \A x \in Locations \cup Identities : f[x] \in Int
    BY <2>1 DEF FilterOK
  <2>3. QED
    BY <2>2 DEF FollowInv, GroupsOK
<1>4. \A fn \in Functions : space[fn] \in [Positions -> Byte]
  <2>1. ASSUME NEW fn \in Functions PROVE space[fn] \in [Positions -> Byte]
    <3>1. PICK r : r = space[fn]
      OBVIOUS
    <3>2. r = [x \in Positions |-> r[x]] /\ \A x \in Positions : r[x] \in Byte
      BY <3>1 DEF FollowInv, SpaceOK, HoldsBytes
    <3>3. r \in [Positions -> Byte]
      BY ONLY <3>2
    <3>4. QED
      BY <3>1, <3>3
  <2>2. QED
    BY <2>1
<1>5. QED
  BY <1>1, <1>2, <1>3, <1>4 DEF SetpciTypeOK

\* For any machines, devices, registers, dumps and command lines, except that an
\* operation has one of the widths: at any time every bit of every register is
\* what the last of the values written to it demands, in the order of groups,
\* operations and values, of those whose mask covers it, or what it was at the
\* beginning; also where operations overlap, and whatever the method does not
\* give access to.
THEOREM RegistersAreAsTold ==
  ASSUME NEW machines, NEW files, NEW commands, HasLists,
         \A f \in files : IsFile(f),
         \A c \in commands : IsCommand(c) /\ IsNumbered(c)
  PROVE  SetpciSpec(machines, files, commands) => []RegistersFollowOps
<1>1. SetpciInit(machines, files, commands) => ToldInv /\ FollowInv
  BY ToldStarts, FollowStarts
<1>2. ToldInv /\ FollowInv /\ [SetpciStep]_setpciAll => (ToldInv /\ FollowInv)'
  BY ToldKeeps, FollowKeeps
<1>3. ToldInv /\ FollowInv => RegistersFollowOps
  BY FollowTypeOK DEF RegistersFollowOps, FollowInv
<1>4. QED
  BY <1>1, <1>2, <1>3, PTL DEF SetpciSpec, setpciAll

=============================================================================
