------------------------------ MODULE NameList ------------------------------
(***************************************************************************)
(* The list of identifiers (pci.ids) and the names made from it: the       *)
(* parser of lib/names-parse.c, line by line, and pci_lookup_name() of     *)
(* lib/names.c with the list as its only source; Names has the others.     *)
(*                                                                         *)
(* A line is [nest, words]: its leading tabulators and what follows; blank *)
(* lines and comments have no words.                                       *)
(***************************************************************************)
EXTENDS Integers, Sequences, FiniteSets

CONSTANTS
  Hex,         \* word -> [digits, value]; no digits for a word that is no number
  Sessions     \* [file, questions]: the lines of the file, and what is asked for:
               \* [type, ids, flags, numeric], flags among "NUMERIC", "NO_NUMBERS"
               \* and "MIXED", numeric the value of a->numeric_ids

VARIABLES
  list,        \* the lines of the file
  questions,   \* what may be asked for
  listing,     \* "off", "idle", "reading", "answer", or "quit" after an error
  lino,        \* lines read
  cat, id,     \* id_parse_list(): the category and id1 to id4
  entries,     \* a->id_hash, empty as long as there is none
  error,       \* what a->error() was called with, "" if it was not
  question,    \* [type, ids, flags]
  reply        \* what pci_lookup_name() returned last, NoReply for NULL

listVars == <<list, questions, listing, lino, cat, id, entries, error, question, reply>>

TooLong == "1024 characters"   \* a line of more than MAX_LINE
Zero == <<0, 0, 0, 0>>
NoName == <<"">>                \* no word is empty
NoReply == [names |-> <<>>, word |-> "NULL", nums |-> <<>>]
NoQuestion == [type |-> "none", ids |-> <<>>, flags |-> {}]

\* A capital that begins a block is not a number of four digits, and what is asked
\* for has as many numbers as its type.
ASSUME ListAssumption ==
  /\ "" \notin DOMAIN Hex /\ TooLong \notin DOMAIN Hex
  /\ \A w \in {"A", "B", "C", "S"} \cap DOMAIN Hex : Hex[w].digits # 4
  /\ \A s \in Sessions :
       /\ s.file \in Seq([nest : Nat, words : Seq(DOMAIN Hex \cup {TooLong})])
       /\ \A q \in s.questions :
            /\ q.ids \in Seq(Nat)
            /\ \/ /\ q.type \in {"VENDOR", "SUBSYSTEM VENDOR", "CLASS"}
                  /\ Len(q.ids) = 1
               \/ /\ q.type \in {"DEVICE", "VENDOR DEVICE", "PROGIF"}
                  /\ Len(q.ids) = 2
               \/ /\ q.type \in {"SUBSYSTEM DEVICE", "SUBSYSTEM VENDOR DEVICE"}
                  /\ Len(q.ids) = 4

ListInit ==
  /\ list = <<>> /\ questions = {} /\ listing = "off" /\ lino = 0 /\ cat = "none" /\ id = Zero
  /\ entries = {} /\ error = "" /\ question = NoQuestion /\ reply = NoReply

StartList ==
  /\ listing = "off" /\ listing' = "idle"
  /\ \E s \in Sessions : list' = s.file /\ questions' = s.questions
  /\ UNCHANGED <<lino, cat, id, entries, error, question, reply>>

----------------------------------------------------------------------------
(***************************************************************************)
(* id_parse_list()                                                         *)
(***************************************************************************)
Key(c, ids) == [cat |-> c, ids |-> ids]
InList(key) == \E e \in entries : e.key = key

Line == list[lino + 1]
Reading == listing = "reading" /\ lino < Len(list)

\* id_hex() and id_white_p(): n numbers of d digits from the i-th word on.
HasNumbers(i, n, d) ==
  \A k \in i..i + n - 1 : k <= Len(Line.words) /\ Hex[Line.words[k]].digits = d
Number(i) == Hex[Line.words[i]].value

\* a->error() writes its message and quits.
Stop(what) ==
  /\ error' = what /\ listing' = "quit"
  /\ UNCHANGED <<cat, id, entries>>

GoOn == UNCHANGED <<error, listing>>

\* The end of a round: the name is what follows n words.
Add(c, ids, n) ==
  LET name == SubSeq(Line.words, n + 1, Len(Line.words))
  IN IF name = <<>> THEN Stop("Parse error")
     ELSE IF InList(Key(c, ids)) THEN Stop("Duplicate entry")
     ELSE /\ entries' = entries \cup {[key |-> Key(c, ids), name |-> name]}
          /\ cat' = c /\ id' = ids
          /\ GoOn

SkipLine ==
  /\ Reading /\ Line.words = <<>>
  /\ UNCHANGED <<cat, id, entries>> /\ GoOn

LongLine ==
  /\ Reading /\ Line.words = <<TooLong>>
  /\ Stop("Line too long")

\* A line that has something to say, on level n.
OnLevel(n) == Reading /\ Line.words \notin {<<>>, <<TooLong>>} /\ Line.nest = n

Blocks == {"A", "B", "C", "S"}  \* one capital
Block(heads) == Len(Line.words) > 1 /\ Line.words[1] \in heads

ClassBlock ==
  /\ OnLevel(0) /\ Block({"C"})
  /\ IF HasNumbers(2, 1, 2) THEN Add("CLASS", <<Number(2), 0, 0, 0>>, 2)
     ELSE Stop("Parse error")

\* The other identifiers are set before they are used.
GenericBlock ==
  /\ OnLevel(0) /\ Block({"S"})
  /\ IF Len(Line.words) # 2 \/ ~HasNumbers(2, 1, 4) THEN Stop("Parse error")
     ELSE IF ~InList(Key("VENDOR", <<Number(2), 0, 0, 0>>))
     THEN Stop("Vendor does not exist")
     ELSE /\ cat' = "GEN_SUBSYSTEM" /\ id' = [id EXCEPT ![1] = Number(2)]
          /\ UNCHANGED entries /\ GoOn

UnknownBlock ==
  /\ OnLevel(0) /\ Block(Blocks \ {"C", "S"})
  /\ cat' = "UNKNOWN" /\ UNCHANGED <<id, entries>> /\ GoOn

VendorLine ==
  /\ OnLevel(0) /\ ~Block(Blocks)
  /\ IF HasNumbers(1, 1, 4) THEN Add("VENDOR", <<Number(1), 0, 0, 0>>, 1)
     ELSE Stop("Parse error")

SkipNested ==
  /\ Reading /\ Line.words \notin {<<>>, <<TooLong>>} /\ Line.nest > 0
  /\ cat = "UNKNOWN"
  /\ UNCHANGED <<cat, id, entries>> /\ GoOn

Vendors == {"VENDOR", "DEVICE", "SUBSYSTEM"}
Classes == {"CLASS", "SUBCLASS", "PROGIF"}

\* A fault: a device after a subsystem is taken for another subsystem.
FirstLevelSticky ==
  CASE cat \in {"VENDOR", "DEVICE"} -> [cat |-> "DEVICE", digits |-> 4]
    [] cat \in {"SUBSYSTEM", "GEN_SUBSYSTEM"} -> [cat |-> cat, digits |-> 4]
    [] cat \in Classes -> [cat |-> "SUBCLASS", digits |-> 2]
    [] OTHER -> [cat |-> "none", digits |-> 0]

\* What a line on level 1 is, after one of category cat.
FirstLevel ==
  CASE cat \in Vendors -> [cat |-> "DEVICE", digits |-> 4]
    [] cat = "GEN_SUBSYSTEM" -> [cat |-> cat, digits |-> 4]
    [] cat \in Classes -> [cat |-> "SUBCLASS", digits |-> 2]
    [] OTHER -> [cat |-> "none", digits |-> 0]

FirstLevelLine ==
  /\ OnLevel(1) /\ cat # "UNKNOWN"
  /\ IF FirstLevel.cat # "none" /\ HasNumbers(1, 1, FirstLevel.digits)
     THEN Add(FirstLevel.cat, <<id[1], Number(1), 0, 0>>, 1)
     ELSE Stop("Parse error")

\* A class need not have a subclass for an interface to follow: id2 is 0 then.
SecondLevelLine ==
  /\ OnLevel(2) /\ cat # "UNKNOWN"
  /\ IF cat \in {"DEVICE", "SUBSYSTEM"} /\ HasNumbers(1, 2, 4)
     THEN Add("SUBSYSTEM", <<id[1], id[2], Number(1), Number(2)>>, 2)
     ELSE IF cat \in Classes /\ HasNumbers(1, 1, 2)
     THEN Add("PROGIF", <<id[1], id[2], Number(1), 0>>, 1)
     ELSE Stop("Parse error")

DeeperLine ==
  /\ Reading /\ Line.words \notin {<<>>, <<TooLong>>} /\ Line.nest > 2
  /\ cat # "UNKNOWN"
  /\ Stop("Parse error")

ReadLine ==
  /\ \/ SkipLine \/ LongLine \/ ClassBlock \/ GenericBlock \/ UnknownBlock
     \/ VendorLine \/ SkipNested \/ FirstLevelLine \/ SecondLevelLine \/ DeeperLine
  /\ lino' = lino + 1
  /\ UNCHANGED <<list, questions, question, reply>>

EndOfList ==
  /\ listing = "reading" /\ lino = Len(list)
  /\ listing' = "answer"
  /\ UNCHANGED <<list, questions, lino, cat, id, entries, error, question, reply>>

----------------------------------------------------------------------------
(***************************************************************************)
(* pci_lookup_name()                                                       *)
(***************************************************************************)
\* The flags after a->numeric_ids has been added.
Effective(flags, numeric) ==
  LET all == IF "NO_NUMBERS" \in flags \/ numeric = 0 THEN flags
             ELSE flags \cup {IF numeric > 1 THEN "MIXED" ELSE "NUMERIC"}
  IN IF "MIXED" \in all THEN all \ {"NUMERIC"} ELSE all

\* A call.  The file is read as long as there is no entry, for names only.
Ask ==
  /\ listing = "idle"
  /\ \E q \in questions :
       question' = [type |-> q.type, ids |-> q.ids, flags |-> Effective(q.flags, q.numeric)]
  /\ IF entries = {} /\ "NUMERIC" \notin question'.flags
     THEN /\ listing' = "reading" /\ lino' = 0
          /\ cat' = "none" /\ id' = Zero /\ error' = ""
     ELSE /\ listing' = "answer" /\ UNCHANGED <<lino, cat, id, error>>
  /\ reply' = NoReply
  /\ UNCHANGED <<list, questions, entries>>

\* id_lookup(): the name of an entry, NoName for NULL.
Lookup(c, ids) ==
  IF InList(Key(c, ids)) THEN (CHOOSE e \in entries : e.key = Key(c, ids)).name
  ELSE NoName

\* The first of two that is not NULL.
Else(name, other) == IF name # NoName THEN name ELSE other

\* A fault: the name any such subsystem has goes before that of this device's.
SubsysNameGeneric(iv, dev, isv, isd) ==
  LET own == IF iv > 0 /\ dev > 0 THEN Lookup("SUBSYSTEM", <<iv, dev, isv, isd>>)
             ELSE NoName
      same == IF iv = isv /\ dev = isd THEN Lookup("DEVICE", <<iv, dev, 0, 0>>)
              ELSE NoName
  IN Else(Else(Lookup("GEN_SUBSYSTEM", <<isv, isd, 0, 0>>), own), same)

\* id_lookup_subsys()
SubsysName(iv, dev, isv, isd) ==
  LET own == IF iv > 0 /\ dev > 0 THEN Lookup("SUBSYSTEM", <<iv, dev, isv, isd>>)
             ELSE NoName
      same == IF iv = isv /\ dev = isd THEN Lookup("DEVICE", <<iv, dev, 0, 0>>)
              ELSE NoName
  IN Else(Else(own, Lookup("GEN_SUBSYSTEM", <<isv, isd, 0, 0>>)), same)

\* The modes of an IDE controller, for an interface without a name.
Bit(x, b) == (x \div b) % 2 = 1
Modes == <<[bit |-> 128, name |-> "Master"], [bit |-> 8, name |-> "SecP"],
           [bit |-> 4, name |-> "SecO"], [bit |-> 2, name |-> "PriP"],
           [bit |-> 1, name |-> "PriO"]>>
IdeModes(pif) ==
  LET On(m) == Bit(pif, m.bit)
      on == SelectSeq(Modes, On)
  IN [i \in 1..Len(on) |-> on[i].name]

\* format_name()
FormatName(flags, name, num, unknown) ==
  IF "NO_NUMBERS" \in flags /\ name = NoName THEN NoReply
  ELSE IF "NUMERIC" \in flags THEN [names |-> <<>>, word |-> "", nums |-> <<num>>]
  ELSE IF name = NoName THEN [names |-> <<>>, word |-> unknown, nums |-> <<num>>]
  ELSE [names |-> <<name>>, word |-> "",
        nums |-> IF "MIXED" \in flags THEN <<num>> ELSE <<>>]

\* format_name_pair()
FormatPair(flags, v, d, nums) ==
  IF "NO_NUMBERS" \in flags /\ NoName \in {v, d} THEN NoReply
  ELSE IF "NUMERIC" \in flags THEN [names |-> <<>>, word |-> "", nums |-> nums]
  ELSE IF NoName \notin {v, d}
  THEN [names |-> <<v, d>>, word |-> "", nums |-> IF "MIXED" \in flags THEN nums ELSE <<>>]
  ELSE IF v = NoName THEN [names |-> <<>>, word |-> "Device", nums |-> nums]
  ELSE [names |-> <<v>>, word |-> "Device",
        nums |-> IF "MIXED" \in flags THEN nums ELSE <<nums[2]>>]

\* A fault: the name of a class stands for any of its subclasses.
ClassReplyBare(flags, class) ==
  LET sub == Lookup("SUBCLASS", <<class \div 256, class % 256, 0, 0>>)
      base == Lookup("CLASS", <<class \div 256, 0, 0, 0>>)
  IN FormatName(flags, Else(sub, base), class, "Class")

\* PCI_LOOKUP_CLASS: with the name of a class goes the full number.
ClassReply(flags, class) ==
  LET sub == Lookup("SUBCLASS", <<class \div 256, class % 256, 0, 0>>)
      base == Lookup("CLASS", <<class \div 256, 0, 0, 0>>)
      more == IF sub = NoName /\ base # NoName /\ "NUMERIC" \notin flags
              THEN {"MIXED"} ELSE {}
  IN FormatName(flags \cup more, Else(sub, base), class, "Class")

\* PCI_LOOKUP_PROGIF
ProgIfReply(flags, class, pif) ==
  LET known == Lookup("PROGIF", <<class \div 256, class % 256, pif, 0>>)
      ide == class = 257 /\ (pif \div 16) % 8 = 0
  IN FormatName(flags, IF known = NoName /\ ide THEN IdeModes(pif) ELSE known,
                pif, "ProgIf")

\* What a question of each type gives.
Reply(type, x, flags) ==
  CASE type = "VENDOR" ->
         FormatName(flags, Lookup("VENDOR", <<x[1], 0, 0, 0>>), x[1], "Vendor")
    [] type = "DEVICE" ->
         FormatName(flags, Lookup("DEVICE", <<x[1], x[2], 0, 0>>), x[2], "Device")
    [] type = "VENDOR DEVICE" ->
         FormatPair(flags, Lookup("VENDOR", <<x[1], 0, 0, 0>>),
                    Lookup("DEVICE", <<x[1], x[2], 0, 0>>), x)
    [] type = "SUBSYSTEM VENDOR" ->
         FormatName(flags, Lookup("VENDOR", <<x[1], 0, 0, 0>>), x[1], "Unknown vendor")
    [] type = "SUBSYSTEM DEVICE" ->
         FormatName(flags, SubsysName(x[1], x[2], x[3], x[4]), x[4], "Device")
    [] type = "SUBSYSTEM VENDOR DEVICE" ->
         FormatPair(flags, Lookup("VENDOR", <<x[3], 0, 0, 0>>),
                    SubsysName(x[1], x[2], x[3], x[4]), <<x[3], x[4]>>)
    [] type = "CLASS" -> ClassReply(flags, x[1])
    [] type = "PROGIF" -> ProgIfReply(flags, x[1], x[2])

Answer ==
  /\ listing = "answer" /\ listing' = "idle"
  /\ reply' = Reply(question.type, question.ids, question.flags)
  /\ UNCHANGED <<list, questions, lino, cat, id, entries, error, question>>

ListNext == StartList \/ ReadLine \/ EndOfList \/ Ask \/ Answer

----------------------------------------------------------------------------
\* Lines that matter: no comments.
Said(i) == list[i].words # <<>>
\* The nearest line above i on a level, 0 for none.
Over(i, n) ==
  LET above == {j \in 1..i - 1 : Said(j) /\ list[j].nest = n}
  IN IF above = {} THEN 0 ELSE CHOOSE j \in above : \A k \in above : k <= j
\* The block a line is in, and the first-level line of the block it is below.
BlockOf(i) == IF list[i].nest = 0 THEN i ELSE Over(i, 0)
Parent(i) == IF Over(i, 1) > BlockOf(i) THEN Over(i, 1) ELSE 0
BlockHead(i) == list[BlockOf(i)].words[1]
Num(i, k) == Hex[list[i].words[k]].value

\* What the line means by where it stands: an entry of the list, or nothing.
Nothing == [key |-> Key("none", Zero), name |-> <<>>]
Meaning(i) ==
  LET n == list[i].nest
      b == BlockOf(i)
      Rest(k) == SubSeq(list[i].words, k + 1, Len(list[i].words))
      Gives(c, ids, k) == [key |-> Key(c, ids), name |-> Rest(k)]
  IN IF BlockHead(i) \in {"A", "B"} \/ (BlockHead(i) = "S" /\ n = 0) THEN Nothing
     ELSE IF BlockHead(i) = "S" THEN Gives("GEN_SUBSYSTEM", <<Num(b, 2), Num(i, 1), 0, 0>>, 1)
     ELSE IF BlockHead(i) = "C"
     THEN CASE n = 0 -> Gives("CLASS", <<Num(b, 2), 0, 0, 0>>, 2)
            [] n = 1 -> Gives("SUBCLASS", <<Num(b, 2), Num(i, 1), 0, 0>>, 1)
            [] n = 2 -> Gives("PROGIF",
                 <<Num(b, 2), IF Parent(i) = 0 THEN 0 ELSE Num(Parent(i), 1), Num(i, 1), 0>>, 1)
     ELSE CASE n = 0 -> Gives("VENDOR", <<Num(b, 1), 0, 0, 0>>, 1)
            [] n = 1 -> Gives("DEVICE", <<Num(b, 1), Num(i, 1), 0, 0>>, 1)
            [] n = 2 -> Gives("SUBSYSTEM",
                 <<Num(b, 1), Num(Parent(i), 1), Num(i, 1), Num(i, 2)>>, 2)

\* Lines that have been read without an error.
Taken == {i \in 1..lino : Said(i) /\ (i = lino => error = "")}

\* The hash has, of each line that was read, the identifiers its place below
\* other lines gives it and its own name, nothing else, and none of them twice.
EntriesAsListed ==
  LET meant == {i \in Taken : Meaning(i) # Nothing}
  IN /\ entries = {Meaning(i) : i \in meant}
     /\ \A i, j \in meant : Meaning(i).key = Meaning(j).key => i = j
     /\ error = "Duplicate entry" =>
          \E i \in meant : Meaning(i).key = Meaning(lino).key

\* The entries whose name may stand for the n-th number of an answer, the best
\* ones first.
NamesFor(q, n) ==
  LET x == q.ids
      subsys == (IF x[1] > 0 /\ x[2] > 0 THEN <<Key("SUBSYSTEM", x)>> ELSE <<>>)
                \o <<Key("GEN_SUBSYSTEM", <<x[3], x[4], 0, 0>>)>>
                \o (IF x[1] = x[3] /\ x[2] = x[4]
                    THEN <<Key("DEVICE", <<x[1], x[2], 0, 0>>)>> ELSE <<>>)
  IN CASE q.type \in {"VENDOR", "SUBSYSTEM VENDOR"} -> <<Key("VENDOR", <<x[1], 0, 0, 0>>)>>
       [] q.type = "VENDOR DEVICE" /\ n = 1 -> <<Key("VENDOR", <<x[1], 0, 0, 0>>)>>
       [] q.type = "DEVICE" \/ (q.type = "VENDOR DEVICE" /\ n # 1) ->
            <<Key("DEVICE", <<x[1], x[2], 0, 0>>)>>
       [] q.type = "SUBSYSTEM VENDOR DEVICE" /\ n = 1 -> <<Key("VENDOR", <<x[3], 0, 0, 0>>)>>
       [] q.type = "SUBSYSTEM DEVICE"
            \/ (q.type = "SUBSYSTEM VENDOR DEVICE" /\ n # 1) -> subsys
       [] q.type = "CLASS" -> <<Key("SUBCLASS", <<x[1] \div 256, x[1] % 256, 0, 0>>)>>
       [] q.type = "PROGIF" ->
            <<Key("PROGIF", <<x[1] \div 256, x[1] % 256, x[2], 0>>)>>

\* The numbers a question is about.
NumbersOf(q) ==
  CASE q.type \in {"VENDOR", "SUBSYSTEM VENDOR", "CLASS"} -> <<q.ids[1]>>
    [] q.type \in {"DEVICE", "PROGIF"} -> <<q.ids[2]>>
    [] q.type = "VENDOR DEVICE" -> q.ids
    [] q.type = "SUBSYSTEM DEVICE" -> <<q.ids[4]>>
    [] q.type = "SUBSYSTEM VENDOR DEVICE" -> <<q.ids[3], q.ids[4]>>

\* The name of the best entry for the n-th number.
BestName(q, n) ==
  LET keys == NamesFor(q, n)
      at == {i \in 1..Len(keys) : InList(keys[i])}
  IN IF at = {} THEN NoName
     ELSE (CHOOSE e \in entries :
             e.key = keys[CHOOSE i \in at : \A j \in at : i <= j]).name

\* An answer tells what was asked for: of each number the number itself or the
\* name the list has for exactly that identity.  IDE interfaces are named by
\* their modes.
AnswerIdentifies ==
  listing = "idle" /\ reply # NoReply =>
    \A n \in 1..Len(NumbersOf(question)) :
      \/ NumbersOf(question)[n] \in {reply.nums[i] : i \in 1..Len(reply.nums)}
      \/ n <= Len(reply.names) /\ reply.names[n] = BestName(question, n)
      \/ question.type = "PROGIF" /\ question.ids[1] = 257
           /\ reply.names = <<IdeModes(question.ids[2])>>

\* Where the list has names for all of it and more than numbers are asked for,
\* they are given.
AnswerNames ==
  /\ listing = "idle" /\ question # NoQuestion /\ "NUMERIC" \notin question.flags
  /\ \A n \in 1..Len(NumbersOf(question)) : BestName(question, n) # NoName
  => reply.names = [n \in 1..Len(NumbersOf(question)) |-> BestName(question, n)]

\* What a client is told of an identity is what the lines of the list say of it.
NamesRight == EntriesAsListed /\ AnswerIdentifies /\ AnswerNames
============================================================================
