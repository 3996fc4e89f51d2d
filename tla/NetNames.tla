------------------------------ MODULE NetNames ------------------------------
(***************************************************************************)
(* pci_id_net_lookup() (lib/names-net.c): the name that stands for an      *)
(* identifier in the DNS, the walk over the packet that comes back, which  *)
(* finds where its four sections begin, and the second walk over the       *)
(* answers for the first text that begins with "i=".                       *)
(*                                                                         *)
(* Positions count from 0; the byte at p is bytes[p + 1].                  *)
(***************************************************************************)
EXTENDS Integers, Sequences, SequencesExt

CONSTANTS
  Subjects,    \* [cat, ids]: identifiers that are looked up
  Replies      \* [counts, records, length, good]: packets.  counts are the numbers
               \* of records of the sections, records what there is of them, in
               \* order: [name, type, class, texts, spare], name in bytes, spare
               \* what follows the texts and is less than one; of the bytes of
               \* the packet, length are received; good says that no record is
               \* missing and no name has a length of more than 63

VARIABLES
  dns,         \* "idle", "ask", "records", "answers", "texts" or "done"
  subject,     \* one of Subjects
  sent,        \* one of Replies
  bytes,       \* answer[]
  section,     \* the section the first walk is in
  expected,    \* records of it that are still to come
  pos,         \* p; in the second walk sec_ptr
  starts,      \* sections[]
  record,      \* [pos, len] of rr_data, and [first] where its record begins
  textAt,      \* j: where the next text of it is
  answered     \* what is returned, NotFound for NULL

netVars == <<dns, subject, sent, bytes, section, expected, pos, starts, record,
             textAt, answered>>

NotFound == <<0>>
Malformed == -1
NoSubject == [cat |-> "none", ids |-> <<0, 0, 0, 0>>]
NothingSent == [counts |-> <<0, 0, 0, 0>>, records |-> <<>>, length |-> 0, good |-> FALSE]
NoRecord == [first |-> 0, pos |-> 0, len |-> 0]
TXT == 16
IN_ == 1          \* ns_c_in

\* A label: that many hexadecimal digits, or a letter.
Number4(x) == <<4, x>>
Number2(x) == <<2, x>>
Letter(c) == <<1, c>>
LetterC == 12
LetterS == 28

\* A fault: the letter that tells subsystems from devices is left out.
QueryNamePlain(s) ==
  CASE s.cat = "VENDOR" -> <<Number4(s.ids[1])>>
    [] s.cat \in {"DEVICE", "GEN_SUBSYSTEM"} -> <<Number4(s.ids[2]), Number4(s.ids[1])>>
    [] s.cat = "SUBSYSTEM" ->
         <<Number4(s.ids[4]), Number4(s.ids[3]), Number4(s.ids[2]), Number4(s.ids[1])>>
    [] s.cat = "CLASS" -> <<Number2(s.ids[1]), Letter(LetterC)>>
    [] s.cat = "SUBCLASS" -> <<Number2(s.ids[2]), Number2(s.ids[1]), Letter(LetterC)>>
    [] s.cat = "PROGIF" ->
         <<Number2(s.ids[3]), Number2(s.ids[2]), Number2(s.ids[1]), Letter(LetterC)>>

\* The labels below net.domain that are asked for.
QueryName(s) ==
  CASE s.cat = "VENDOR" -> <<Number4(s.ids[1])>>
    [] s.cat = "DEVICE" -> <<Number4(s.ids[2]), Number4(s.ids[1])>>
    [] s.cat = "SUBSYSTEM" ->
         <<Number4(s.ids[4]), Number4(s.ids[3]), Number4(s.ids[2]), Number4(s.ids[1])>>
    [] s.cat = "GEN_SUBSYSTEM" ->
         <<Number4(s.ids[2]), Number4(s.ids[1]), Letter(LetterS)>>
    [] s.cat = "CLASS" -> <<Number2(s.ids[1]), Letter(LetterC)>>
    [] s.cat = "SUBCLASS" -> <<Number2(s.ids[2]), Number2(s.ids[1]), Letter(LetterC)>>
    [] s.cat = "PROGIF" ->
         <<Number2(s.ids[3]), Number2(s.ids[2]), Number2(s.ids[1]), Letter(LetterC)>>

\* How many of the four numbers a kind of identifier has.
Used(cat) ==
  CASE cat \in {"VENDOR", "CLASS"} -> 1
    [] cat \in {"DEVICE", "GEN_SUBSYSTEM", "SUBCLASS"} -> 2
    [] cat = "PROGIF" -> 3
    [] cat = "SUBSYSTEM" -> 4

ASSUME SubjectAssumption ==
  /\ Subjects \subseteq [cat : {"VENDOR", "DEVICE", "SUBSYSTEM", "GEN_SUBSYSTEM",
                               "CLASS", "SUBCLASS", "PROGIF"},
                         ids : [1..4 -> Nat]]
  /\ \A s \in Subjects, i \in 1..4 : i > Used(s.cat) => s.ids[i] = 0

\* The layout of a packet.
Wide16(x) == <<x \div 256, x % 256>>
DataOfRecord(r) == FlattenSeq([i \in 1..Len(r.texts) |-> <<Len(r.texts[i])>> \o r.texts[i]])
                   \o r.spare
RecordBytes(r, isQuestion) ==
  r.name \o Wide16(r.type) \o Wide16(r.class)
    \o (IF isQuestion THEN <<>>
        ELSE <<0, 0, 0, 0>> \o Wide16(Len(DataOfRecord(r))) \o DataOfRecord(r))
WholePacket(m) ==
  <<0, 0, 0, 0>> \o FlattenSeq([i \in 1..4 |-> Wide16(m.counts[i])])
    \o FlattenSeq([i \in 1..Len(m.records) |->
                     RecordBytes(m.records[i], i <= m.counts[1])])
PacketBytes(m) ==
  IF m.length >= Len(WholePacket(m)) THEN WholePacket(m)
  ELSE SubSeq(WholePacket(m), 1, m.length)

ASSUME ReplyAssumption == \A m \in Replies : PacketBytes(m) \in Seq(0..255)

NetInit ==
  /\ dns = "idle" /\ subject = NoSubject /\ sent = NothingSent /\ bytes = <<>>
  /\ section = 1 /\ expected = 0 /\ pos = 0 /\ starts = <<>>
  /\ record = NoRecord /\ textAt = 0 /\ answered = NotFound

\* Without net.domain nobody is asked.
NetLookup ==
  /\ dns = "idle"
  /\ subject' \in Subjects
  /\ dns' \in {"ask", "done"}
  /\ UNCHANGED <<sent, bytes, section, expected, pos, starts, record, textAt, answered>>

\* GET16 and GET32: n bytes from p on that end before the end.
Have(p, n, end) == p + n <= end
Get16(p) == bytes[p + 1] * 256 + bytes[p + 2]

\* res_query(), and the header of the packet.
Query ==
  /\ dns = "ask"
  /\ \/ dns' = "done" /\ UNCHANGED <<sent, bytes, section, expected, pos, starts>>
     \/ /\ sent' \in Replies
        /\ bytes' = PacketBytes(sent')
        /\ IF Have(0, 12, Len(bytes'))
           THEN /\ dns' = "records" /\ section' = 1 /\ pos' = 12 /\ starts' = <<12>>
                /\ expected' = bytes'[5] * 256 + bytes'[6]
           ELSE dns' = "done" /\ UNCHANGED <<section, expected, pos, starts>>
  /\ subject' = NoSubject                \* it is not needed any more
  /\ UNCHANGED <<record, textAt, answered>>

\* dns_skip_name(): the position behind the name at p, all of which lies before
\* the end.
SkipName(p, end) ==
  LET skip[rest \in 0..end] ==          \* with so many bytes before the end
        LET at == end - rest
            x == bytes[at + 1]
        IN IF rest = 0 THEN Malformed
           ELSE IF x = 0 THEN at + 1
           ELSE IF x < 64 THEN IF x + 1 < rest THEN skip[rest - x - 1] ELSE Malformed
           ELSE IF x >= 192 /\ rest > 2 THEN at + 2 ELSE Malformed
  IN IF p < end THEN skip[end - p] ELSE Malformed

Give(x) == dns' = "done" /\ answered' = x

\* What stands behind the name of a record: type, class, and in answers the time
\* to live and the length of data, and the data.
FixedLen == IF section = 1 THEN 4 ELSE 10
Behind(p) == p + FixedLen + (IF section = 1 THEN 0 ELSE Get16(p + 8))

\* A fault: the data may be longer than the packet.
RecordFitsHead(p) == p # Malformed /\ Have(p, FixedLen, Len(bytes))

RecordFits(p) ==
  p # Malformed /\ Have(p, FixedLen, Len(bytes)) /\ Behind(p) <= Len(bytes)

\* One record in dns_parse_packet().
SkipRecord ==
  /\ dns = "records" /\ expected > 0
  /\ LET p == SkipName(pos, Len(bytes))
     IN IF RecordFits(p)
        THEN pos' = Behind(p) /\ expected' = expected - 1 /\ UNCHANGED <<dns, answered>>
        ELSE Give(NotFound) /\ UNCHANGED <<expected, pos>>
  /\ UNCHANGED <<subject, sent, bytes, section, starts, record, textAt>>

\* The end of a section; that of the last one is the end of the first walk.
EndOfSection ==
  /\ dns = "records" /\ expected = 0
  /\ starts' = Append(starts, pos)
  /\ IF section < 4
     THEN /\ section' = section + 1 /\ expected' = Get16(4 + 2 * section)
          /\ UNCHANGED <<dns, pos>>
     ELSE /\ dns' = "answers" /\ pos' = starts[2]
          /\ UNCHANGED <<section, expected>>
  /\ UNCHANGED <<subject, sent, bytes, record, textAt, answered>>

\* A fault: the other sections count as answers.
AnswersEndLast == starts[5]

AnswersEnd == starts[3]

\* dns_parse_rr() in the answers.
ReadRecord ==
  /\ dns = "answers"
  /\ LET end == AnswersEnd
         p == SkipName(pos, end)
     IN IF pos = end \/ p = Malformed \/ ~Have(p, 10, end)
        THEN Give(NotFound) /\ UNCHANGED <<pos, record, textAt>>
        ELSE /\ record' = [first |-> pos, pos |-> p + 10, len |-> Get16(p + 8)]
             /\ pos' = p + 10 + Get16(p + 8)
             /\ textAt' = 0
             /\ dns' = IF Get16(p + 2) = IN_ /\ Get16(p) = TXT THEN "texts" ELSE "answers"
             /\ UNCHANGED answered
  /\ UNCHANGED <<subject, sent, bytes, section, expected, starts>>

\* One string of a record.
ReadText ==
  /\ dns = "texts"
  /\ LET size == bytes[record.pos + textAt + 1]
         at == record.pos + textAt + 2
     IN IF textAt >= record.len
        THEN dns' = "answers" /\ UNCHANGED <<textAt, answered>>
        ELSE IF textAt + 1 + size > record.len
        THEN dns' = "answers" /\ UNCHANGED <<textAt, answered>>
        ELSE /\ textAt' = textAt + 1 + size
             /\ LET found == SubSeq(bytes, at, at + size - 1)
                IN IF size >= 2 /\ SubSeq(found, 1, 2) = <<105, 61>>     \* "i="
                   THEN Give(SubSeq(found, 3, size))
                   ELSE UNCHANGED <<dns, answered>>
  /\ UNCHANGED <<subject, sent, bytes, section, expected, pos, starts, record>>

NetNext == NetLookup \/ Query \/ SkipRecord \/ EndOfSection \/ ReadRecord \/ ReadText

NetSpec == NetInit /\ [][NetNext]_netVars

----------------------------------------------------------------------------
\* The question identifies what is asked for: no other identifier has it.
QuestionIsIdentity ==
  dns = "ask" => \A s \in Subjects : QueryName(s) = QueryName(subject) => s = subject

\* Every position is one of the packet; the second walk finds records only where
\* the first one did, which has gone over all the packet announces.
WalkInside ==
  /\ pos <= Len(bytes)
  /\ \A i \in 1..Len(starts) : starts[i] <= Len(bytes) /\ (i > 1 => starts[i - 1] <= starts[i])
  /\ dns \in {"answers", "texts"} =>
       starts[2] <= pos /\ pos <= starts[3]
  /\ dns = "texts" =>
       starts[2] <= record.first /\ record.pos + record.len = pos
       /\ textAt <= record.len

\* The texts of the answers of a packet, in order: those of TXT records for the
\* Internet.
AnswerTexts(m) ==
  LET IsText(r) == r.type = TXT /\ r.class = IN_
      answers == SelectSeq(SubSeq(m.records, m.counts[1] + 1, m.counts[1] + m.counts[2]),
                           IsText)
  IN FlattenSeq([i \in 1..Len(answers) |-> answers[i].texts])

\* Of a packet that has come whole the name is the first text of its answers that
\* begins with "i=", wherever it stands; of one that has not there is no name.
NameIsFirstText ==
  dns = "done" /\ sent # NothingSent =>
    LET IsName(t) == Len(t) >= 2 /\ SubSeq(t, 1, 2) = <<105, 61>>
        names == SelectSeq(AnswerTexts(sent), IsName)
        whole == sent.good /\ Len(bytes) = Len(WholePacket(sent))
    IN answered = IF whole /\ names # <<>> THEN SubSeq(names[1], 3, Len(names[1])) ELSE NotFound

\* The DNS is asked for the one identifier, its answer is read inside, and the
\* name is the one the answer has.
NetNameRight == QuestionIsIdentity /\ WalkInside /\ NameIsFirstText
============================================================================
