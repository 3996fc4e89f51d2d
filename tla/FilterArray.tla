----------------------------- MODULE FilterArray -----------------------------
(***************************************************************************)
(* The filters of lspcie (lib/filter_array.c): options -s and -d share one *)
(* element of an array, option -f fills the array from a JSON file, and a  *)
(* device is shown if an element matches it.                               *)
(***************************************************************************)
EXTENDS Filter

CONSTANTS
  CommandLines,  \* sequences of options: [opt, slot], [opt, id] or [opt, file]
  Visitors       \* devices to match

FileField == [name : STRING, value : Int]
Elements == Seq(FileField)
SlotOptions == [opt : {"s"}, slot : [Locations -> Int]]
IdOptions ==
  [opt : {"d"}, id : {s \in [text : {"ids", "empty", "other"},
                            vendor : Int, device : Int, class : Int] :
                       s.text = "empty" => /\ s.vendor = Empty
                                           /\ s.device = Empty /\ s.class = Empty}]
FileOptions == [opt : {"f"}, file : Seq(Elements)]
Options == SlotOptions \cup IdOptions \cup FileOptions

ASSUME OptionAssumption == CommandLines \subseteq Seq(Options)
ASSUME VisitorAssumption ==
  \A d \in Visitors :
    /\ {"vendor", "device", "class"} \cup Locations \subseteq DOMAIN d
    /\ d.class \in Nat

VARIABLES
  options,    \* those main() has still to look at
  seen,       \* history: those it has looked at
  filters,    \* fa->filters, of length fa->len
  cmdLine,    \* fa->cmd_line_index + 1
  room,       \* bytes of the block at fa->filters
  filtering   \* "idle", "parsing", "ready", "died", or "undefined": there was
              \* a write behind the block

filterVars == <<options, seen, filters, cmdLine, room, filtering>>

SizeOfFilter == 44    \* sizeof(struct pci_filter), rfu[] included
FieldsRead == 4       \* PCI_FILTER_FIELDS

FileFields == Identities \cup Locations

\* The largest values a file may give to the fields.
FileMax == [vendor |-> MaxId, device |-> MaxId, super |-> 255, sub |-> 255,
            domain |-> MaxId, bus |-> 255, slot |-> 32, func |-> 8]

\* pci_filter_array_init()
FilterInit ==
  /\ options = <<>> /\ seen = <<>> /\ filters = <<>>
  /\ cmdLine = 0 /\ room = 0 /\ filtering = "idle"

StartFilters ==
  /\ filtering = "idle" /\ filtering' = "parsing"
  /\ options' \in CommandLines
  /\ UNCHANGED <<seen, filters, cmdLine, room>>

\* A fault: the element of the command line is not remembered.
TargetForgotten(len) == [at |-> len + 1, new |-> TRUE]

\* The element that -s and -d change.
Target(len) == IF cmdLine # 0 THEN [at |-> cmdLine, new |-> FALSE]
               ELSE [at |-> len + 1, new |-> TRUE]

\* pci_filter_array_parse_slot() and pci_filter_array_parse_id(): the array
\* grows by one element, but a block that is there only to len + 1 bytes.
CommandLineOption(o) ==
  LET t == Target(Len(filters))
      bytes == IF ~t.new THEN room
               ELSE IF filters = <<>> THEN SizeOfFilter ELSE Len(filters) + 1
      old == IF t.new THEN Append(filters, NoFilter) ELSE filters
      parsed == IF o.opt = "s" THEN ParseSlot(old[t.at], o.slot)
                ELSE ParseId(old[t.at], o.id)
      inside == t.at * SizeOfFilter <= bytes
  IN /\ cmdLine' = t.at
     /\ room' = bytes
     /\ filtering' = IF ~inside THEN "undefined"
                     ELSE IF parsed.ok THEN "parsing" ELSE "died"
     /\ filters' = IF inside /\ parsed.ok THEN [old EXCEPT ![t.at] = parsed.filter]
                   ELSE filters

\* What an element of the file says of a field: the last of the first four
\* that has its name.
ElementField(element, name) ==
  LET at == {j \in 1..Len(element) : j <= FieldsRead /\ element[j].name = name}
  IN IF at = {} THEN ANY
     ELSE element[CHOOSE j \in at : \A k \in at : k <= j].value

GoodElement(element) ==
  \A j \in 1..Len(element) :
     /\ j <= FieldsRead
     /\ element[j].name \in FileFields
     => element[j].value \in 0..FileMax[element[j].name]

\* A fault: the file's elements are added to what is there.
FileArrayAdded(elements) ==
  filters \o [i \in 1..Len(elements) |->
                [x \in FileFields |-> ElementField(elements[i], x)]]

\* The new block.
FileArray(elements) ==
  [i \in 1..Len(elements) |->
     [x \in FileFields |-> ElementField(elements[i], x)]]

\* pci_filter_array_parse_file().  cmd_line_index stays.
FileOption(o) ==
  LET good == \A i \in 1..Len(o.file) : GoodElement(o.file[i])
  IN /\ filtering' = IF good THEN "parsing" ELSE "died"
     /\ filters' = IF good THEN FileArray(o.file) ELSE filters
     /\ room' = IF good THEN SizeOfFilter * Len(FileArray(o.file)) ELSE room
     /\ UNCHANGED cmdLine

\* main() parses the next option, or has parsed all.
ParseFilterOption ==
  /\ filtering = "parsing" /\ options # <<>>
  /\ options' = Tail(options)
  /\ seen' = Append(seen, Head(options))
  /\ IF Head(options).opt = "f" THEN FileOption(Head(options))
     ELSE CommandLineOption(Head(options))

FiltersReady ==
  /\ filtering = "parsing" /\ options = <<>>
  /\ filtering' = "ready"
  /\ UNCHANGED <<options, seen, filters, cmdLine, room>>

FilterNext == StartFilters \/ ParseFilterOption \/ FiltersReady

\* pci_filter_array_match()
ArrayMatches(d) ==
  filters = <<>> \/ \E i \in 1..Len(filters) : Match(filters[i], d)

----------------------------------------------------------------------------
(***************************************************************************)
(* What the options ask for.                                               *)
(***************************************************************************)

\* Every component of the device is what the last option that gives it says.
Gives(i, x) == IF seen[i].opt = "s"
               THEN x \in Locations /\ Given(seen[i].slot[x])
               ELSE x \notin Locations /\ Given(seen[i].id[x])

LastAgrees(x, value) ==
  LET giving == {i \in 1..Len(seen) : Gives(i, x)}
  IN \A i \in giving :
       (\A j \in giving : j <= i) =>
         (IF x \in Locations THEN seen[i].slot[x] ELSE seen[i].id[x]) = value

AskedByOptions(d) ==
  \A x \in Locations \cup {"vendor", "device", "class"} : LastAgrees(x, d[x])

FieldOf(d, x) == IF x = "super" THEN d.class \div 256
                 ELSE IF x = "sub" THEN d.class % 256 ELSE d[x]

FileMeans(element, d) ==
  \A j \in 1..Len(element) : FieldOf(d, element[j].name) = element[j].value

\* With options -s and -d only, a device is selected if and only if each of
\* its components is what the last option that names it says; if a file comes
\* last, if and only if an element of this file describes it (an empty array
\* selects all), whatever options and files came before.
ArraySelects ==
  filtering = "ready" =>
    IF \E i \in 1..Len(seen) : seen[i].opt = "f"
    THEN seen[Len(seen)].opt = "f" =>
           LET file == seen[Len(seen)].file
           IN \A d \in Visitors :
                ArrayMatches(d) <=>
                  file = <<>> \/ \E i \in 1..Len(file) : FileMeans(file[i], d)
    ELSE \A d \in Visitors : ArrayMatches(d) <=> AskedByOptions(d)

\* The block is written behind its end only if an option -s or -d comes after
\* a file (where realloc() takes a number of bytes for one of elements).
OverrunNeedsFile ==
  filtering = "undefined" =>
    \E i, j \in 1..Len(seen) : i < j /\ seen[i].opt = "f" /\ seen[j].opt # "f"

\* Devices are selected as the options and files say, except after a write
\* behind the array, which takes an option behind a file.
FiltersRight == ArraySelects /\ OverrunNeedsFile
============================================================================
