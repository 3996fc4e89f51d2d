---------------------------- MODULE VersionFiles ----------------------------
(***************************************************************************)
(* Versions of drivers, firmware and option ROMs, as lspcie prints them    *)
(* with many options -T or -J: the search for the directory the driver     *)
(* keeps them in (lib/sysfs-class-utils.c), the files in it, the choice by *)
(* class (lib/sysfs.c, lib/sysfs-class.c), and what is printed of the list *)
(* (ls-table.c).                                                           *)
(***************************************************************************)
EXTENDS Integers, Sequences, FiniteSets, SequencesExt

CONSTANTS
  Trees,          \* functions from paths (sequences of names) to directories:
                  \* sequences of [name, kind] in the order of readdir()
  Contents,       \* functions from names of files to sequences of lines, or
                  \* Unreadable; a line is a version or NoVersion
  Fits(_, _),     \* whether a name matches a pattern
  Fresh,          \* what the ethtool interface answers: a version or "fails"
  Wide            \* versions that do not fit the column of the table

Unreadable == <<"unreadable">>
NoVersion == "no version"

VARIABLES
  vf,         \* "idle", "search", "files", "read", "print", "done", "crashed"
  asks,       \* [class, info, layout]: class of the device, what is asked for,
              \* and "table" or "json"
  tree, text, \* the device's directory in sysfs, and its files
  trying,     \* which alternative of the pattern is tried
  cwd,        \* directory reached so far, or NoPath
  left,       \* levels of the pattern still to go
  items,      \* struct version_item: [name, data], data NoData for NULL
  reading,    \* place in items
  count,      \* what read_vfiles() or ethtool has returned
  printed     \* what is shown: a sequence of [name, data]

versionVars == <<vf, asks, tree, text, trying, cwd, left, items, reading, count,
                 printed>>

NoPath == <<"/">>
NoData == "NULL"

\* Names have no slash, and sysfs has files, directories and links only; a version
\* that ethtool gives is not NULL.
ASSUME VersionAssumption ==
  /\ \A t \in Trees : \A p \in DOMAIN t :
       /\ p \in Seq(STRING \ {"/"})
       /\ t[p] \in Seq([name : STRING \ {"/"}, kind : {"file", "dir", "link"}])
  /\ NoData \notin Fresh

\* PCI_VDIR_*_RELPATH_PATTN: alternatives, each a sequence of levels, which are
\* regular expressions (Fits).
DriverDirs == <<<<"host*", "scsi_host", "host*">>, <<"net", "e*">>, <<"net", "ib*">>,
                <<"driver", "module">>>>
FirmwareDirs == <<<<"host*", "scsi_host", "host*">>, <<"nvme", "nvme*">>>>
Alternatives(info) == IF info = "driver" THEN DriverDirs ELSE FirmwareDirs

\* pcm_vers_map[]: which functions a class has.
Reader(class, info) ==
  CASE class \in {1, 12} -> "files"
    [] class = 2 /\ info # "option" -> "ethtool"
    [] OTHER -> "none"

VersionInit ==
  /\ vf = "idle" /\ asks = [class |-> 0, info |-> "driver", layout |-> "table"]
  /\ tree = <<>> /\ text = <<>>
  /\ trying = 0 /\ cwd = NoPath /\ left = <<>>
  /\ items = <<>> /\ reading = 0 /\ count = 0 /\ printed = <<>>

\* sysfs_read_drv(), sysfs_read_fwv() and sysfs_read_optv() look up the class.
AskVersion ==
  /\ vf = "idle"
  /\ \E class \in {1, 2, 3, 12}, info \in {"driver", "firmware", "option"},
        layout \in {"table", "json"} :
       /\ asks' = [class |-> class, info |-> info, layout |-> layout]
       /\ IF Reader(class, info) = "none"
          THEN vf' = "print" /\ UNCHANGED <<trying, cwd, left>>
          ELSE /\ vf' = "search"
               /\ trying' = 1 /\ cwd' = <<>>
               /\ left' = (IF Reader(class, info) = "ethtool" THEN DriverDirs
                           ELSE Alternatives(info))[1]
  /\ tree' \in Trees /\ text' \in Contents
  /\ UNCHANGED <<items, reading, count, printed>>

Dirs == IF Reader(asks.class, asks.info) = "ethtool" THEN DriverDirs
        ELSE Alternatives(asks.info)

\* A fault: any entry will do.
MatchingAny(dir, pattern) ==
  {i \in 1..Len(tree[dir]) : Fits(tree[dir][i].name, pattern)}

\* Entries of an open directory that match a level of the pattern.
Matching(dir, pattern) ==
  {i \in 1..Len(tree[dir]) : /\ tree[dir][i].kind \in {"dir", "link"}
                             /\ Fits(tree[dir][i].name, pattern)}

\* One level of _find_pci_dev_vers_dir(), which takes the first entry that
\* matches and never comes back to another.
SearchLevel ==
  /\ vf = "search" /\ cwd # NoPath /\ left # <<>>
  /\ LET at == IF cwd \in DOMAIN tree THEN Matching(cwd, Head(left)) ELSE {}
     IN IF at = {} THEN cwd' = NoPath /\ UNCHANGED left
        ELSE LET i == CHOOSE i \in at : \A j \in at : i <= j
             IN cwd' = Append(cwd, tree[cwd][i].name) /\ left' = Tail(left)
  /\ UNCHANGED <<vf, asks, tree, text, trying, items, reading, count, printed>>

\* find_pci_dev_vers_dir(): the next alternative, if there is one.
NextAlternative ==
  /\ vf = "search" /\ cwd = NoPath
  /\ IF trying < Len(Dirs)
     THEN /\ trying' = trying + 1 /\ cwd' = <<>> /\ left' = Dirs[trying + 1]
          /\ UNCHANGED vf
     ELSE vf' = "print" /\ UNCHANGED <<trying, cwd, left>>
  /\ UNCHANGED <<asks, tree, text, items, reading, count, printed>>

\* The patterns of the files' names.
FilePattern(info) ==
  CASE info = "driver" -> "version|driver_version"
    [] info = "firmware" -> "version|firmware_rev"
    [] info = "option" -> "option_rom_version"

\* The n-th entry that readdir() gives of some.
Nth(S, n) == CHOOSE i \in S : Cardinality({j \in S : j <= i}) = n

\* set_vfiles(): an item without data for each file that matches.
SetFiles ==
  /\ vf = "search" /\ cwd # NoPath /\ left = <<>>
  /\ Reader(asks.class, asks.info) = "files"
  /\ LET dir == IF cwd \in DOMAIN tree THEN tree[cwd] ELSE <<>>
         at == {i \in 1..Len(dir) : /\ dir[i].kind = "file"
                                    /\ Fits(dir[i].name, FilePattern(asks.info))}
     IN /\ items' = [n \in 1..Cardinality(at) |->
                       [name |-> dir[Nth(at, n)].name, data |-> NoData]]
        /\ vf' = IF at = {} THEN "print" ELSE "read"
  /\ reading' = 1
  /\ UNCHANGED <<asks, tree, text, trying, cwd, left, count, printed>>

\* read_vfile(): str_linenum_in_vfile() always returns -1, so each line has to
\* have a version; the last one before a line without counts.
DataOf(lines) ==
  LET bad == {i \in 1..Len(lines) : lines[i] = NoVersion}
      good == IF bad = {} THEN Len(lines)
              ELSE (CHOOSE i \in bad : \A j \in bad : i <= j) - 1
  IN IF lines = Unreadable \/ good = 0 THEN NoData ELSE lines[good]

VersionIn(name) == DataOf(text[name])

\* A fault: a file without a version is passed over.
ReadOnAlways(data) == TRUE

\* Whether read_vfiles() goes on after a file.
ReadOn(data) == data # NoData

\* One round of read_vfiles(); the first file without a version ends it.
ReadFile ==
  /\ vf = "read"
  /\ LET data == VersionIn(items[reading].name)
         last == reading = Len(items)
     IN /\ items' = [items EXCEPT ![reading].data = data]
        /\ reading' = reading + 1
        /\ count' = IF ReadOn(data) THEN reading ELSE reading - 1
        /\ vf' = IF ReadOn(data) /\ ~last THEN "read" ELSE "print"
  /\ UNCHANGED <<asks, tree, text, trying, cwd, left, printed>>

\* net_read_info(): the name of the directory is that of the interface.
ReadEthtool ==
  /\ vf = "search" /\ cwd # NoPath /\ left = <<>>
  /\ Reader(asks.class, asks.info) = "ethtool"
  /\ \E answer \in Fresh :
       IF answer = "fails" THEN UNCHANGED <<items, count>>
       ELSE items' = <<[name |-> "Ethtool", data |-> answer]>> /\ count' = 1
  /\ vf' = "print"
  /\ UNCHANGED <<asks, tree, text, trying, cwd, left, reading, printed>>

\* fill_vbuff(): what the loop adds to the first version is overwritten with it;
\* one that is too long is left out.
TablePart == IF items[1].data \in Wide THEN <<>> ELSE <<items[1]>>

\* show_table_entry() and show_json_obj(), if there is anything: JSON takes the
\* length of each string, also of one that is not there.
PrintVersions ==
  /\ vf = "print"
  /\ LET json == asks.layout = "json"
         nulls == {i \in 1..Len(items) : items[i].data = NoData}
     IN IF count = 0 THEN vf' = "done" /\ UNCHANGED printed
        ELSE IF json /\ nulls # {} THEN vf' = "crashed" /\ UNCHANGED printed
        ELSE vf' = "done" /\ printed' = IF json THEN items ELSE TablePart
  /\ UNCHANGED <<asks, tree, text, trying, cwd, left, items, reading, count>>

VersionNext ==
  \/ AskVersion \/ SearchLevel \/ NextAlternative \/ SetFiles \/ ReadFile
  \/ ReadEthtool \/ PrintVersions

----------------------------------------------------------------------------
\* Entries of the directories of the tree, and those that match an alternative,
\* level by level.
Paths == UNION {{Append(q, e.name) : e \in ToSet(tree[q])} : q \in DOMAIN tree}
Described(alternative) ==
  {p \in Paths :
     /\ Len(p) = Len(alternative)
     /\ \A n \in 1..Len(p) :
          LET q == SubSeq(p, 1, n - 1)
          IN /\ q \in DOMAIN tree
             /\ \E i \in 1..Len(tree[q]) :
                  /\ tree[q][i].name = p[n] /\ tree[q][i].kind # "file"
                  /\ Fits(p[n], alternative[n])}

Found == vf \in {"read", "print", "done", "crashed"} /\ cwd # NoPath

\* The directory that is read is one the pattern describes; and where no level
\* of any alternative matches more than one entry, the first alternative that
\* describes a directory is the one taken.
DirectoryIsDescribed ==
  Found /\ asks.class \in {1, 2, 12} /\ trying > 0 =>
    /\ cwd \in Described(Dirs[trying])
    /\ \A a \in 1..trying - 1 :
         Described(Dirs[a]) # {} =>
           \E q \in DOMAIN tree, n \in 1..Len(Dirs[a]) :
             Cardinality({e \in ToSet(tree[q]) :
                            e.kind # "file" /\ Fits(e.name, Dirs[a][n])}) > 1

\* All versions that are printed come from files of one directory which have
\* them, in the directory's order without a gap before them; the program only
\* crashes for a file without a version behind one that has one, and nothing
\* is printed if the first file has none.
VersionsAreRead ==
  /\ vf = "done" /\ asks.class \in {1, 12} /\ items # <<>> =>
       /\ printed # <<>> => items[1].data # NoData
       /\ \A i \in 1..Len(printed) :
            printed[i].name = items[i].name
            /\ printed[i].data = VersionIn(items[i].name)
       /\ asks.layout = "json" /\ printed # <<>> => Len(printed) = Len(items)
  /\ vf = "crashed" =>
       \E i \in 2..Len(items) : VersionIn(items[i].name) = NoData

\* What lspcie prints of versions is that of files of the directory the pattern
\* asks for.
VersionsRight == DirectoryIsDescribed /\ VersionsAreRead
============================================================================
