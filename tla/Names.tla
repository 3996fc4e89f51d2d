------------------------------- MODULE Names -------------------------------
(***************************************************************************)
(* Resolving of identifiers to names in libpci (lib/names*.c): the hash of *)
(* entries, the sources it is filled from (pci.ids, the cache file, udev's *)
(* hwdb, the DNS) and the cache file, which processes of one user share.   *)
(* id_lookup() is a loop that queries the hash again after each source has *)
(* added to it; every iteration, and every system call on the cache file,  *)
(* is a step of its process, and a process may be killed between any two.  *)
(***************************************************************************)
EXTENDS Naturals, Sequences

CONSTANTS
  Procs,      \* processes that use the library
  Keys,       \* identifiers, with their categories
  NONE,       \* NULL: no entry, no name
  NoFile,     \* the file does not exist
  EMPTY,      \* "", the name of a negative entry
  LocalName,  \* the name pci.ids gives
  HwdbName,   \* the name the hwdb gives
  NetNames,   \* the names the DNS may give
  Local,      \* identifiers pci.ids knows
  Hwdb,       \* identifiers the hwdb knows
  Modes,      \* values of a->id_lookup_mode
  Extras,     \* flags callers add to them
  Requests,   \* identifiers a call looks up, one after the other until one has
              \* a name: id_lookup_subsys(), classes
  Readable,   \* TRUE unless opening pci.ids may fail
  IoErrors,   \* TRUE if writing the cache file may fail
  Kills       \* TRUE if processes may be killed

Flags == {"NUMERIC", "NETWORK", "SKIP_LOCAL", "CACHE", "REFRESH_CACHE",
          "NO_HWDB"}
Sources == {"CACHE", "NET", "HWDB", "LOCAL"}
Texts == {EMPTY, LocalName, HwdbName} \cup NetNames
Entries == [src : Sources, name : Texts]
Files == [Keys -> NetNames \cup {NONE}]

ASSUME NameAssumption ==
  /\ NONE \notin Texts \cup Entries
  /\ NoFile \notin Files
  /\ LocalName # HwdbName
  /\ EMPTY \notin {LocalName, HwdbName}
  /\ NetNames \cap {EMPTY, LocalName, HwdbName} = {}
ASSUME CallAssumption ==
  /\ Local \subseteq Keys /\ Hwdb \subseteq Keys
  /\ Modes \subseteq SUBSET Flags /\ Extras \subseteq SUBSET Flags
  /\ Requests \subseteq Seq(Keys) \ {<<>>}
ASSUME SwitchAssumption == {Readable, IoErrors, Kills} \subseteq BOOLEAN

VARIABLES
  hash,      \* a->id_hash; without an entry, the pointer is NULL
  failed,    \* a->id_load_failed
  status,    \* a->id_cache_status: not loaded, loaded, to be written
  mode,      \* a->id_lookup_mode
  pc,        \* where the process is
  after,     \* where pci_free_name_list() returns to
  call,      \* the call of id_lookup(): identifiers, flags, tried_hwdb
  result,    \* what the last pci_lookup_name() found
  file,      \* the cache file
  tmp,       \* the temporary file of a process
  given,     \* history: the names the DNS has given
  asked,     \* history: queries of the DNS in this lifetime of the hash, up to 2
  found,     \* history: identifiers resolved by the DNS in this lifetime
  resolved   \* history: those of lifetimes that have come to a regular end,
             \* since the cache was last started anew

access == <<hash, failed, status, mode>>
vars == <<access, pc, after, call, result, file, tmp, given, asked, found,
          resolved>>

NoEntries == [k \in Keys |-> NONE]
NoCall == [keys |-> <<>>, flags |-> {}, tried |-> FALSE]
NoResult == [keys |-> <<>>, flags |-> {}, name |-> NONE]

TypeOK ==
  /\ hash \in [Procs -> [Keys -> Entries \cup {NONE}]]
  /\ failed \in [Procs -> BOOLEAN]
  /\ status \in [Procs -> 0..2]
  /\ mode \in [Procs -> SUBSET Flags]
  /\ pc \in [Procs -> {"off", "idle", "load", "loop", "hwdb", "net", "free",
                       "write", "rename", "clear"}]
  /\ after \in [Procs -> {"off", "idle", "load"}]
  /\ call \in [Procs -> [keys : Seq(Keys), flags : SUBSET Flags,
                         tried : BOOLEAN]]
  /\ result \in [Procs -> [keys : Seq(Keys), flags : SUBSET Flags,
                           name : Texts \cup {NONE}]]
  /\ file \in Files \cup {NoFile}
  /\ tmp \in [Procs -> Files \cup {NoFile}]
  /\ given \in [Keys -> SUBSET NetNames]
  /\ asked \in [Procs -> [Keys -> 0..2]]
  /\ found \in [Procs -> SUBSET Keys]
  /\ resolved \subseteq Keys

Init ==
  /\ hash = [p \in Procs |-> NoEntries]
  /\ failed = [p \in Procs |-> FALSE]
  /\ status = [p \in Procs |-> 0]
  /\ mode = [p \in Procs |-> {}]
  /\ pc = [p \in Procs |-> "off"]
  /\ after = [p \in Procs |-> "off"]
  /\ call = [p \in Procs |-> NoCall]
  /\ result = [p \in Procs |-> NoResult]
  /\ file = NoFile
  /\ tmp = [p \in Procs |-> NoFile]
  /\ given = [k \in Keys |-> {}]
  /\ asked = [p \in Procs |-> [k \in Keys |-> 0]]
  /\ found = [p \in Procs |-> {}]
  /\ resolved = {}

----------------------------------------------------------------------------
(***************************************************************************)
(* The hash.                                                               *)
(***************************************************************************)

\* A fault: negative answers are not kept.
InsertPositive(h, k, entry) ==
  IF h[k] = NONE /\ entry.name # EMPTY THEN [h EXCEPT ![k] = entry] ELSE h

\* pci_id_insert() refuses an identifier that has an entry, from any source.
Insert(h, k, entry) == IF h[k] = NONE THEN [h EXCEPT ![k] = entry] ELSE h

\* A fault: PCI_LOOKUP_SKIP_LOCAL stops the loading of pci.ids only.
VisibleLocal(entry, flags) ==
  /\ entry # NONE
  /\ entry.src = "NET" => "NETWORK" \in flags
  /\ entry.src = "CACHE" => "CACHE" \in flags
  /\ entry.src = "HWDB" => flags \cap {"SKIP_LOCAL", "NO_HWDB"} = {}

\* pci_id_lookup(): the entry, if the flags admit its source.
Visible(entry, flags) ==
  /\ entry # NONE
  /\ entry.src = "LOCAL" => "SKIP_LOCAL" \notin flags
  /\ entry.src = "NET" => "NETWORK" \in flags
  /\ entry.src = "CACHE" => "CACHE" \in flags
  /\ entry.src = "HWDB" => flags \cap {"SKIP_LOCAL", "NO_HWDB"} = {}

\* A fault: entries from every source are written.
FlushTextAll(h) ==
  [k \in Keys |-> IF h[k] # NONE /\ h[k].name # EMPTY THEN h[k].name ELSE NONE]
\* What pci_id_cache_flush() writes: names of entries that came from the cache
\* or the DNS, but no negative ones.
FlushText(h) ==
  [k \in Keys |-> IF h[k] # NONE /\ h[k].src \in {"CACHE", "NET"}
                     /\ h[k].name # EMPTY
                    THEN h[k].name ELSE NONE]

\* pci_id_cache_dirty(); faults: it counts, or marks a dirty cache only.
DirtyCounting(s) == IF s >= 1 THEN s + 1 ELSE 0
DirtyLate(s) == IF s > 1 THEN 2 ELSE s
Dirty(s) == IF s >= 1 THEN 2 ELSE s

----------------------------------------------------------------------------
(***************************************************************************)
(* Sessions of a process.                                                  *)
(***************************************************************************)
Key(p) == call[p].keys[1]

\* pci_alloc() and the options that set id_lookup_mode.
Start(p) ==
  /\ pc[p] = "off"
  /\ \E m \in Modes : mode' = [mode EXCEPT ![p] = m]
  /\ pc' = [pc EXCEPT ![p] = "idle"]
  /\ tmp' = [tmp EXCEPT ![p] = NoFile]
  /\ result' = [result EXCEPT ![p] = NoResult]
  /\ UNCHANGED <<hash, failed, status, after, call, file, given, asked,
                 found, resolved>>

\* Without a hash, pci_lookup_name() loads pci.ids first; a fault: not where
\* the cache may do.
MustLoadUncached(p, flags) ==
  /\ hash[p] = NoEntries /\ ~failed[p]
  /\ flags \cap {"NUMERIC", "SKIP_LOCAL"} = {}
  /\ "CACHE" \in flags => file = NoFile
MustLoad(p, flags) ==
  /\ hash[p] = NoEntries /\ ~failed[p]
  /\ flags \cap {"NUMERIC", "SKIP_LOCAL"} = {}

\* pci_lookup_name()
LookupName(p, keys, extra) ==
  LET flags == mode[p] \cup extra
  IN /\ pc[p] = "idle"
     /\ call' = [call EXCEPT ![p] = [keys |-> keys, flags |-> flags,
                                     tried |-> FALSE]]
     /\ result' = [result EXCEPT ![p] = [keys |-> keys, flags |-> flags,
                                         name |-> NONE]]
     /\ pc' = [pc EXCEPT ![p] = IF MustLoad(p, flags) THEN "free"
                                       ELSE "loop"]
     /\ after' = [after EXCEPT ![p] = "load"]
     /\ UNCHANGED <<access, file, tmp, given, asked, found, resolved>>

\* pci_free_name_list(), called by the client or by pci_cleanup().
FreeNameList(p, next) ==
  /\ pc[p] = "idle"
  /\ pc' = [pc EXCEPT ![p] = "free"]
  /\ after' = [after EXCEPT ![p] = next]
  /\ UNCHANGED <<access, call, result, file, tmp, given, asked, found,
                 resolved>>

\* A fault: the status outlives the hash.
FreeDirty(p) ==
  /\ pc[p] = "free"
  /\ pc' = [pc EXCEPT ![p] = IF status[p] < 2 THEN "clear" ELSE "write"]
  /\ UNCHANGED <<access, after, call, result, file, tmp, given, asked, found,
                 resolved>>

\* pci_id_cache_flush(): there is something to write in status 2 only.
Free(p) ==
  /\ pc[p] = "free"
  /\ status' = [status EXCEPT ![p] = 0]
  /\ pc' = [pc EXCEPT ![p] = IF status[p] < 2 THEN "clear" ELSE "write"]
  /\ UNCHANGED <<hash, failed, mode, after, call, result, file, tmp,
                 given, asked, found, resolved>>

\* A fault: the cache file itself is opened, and so emptied, before the lines
\* are written.
WriteInPlace(p) ==
  /\ pc[p] = "write"
  /\ file' = [k \in Keys |-> NONE]
  /\ tmp' = [tmp EXCEPT ![p] = FlushText(hash[p])]
  /\ pc' = [pc EXCEPT ![p] = "rename"]
  /\ UNCHANGED <<access, after, call, result, given, asked, found, resolved>>

\* It writes a temporary file, which may fail to open; an error while writing
\* leaves part of the lines and is only reported.
Write(p) ==
  /\ pc[p] = "write"
  /\ \/ /\ \E lost \in IF IoErrors THEN SUBSET Keys ELSE {{}} :
             tmp' = [tmp EXCEPT ![p] = [k \in Keys |-> IF k \in lost THEN NONE
                                                       ELSE FlushText(hash[p])[k]]]
        /\ pc' = [pc EXCEPT ![p] = "rename"]
     \/ /\ IoErrors
        /\ pc' = [pc EXCEPT ![p] = "clear"]
        /\ UNCHANGED tmp
  /\ UNCHANGED <<access, after, call, result, file, given, asked, found,
                 resolved>>

\* Then it renames the file, or removes it if that is impossible.
Rename(p) ==
  /\ pc[p] = "rename"
  /\ \/ file' = tmp[p]
     \/ IoErrors /\ UNCHANGED file
  /\ tmp' = [tmp EXCEPT ![p] = NoFile]
  /\ pc' = [pc EXCEPT ![p] = "clear"]
  /\ resolved' = IF "REFRESH_CACHE" \in mode[p] THEN {} ELSE resolved
  /\ UNCHANGED <<access, after, call, result, given, asked, found>>

\* The rest of pci_free_name_list(): pci_id_hash_free().
Clear(p) ==
  /\ pc[p] = "clear"
  /\ hash' = [hash EXCEPT ![p] = NoEntries]
  /\ failed' = [failed EXCEPT ![p] = FALSE]
  /\ asked' = [asked EXCEPT ![p] = [k \in Keys |-> 0]]
  /\ pc' = [pc EXCEPT ![p] = after[p]]
  /\ resolved' = resolved \cup found[p]
  /\ found' = [found EXCEPT ![p] = {}]
  /\ UNCHANGED <<status, mode, after, call, result, file, tmp, given>>

\* The rest of pci_load_name_list(): pci.ids fills the empty hash.
LoadNameList(p) ==
  /\ pc[p] = "load"
  /\ \/ /\ hash' = [hash EXCEPT ![p] =
                      [k \in Keys |-> IF k \in Local
                                        THEN [src |-> "LOCAL", name |-> LocalName]
                                        ELSE NONE]]
        /\ UNCHANGED failed
     \/ /\ ~Readable
        /\ failed' = [failed EXCEPT ![p] = TRUE]
        /\ UNCHANGED hash
  /\ pc' = [pc EXCEPT ![p] = "loop"]
  /\ UNCHANGED <<status, mode, after, call, result, file, tmp, given, asked,
                 found, resolved>>

----------------------------------------------------------------------------
(***************************************************************************)
(* The loop of id_lookup().                                                *)
(***************************************************************************)

\* An entry ends the loop; a negative one is no name.
Answer(p) ==
  LET entry == hash[p][Key(p)]
      name == IF entry.name = EMPTY THEN NONE ELSE entry.name
      again == name = NONE /\ Len(call[p].keys) > 1
  IN /\ pc[p] = "loop"
     /\ Visible(entry, call[p].flags)
     /\ result' = [result EXCEPT ![p].name = name]
     /\ IF again
          THEN /\ call' = [call EXCEPT ![p].keys = Tail(@), ![p].tried = FALSE]
               /\ UNCHANGED pc
          ELSE /\ call' = [call EXCEPT ![p] = NoCall]
               /\ pc' = [pc EXCEPT ![p] = "idle"]
     /\ UNCHANGED <<access, after, file, tmp, given, asked, found, resolved>>

\* pci_id_cache_load(), tried once: the lines of the cache file become entries
\* where there is none, and the hash is searched again.
LoadCache(p) ==
  LET flags == call[p].flags
      refresh == "REFRESH_CACHE" \in flags
      h == [k \in Keys |->
              IF hash[p][k] = NONE /\ file[k] # NONE
                THEN [src |-> "CACHE", name |-> file[k]] ELSE hash[p][k]]
  IN /\ pc[p] = "loop"
     /\ ~Visible(hash[p][Key(p)], flags)
     /\ "CACHE" \in flags /\ status[p] = 0
     /\ status' = [status EXCEPT ![p] = IF refresh THEN 2 ELSE 1]
     /\ IF refresh \/ file = NoFile
          THEN pc' = [pc EXCEPT ![p] = "hwdb"] /\ UNCHANGED hash
          ELSE hash' = [hash EXCEPT ![p] = h] /\ UNCHANGED pc
     /\ UNCHANGED <<failed, mode, after, call, result, file, tmp, given, asked,
                    found, resolved>>

\* Otherwise the loop goes on to the hwdb ...
SkipCache(p) ==
  /\ pc[p] = "loop"
  /\ ~Visible(hash[p][Key(p)], call[p].flags)
  /\ ~("CACHE" \in call[p].flags /\ status[p] = 0)
  /\ pc' = [pc EXCEPT ![p] = "hwdb"]
  /\ UNCHANGED <<access, after, call, result, file, tmp, given, asked, found,
                 resolved>>

\* ... which is asked once in a call.
TryHwdb(p) ==
  LET try == /\ ~call[p].tried
             /\ call[p].flags \cap {"SKIP_LOCAL", "NO_HWDB"} = {}
      hit == try /\ Key(p) \in Hwdb
  IN /\ pc[p] = "hwdb"
     /\ call' = [call EXCEPT ![p].tried = @ \/ try]
     /\ IF hit
          THEN hash' = [hash EXCEPT ![p] =
                          Insert(@, Key(p), [src |-> "HWDB", name |-> HwdbName])]
          ELSE UNCHANGED hash
     /\ pc' = [pc EXCEPT ![p] = IF hit THEN "loop" ELSE "net"]
     /\ UNCHANGED <<failed, status, mode, after, result, file, tmp, given,
                    asked, found, resolved>>

\* The DNS gives a name or none; the answer is put into the hash, a missing one
\* as a negative entry, and the loop searches for it there.
AskNet(p) ==
  LET k == Key(p)
  IN /\ pc[p] = "net"
     /\ "NETWORK" \in call[p].flags
     /\ \E name \in NetNames \cup {EMPTY} :
          /\ hash' = [hash EXCEPT ![p] =
                        Insert(@, k, [src |-> "NET", name |-> name])]
          /\ IF name = EMPTY
               THEN UNCHANGED <<status, given, found>>
               ELSE /\ status' = [status EXCEPT ![p] = Dirty(@)]
                    /\ given' = [given EXCEPT ![k] = @ \cup {name}]
                    /\ found' = [found EXCEPT ![p] = @ \cup {k}]
     /\ asked' = [asked EXCEPT ![p][k] = IF @ < 2 THEN @ + 1 ELSE 2]
     /\ pc' = [pc EXCEPT ![p] = "loop"]
     /\ UNCHANGED <<failed, mode, after, call, result, file, tmp, resolved>>

\* Without permission to ask it, there is no name.
NoAnswer(p) ==
  /\ pc[p] = "net"
  /\ "NETWORK" \notin call[p].flags
  /\ IF Len(call[p].keys) > 1
       THEN /\ call' = [call EXCEPT ![p].keys = Tail(@), ![p].tried = FALSE]
            /\ pc' = [pc EXCEPT ![p] = "loop"]
       ELSE /\ call' = [call EXCEPT ![p] = NoCall]
            /\ pc' = [pc EXCEPT ![p] = "idle"]
  /\ UNCHANGED <<access, after, result, file, tmp, given, asked, found,
                 resolved>>

\* The process is killed, or ends through a->error().
Kill(p) ==
  /\ Kills
  /\ pc[p] # "off"
  /\ hash' = [hash EXCEPT ![p] = NoEntries]
  /\ failed' = [failed EXCEPT ![p] = FALSE]
  /\ status' = [status EXCEPT ![p] = 0]
  /\ asked' = [asked EXCEPT ![p] = [k \in Keys |-> 0]]
  /\ found' = [found EXCEPT ![p] = {}]
  /\ call' = [call EXCEPT ![p] = NoCall]
  /\ pc' = [pc EXCEPT ![p] = "off"]
  /\ UNCHANGED <<mode, after, result, file, tmp, given, resolved>>

Library(p) ==
  \/ Free(p) \/ Write(p) \/ Rename(p) \/ Clear(p) \/ LoadNameList(p)
  \/ Answer(p) \/ LoadCache(p) \/ SkipCache(p) \/ TryHwdb(p) \/ AskNet(p)
  \/ NoAnswer(p)

Client(p) ==
  \/ Start(p)
  \/ \E keys \in Requests, extra \in Extras : LookupName(p, keys, extra)
  \/ \E next \in {"idle", "off"} : FreeNameList(p, next)

Next == \E p \in Procs : Client(p) \/ Library(p) \/ Kill(p)

Spec == Init /\ [][Next]_vars

\* The library runs in the caller's thread, and DNS queries time out.
FairSpec == Spec /\ \A p \in Procs : WF_vars(Library(p))
----------------------------------------------------------------------------
(***************************************************************************)
(* Properties.                                                             *)
(***************************************************************************)

\* The cache file holds names the DNS has given for these identifiers, and
\* neither names of pci.ids or of the hwdb nor negative answers, whatever
\* sources the entries of all processes that wrote it came from.
CacheIsFromNet ==
  file # NoFile => \A k \in Keys : file[k] # NONE => file[k] \in given[k]

\* An answer comes from a source the caller has admitted, although the hash
\* holds what earlier calls with other flags have put there.
AnswerAllowed ==
  \A p \in Procs :
    LET r == result[p]
    IN /\ r.name = LocalName => "SKIP_LOCAL" \notin r.flags
       /\ r.name = HwdbName => r.flags \cap {"SKIP_LOCAL", "NO_HWDB"} = {}
       /\ r.name \in NetNames => r.flags \cap {"NETWORK", "CACHE"} # {}

\* An identifier pci.ids knows has that name, unless the caller does not want
\* it: neither the cache nor the DNS nor the hwdb takes precedence.
LocalWins ==
  \A p \in Procs :
    LET r == result[p]
    IN pc[p] = "idle" /\ r.keys # <<>> /\ r.keys[1] \in Local
         /\ r.flags \cap {"NUMERIC", "SKIP_LOCAL"} = {}
       => r.name = LocalName

\* The DNS is asked about an identifier once: negative entries see to that.
AskedOnce == \A p \in Procs, k \in Keys : asked[p][k] <= 1

\* When the cache has to be written there is a hash to write it from:
\* pci_id_cache_flush() does not check that a->id_hash is not NULL.
FlushHasHash == \A p \in Procs : pc[p] = "write" => hash[p] # NoEntries

\* A flush loses no name the cache file had, even if the process is killed in
\* the middle, except that -qq starts it anew and that names pci.ids has too
\* are dropped.
CachedStays ==
  [][\A k \in Keys :
       file # NoFile /\ file[k] # NONE /\ k \notin Local
         /\ (\A p \in Procs : "REFRESH_CACHE" \notin mode[p])
       => file' # NoFile /\ file'[k] # NONE]_vars

\* "If the DNS query succeeds, the result is cached [...] and it is recognized
\* in subsequent runs" (lspci.man:117).
ResultIsCached ==
  \A k \in resolved \ Local : file # NoFile /\ file[k] # NONE

\* Every call comes back.
LookupsReturn == \A p \in Procs : pc[p] # "idle" ~> pc[p] \in {"idle", "off"}
============================================================================
