------------------------------ MODULE MCNames ------------------------------
(***************************************************************************)
(* Instances of Names for TLC: three identifiers, of which pci.ids knows   *)
(* k2, and the hwdb k2 and k3.                                             *)
(***************************************************************************)
EXTENDS Names, TLC

CONSTANTS k1, k2, k3

\* What lspci sets: no option, -q, -qq and -Q.
Default == {"CACHE"}
Query == {"CACHE", "NETWORK"}
QueryRefresh == {"CACHE", "NETWORK", "REFRESH_CACHE"}
QueryAll == {"CACHE", "NETWORK", "SKIP_LOCAL"}
LspciModes == {Default, Query, QueryRefresh, QueryAll}
QueryOnly == {Query}
DefaultOnly == {Default}

NoExtras == {{}}
\* Clients that choose sources call by call.
MixedExtras == {{}, {"NETWORK", "SKIP_LOCAL"}}
QuietExtras == {{}, {"SKIP_LOCAL"}}

Pair == {<<k1>>, <<k2>>}
Chain == {<<k1>>, <<k2, k1>>}
Chains == {<<k1>>, <<k2>>, <<k3, k1>>}

----------------------------------------------------------------------------
(***************************************************************************)
(* Three kinds of use, told apart by the processes and identifiers there   *)
(* are.  The instance itself: processes run one after the other with the   *)
(* options of lspci.  Careless: a process whose calls choose their sources *)
(* one by one, with a pci.ids that may be unreadable.  Shared: two such    *)
(* processes, whose writing of the cache file may fail.                    *)
(***************************************************************************)
CONSTANTS first, second  \* the two processes of the last kind

Careless == INSTANCE Names WITH
  Keys <- {k1, k2}, Hwdb <- {}, Modes <- QueryOnly, Extras <- QuietExtras,
  Requests <- Pair, Readable <- FALSE, IoErrors <- TRUE
Shared == INSTANCE Names WITH
  Procs <- {first, second}, Keys <- {k1}, Local <- {}, Hwdb <- {},
  Modes <- QueryOnly, Extras <- QuietExtras, Requests <- {<<k1>>},
  Readable <- FALSE, IoErrors <- TRUE

IsShared == DOMAIN pc # Procs
IsSession == ~IsShared /\ \A p \in Procs : DOMAIN hash[p] = Keys

UsesInit == Init \/ Careless!Init \/ Shared!Init
UsesNext ==
  \/ IsSession /\ Next
  \/ ~IsSession /\ ~IsShared /\ Careless!Next
  \/ IsShared /\ Shared!Next

\* The fairness of FairSpec.  Careless calls need not return.
Uses ==
  /\ UsesInit /\ [][UsesNext]_vars
  /\ \A p \in Procs : WF_vars(IsSession /\ Library(p))
  /\ \A p \in {first, second} : WF_vars(IsShared /\ Shared!Library(p))

\* The properties of Names in the kinds of use they are about: that an answer
\* comes from an admitted source and the cache holds answers of the DNS in
\* all three, ...
UsesTypeOK ==
  IF IsShared THEN Shared!TypeOK
  ELSE IF IsSession THEN TypeOK ELSE Careless!TypeOK
UsesAnswerAllowed == IF IsShared THEN Shared!AnswerAllowed ELSE AnswerAllowed
UsesCacheIsFromNet ==
  IF IsShared THEN Shared!CacheIsFromNet
  ELSE IF IsSession THEN CacheIsFromNet ELSE Careless!CacheIsFromNet

\* ... that calls return, unless one asks the DNS for what pci.ids knows ...
UsesReturn ==
  /\ \A p \in Procs :
       IsSession /\ pc[p] # "idle" ~> IsSession /\ pc[p] \in {"idle", "off"}
  /\ \A p \in {first, second} :
       IsShared /\ pc[p] # "idle" ~> IsShared /\ pc[p] \in {"idle", "off"}

\* ... and the others where processes run one after the other.
SessionLocalWins == IsSession => LocalWins
SessionAskedOnce == IsSession => AskedOnce
SessionFlushHasHash == IsSession => FlushHasHash
SessionResultIsCached == IsSession => ResultIsCached
SessionCachedStays ==
  [][IsSession =>
       \A k \in Keys :
         file # NoFile /\ file[k] # NONE /\ k \notin Local
           /\ (\A p \in Procs : "REFRESH_CACHE" \notin mode[p])
         => file' # NoFile /\ file'[k] # NONE]_vars

\* Each name comes from a source the call admits, pci.ids before the others.
AnswersRight == UsesTypeOK /\ UsesAnswerAllowed /\ SessionLocalWins

\* The cache file gets all names the DNS gave and no others, and the table it
\* is written from is there.
CacheFileRight == UsesCacheIsFromNet /\ SessionResultIsCached /\ SessionFlushHasHash
============================================================================
