----------------------------- MODULE ShowDevice -----------------------------
(***************************************************************************)
(* What lspcie does with one function, from scan_device() to the end of    *)
(* show_device(): the standard header is read and handed to libpci, the    *)
(* function is shown tersely, verbosely or for machines, the chains of     *)
(* traditional and extended capabilities are walked, and the configuration *)
(* space may be dumped.  The registers say anything; a fetch beyond what   *)
(* the process may read fails, and any other one may fail as well.         *)
(***************************************************************************)
EXTENDS ShowExtCaps

CONSTANTS
  StdPointers,   \* positions of traditional capabilities
  ExtPointers,   \* positions of extended capabilities, among them 0x100
  SpaceEnd,      \* 4096, the size of the extended configuration space
  Verbosities,   \* what the user may ask for
  MaxDecoded     \* bound: capabilities with registers of their own

ASSUME PointerAssumption ==
  /\ StdPointers \subseteq 4..252
  /\ 256 \in ExtPointers /\ ExtPointers \subseteq 256 .. SpaceEnd - 4
  /\ 256 \notin StdPointers
ASSUME BoundAssumption == MaxDecoded \in Nat /\ SpaceEnd \in Nat

\* The bound on doublings never stops config_fetch(): no decoder reads farther
\* behind its capability than this.
Reach == 255 + 32 * MaxRepeat
ASSUME GrowthAssumption == \E b \in BufferSizes : b >= SpaceEnd + Reach

VARIABLES
  pc,        \* where lspcie is
  verbose,   \* the option of that name
  machine,   \* opt_machine
  htype,     \* the header type
  list,      \* the chain that is walked: "std" or "ext"
  where,     \* position of the capability
  next,      \* position of the one behind it
  script,    \* what its decoder has left to do
  been,      \* been_there[]
  canExt,    \* can_have_ext_caps
  type,      \* type of the Express capability
  left       \* capabilities that may still have registers of their own

showVars == <<pc, verbose, machine, htype>>
walkVars == <<list, where, next, script, been, canExt, type, left>>
dvars == <<fetchVars, showVars, walkVars>>

HeaderTypes == {"normal", "bridge", "cardbus", "other"}
PortTypes == {"root", "endpoint", "other", "none"}

Pointers == IF list = "std" THEN StdPointers ELSE ExtPointers

TypeOK ==
  /\ FetchTypeOK
  /\ pc \in {"header", "cardbus", "setup", "identify", "show", "fill",
             "registers", "cap", "decode", "dump", "dump4", "done", "died"}
  /\ verbose \in Verbosities
  /\ machine \in BOOLEAN
  /\ htype \in HeaderTypes
  /\ list \in {"std", "ext"}
  /\ {where, next} \subseteq StdPointers \cup ExtPointers \cup {0}
  /\ pc \in {"cap", "decode"} => where \in Pointers /\ next \in Pointers \cup {0}
  /\ been \subseteq Pointers
  /\ canExt \in BOOLEAN
  /\ type \in PortTypes
  /\ left \in 0..MaxDecoded

Init ==
  /\ FetchInit
  /\ pc = "header"
  /\ verbose \in Verbosities
  /\ machine \in BOOLEAN
  /\ htype = "other"
  /\ list = "std"
  /\ where = 0
  /\ next = 0
  /\ script = <<>>
  /\ been = {}
  /\ canExt = FALSE
  /\ type = "none"
  /\ left = MaxDecoded

\* get_conf_xxx() of these bytes, after which lspcie goes on, or dies.
Look(bytes, goOn) == pc' = IF bytes \subseteq present' THEN goOn ELSE "died"

----------------------------------------------------------------------------
(***************************************************************************)
(* scan_device()                                                           *)
(***************************************************************************)

\* The first 64 bytes; a function that cannot be read is left out.
ReadHeader ==
  /\ pc = "header"
  /\ \/ pc' = "done" /\ UNCHANGED htype
     \/ /\ size >= 64
        /\ htype' \in HeaderTypes
        /\ pc' = IF htype' = "cardbus" THEN "cardbus" ELSE "setup"
  /\ UNCHANGED <<fetchVars, verbose, machine, walkVars>>

\* A fault: libpci is given the buffer before the rest of the header is read.
FetchCardbusLate ==
  /\ pc = "cardbus"
  /\ \/ Fetched(64, 64) /\ cached' = 128
     \/ FetchFailed(64, 64) /\ UNCHANGED cached
  /\ cache' = bufsize
  /\ pc' = "identify"
  /\ UNCHANGED <<size, verbose, machine, htype, walkVars>>

\* CardBus bridges have a header of 128 bytes.
FetchCardbus ==
  /\ pc = "cardbus"
  /\ \/ Fetched(64, 64) /\ cached' = 128
     \/ FetchFailed(64, 64) /\ UNCHANGED cached
  /\ pc' = "setup"
  /\ UNCHANGED <<size, cache, verbose, machine, htype, walkVars>>

\* pci_setup_cache()
SetupCache ==
  /\ pc = "setup"
  /\ cache' = bufsize
  /\ pc' = "identify"
  /\ UNCHANGED <<size, present, bufsize, cached, verbose, machine, htype,
                 walkVars>>

\* pci_fill_info(), which reads the header through that buffer.
Identify ==
  /\ pc = "identify"
  /\ pc' = "show"
  /\ UNCHANGED <<fetchVars, verbose, machine, htype, walkVars>>

----------------------------------------------------------------------------
(***************************************************************************)
(* show_device()                                                           *)
(***************************************************************************)

\* get_subid()
Subsystem ==
  CASE htype = "normal" -> Word(44) \cup Word(46)
    [] htype = "cardbus" /\ cached >= 128 -> Word(64) \cup Word(66)
    [] OTHER -> {}

\* show_terse(), whose second half depends on options
TerseLooks == UNION {Byte(8), Byte(9), Byte(14), Subsystem}

ShowTerse ==
  /\ pc = "show"
  /\ ~machine /\ verbose = 0
  /\ UNCHANGED <<fetchVars, verbose, machine, htype, walkVars>>
  /\ Look(TerseLooks, "dump")

ShowMachine ==
  /\ pc = "show"
  /\ machine
  /\ UNCHANGED <<fetchVars, verbose, machine, htype, walkVars>>
  /\ Look(UNION {Byte(8), Byte(9), Byte(14), Subsystem}, "dump")

\* show_verbose() up to pci_fill_info()
ShowVerbose ==
  /\ pc = "show"
  /\ ~machine /\ verbose > 0
  /\ UNCHANGED <<fetchVars, verbose, machine, htype, walkVars>>
  /\ Look(UNION {Word(4), Word(6), 12..15, Byte(61), TerseLooks}, "fill")

\* pci_fill_info() in show_verbose(), again through the buffer; headers of an
\* unknown type are not shown.
FillInfo ==
  /\ pc = "fill"
  /\ pc' = IF htype = "other" THEN "dump" ELSE "registers"
  /\ UNCHANGED <<fetchVars, verbose, machine, htype, walkVars>>

ShowBases(cnt) == Word(4) \cup Longs(16, 12 + 4 * cnt)
ShowRom(reg) == Long(reg) \cup Word(4)

\* The registers of the three kinds of headers; those of show_htype2() behind
\* byte 64 only if config_cached says that they are there.
Htype0 == UNION {62..63, ShowBases(6), ShowRom(48), Byte(52)}
Htype1 ==
  UNION {ShowBases(2), 24..29, Word(30), Word(32), Word(34), Word(36), Word(38),
         Longs(40, 44), Word(48), Word(50), Word(62), ShowRom(56), Byte(52)}
Htype2 == UNION {ShowBases(1), 24..27, Longs(28, 56), Word(22), Word(62)}
Htype2Rest == Word(68) \cup Byte(20)

\* show_htype0(), show_htype1() or show_htype2(), then the status register,
\* which tells whether there is a list of capabilities, and the list's head.
ShowRegisters ==
  /\ pc = "registers"
  /\ UNCHANGED <<fetchVars, verbose, machine, htype, list, next, script, been,
                 canExt, type, left>>
  /\ IF htype = "cardbus" /\ cached < 128
       THEN Look(Htype2, "dump") /\ UNCHANGED where
       ELSE /\ where' \in StdPointers \cup {0}
            /\ Look(Word(6) \cup CASE htype = "normal" -> Htype0
                                   [] htype = "bridge" -> Htype1
                                   [] htype = "cardbus" -> Htype2 \cup Htype2Rest,
                    IF where' = 0 THEN "dump" ELSE "cap")

----------------------------------------------------------------------------
(***************************************************************************)
(* show_caps() and show_ext_caps()                                         *)
(***************************************************************************)
Stay == UNCHANGED <<size, cached, cache, verbose, machine, htype>>

\* Behind the traditional chain comes the extended one, or the walk is over.
LeaveList ==
  /\ IF list = "std" /\ canExt
       THEN list' = "ext" /\ where' = 256 /\ been' = {} /\ pc' = "cap"
       ELSE list' = list /\ where' = 0 /\ been' = been /\ pc' = "dump"
  /\ next' = 0
  /\ script' = <<>>
  /\ UNCHANGED <<canExt, type, left>>

StandardDecoders ==
  [v \in Verbosities |-> [h \in HeaderTypes |-> StandardCaps(v, h)]]
ExtendedDecoders ==
  [v \in Verbosities |-> [t \in PortTypes |-> ExtendedCaps(v, t)]]
Decoders ==
  IF list = "std" THEN StandardDecoders[verbose][htype]
                  ELSE ExtendedDecoders[verbose][type]

\* The header says which decoder is next and where the chain leads.
Choose(c) ==
  /\ c.script # <<>> => left > 0
  /\ next' \in Pointers \cup {0}
  /\ script' = c.script
  /\ canExt' = (canExt \/ c.ext)
  /\ type' = IF c.type = "none" THEN type ELSE c.type
  /\ left' = IF c.script = <<>> THEN left ELSE left - 1
  /\ been' = been \cup {where}
  /\ pc' = "decode"
  /\ UNCHANGED <<list, where>>

\* A fault: the chain is not checked for loops.
CapHeaderLooping ==
  /\ pc = "cap"
  /\ Stay
  /\ \/ FetchFailed(where, 4) /\ LeaveList
     \/ Fetched(where, 4) /\ LeaveList
     \/ Fetched(where, 4) /\ \E c \in Decoders : Choose(c)

\* One round of the loop: the header cannot be read, it is broken or empty, it
\* has been there before, or it is decoded.
CapHeader ==
  /\ pc = "cap"
  /\ Stay
  /\ \/ FetchFailed(where, 4) /\ LeaveList
     \/ Fetched(where, 4) /\ LeaveList
     \/ /\ where \notin been
        /\ Fetched(where, 4)
        /\ \E c \in Decoders : Choose(c)

\* One step of the decoder.
Decode ==
  /\ pc = "decode"
  /\ script # <<>>
  /\ Stay
  /\ UNCHANGED <<list, where, next, been, canExt, type, left>>
  /\ LET s == Head(script)
         pos == where + s.pos
     IN \/ /\ Fetched(pos, s.len)
           /\ Look({where + x : x \in s.looks}, "decode")
           /\ script' = Tail(script)
        \/ /\ FetchFailed(pos, s.len)
           /\ script' = IF s.goOn THEN Tail(script) ELSE <<>>
           /\ pc' = pc

NextCap ==
  /\ pc = "decode"
  /\ script = <<>>
  /\ Stay
  /\ UNCHANGED <<present, bufsize>>
  /\ IF next = 0
       THEN LeaveList
       ELSE /\ where' = next
            /\ pc' = "cap"
            /\ UNCHANGED <<list, next, script, been, canExt, type, left>>

----------------------------------------------------------------------------
(***************************************************************************)
(* show_hex_dump(): nothing or the header (-x), 256 bytes (-xxx) or all    *)
(* (-xxxx), as far as they can be read.                                    *)
(***************************************************************************)
NoDump ==
  /\ pc = "dump"
  /\ pc' = "done"
  /\ UNCHANGED <<fetchVars, verbose, machine, htype, walkVars>>

DumpHeader ==
  /\ pc = "dump"
  /\ UNCHANGED <<fetchVars, verbose, machine, htype, walkVars>>
  /\ Look(0 .. cached - 1, "done")

DumpStandard ==
  /\ pc = "dump"
  /\ \/ Fetched(cached, 256 - cached) /\ pc' = "dump4"
     \/ Fetched(cached, 256 - cached) /\ Look(0..255, "done")
     \/ FetchFailed(cached, 256 - cached) /\ Look(0 .. cached - 1, "done")
  /\ Stay /\ UNCHANGED walkVars

DumpExtended ==
  /\ pc = "dump4"
  /\ \/ Fetched(256, SpaceEnd - 256) /\ Look(0 .. SpaceEnd - 1, "done")
     \/ FetchFailed(256, SpaceEnd - 256) /\ Look(0..255, "done")
  /\ Stay /\ UNCHANGED walkVars

Next ==
  \/ ReadHeader \/ FetchCardbus \/ SetupCache \/ Identify
  \/ ShowTerse \/ ShowMachine \/ ShowVerbose \/ FillInfo \/ ShowRegisters
  \/ CapHeader \/ Decode \/ NextCap
  \/ NoDump \/ DumpHeader \/ DumpStandard \/ DumpExtended

Spec == Init /\ [][Next]_dvars

\* lspcie is one process that waits for nothing but its own reads.
FairSpec == Spec /\ WF_dvars(Next)

----------------------------------------------------------------------------
\* No decoder looks at a byte that config_fetch() has not read, whatever the
\* registers say and whichever fetch fails: lspcie never stops with "Internal
\* bug: Accessing non-read configuration byte" (check_conf_range()).
NoInternalBug == pc # "died"

\* Whenever pci_fill_info() reads the header through the buffer that
\* pci_setup_cache() was given, config_fetch() has not resized it since.
CacheAlive == pc \in {"identify", "fill"} => cache = bufsize

\* Nothing is present behind the end of the buffer, and libpci reads through no
\* buffer but the one there is.
BufferOK == InBuffer /\ CacheAlive

\* Every function is shown in the end, also where chains of capabilities loop.
ShowEnds == <>(pc \in {"done", "died"})
============================================================================
