---------------------------- MODULE ConfigFetch ----------------------------
(***************************************************************************)
(* struct device of lspcie: the part of a function's configuration space   *)
(* that has been read, config_fetch(), which reads more of it, and the     *)
(* accessors get_conf_byte(), get_conf_word() and get_conf_long(), which   *)
(* kill lspcie when they are asked for a byte that has not been read       *)
(* ("Internal bug: Accessing non-read configuration byte").                *)
(*                                                                         *)
(* The buffer only changes address when it is resized, so its size stands  *)
(* for the address.  libpci keeps the pointer it got in pci_setup_cache(). *)
(***************************************************************************)
EXTENDS Naturals, FiniteSetsExt

CONSTANTS
  Reachable,   \* how many bytes of a function the process may be able to read
  Doublings    \* how often the buffer can be doubled at most

ASSUME ReachableAssumption == Reachable \subseteq Nat
ASSUME DoublingsAssumption == Doublings \in Nat

VARIABLES
  size,     \* bytes of this function's configuration space that can be read
  present,  \* d->present: the positions of bytes that have been read
  bufsize,  \* d->config_bufsize
  cached,   \* d->config_cached
  cache     \* size of the buffer handed to pci_setup_cache(), 0 for none

fetchVars == <<size, present, bufsize, cached, cache>>

BufferSizes == {64 * 2^k : k \in 0..Doublings}

FetchTypeOK ==
  /\ size \in Reachable
  /\ present \subseteq Nat
  /\ bufsize \in BufferSizes
  /\ cached \in {64, 128}
  /\ cache \in {0} \cup BufferSizes

FetchInit ==
  /\ size \in Reachable
  /\ present = 0..63
  /\ bufsize = 64
  /\ cached = 64
  /\ cache = 0

\* Faults of the resizing: one doubling at most, and a buffer of just the size.
GrownOnce(end) == IF end > bufsize THEN 2 * bufsize ELSE bufsize
GrownExactly(end) == IF end > bufsize THEN end ELSE bufsize

\* The first doubling that holds what ends before end.
Grown(end) == Min({b \in BufferSizes : b >= bufsize /\ b >= end})

\* What config_fetch() has to read of the len bytes at pos: those that are
\* present are trimmed from both ends.
Missing(pos, len) == (pos .. pos + len - 1) \ present

\* config_fetch() returning 1: nothing was missing, or pci_read_block() read
\* from the first to the last missing byte.
Fetched(pos, len) ==
  LET missing == Missing(pos, len) IN
  IF missing = {}
    THEN UNCHANGED <<present, bufsize>>
    ELSE /\ Max(missing) < size
         /\ present' = present \cup Min(missing) .. Max(missing)
         /\ bufsize' = Grown(pos + len)

\* config_fetch() returning 0: the buffer has been resized all the same.
FetchFailed(pos, len) ==
  /\ Missing(pos, len) # {}
  /\ bufsize' = Grown(pos + len)
  /\ UNCHANGED present

\* Bytes an accessor looks at.
Byte(pos) == {pos}
Word(pos) == pos .. pos + 1
Long(pos) == pos .. pos + 3
Longs(first, last) == first .. last + 3

----------------------------------------------------------------------------
\* What d->present says has been read lies inside d->config, however the
\* positions of capabilities make config_fetch() resize the buffers.
InBuffer == present \subseteq 0 .. bufsize - 1
============================================================================
