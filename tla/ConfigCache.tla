---------------------------- MODULE ConfigCache ----------------------------
(***************************************************************************)
(* A client of libpci that hands the first registers it has read of a      *)
(* device to the library (pci_setup_cache(), as lspcie does) and goes on   *)
(* to read and write registers, in units and in blocks: units inside the   *)
(* cache are read from it, and writes change it first (lib/access.c).      *)
(***************************************************************************)
EXTENDS Registers

CONSTANTS
  Handles,    \* struct pci_dev objects, by their functions
  CacheLens,  \* lengths of the cache
  Accesses,   \* positions and lengths of the client's accesses
  Fills       \* what a client writes: the contents of each byte

ASSUME AccessAssumption ==
  /\ Handles \subseteq Functions /\ CacheLens \subseteq Nat
  /\ Accesses \subseteq Nat \X (Nat \ {0})
  /\ Fills \subseteq Byte

VARIABLES
  dev,      \* the struct pci_dev, by its function
  cache,    \* the contents of d->cache at Positions below d->cache_len
  cacheLen, \* d->cache_len
  last,     \* the last call, and what it returned
  doubtful  \* history: registers of whose write the client was told that it
            \* has failed

cacheVars == <<dev, cache, cacheLen, last, doubtful>>

Calls == {"none", "setup", "read", "write", "block", "writeblock", "error"}

CacheInit ==
  /\ dev \in Handles
  /\ cache = <<>>
  /\ cacheLen = 0
  /\ last = [call |-> "none"]
  /\ doubtful = {}

CacheTypeOK ==
  /\ dev \in Handles
  /\ cacheLen \in CacheLens \cup {0}
  /\ DOMAIN cache = Positions \cap 0 .. cacheLen - 1
  /\ \A x \in DOMAIN cache : cache[x] \in Byte
  /\ doubtful \subseteq Nat
  /\ last.call \in Calls

Running == last.call # "error"
Block(pos, len) == pos .. pos + len - 1

\* scan_device(): the registers are read in one block and handed over.
SetupCache(len) ==
  LET r == Read(method, dev, 0, len)
  IN /\ Running /\ r.ok
     /\ cacheLen' = len
     /\ cache' = [x \in Positions \cap 0 .. len - 1 |-> r.bytes[x + 1]]
     /\ last' = [call |-> "setup"]
     /\ doubtful' = {}
     /\ UNCHANGED <<machine, tree, method, space, dev>>

\* Both accessors call a->error() for a position that is no multiple of the
\* length.
Unaligned(pos, len) ==
  /\ Running /\ len \in Direct /\ pos % len # 0
  /\ last' = [call |-> "error"]
  /\ UNCHANGED <<machine, tree, method, space, dev, cache, cacheLen, doubtful>>

\* pci_read_data(): what cannot be read is all ones.
Data(pos, len) ==
  LET r == Read(method, dev, pos, len)
  IN IF pos + len <= cacheLen
       THEN [i \in 1..len |-> IF pos + i - 1 \in Positions
                                THEN cache[pos + i - 1] ELSE {}]
     ELSE IF r.ok THEN r.bytes ELSE Ones(len)

\* pci_read_byte(), pci_read_word(), pci_read_long()
ReadData(pos, len) ==
  /\ Running /\ len \in Direct /\ pos % len = 0
  /\ last' = [call |-> "read", pos |-> pos,
              bytes |-> Data(pos, len)]
  /\ UNCHANGED <<machine, tree, method, space, dev, cache, cacheLen, doubtful>>

\* pci_read_block() does not look at the cache.
ReadBlock(pos, len) ==
  LET r == Read(method, dev, pos, len)
  IN /\ Running
     /\ last' = IF r.ok THEN [call |-> "block", pos |-> pos,
                              bytes |-> r.bytes]
                ELSE [call |-> "none"]
     /\ UNCHANGED <<machine, tree, method, space, dev, cache, cacheLen, doubtful>>

\* The cache after memcpy() of the first count bytes, all of them f.
Copied(pos, count, f) ==
  [x \in DOMAIN cache \cup (Positions \cap Block(pos, count)) |->
     IF x \in Block(pos, count) THEN f ELSE cache[x]]

\* The write method, after the cache has been changed.
Writes(pos, len, f, call) ==
  LET r == Write(method, dev, pos, [i \in 1..len |-> f])
  IN /\ space' = r.space
     /\ last' = [call |-> call, pos |-> pos, len |-> len]
     /\ doubtful' = IF r.ok THEN doubtful \ Block(pos, len)
                    ELSE doubtful \cup Block(pos, len)
     /\ UNCHANGED <<machine, tree, method, dev, cacheLen>>

\* A fault: the cache is left alone.
WriteDataOnly(pos, len, f) ==
  /\ Running /\ len \in Direct /\ pos % len = 0
  /\ Writes(pos, len, f, "write")
  /\ UNCHANGED cache

\* pci_write_byte(), pci_write_word(), pci_write_long()
WriteData(pos, len, f) ==
  /\ Running /\ len \in Direct /\ pos % len = 0
  /\ cache' = IF pos + len <= cacheLen THEN Copied(pos, len, f) ELSE cache
  /\ Writes(pos, len, f, "write")

\* A fault: the part of a block that is copied is not cut at the end of the cache.
WriteBlockUncut(pos, len, f) ==
  /\ Running
  /\ cache' = IF pos >= cacheLen THEN cache ELSE Copied(pos, len, f)
  /\ Writes(pos, len, f, "writeblock")

\* pci_write_block(): a block may begin in the cache and end behind it.
WriteBlock(pos, len, f) ==
  /\ Running
  /\ cache' = IF pos >= cacheLen THEN cache
               ELSE Copied(pos, IF pos + len >= cacheLen THEN cacheLen - pos
                                ELSE len, f)
  /\ Writes(pos, len, f, "writeblock")

ClientStep ==
  \/ \E len \in CacheLens : SetupCache(len)
  \/ \E a \in Accesses :
       \/ Unaligned(a[1], a[2])
       \/ ReadData(a[1], a[2])
       \/ ReadBlock(a[1], a[2])
       \/ \E f \in Fills : WriteData(a[1], a[2], f) \/ WriteBlock(a[1], a[2], f)
----------------------------------------------------------------------------
(***************************************************************************)
(* Properties.                                                             *)
(***************************************************************************)
\* The cache of a quiet device with one struct pci_dev holds what its registers
\* hold, after any sequence of units and blocks that begin, end or lie in the
\* cache, except where the client has been told that a write has failed:
\* pci_write_data() and pci_write_block() change the cache before they know.
CacheIsSpace ==
  \A x \in DOMAIN cache : x \in doubtful \/ cache[x] = space[dev][x]

Size(d) == IF method \notin Ports THEN 4096
           ELSE IF PortRefuses(method, d, 0) THEN 0 ELSE 256

\* Whatever its alignment, a unit or block that could be read is the registers
\* it stands for: the accesses it is split into cover it once, in order, and do
\* not leave the data ports.  Blocks of 2 and 4 bytes are not split, so that
\* the client has to align them.
ReadIsSpace ==
  last.call \in {"read", "block"} =>
    LET len == Len(last.bytes)
    IN (len \in Direct => last.pos % len = 0) =>
         \A i \in 1..len :
           LET x == last.pos + i - 1
           IN \/ last.bytes[i] = IF x >= Size(dev) THEN 0..7
                                 ELSE IF x \in Positions THEN space[dev][x]
                                 ELSE {}
              \/ last.call = "read" /\ x \in doubtful

\* A write reaches registers of the client's device in the block it has been
\* given and nothing else, also where it is refused half-way.
StaysInside ==
  \A fn \in Functions : \A x \in Positions :
    space'[fn][x] # space[fn][x] =>
      /\ last'.call \in {"write", "writeblock"}
      /\ fn = dev /\ x \in Block(last'.pos, last'.len)

\* A client gets what the registers hold, through the cache or not, and changes
\* nothing but what it writes.
ClientIsRaw ==
  /\ [](CacheTypeOK /\ CacheIsSpace /\ ReadIsSpace)
  /\ [][StaysInside \/ ~ClientStep]_<<space, last>>
============================================================================
