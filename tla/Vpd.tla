--------------------------------- MODULE Vpd ---------------------------------
(***************************************************************************)
(* cap_vpd() of lspcie (ls-vpd.c): a walk over the resources of the vital  *)
(* product data and over the items of two of them.  All lengths come from  *)
(* the device, and each read may fail.  The checksum is to cover each byte *)
(* from the first of the data to the first of item RV once.                *)
(***************************************************************************)
EXTENDS Integers

CONSTANTS
  Mask,         \* PCI_VPD_ADDR_MASK, the last address (0x7fff)
  BufSize,      \* bytes of buf[] (256)
  ItemLengths   \* lengths of items: a byte (0..255)

ASSUME VpdAssumption == /\ Mask \in Nat /\ Mask >= 3
                        /\ BufSize \in Nat /\ BufSize >= 3
                        /\ ItemLengths \subseteq 0..BufSize - 1

VARIABLES
  vpd,          \* "idle", "resource", "name", "fields", "item", "next", "done"
  res_addr, res_len, part_pos,
  part_len,     \* of the item whose header has been read
  counted,      \* history: how often the checksum has each address, Often for more
  skipped,      \* history: the walk has left bytes behind
  lastRead,     \* history: [pos, len] of the last read
  verdict       \* history: [at, sum, skipped] when RV was looked at, or None

vpdVars == <<vpd, res_addr, res_len, part_pos, part_len, counted, skipped,
             lastRead, verdict>>

None == [at |-> -1, sum |-> {}, first |-> FALSE]

\* One more place, for an item RV without any byte behind the last resource.
Places == 0..Mask + 1

VpdInit ==
  /\ vpd = "idle" /\ res_addr = 0 /\ res_len = 0 /\ part_pos = 0 /\ part_len = 0
  /\ counted = [x \in Places |-> 0]
  /\ skipped = FALSE /\ lastRead = [pos |-> 0, len |-> 0] /\ verdict = None

\* verbose > 1
StartVpd ==
  /\ vpd = "idle" /\ vpd' = "resource"
  /\ UNCHANGED <<res_addr, res_len, part_pos, part_len, counted, skipped,
                 lastRead, verdict>>

\* Bound: an address counted twice is wrong however often it is.
Often == 2

\* read_vpd() when the device answers.
Count(pos, len) ==
  /\ lastRead' = [pos |-> pos, len |-> len]
  /\ counted' = [x \in Places |->
                   IF x \in pos..pos + len - 1 /\ counted[x] < Often
                   THEN counted[x] + 1 ELSE counted[x]]

\* The loop ends: the data does, or a tag or length cannot be read or be true.
VpdDone ==
  /\ vpd' = "done"
  /\ UNCHANGED <<res_addr, res_len, part_pos, part_len, counted, skipped,
                 lastRead, verdict>>

\* A tag that cannot be read, the end tag and all other small ones, large ones
\* of another type, and lengths that lead out of the data end the walk.
EndOfData ==
  /\ vpd = "resource"
  /\ VpdDone

\* The tag and length of a resource to decode.
ReadResource ==
  /\ vpd = "resource" /\ res_addr <= Mask - 2
  /\ \E len \in 0..Mask - 2 - res_addr :
       /\ res_len' = len
       /\ res_addr' = res_addr + 3
  /\ Count(res_addr, 3)
  /\ part_pos' = 0
  /\ vpd' \in {"name", "fields"}
  /\ UNCHANGED <<part_len, skipped, verdict>>

\* A fault: the size of the buffer is not looked at.
NamePieceAll == res_len - part_pos

NamePiece == IF res_len - part_pos > BufSize THEN BufSize ELSE res_len - part_pos

\* The product name, in pieces that fit the buffer.
ReadName ==
  /\ vpd = "name" /\ part_pos < res_len
  /\ Count(res_addr + part_pos, NamePiece)
  /\ part_pos' = part_pos + NamePiece
  /\ UNCHANGED <<vpd, res_addr, res_len, part_len, skipped, verdict>>

\* The head of an item; one that is longer than the resource ends it.
ReadItemHead ==
  /\ vpd = "fields" /\ part_pos + 3 <= res_len
  /\ Count(res_addr + part_pos, 3)
  /\ part_pos' = part_pos + 3
  /\ \E len \in ItemLengths :
       /\ part_len' = len
       /\ vpd' = IF len > res_len - part_pos' THEN "next" ELSE "item"
  /\ skipped' = (skipped \/ (vpd' = "next" /\ part_pos' < res_len))
  /\ UNCHANGED <<res_addr, res_len, verdict>>

\* A fault: the head is taken for a part of the item.
ItemEndWithoutHead == IF part_len = 0 THEN part_pos - 3 ELSE part_pos + part_len

\* part_pos after the item
ItemEnd == part_pos + part_len

\* An item of which all is read.
ReadItem ==
  /\ vpd = "item"
  /\ Count(res_addr + part_pos, part_len)
  /\ part_pos' = ItemEnd
  /\ vpd' = "fields"
  /\ UNCHANGED <<res_addr, res_len, part_len, skipped, verdict>>

\* A fault: read_len is that of the item.
ChecksumLenAll == part_len

\* read_len of item RV
ChecksumLen == 1

\* Item RV: only its first byte is read and counted.
ReadChecksum ==
  LET pos == res_addr + part_pos
  IN /\ vpd = "item"
     /\ Count(pos, ChecksumLen)
     /\ part_pos' = ItemEnd
     /\ vpd' = "fields"
     /\ verdict' = [at |-> pos, sum |-> {x \in Places : counted'[x] = 1},
                    first |-> verdict = None /\ ~skipped]
     /\ skipped' = (skipped \/ part_len # 1)
     /\ UNCHANGED <<res_addr, res_len, part_len>>

\* A read within a resource fails: the rest of the resource is left.
LeaveResource ==
  /\ \/ vpd = "name" /\ part_pos < res_len
     \/ vpd = "fields" /\ part_pos + 3 <= res_len
     \/ vpd = "item"
  /\ vpd' = "next"
  /\ skipped' = (skipped \/ part_pos < res_len)
  /\ UNCHANGED <<res_addr, res_len, part_pos, part_len, counted, lastRead, verdict>>

\* Nothing is left in the resource, or less than the head of an item.
EndOfResource ==
  /\ \/ vpd = "name" /\ part_pos >= res_len
     \/ vpd = "fields" /\ part_pos + 3 > res_len
  /\ vpd' = "next"
  /\ skipped' = (skipped \/ part_pos < res_len)
  /\ UNCHANGED <<res_addr, res_len, part_pos, part_len, counted, lastRead, verdict>>

NextResource ==
  /\ vpd = "next"
  /\ res_addr' = res_addr + res_len
  /\ vpd' = IF res_addr' <= Mask THEN "resource" ELSE "done"
  /\ UNCHANGED <<res_len, part_pos, part_len, counted, skipped, lastRead, verdict>>

VpdWalk ==
  \/ EndOfData \/ ReadResource \/ ReadName \/ ReadItemHead \/ ReadItem
  \/ ReadChecksum \/ LeaveResource \/ EndOfResource \/ NextResource

VpdNext == StartVpd \/ VpdWalk

----------------------------------------------------------------------------
\* No read leaves the data or the buffer, whatever lengths the device claims,
\* except that an item RV without any byte may be the last of the data, and a
\* byte is read behind it.
VpdInside ==
  /\ lastRead.len <= BufSize
  /\ \/ lastRead.pos + lastRead.len <= Mask + 1
     \/ lastRead.pos = Mask + 1 /\ verdict.at = Mask + 1

\* When the first item RV is reached and nothing was left out before it, the
\* checksum consists of each byte from the first one to that of RV, once.
ChecksumCovers == verdict.first => verdict.sum = 0..verdict.at

\* The walk ends, whatever the device claims: each round reads a header.
VpdEnds == vpd = "resource" ~> vpd = "done"
============================================================================
