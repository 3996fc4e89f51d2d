-------------------------------- MODULE Dump --------------------------------
(***************************************************************************)
(* The back-end that reads dumps of registers from a file (lib/dump.c).    *)
(* dump_init() goes through the lines of the file: the address of a device *)
(* begins one, lines of bytes belong to it up to an empty line, and its    *)
(* buffer, of 256 bytes at first, grows to 4096 when a byte falls behind.  *)
(* Every byte is a step.                                                   *)
(***************************************************************************)
EXTENDS Registers

VARIABLES
  file,    \* the lines of the file
  lines,   \* the lines of the file that are to be read
  bytes,   \* the bytes that are left of the current line
  where,   \* the position the next of them belongs to
  within,  \* TRUE if dev is not NULL in dump_init()
  dumped   \* the devices, oldest first: function, contents, length and
           \* allocated length of the buffer

dumpVars == <<file, lines, bytes, where, within, dumped>>

DumpInit(f) ==
  /\ file = f /\ lines = f /\ bytes = <<>> /\ where = 0 /\ within = FALSE
  /\ dumped = <<>>

Current == Len(dumped)

\* A line with the address of a device.
Slot(fn) ==
  /\ dumped' = Append(dumped, [fn |-> fn, data |-> <<>>, len |-> 0,
                               allocated |-> 256])
  /\ within' = TRUE
  /\ UNCHANGED <<bytes, where>>

\* One iteration of the loop of dump_init(), which ends the program at the end
\* of an overlong line or of one without a newline.
DumpLine ==
  /\ bytes = <<>> /\ lines # <<>> /\ lines[1].kind # "long"
  /\ lines' = Tail(lines)
  /\ UNCHANGED file
  /\ LET l == lines[1]
     IN CASE l.kind = "slot" -> Slot(l.fn)
          [] l.kind = "empty" -> within' = FALSE /\ UNCHANGED <<bytes, where, dumped>>
          [] l.kind = "bytes" /\ within -> bytes' = l.bytes /\ where' = l.at
                                           /\ UNCHANGED <<within, dumped>>
          [] OTHER -> UNCHANGED <<bytes, where, within, dumped>>

\* A device with a byte more in its buffer, which is replaced by one of 4096
\* bytes if it grows; d->len is set anew then.
Stored(d, byte, kept, grows) ==
  LET len == IF grows THEN 0 ELSE d.len
  IN [fn |-> d.fn,
      data |-> [x \in DOMAIN kept \cup {where} |->
                  IF x = where THEN byte ELSE kept[x]],
      len |-> IF where >= len THEN where + 1 ELSE len,
      allocated |-> IF grows THEN 4096 ELSE d.allocated]

\* Faults: the buffer grows one byte late, or forgets what it held.
StoreLate(d, byte) == Stored(d, byte, d.data, where > d.allocated)
StoreAnew(d, byte) ==
  LET grows == where >= d.allocated
  IN Stored(d, byte, IF grows THEN <<>> ELSE d.data, grows)

\* The device after the byte has been stored, in a new buffer if need be, which
\* gets the 256 bytes of the old one.
Store(d, byte) ==
  LET grows == where >= d.allocated
      kept == [x \in DOMAIN d.data \cap 0..255 |-> d.data[x]]
  IN Stored(d, byte, IF grows THEN kept ELSE d.data, grows)

\* A byte of the line.  What is no byte, and a position behind 4095, end the
\* program.
DumpByte ==
  /\ bytes # <<>> /\ bytes[1] \in Byte /\ where < 4096
  /\ dumped' = [dumped EXCEPT ![Current] = Store(@, bytes[1])]
  /\ bytes' = Tail(bytes)
  /\ where' = where + 1
  /\ UNCHANGED <<file, lines, within>>

DumpError ==
  \/ bytes = <<>> /\ lines # <<>> /\ lines[1].kind = "long"
  \/ bytes # <<>> /\ (bytes[1] \notin Byte \/ where >= 4096)

DumpDone == bytes = <<>> /\ lines = <<>>

\* The buffer dump_read() takes: the one of the device itself, or, if the
\* device does not come from the file, that of the first device in the list
\* with its address; devices are linked at the head of the list.
BufferOf(h) ==
  IF h.aux # 0 THEN {dumped[h.aux]}
  ELSE LET same == {k \in DOMAIN dumped : dumped[k].fn = h.fn}
       IN IF same = {} THEN {} ELSE {dumped[Max(same)]}

\* dump_read(); bytes the dump leaves out are 0xff.
DumpRead(h, pos, len) ==
  LET found == {d \in BufferOf(h) : pos + len <= d.len}
  IN IF found = {} THEN [ok |-> FALSE]
     ELSE [ok |-> TRUE,
           bytes |-> [i \in 1..len |->
                        LET d == CHOOSE x \in found : TRUE
                            x == pos + i - 1
                        IN IF x \in DOMAIN d.data THEN d.data[x] ELSE 0..7]]

----------------------------------------------------------------------------
(***************************************************************************)
(* Properties.                                                             *)
(***************************************************************************)

\* No byte is stored behind the buffer, and the length a reader relies on ends
\* with the last byte the file has.
DumpInside ==
  \A k \in DOMAIN dumped :
    /\ DOMAIN dumped[k].data \subseteq 0 .. dumped[k].allocated - 1
    /\ dumped[k].len <= dumped[k].allocated
    /\ dumped[k].len = IF DOMAIN dumped[k].data = {} THEN 0
                       ELSE Max(DOMAIN dumped[k].data) + 1

\* The lines of bytes that belong to the device of line i: those up to the next
\* empty line or address.
Owned(i) ==
  {j \in i + 1 .. Len(file) :
     /\ file[j].kind = "bytes"
     /\ \A k \in i + 1 .. j : file[k].kind \notin {"slot", "empty"}}
Covers(j, x) == x \in file[j].at .. file[j].at + Len(file[j].bytes) - 1

\* Every device of the file has the bytes of its lines, the last one where
\* lines overlap, whatever their order and although the buffer is replaced
\* under way.
DumpIsFile ==
  DumpDone =>
    \A i \in {j \in DOMAIN file : file[j].kind = "slot"} :
      LET d == dumped[Cardinality({j \in 1..i : file[j].kind = "slot"})]
      IN /\ d.fn = file[i].fn
         /\ DOMAIN d.data = UNION {file[j].at .. file[j].at + Len(file[j].bytes) - 1 :
                                    j \in Owned(i)}
         /\ \A x \in DOMAIN d.data :
              LET j == Max({l \in Owned(i) : Covers(l, x)})
              IN d.data[x] = file[j].bytes[x - file[j].at + 1]

\* What was dumped is what is read, inside the buffer of its device.
DumpRight == DumpInside /\ DumpIsFile
=============================================================================
