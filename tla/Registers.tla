----------------------------- MODULE Registers -----------------------------
(***************************************************************************)
(* The way of an access to configuration registers through libpci: the     *)
(* methods that poke the I/O ports of the two host bridge interfaces       *)
(* (lib/i386-ports.c), the splitting of blocks into accesses of 1, 2 and 4 *)
(* bytes (lib/generic.c), and beside them the kernel's files, which        *)
(* SysfsConfig and ProcConfig refine.  Blocks are sequences of bytes, and  *)
(* a byte is the set of its bits that are 1.                               *)
(***************************************************************************)
EXTENDS BlockOp, SequencesExt

CONSTANTS
  Functions,  \* the functions that exist: domain, bus, slot, func
  Positions   \* where their registers are; others read as 0

ASSUME PositionsAssumption ==
  /\ Positions \subseteq 0..4095
  /\ Functions \subseteq [domain : Nat, bus : 0..255, slot : 0..31, func : 0..7]

VARIABLES
  machine,  \* what there is: directories, the right to access I/O ports, and
            \* the interface the host bridge has
  tree,     \* TRUE if the directory of the kernel's files that the
            \* parameters name can be read
  method,   \* a->methods, or "none"
  space     \* the configuration space of each function

Byte == SUBSET (0..7)
Ones(len) == [i \in 1..len |-> 0..7]

Ports == {"intel-conf1", "intel-conf2"}
KernelFiles == {"linux-sysfs", "linux-proc"}

----------------------------------------------------------------------------
(***************************************************************************)
(* The ports.  The addresses are put together with "or": the bits of a     *)
(* position behind 255 would fall upon those of the device and function.   *)
(***************************************************************************)
Or(a, b) ==
  IF b = 0 THEN a
  ELSE MapThenSumSet(LAMBDA k : 2^k,
         {k \in 0..7 : (a \div 2^k) % 2 = 1 \/ (b \div 2^k) % 2 = 1})

\* The registers the data ports from 0xCFC + (pos & 3) on lead to when
\* conf1_read() or conf1_write() has written the address to port 0xCF8; the
\* last of these ports is 0xCFF.
Config1(d, pos, len) ==
  LET devfn == Or(8 * d.slot + d.func, pos \div 256)
  IN [fn |-> [domain |-> 0, bus |-> d.bus % 256, slot |-> devfn \div 8,
              func |-> devfn % 8],
      from |-> pos % 256, count |-> Min({len, 4 - (pos % 4)})]

\* conf2_read() and conf2_write() put function and bus into 0xCF8 and 0xCFA;
\* the device is part of the number of the data port.
Config2(d, pos, len) ==
  [fn |-> [domain |-> 0, bus |-> d.bus, slot |-> Or(d.slot, pos \div 256),
           func |-> d.func],
   from |-> pos % 256, count |-> len]

\* A fault: positions behind the 256 bytes of these interfaces.
PortRefusesDomain(m, d, pos) == d.domain # 0 \/ (m = "intel-conf2" /\ d.slot >= 16)

\* What conf1_read(), conf1_write(), conf2_read() and conf2_write() refuse.
PortRefuses(m, d, pos) ==
  d.domain # 0 \/ pos >= 256 \/ (m = "intel-conf2" /\ d.slot >= 16)

\* Where an access that is not refused ends.  The kernel's files lead to the
\* device itself.
Reached(m, d, pos, len) ==
  CASE m = "intel-conf1" -> Config1(d, pos, len)
    [] m = "intel-conf2" -> Config2(d, pos, len)
    [] OTHER -> [fn |-> d, from |-> pos, count |-> len]

\* Nothing answers at the ports of an interface the host bridge does not have.
Answers(m, fn) ==
  fn \in Functions /\ IF m \in Ports THEN machine.ports = m ELSE tree

\* inb(), inw(), inl(), pread()
In(m, d, pos, len) ==
  LET r == Reached(m, d, pos, len)
  IN [i \in 1..len |->
        IF i > r.count \/ ~Answers(m, r.fn) THEN 0..7
        ELSE IF r.from + i - 1 \in Positions THEN space[r.fn][r.from + i - 1]
        ELSE {}]

\* outb(), outw(), outl(), pwrite(): whether an access that ends at r changes
\* a register.
Out(m, r, fn, x) ==
  fn = r.fn /\ x \in r.from .. r.from + r.count - 1 /\ Answers(m, fn)

----------------------------------------------------------------------------
(***************************************************************************)
(* The methods' read and write: what they return, and the registers after  *)
(* it.  Through the ports a block of another length than 1, 2 and 4 is     *)
(* read and written in pieces until one is refused.                        *)
(***************************************************************************)
Direct == {1, 2, 4}

Refuses(m, d, pos, len) ==
  IF m \in Ports THEN PortRefuses(m, d, pos)
  ELSE ~Answers(m, d) \/ pos + len > 4096

InPieces(m, pos, len) ==
  IF m \in Ports /\ len \notin Direct THEN Pieces(pos, len) ELSE <<<<pos, len>>>>

\* How many of the pieces precede the first one that is refused.
Granted(m, d, pieces) ==
  Max({0} \cup {k \in DOMAIN pieces :
                  \A j \in 1..k : ~Refuses(m, d, pieces[j][1], pieces[j][2])})

\* The registers of a piece.
Covered(p) == p[1] .. p[1] + p[2] - 1

\* The buffer goes on with the position, so that a byte of it is what the
\* access to the piece has returned that holds its register.
Read(m, d, pos, len) ==
  LET pieces == InPieces(m, pos, len)
      byte(x) == LET k == CHOOSE j \in DOMAIN pieces : x \in Covered(pieces[j])
                 IN In(m, d, pieces[k][1], pieces[k][2])[x - pieces[k][1] + 1]
  IN IF Granted(m, d, pieces) < Len(pieces) \/ Refuses(m, d, pos, len)
       THEN [ok |-> FALSE]
     ELSE [ok |-> TRUE, bytes |-> [i \in 1..len |-> byte(pos + i - 1)]]

\* A register is left with what the last of the accesses that reach it has
\* written.
Write(m, d, pos, bytes) ==
  LET pieces == InPieces(m, pos, Len(bytes))
      granted == IF Refuses(m, d, pos, Len(bytes)) THEN 0
                 ELSE Granted(m, d, pieces)
      ends == [k \in 1..granted |-> Reached(m, d, pieces[k][1], pieces[k][2])]
      reaching(fn, x) == {k \in 1..granted : Out(m, ends[k], fn, x)}
      byte(k, x) == bytes[pieces[k][1] - pos + x - ends[k].from + 1]
  IN [ok |-> granted = Len(pieces),
      space |-> [fn \in Functions |-> [x \in Positions |->
                   IF reaching(fn, x) = {} THEN space[fn][x]
                   ELSE byte(Max(reaching(fn, x)), x)]]]
============================================================================
