------------------------------ MODULE BaseRegs ------------------------------
(***************************************************************************)
(* Base addresses as pci_generic_fill_info() obtains them from the         *)
(* registers (lib/generic.c), where a 64-bit address takes two of them.  A *)
(* register is one of "zero", "ones", "io", "mem" and "mem64"; in the      *)
(* second half of an address the same values mean nothing.                 *)
(***************************************************************************)
EXTENDS Integers, Sequences

VARIABLES
  bar,        \* i, -1 before the loop and the number of registers after it
  bars,       \* cnt, the number of registers of the header type
  registers,  \* history: what has been read
  base_addr   \* the addresses that are not zero: sets of registers

baseVars == <<bar, bars, registers, base_addr>>

\* Devices, bridges, CardBus bridges and headers of an unknown type.
RegisterCounts == {6, 2, 1, 0}

RegisterKinds == {"zero", "ones", "io", "mem", "mem64"}

BaseInit == bar = -1 /\ bars = 0 /\ registers = <<>> /\ base_addr = {}

StartBases ==
  /\ bar = -1 /\ bar' = 0
  /\ bars' \in RegisterCounts
  /\ UNCHANGED <<registers, base_addr>>

\* A fault: the limit is that of the array.
SecondHalfOfArray == bar < 5

\* Whether there is a register for the upper half of an address.
SecondHalf == bar < bars - 1

\* One round of the loop.  A 64-bit address in the last register is only
\* warned of.
ReadBase ==
  /\ bar \in 0..bars - 1
  /\ \E x \in RegisterKinds :
       IF x = "mem64" /\ SecondHalf
       THEN \E y \in RegisterKinds :
              /\ registers' = registers \o <<x, y>>
              /\ base_addr' = base_addr \cup {{bar, bar + 1}}
              /\ bar' = bar + 2
       ELSE /\ registers' = Append(registers, x)
            /\ base_addr' = IF x \in {"io", "mem"} THEN base_addr \cup {{bar}}
                            ELSE base_addr
            /\ bar' = bar + 1
  /\ UNCHANGED bars

BaseNext == StartBases \/ ReadBase

----------------------------------------------------------------------------
\* A register is the upper half of an address if the run of registers before
\* it that look like a 64-bit address has an odd length.
UpperHalf(i) ==
  LET runs == {n \in 0..i : \A k \in i - n..i - 1 : registers[k + 1] = "mem64"}
  IN \E n \in runs : n % 2 = 1 /\ \A m \in runs : m <= n

\* At the end of the loop each register belongs to the address it should, and
\* none outside the header's base registers was read.
BasesRight ==
  bar >= bars /\ bar >= 0 =>
    /\ Len(registers) = bars
    /\ base_addr =
         {{i} : i \in {k \in 0..bars - 1 :
                         ~UpperHalf(k) /\ registers[k + 1] \in {"io", "mem"}}}
         \cup
         {{i, i + 1} : i \in {k \in 0..bars - 2 :
                                ~UpperHalf(k) /\ registers[k + 1] = "mem64"}}
============================================================================
