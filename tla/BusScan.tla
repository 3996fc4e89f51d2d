------------------------------ MODULE BusScan ------------------------------
(***************************************************************************)
(* Enumeration of buses by direct access to configuration space            *)
(* (lib/generic.c: pci_generic_scan(), pci_generic_scan_bus()).  The       *)
(* recursion into secondary buses is a stack of frames; every read of a    *)
(* register is a step, and the hardware may change between any two.        *)
(***************************************************************************)
EXTENDS Naturals, Sequences, FiniteSets

CONSTANTS
  LastBus,    \* the last bus number, 255 in the code
  MaxDev,     \* the last device number of a bus, 31 in the code
  MaxFunc,    \* the last function number of a device, 7 in the code
  Hardware,   \* the contents the configuration space can have
  Unstable    \* those of them that may become each other during the scan

BusNumbers == 0..LastBus
Addresses == BusNumbers \X (0..MaxDev) \X (0..MaxFunc)

\* What the scan reads of a function: whether it answers, the header type with
\* the multi-function bit, and of bridges the bus numbers, of which the scan
\* needs the secondary one.
Kinds == {"none", "normal", "bridge", "unknown"}
Functions == [kind : Kinds, multi : BOOLEAN,
              prim : BusNumbers, sec : BusNumbers, sub : BusNumbers]

ASSUME SizeAssumption == LastBus \in Nat /\ MaxDev \in Nat /\ MaxFunc \in Nat
ASSUME HardwareAssumption == Hardware \subseteq [Addresses -> Functions]
ASSUME UnstableAssumption == Unstable \subseteq Hardware

VARIABLES
  hw,      \* the registers of the functions
  busmap,  \* the buses busmap[] marks
  stack,   \* the active calls of pci_generic_scan_bus(), innermost first
  list,    \* a->devices, the latest one first
  reg      \* the register the innermost call reads next

svars == <<hw, busmap, stack, list, reg>>

Frames == [bus : BusNumbers, dev : 0..(MaxDev + 1), func : 0..MaxFunc,
           multi : BOOLEAN]
Frame(b) == [bus |-> b, dev |-> 0, func |-> 0, multi |-> FALSE]
Top == stack[1]
Function(f) == <<f.bus, f.dev, f.func>>

ScanInit ==
  /\ hw \in Hardware
  /\ busmap = {0}
  /\ stack = <<Frame(0)>>
  /\ list = <<>>
  /\ reg = "id"

\* The end of both loops' bodies.  A fault: the multi-function bit outlives its
\* device.
AfterForgetful(f) ==
  IF f.multi /\ f.func < MaxFunc
    THEN [f EXCEPT !.func = @ + 1]
    ELSE [f EXCEPT !.dev = @ + 1, !.func = 0]
After(f) ==
  IF f.multi /\ f.func < MaxFunc
    THEN [f EXCEPT !.func = @ + 1]
    ELSE [f EXCEPT !.dev = @ + 1, !.func = 0, !.multi = FALSE]

\* The vendor and device identifiers: all zeroes or all ones is no function.
ReadId ==
  /\ stack # <<>> /\ reg = "id" /\ Top.dev <= MaxDev
  /\ IF hw[Function(Top)].kind = "none"
       THEN stack' = [stack EXCEPT ![1] = After(@)] /\ UNCHANGED reg
       ELSE reg' = "header" /\ UNCHANGED stack
  /\ UNCHANGED <<hw, busmap, list>>

\* The header type: function 0 decides whether there are others; the function
\* is put on the list.  A register that is not there any more reads as ones,
\* which is a multi-function device of unknown type.
ReadHeader ==
  LET fn == hw[Function(Top)]
      multi == IF Top.func = 0 THEN fn.multi \/ fn.kind = "none" ELSE Top.multi
      f == [Top EXCEPT !.multi = multi]
  IN /\ stack # <<>> /\ reg = "header"
     /\ list' = <<Function(Top)>> \o list
     /\ IF fn.kind = "bridge"
          THEN reg' = "secondary" /\ stack' = [stack EXCEPT ![1] = f]
          ELSE reg' = "id" /\ stack' = [stack EXCEPT ![1] = After(f)]
     /\ UNCHANGED <<hw, busmap>>

\* A fault: busmap[] is not looked at (up to a depth no scan should reach).
ReadSecondaryAgain ==
  LET b == hw[Function(Top)].sec
      outer == [stack EXCEPT ![1] = After(@)]
  IN /\ stack # <<>> /\ reg = "secondary"
     /\ reg' = "id"
     /\ Len(stack) <= LastBus + 1
     /\ stack' = <<Frame(b)>> \o outer
     /\ busmap' = busmap \cup {b}
     /\ UNCHANGED <<hw, list>>

\* The secondary bus is scanned unless busmap[] has it.  Without the bridge the
\* register reads 0xff, the number of a bus that is scanned like any other one.
ReadSecondary ==
  LET fn == hw[Function(Top)]
      b == IF fn.kind = "none" THEN LastBus ELSE fn.sec
      outer == [stack EXCEPT ![1] = After(@)]
  IN /\ stack # <<>> /\ reg = "secondary"
     /\ reg' = "id"
     /\ IF b \in busmap
          THEN stack' = outer /\ UNCHANGED busmap
          ELSE stack' = <<Frame(b)>> \o outer /\ busmap' = busmap \cup {b}
     /\ UNCHANGED <<hw, list>>

\* All devices of the bus have been tried.
BusDone ==
  /\ stack # <<>> /\ reg = "id" /\ Top.dev > MaxDev
  /\ stack' = Tail(stack)
  /\ UNCHANGED <<hw, busmap, list, reg>>

HwChange ==
  /\ hw \in Unstable /\ stack # <<>>
  /\ hw' \in Unstable
  /\ UNCHANGED <<busmap, stack, list, reg>>

ScanBus == ReadId \/ ReadHeader \/ ReadSecondary \/ BusDone

ScanNext == ScanBus \/ HwChange

ScanSpec == ScanInit /\ [][ScanNext]_svars
----------------------------------------------------------------------------
ScanTypeOK ==
  /\ hw \in [Addresses -> Functions]
  /\ busmap \subseteq BusNumbers
  /\ stack \in Seq(Frames)
  /\ list \in Seq(Addresses)
  /\ reg \in {"id", "header", "secondary"}

\* A function is listed once, although bridges may lead to the same bus or back
\* to one that is being scanned, and may change while they are.
ListedOnce == \A i, j \in 1..Len(list) : list[i] = list[j] => i = j

\* The recursion is no deeper than there are buses.
DepthBounded == Len(stack) <= LastBus + 1

\* No loop of bridges catches the scan: nothing is listed again, and there is
\* never more than one call for each bus.
LoopsCutOff == ListedOnce /\ DepthBounded

\* The functions the scan should find, by what the specification of PCI says:
\* those of bus 0 and of the secondary buses of bridges found; a device's
\* functions beyond 0 count if function 0 says that there are some.
Answers(a) ==
  /\ hw[a].kind # "none"
  /\ a[3] > 0 => hw[<<a[1], a[2], 0>>].kind # "none"
                 /\ hw[<<a[1], a[2], 0>>].multi
ClosedUnderBridges(bs) ==
  /\ 0 \in bs
  /\ \A a \in Addresses :
       a[1] \in bs /\ Answers(a) /\ hw[a].kind = "bridge" => hw[a].sec \in bs
Reachable ==
  {b \in BusNumbers :
     \A bs \in SUBSET BusNumbers : ClosedUnderBridges(bs) => b \in bs}
Present ==
  LET reachable == Reachable
  IN {a \in Addresses : a[1] \in reachable /\ Answers(a)}

\* With quiet hardware the scan finds all of them and nothing else.
ScanComplete ==
  stack = <<>> /\ hw \notin Unstable => {list[i] : i \in 1..Len(list)} = Present

============================================================================
