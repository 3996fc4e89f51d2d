----------------------------- MODULE RawAccess -----------------------------
(***************************************************************************)
(* What libpci promises a client that reads and writes configuration       *)
(* registers through struct pci_dev objects (pci.h: pci_get_dev() gives    *)
(* "Raw access to specified device"): every access works on the device     *)
(* the object stands for, a successful read returns what the register      *)
(* holds at that moment, a successful write changes that register and      *)
(* nothing else, a failed one changes nothing.  Nothing is said about how  *)
(* the back-end reaches the registers or about when an access may fail.    *)
(***************************************************************************)
CONSTANTS
  Ptrs,   \* addresses of struct pci_dev objects
  Locs,   \* devices: domain, bus, device and function
  Regs,   \* positions in a file of the device
  Vals,   \* register contents
  Free    \* the state of an address that holds no object

VARIABLES
  dev,    \* the device each object stands for
  reg,    \* the registers: configuration space and vital product data
  out     \* the last call and what came of it

rvars == <<dev, reg, out>>

Files == Locs \X {"config", "vpd"}

Failed(op, p, x) == [op |-> op, ptr |-> p, pos |-> x, ok |-> FALSE]
Done(op, p, x, v) ==
  [op |-> op, ptr |-> p, pos |-> x, ok |-> TRUE, val |-> v]

Init ==
  /\ dev = [p \in Ptrs |-> Free]
  /\ reg \in [Files -> [Regs -> Vals]]
  /\ out = [op |-> "none"]

GetDev(p, l) ==
  /\ dev[p] = Free
  /\ dev' = [dev EXCEPT ![p] = l]
  /\ out' = [op |-> "get", ptr |-> p]
  /\ UNCHANGED reg

FreeDev(p) ==
  /\ dev[p] # Free
  /\ dev' = [dev EXCEPT ![p] = Free]
  /\ out' = [op |-> "free", ptr |-> p]
  /\ UNCHANGED reg

Read(op, file, p, x) ==
  /\ dev[p] # Free
  /\ out' \in {Failed(op, p, x), Done(op, p, x, reg[<<dev[p], file>>][x])}
  /\ UNCHANGED <<dev, reg>>

Write(p, x, v) ==
  /\ dev[p] # Free
  /\ \/ /\ out' = Failed("write", p, x)
        /\ UNCHANGED reg
     \/ /\ out' = Done("write", p, x, v)
        /\ reg' = [reg EXCEPT ![<<dev[p], "config">>][x] = v]
  /\ UNCHANGED dev

\* The device itself changes a register.
Hardware ==
  /\ \E l \in Locs, x \in Regs, v \in Vals :
       reg' = [reg EXCEPT ![<<l, "config">>][x] = v]
  /\ out' = [op |-> "hardware"]
  /\ UNCHANGED dev

\* pci_cleanup() frees every object.
Cleanup ==
  /\ dev' = [p \in Ptrs |-> Free]
  /\ out' = [op |-> "cleanup"]
  /\ UNCHANGED reg

Next ==
  \/ \E p \in Ptrs, l \in Locs : GetDev(p, l)
  \/ \E p \in Ptrs : FreeDev(p)
  \/ \E p \in Ptrs, x \in Regs : Read("read", "config", p, x)
  \/ \E p \in Ptrs, x \in Regs : Read("vpd", "vpd", p, x)
  \/ \E p \in Ptrs, x \in Regs, v \in Vals : Write(p, x, v)
  \/ Hardware
  \/ Cleanup

Spec == Init /\ [][Next]_rvars
============================================================================
