---------------------------- MODULE AccessMethod ----------------------------
(***************************************************************************)
(* How a program that uses libpci comes to an access method: parameters    *)
(* (lib/params.c), the options all programs share (common.c) and           *)
(* pci_init() with the methods' detect() (lib/init.c).  The state it is    *)
(* about is the record of what the command line has set.                   *)
(***************************************************************************)
EXTENDS Registers

CONSTANTS
  Parameters,  \* the parameters pci_alloc() defines, with their values
  Sane         \* functions whose class or vendor passes the sanity check

\* pci_methods[]: the names of the methods of the Linux build with I/O ports.
Methods == KernelFiles \cup Ports \cup {"dump"}

\* probe_sequence[], as far as these methods go.
ProbeSequence == <<"linux-sysfs", "linux-proc", "intel-conf1", "intel-conf2">>

\* pci_alloc()
Alloc == [params |-> Parameters, method |-> "auto"]

Ok(set) == [ok |-> TRUE, set |-> set]
Die(set) == [ok |-> FALSE, set |-> set]

\* pci_set_param(); a parameter nobody has defined is an error.
SetParam(set, param, value) ==
  IF param \in DOMAIN set.params THEN Ok([set EXCEPT !.params[param] = value])
  ELSE Die(set)

\* The methods -H 1 and -H 2 stand for.
PortMethod(arg) == IF arg = "1" THEN "intel-conf1" ELSE "intel-conf2"

\* parse_generic_option().  A malformed -O has no value.
GenericOption(set, o) ==
  CASE o.opt = "H" -> IF o.arg \in {"1", "2"}
                        THEN Ok([set EXCEPT !.method = PortMethod(o.arg)])
                      ELSE Die(set)
    [] o.opt = "F" -> Ok([SetParam(set, "dump.name", o.arg).set
                            EXCEPT !.method = "dump"])
    [] o.opt = "A" -> IF o.arg \in Methods THEN Ok([set EXCEPT !.method = o.arg])
                      ELSE Die(set)
    [] o.opt = "G" -> Ok(set)
    [] o.opt = "O" -> SetParam(set, o.arg, o.value)
    [] OTHER -> Die(set)

----------------------------------------------------------------------------
\* intel_sanity_check() with zero or garbage in the domain of its struct
\* pci_dev, which it does not initialize; with garbage every read fails.
SanityCheck(m, garbage) ==
  \E slot \in 0..31 :
    LET d == [domain |-> garbage, bus |-> 0, slot |-> slot, func |-> 0]
    IN ~PortRefuses(m, d, 0) /\ d \in Sane /\ Answers(m, d)

\* sysfs_detect(), proc_detect(), conf1_detect() and conf2_detect(): the
\* directory can be read, or I/O ports can be accessed and look like those of
\* the interface.  The kernel's directories are named by parameters.
Detect(m, params, garbage) ==
  CASE m = "linux-sysfs" -> params["sysfs.path"] \in machine.files
    [] m = "linux-proc" -> params["proc.path"] \in machine.files
    [] OTHER -> machine.io /\ machine.ports = m /\ SanityCheck(m, garbage)

\* A fault: the order of probe_sequence[] is reversed.
ProbedLast(params, garbage) ==
  LET found == {k \in DOMAIN ProbeSequence :
                  Detect(ProbeSequence[k], params, garbage)}
  IN IF found = {} THEN "none" ELSE ProbeSequence[Max(found)]

\* The loop of pci_init() over probe_sequence[].
Probed(params, garbage) ==
  LET found == {k \in DOMAIN ProbeSequence :
                  Detect(ProbeSequence[k], params, garbage)}
  IN IF found = {} THEN "none" ELSE ProbeSequence[Min(found)]

\* Whether the kernel's directory for this method can be read.
TreeOf(m, params) == m \in KernelFiles /\ Detect(m, params, 0)

\* pci_init(): the method it decides to use, or "none" if it calls a->error(),
\* as it does without a method that works; conf12_init() needs the ports and
\* dump_init() a file that can be opened.
Decided(set, garbage) ==
  LET m == IF set.method = "auto" THEN Probed(set.params, garbage)
           ELSE set.method
  IN IF \/ m \in Ports /\ ~machine.io
        \/ m = "dump" /\ set.params["dump.name"] \notin machine.files
       THEN "none" ELSE m
============================================================================
