------------------------------- MODULE Setpci -------------------------------
(***************************************************************************)
(* The program setpci: options, access method, the operations of the       *)
(* command line, and their execution on the devices their group selects,   *)
(* one argument and one access at a time (setpci.c).                       *)
(*                                                                         *)
(* An argument is a record with its kind.  Values and masks are sets of    *)
(* the bits 0..31 that are 1; components that are left out or are no       *)
(* number are as in Filter.                                                *)
(***************************************************************************)
EXTENDS AccessMethod, Dump, Filter

CONSTANTS
  Order,         \* a sequence of Functions: the list pci_scan_bus() makes
  Identity,      \* the vendor, device and class of each function
  Capabilities,  \* the capabilities of each function, in the order of its list
  Initial        \* what the registers hold before the program runs

\* No method lists a function twice.
ASSUME OrderAssumption ==
  /\ Order \in Seq(Functions) /\ Range(Order) = Functions
  /\ \A i, j \in 1..Len(Order) : Order[i] = Order[j] => i = j

ASSUME InitialAssumption == Initial \in [Functions -> [Positions -> Byte]]

VARIABLES
  pc,         \* where the program is
  args,       \* the arguments that are to be read
  argv,       \* the command line
  set,        \* what options have set: the access, demo_mode, allow_raw_access
  groups,     \* the groups of operations: filter and operations
  needScan,   \* need_bus_scan
  writeable,  \* pacc->writeable
  turn,       \* the number of the current group
  jobs,       \* the operations of the group that are left, with their devices
  at,         \* the next access: address and number of the value
  out,        \* the last register printed
  written     \* history: the writes made: function, group, operation, value

Stages ==
  {"options", "dump", "parse", "scan", "exec", "op", "exit", "died"}

setpciVars == <<pc, args, argv, set, groups, needScan, writeable, turn, jobs,
                at, out, written>>
unread == <<machine, tree, space, dumpVars>>

Bits == 0..31
Low(width) == 0 .. 8 * width - 1  \* max_values[]
Bytes(value, width) ==
  [i \in 1..width |-> {b \in 0..7 : b + 8 * (i - 1) \in value}]
Value(b) == UNION {{x + 8 * (i - 1) : x \in b[i]} : i \in DOMAIN b}

NORMAL == 1
EXTENDED == 2

----------------------------------------------------------------------------
(***************************************************************************)
(* Operations.                                                             *)
(***************************************************************************)

\* Some rows of pci_reg_names[].
pci_reg_names ==
  [COMMAND |-> [type |-> 0, id |-> 0, addr |-> 4, width |-> 2],
   LATENCY_TIMER |-> [type |-> 0, id |-> 0, addr |-> 13, width |-> 1],
   CAP_PM |-> [type |-> NORMAL, id |-> 1, addr |-> 0, width |-> 0],
   ECAP_AER |-> [type |-> EXTENDED, id |-> 1, addr |-> 0, width |-> 0]]

\* The identifiers of capabilities and of extended capabilities.
CapIds == 0..255
ExtendedIds == 0..4095

Unknown == [type |-> Bad]
Plain(addr) == [type |-> 0, id |-> 0, addr |-> addr, width |-> 0]

\* parse_register(): what stands before the offset is a number, a name of the
\* table, or CAP or ECAP with an identifier.
parse_register(base) ==
  CASE base.kind = "number" -> Plain(base.value)
    [] base.kind = "name" /\ base.value \in DOMAIN pci_reg_names ->
         pci_reg_names[base.value]
    [] base.kind = "CAP" /\ base.value \in CapIds ->
         [Plain(0) EXCEPT !.type = NORMAL, !.id = base.value]
    [] base.kind = "ECAP" /\ base.value \in ExtendedIds ->
         [Plain(0) EXCEPT !.type = EXTENDED, !.id = base.value]
    [] OTHER -> Unknown

\* A value or mask that is a number has to fit the width, also as the
\* complement of one that does.
InWidth(bits, width) == bits \ Low(width) \in {{}, Bits \ Low(width)}

GoodValue(v, width) ==
  /\ v.form # "bad" /\ InWidth(v.value, width)
  /\ v.form = "masked" => InWidth(v.mask, width)

\* Without a mask all bits are set.
Masked(v) ==
  IF v.form = "masked" THEN [value |-> v.value \cap v.mask, mask |-> v.mask]
  ELSE [value |-> v.value, mask |-> Bits]

Fits(addr, width, n) ==
  /\ addr < 4096
  /\ addr + width * (IF n = 0 THEN 1 ELSE n) <= 4096
  /\ addr % width = 0

\* parse_op(): the operation, or that it ends the program.
parse_op(a) ==
  LET register == parse_register(a.base)
      width == IF a.width = Empty THEN register.width ELSE a.width
      addr == register.addr + (IF a.offset = Empty THEN 0 ELSE a.offset)
      n == Len(a.values)
      ok == /\ a.width # Bad /\ a.number # Bad
            /\ register # Unknown /\ width # 0
            /\ a.offset \in 0..4095 \cup {Empty}
            /\ Fits(addr, width, n)
            /\ \A i \in 1..n : GoodValue(a.values[i], width)
  IN IF ~ok THEN [ok |-> FALSE]
     ELSE [ok |-> TRUE,
           op |-> [type |-> register.type, id |-> register.id, addr |-> addr,
                   width |-> width,
                   number |-> IF a.number = Empty THEN 0 ELSE a.number,
                   values |-> [i \in 1..n |-> Masked(a.values[i])]]]

----------------------------------------------------------------------------
(***************************************************************************)
(* Options and the access method.                                          *)
(***************************************************************************)
SetpciInit(machines, lines_, commands) ==
  /\ machine \in machines
  /\ \E f \in lines_ : DumpInit(f)
  /\ argv \in commands
  /\ args = argv
  /\ method = "none" /\ tree = FALSE /\ space = Initial
  /\ pc = "options"
  /\ set = [access |-> Alloc, demo |-> FALSE, raw |-> FALSE]
  /\ groups = <<>> /\ needScan = FALSE /\ writeable = FALSE
  /\ turn = 0 /\ jobs = <<>> /\ at = [addr |-> 0, value |-> 0]
  /\ out = <<>> /\ written = {}

OptionKinds == {"D", "r", "f", "v", "option"}
IsOption == args # <<>> /\ args[1].kind \in OptionKinds

\* An iteration of parse_options().
ParseOption ==
  /\ pc = "options" /\ IsOption
  /\ LET a == args[1]
         o == GenericOption(set.access, a)
     IN IF a.kind = "option" /\ (a.opt = "F" \/ ~o.ok)
          THEN pc' = "died" /\ UNCHANGED <<args, set>>
          ELSE /\ set' = CASE a.kind = "D" -> [set EXCEPT !.demo = TRUE]
                           [] a.kind = "r" -> [set EXCEPT !.raw = TRUE]
                           [] a.kind = "option" -> [set EXCEPT !.access = o.set]
                           [] OTHER -> set
               /\ args' = Tail(args)
               /\ UNCHANGED pc
  /\ UNCHANGED <<argv, groups, needScan, writeable, turn, jobs, at, out, written,
                 method, unread>>

\* pci_init(), up to the reading of a dump.
PciInit ==
  /\ pc = "options" /\ ~IsOption
  /\ \E garbage \in {0, 1} :
       LET m == Decided(set.access, garbage)
       IN /\ method' = m
          /\ tree' = TreeOf(m, set.access.params)
          /\ pc' = CASE m = "none" -> "died" [] m = "dump" -> "dump"
                     [] OTHER -> "parse"
  /\ UNCHANGED <<args, argv, set, groups, needScan, writeable, turn, jobs, at,
                 out, written, machine, space, dumpVars>>

ReadDump ==
  /\ pc = "dump"
  /\ \/ (DumpLine \/ DumpByte) /\ UNCHANGED pc
     \/ DumpError /\ pc' = "died" /\ UNCHANGED dumpVars
     \/ DumpDone /\ pc' = "parse" /\ UNCHANGED dumpVars
  /\ UNCHANGED <<args, argv, set, groups, needScan, writeable, turn, jobs, at,
                 out, written, machine, tree, method, space>>

----------------------------------------------------------------------------
(***************************************************************************)
(* The arguments.                                                          *)
(***************************************************************************)
NewGroup(filter) == [filter |-> filter, ops |-> <<>>]

\* parse_filter(): the first filter after an operation begins a group.
ParseFilter(a) ==
  LET opens == groups = <<>> \/ groups[Len(groups)].ops # <<>>
      old == IF opens THEN NoFilter ELSE groups[Len(groups)].filter
      new == IF a.kind = "slot" THEN ParseSlot(old, a) ELSE ParseId(old, a)
  IN /\ groups' = IF opens THEN Append(groups, NewGroup(new.filter))
                  ELSE [groups EXCEPT ![Len(groups)].filter = new.filter]
     /\ pc' = IF new.ok THEN pc ELSE "died"

ParseOp(a) ==
  LET parsed == parse_op(a)
  IN IF groups = <<>> \/ ~parsed.ok THEN pc' = "died" /\ UNCHANGED groups
     ELSE /\ groups' = [groups EXCEPT ![Len(groups)].ops = Append(@, parsed.op)]
          /\ UNCHANGED pc

\* A fault: an argument that cannot be read ends the parser, not the program.
ParseArgLenient ==
  /\ pc = "parse" /\ args # <<>>
  /\ LET a == args[1]
     IN CASE a.kind \in {"slot", "id"} -> ParseFilter(a)
          [] a.kind = "op" -> IF groups = <<>> THEN pc' = "died" /\ UNCHANGED groups
                              ELSE IF parse_op(a).ok THEN ParseOp(a)
                              ELSE pc' = "scan" /\ UNCHANGED groups
          [] OTHER -> pc' = "died" /\ UNCHANGED groups
  /\ args' = Tail(args)
  /\ UNCHANGED <<argv, set, needScan, writeable, turn, jobs, at, out, written,
                 method, unread>>

\* An iteration of parse_ops().
ParseArg ==
  /\ pc = "parse" /\ args # <<>>
  /\ LET a == args[1]
     IN CASE a.kind \in {"slot", "id"} -> ParseFilter(a)
          [] a.kind = "op" -> ParseOp(a)
          [] OTHER -> pc' = "died" /\ UNCHANGED groups
  /\ args' = Tail(args)
  /\ UNCHANGED <<argv, set, needScan, writeable, turn, jobs, at, out, written,
                 method, unread>>

\* matches_single_device()
Single(f) == \A x \in Locations : f[x] >= 0

\* The end of parse_ops(), scan_ops() and pci_scan_bus(), which needs the
\* kernel's directory if its files are the method.
ScanOps ==
  /\ pc \in {"parse", "scan"} /\ (pc = "parse" => args = <<>>)
  /\ writeable' = \E g \in DOMAIN groups : \E o \in DOMAIN groups[g].ops :
       groups[g].ops[o].values # <<>> /\ ~set.demo
  /\ needScan' = \E g \in DOMAIN groups :
       groups[g].ops # <<>> /\ (~set.raw \/ ~Single(groups[g].filter))
  /\ pc' = IF groups = <<>> \/ (needScan' /\ method \in KernelFiles /\ ~tree)
             THEN "died" ELSE "exec"
  /\ UNCHANGED <<args, argv, set, groups, turn, jobs, at, out, written, method,
                 unread>>

----------------------------------------------------------------------------
(***************************************************************************)
(* Execution.  A device is its function and, if it comes from a dump, its  *)
(* place there (d->aux).                                                   *)
(***************************************************************************)
Visible(fn) ==
  Answers(method, fn) /\ (method \in Ports => ~PortRefuses(method, fn, 0))

Device(fn, k) == [fn |-> fn, aux |-> k]

\* The elements of a list that are in S, in their order: the loop that copies
\* them one by one.
Picked(list, S) ==
  LET picked[k \in 0..Len(list)] ==
        IF k = 0 THEN <<>>
        ELSE IF list[k] \in S THEN Append(picked[k - 1], list[k])
        ELSE picked[k - 1]
  IN picked[Len(list)]

\* a->devices
Devices ==
  LET visible == {fn \in Functions : Visible(fn)}
      found == Picked(Order, visible)
  IN IF method = "dump"
       THEN Reverse([k \in DOMAIN dumped |-> Device(dumped[k].fn, k)])
     ELSE [k \in DOMAIN found |-> Device(found[k], 0)]

\* What pci_filter_match() compares: registers that cannot be read are ones.
Described(h) ==
  LET read == IF method = "dump" THEN BufferOf(h) # {} ELSE Visible(h.fn)
  IN [x \in Locations \cup {"vendor", "device", "class"} |->
        IF x \in Locations THEN h.fn[x] ELSE IF read THEN Identity[h.fn][x] ELSE 65535]

\* select_devices(): with -r, a device whose address is given exists.
SelectDevices(f) ==
  LET named == Device([x \in Locations |-> f[x]], 0)
      list == IF ~needScan /\ Single(f) THEN <<named>> ELSE Devices
  IN Picked(list, {h \in Range(list) : Match(f, Described(h))})

\* The loop of execute(): the operations of the next group, device by device.
NextGroup ==
  /\ pc = "exec" /\ jobs = <<>>
  /\ IF turn = Len(groups)
       THEN pc' = "exit" /\ UNCHANGED <<turn, jobs>>
       ELSE LET g == groups[turn + 1]
                vec == SelectDevices(g.filter)
                n == Len(g.ops)
            IN /\ turn' = turn + 1
               /\ jobs' = [k \in 1 .. n * Len(vec) |->
                             [dev |-> vec[((k - 1) \div n) + 1],
                              op |-> ((k - 1) % n) + 1]]
               /\ UNCHANGED pc
  /\ UNCHANGED <<args, argv, set, groups, needScan, writeable, at, out, written,
                 method, unread>>

Op == groups[turn].ops[jobs[1].op]
Dev == jobs[1].dev

\* The list pci_find_cap_nr() searches.  Extended capabilities are out of the
\* reach of the ports; the dumps here show no list.
CapabilitiesOf(h) ==
  LET reached == {c \in Range(Capabilities[h.fn]) :
                    method \in Ports => c.type = NORMAL}
  IN IF method = "dump" \/ ~Visible(h.fn) THEN <<>>
     ELSE Picked(Capabilities[h.fn], reached)

\* pci_find_cap_nr(): the addresses that the number of the operation selects,
\* none or one.
CapAddr(h, op) ==
  LET caps == CapabilitiesOf(h)
      same == {i \in DOMAIN caps : caps[i].type = op.type /\ caps[i].id = op.id}
  IN {caps[i].addr : i \in {j \in same :
                              Cardinality({k \in same : k < j}) = op.number}}

Base(h, op) == IF op.type = 0 THEN {0} ELSE CapAddr(h, op)

\* exec_op(), up to the first access.
BeginOp ==
  /\ pc = "exec" /\ jobs # <<>>
  /\ IF \E base \in Base(Dev, Op) :
          /\ (base + Op.addr) % Op.width = 0
          /\ base + Op.addr + Op.width <= 4096
       THEN \E base \in Base(Dev, Op) :
              pc' = "op" /\ at' = [addr |-> base + Op.addr, value |-> 1]
       ELSE pc' = "died" /\ UNCHANGED at
  /\ UNCHANGED <<args, argv, set, groups, needScan, writeable, turn, jobs, out,
                 written, method, unread>>

\* pci_read_byte(), pci_read_word(), pci_read_long()
ReadRegister(h, pos, width) ==
  LET r == IF method = "dump" THEN DumpRead(h, pos, width)
           ELSE Read(method, h.fn, pos, width)
  IN IF r.ok THEN r.bytes ELSE Ones(width)

\* The rest of exec_op() for an operation without values.
ReadOp ==
  /\ pc = "op" /\ Op.values = <<>>
  /\ out' = [dev |-> Dev, addr |-> at.addr,
             bytes |-> ReadRegister(Dev, at.addr, Op.width)]
  /\ jobs' = Tail(jobs) /\ pc' = "exec"
  /\ UNCHANGED <<args, argv, set, groups, needScan, writeable, turn, at, written,
                 method, unread>>

\* A fault: the mask selects the bits that are kept.
MergedInverted(v, old) == (old \cap v.mask) \cup v.value

\* The value written: bits outside the mask keep what they are.
Merged(v, old) == (old \ v.mask) \cup v.value

\* The rest of exec_op(), for one value.  With -D nothing is written, and
\* dump_write() ends the program.
WriteValue ==
  LET v == Op.values[at.value]
      width == Op.width
      full == Low(width) \subseteq v.mask
      x == IF full THEN v.value
           ELSE Merged(v, Value(ReadRegister(Dev, at.addr, width)))
      more == at.value < Len(Op.values)
  IN /\ pc = "op" /\ Op.values # <<>>
     /\ IF ~set.demo /\ method = "dump"
          THEN pc' = "died" /\ UNCHANGED <<jobs, at, space, written>>
          ELSE /\ space' = IF set.demo THEN space
                           ELSE Write(method, Dev.fn, at.addr,
                                      Bytes(x, width)).space
               /\ written' = IF set.demo THEN written
                             ELSE written \cup {[fn |-> Dev.fn, group |-> turn,
                                                 op |-> jobs[1].op,
                                                 value |-> at.value]}
               /\ jobs' = IF more THEN jobs ELSE Tail(jobs)
               /\ pc' = IF more THEN "op" ELSE "exec"
               /\ at' = [addr |-> at.addr + width, value |-> at.value + 1]
     /\ UNCHANGED <<args, argv, set, groups, needScan, writeable, turn, out,
                    machine, tree, method, dumpVars>>

SetpciStep ==
  \/ ParseOption \/ PciInit \/ ReadDump \/ ParseArg \/ ScanOps
  \/ NextGroup \/ BeginOp \/ ReadOp \/ WriteValue

----------------------------------------------------------------------------
(***************************************************************************)
(* Properties.                                                             *)
(***************************************************************************)
SetpciTypeOK ==
  /\ method \in Methods \cup {"none"}
  /\ turn \in 0..Len(groups)
  /\ \A k \in DOMAIN jobs : jobs[k].op \in DOMAIN groups[turn].ops
  /\ pc = "op" /\ Op.values # <<>> => at.value \in DOMAIN Op.values
  /\ \A g \in DOMAIN groups : \A x \in Locations \cup Identities :
       groups[g].filter[x] \in Int
  /\ \A fn \in Functions : space[fn] \in [Positions -> Byte]

\* Nothing is written before every argument has been understood, without
\* pacc->writeable, or with -D.
Understood(a) ==
  CASE a.kind = "op" -> parse_op(a).ok
    [] a.kind = "slot" -> ParseSlot(NoFilter, a).ok
    [] a.kind = "id" -> ParseId(NoFilter, a).ok
    [] OTHER -> TRUE
ParsedFirst ==
  space' # space =>
    /\ args = <<>> /\ \A k \in DOMAIN argv : Understood(argv[k])
    /\ writeable
    /\ \A k \in DOMAIN argv : argv[k].kind # "D"
ParsedBeforeWritten == [][(pc \in Stages) => ParsedFirst]_<<space, args>>

\* Where the value w of an operation goes: the bytes of its register, counted
\* from the capability, and the bits of its mask in each of them.
OpOf(w) == groups[w.group].ops[w.op]
FirstByte(w) ==
  LET op == OpOf(w)
      base == CHOOSE b \in Base(Device(w.fn, 0), op) : TRUE
  IN base + op.addr + op.width * (w.value - 1)
Sets(w, fn, x, b) ==
  /\ w.fn = fn
  /\ x \in FirstByte(w) .. FirstByte(w) + OpOf(w).width - 1
  /\ b + 8 * (x - FirstByte(w)) \in OpOf(w).values[w.value].mask

\* The order in which values take effect on a function.
After(v, w) ==
  \/ v.group > w.group
  \/ v.group = w.group /\ v.op > w.op
  \/ v.group = w.group /\ v.op = w.op /\ v.value > w.value

\* What the method gives access to.
Limit == IF method \in Ports THEN 256 ELSE 4096

\* At any time every bit of every register of every function is what the last
\* of the values written so far demands whose mask covers it, or what it was:
\* masked and overlapping values, several values, groups and devices, and
\* operations that reach behind what the method gives access to.
RegistersFollow ==
  \A fn \in Functions : \A x \in Positions : \A b \in 0..7 :
    LET hits == {w \in written : Sets(w, fn, x, b)}
        final == {w \in hits : \A v \in hits : v = w \/ After(w, v)}
    IN b \in space[fn][x] <=>
         IF hits = {} \/ ~Visible(fn) \/ x >= Limit
           THEN b \in Initial[fn][x]
         ELSE \A w \in final : b + 8 * (x - FirstByte(w)) \in OpOf(w).values[w.value].value
RegistersFollowOps == pc \in Stages => SetpciTypeOK /\ RegistersFollow

\* The filters of the command line an operation of it belongs to: those since
\* the first one behind an operation.
IsFilter(m) == m \in DOMAIN argv /\ argv[m].kind \in {"slot", "id"}
IsOp(m) == m \in DOMAIN argv /\ argv[m].kind = "op"
Openings(i) == {m \in 1..i : IsFilter(m) /\ ~IsFilter(m - 1)}
FiltersOf(i) == {m \in Max(Openings(i)) .. i : IsFilter(m)}

\* A device is asked for if it agrees with the last value given for each
\* component.
Asked(i, d) ==
  LET agrees(kind, c) ==
        LET given == {m \in FiltersOf(i) : argv[m].kind = kind /\ Given(argv[m][c])}
        IN given # {} => argv[Max(given)][c] = d[c]
  IN /\ \A c \in Locations : agrees("slot", c)
     /\ \A c \in {"vendor", "device", "class"} : agrees("id", c)

\* When the program ends regularly, each value of each operation has gone to
\* exactly the devices its filters ask for.
WrittenWhereAsked ==
  pc = "exit" /\ ~set.demo =>
    \A i \in {m \in DOMAIN argv : IsOp(m)} : \A v \in DOMAIN argv[i].values :
      {w.fn : w \in {u \in written :
                       /\ u.group = Cardinality(Openings(i)) /\ u.value = v
                       /\ u.op = Cardinality({m \in Max(Openings(i)) .. i : IsOp(m)})}}
        \cap {fn \in Functions : Visible(fn)}
      = {fn \in Functions : Visible(fn) /\ Asked(i, Described(Device(fn, 0)))}

\* The ports are poked only if an option says so, the last one that names a
\* method, or if neither directory of the kernel can be read; an option that
\* names a method is obeyed.  Options stand in front of everything else.
MethodAsAsked ==
  LET naming == {k \in DOMAIN argv : /\ argv[k].kind = "option"
                                      /\ argv[k].opt \in {"A", "H", "F"}
                                      /\ \A j \in 1..k : argv[j].kind \in OptionKinds}
      asked == argv[Max(naming)]
      readable(p) == set.access.params[p] \in machine.files
  IN method # "none" =>
       IF naming = {}
         THEN /\ method \in Ports => ~readable("sysfs.path") /\ ~readable("proc.path")
              /\ method = "linux-proc" => ~readable("sysfs.path")
       ELSE method = IF asked.opt = "H" THEN PortMethod(asked.arg) ELSE asked.arg

\* setpci does what it is told with the method it is told to use.
DoneAsAsked == WrittenWhereAsked /\ MethodAsAsked
============================================================================
