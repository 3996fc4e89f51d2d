---------------------------- MODULE MCRegisters ----------------------------
(***************************************************************************)
(* Instances of ConfigCache and Setpci for TLC: a host bridge, a device    *)
(* with two functions and one in another domain.                           *)
(***************************************************************************)
EXTENDS ConfigCache, Setpci

Loc(domain, slot, func) ==
  [domain |-> domain, bus |-> 0, slot |-> slot, func |-> func]
Bridge == Loc(0, 0, 0)
Nic0 == Loc(0, 1, 0)
Nic1 == Loc(0, 1, 1)
Far == Loc(1, 1, 0)
SomeFunctions == {Bridge, Nic0, Nic1, Far}
Bridges == {Bridge}
ListOrder == <<Far, Nic1, Nic0, Bridge>>
Ident(vendor, device, class) ==
  [vendor |-> vendor, device |-> device, class |-> class]
SomeIdentity ==
  (Bridge :> Ident(32902, 1, 1536)) @@ (Nic0 :> Ident(5549, 2, 512))
  @@ (Nic1 :> Ident(5549, 3, 514)) @@ (Far :> Ident(5549, 2, 512))
Cap(type, id, addr) == [type |-> type, id |-> id, addr |-> addr]
SomeCapabilities ==
  [fn \in SomeFunctions |->
     IF fn = Bridge THEN <<>>
     ELSE <<Cap(NORMAL, 1, 64), Cap(NORMAL, 9, 72), Cap(NORMAL, 1, 80),
            Cap(EXTENDED, 1, 256)>>]

\* Registers on both sides of the end of the cache, in the capabilities, and
\* on both sides of the end of the space the ports lead to.
SomePositions == {0, 2, 3, 4, 5, 7, 8, 9, 68, 84, 254, 255, 256, 257}
Contents == [fn \in SomeFunctions |->
               [x \in SomePositions |-> {x % 8, (fn.func + 3) % 8}]]

\* The client: the devices, a cache that ends within a block, and accesses that
\* are aligned and not, lie across its end, and leave the space of the ports.
Clients == {Nic0, Far}
Lengths == {8}
SomeAccesses == {<<2, 2>>, <<3, 1>>, <<1, 8>>, <<4, 4>>, <<254, 3>>, <<256, 1>>,
                 <<1, 2>>}
SomeFills == {{}, {0}}
ClientMethods == {"intel-conf1", "intel-conf2", "linux-sysfs"}

----------------------------------------------------------------------------
(***************************************************************************)
(* Command lines of setpci.                                                *)
(***************************************************************************)
Defaults == ("sysfs.path" :> "/sys") @@ ("proc.path" :> "/proc")
            @@ ("dump.name" :> "")
Machine(files, io, ports) == [files |-> files, io |-> io, ports |-> ports]
Machines == {Machine({"/sys", "/proc", "file"}, TRUE, "intel-conf1"),
             Machine({"/proc"}, FALSE, "intel-conf1"),
             Machine({"file"}, TRUE, "intel-conf1"),
             Machine({}, TRUE, "intel-conf2"),
             Machine({}, TRUE, "none")}

Flag(kind) == [kind |-> kind]
Opt(opt, arg) == [kind |-> "option", opt |-> opt, arg |-> arg]
Param(name, value) ==
  [kind |-> "option", opt |-> "O", arg |-> name, value |-> value]

S(domain, bus, slot, func) ==
  [kind |-> "slot", domain |-> domain, bus |-> bus, slot |-> slot,
   func |-> func]
D(vendor, device, class) ==
  [kind |-> "id", text |-> "ids", vendor |-> vendor, device |-> device,
   class |-> class]
Num(n) == [kind |-> "number", value |-> n]
Name(n) == [kind |-> "name", value |-> n]
O(base, offset, width, number, values) ==
  [kind |-> "op", base |-> base, offset |-> offset, width |-> width,
   number |-> number, values |-> values]
Full(value) == [form |-> "value", value |-> value]
Part(value, mask) == [form |-> "masked", value |-> value, mask |-> mask]
NoValue == [form |-> "bad"]
Get(addr, width) == O(Num(addr), Empty, width, Empty, <<>>)
Put(addr, width, values) == O(Num(addr), Empty, width, Empty, values)

OnNic == S(Empty, Empty, 1, Empty)
OnNic0 == S(0, 0, 1, 0)
Far0 == S(1, 0, 1, 0)
Net == D(5549, Empty, Empty)

Options == {
  <<>>, <<Flag("D"), Flag("v")>>, <<Flag("r")>>, <<Flag("f"), Opt("G", "")>>,
  <<Opt("H", "1")>>, <<Opt("H", "1"), Opt("A", "linux-proc"), Flag("r")>>,
  <<Opt("H", "2"), Flag("r")>>, <<Opt("H", "3")>>, <<Opt("A", "other")>>,
  <<Param("sysfs.path", "/none")>>, <<Param("none", "")>>, <<Opt("F", "file")>>,
  <<Param("dump.name", "file"), Opt("A", "dump"), Flag("D")>>,
  <<Param("dump.name", "file"), Opt("A", "dump"), Flag("r")>>}

Bodies == {
  \* masked and overlapping values of two groups
  <<OnNic, Put(4, 2, <<Part({0, 1, 9}, {0, 2, 8, 9})>>),
    Put(5, 1, <<Full({7} \cup 8..31)>>), Net, D(Empty, 2, 512),
    Put(4, 1, <<Part({3}, {3, 4}), Part({}, {1})>>)>>,
  \* filters that add to each other, a slot and a class
  <<S(Empty, Empty, Star, 1), S(Empty, Empty, 1, Empty), D(Empty, Empty, 514),
    Put(8, 2, <<Full({0, 15})>>), Get(8, 2)>>,
  <<D(5549, 2, Empty), D(Empty, 3, Empty), O(Name("LATENCY_TIMER"), Empty, Empty, Empty, <<>>),
    O(Name("COMMAND"), 0, Empty, Empty, <<Part({}, {0, 1, 2})>>)>>,
  \* capabilities: the first, the second, one that is missing, and extended
  <<Far0, O(Name("CAP_PM"), 4, 1, Empty, <<Full({0})>>),
    O([kind |-> "CAP", value |-> 1], 4, 1, 1, <<Full({1})>>),
    O(Name("CAP_PM"), 0, 2, 2, <<>>)>>,
  <<Net, O(Name("ECAP_AER"), 0, 1, Empty, <<Full({5})>>)>>,
  <<OnNic0, O([kind |-> "ECAP", value |-> 1], 1, 2, Empty, <<>>)>>,
  \* the end of the space the ports lead to
  <<OnNic0, Put(254, 2, <<Full({4}), Full({6})>>), Get(256, 4)>>,
  <<OnNic0, Get(254, 1), Get(15, 1), Get(14, 2), OnNic>>,
  \* arguments that are refused
  <<OnNic0, Put(4, 2, <<Full({})>>), Put(4093, 1, <<Full({}), Full({}), Full({}), Full({})>>)>>,
  <<OnNic0, Put(4, 2, <<Full({})>>), Put(4, 2, <<Full({16})>>)>>,
  <<OnNic0, Put(4, 2, <<Full({})>>), Put(3, 2, <<Full({0})>>)>>,
  <<OnNic0, Put(4, 1, <<Full({})>>), O(Name("CAP_PM"), 4, Empty, Empty, <<>>)>>,
  <<OnNic0, Put(4, 1, <<Full({})>>), S(Empty, 256, Empty, Empty)>>,
  <<OnNic0, Put(4, 1, <<Full({})>>), Flag("D")>>,
  <<OnNic0, Put(4, 1, <<Full({})>>), Put(4, 1, <<NoValue>>)>>,
  <<Get(4, 1)>>, <<>>}

Commands == {o \o b : o \in Options, b \in Bodies}

\* Dumps: overlapping lines, two devices of one address, a line behind the
\* first 256 bytes, lines outside a device, and two that end the program.
At(fn) == [kind |-> "slot", fn |-> fn]
Line(pos, contents) == [kind |-> "bytes", at |-> pos, bytes |-> contents]
Blank == [kind |-> "empty"]
Dumps == {
  <<Line(0, <<{0}>>), At(Nic0), Line(14, <<{1}, {2}>>), Line(255, <<{3}, {4}>>),
    Line(15, <<{5}>>), [kind |-> "other"], Blank, Line(0, <<{6}>>), At(Nic1),
    Line(4, <<{7}, {}>>), At(Nic0), Line(254, <<{2}>>)>>,
  <<At(Nic0), Line(4095, <<{0}, {1}>>)>>,
  <<At(Nic0), Line(0, <<{0}, {8}>>)>>,
  <<At(Nic0), [kind |-> "long"]>>}

----------------------------------------------------------------------------
(***************************************************************************)
(* Either a client with its cache, or setpci.                              *)
(***************************************************************************)
IsClient == pc = "client"

ClientInit ==
  /\ CacheInit
  /\ method \in ClientMethods
  /\ tree = TRUE
  /\ machine = Machine({}, TRUE, IF method \in Ports THEN method ELSE "none")
  /\ space = [fn \in Functions |-> [x \in Positions |-> {}]]
  /\ DumpInit(<<>>)
  /\ pc = "client" /\ args = <<>> /\ argv = <<>>
  /\ set = [access |-> Alloc, demo |-> FALSE, raw |-> FALSE]
  /\ groups = <<>> /\ needScan = FALSE /\ writeable = FALSE
  /\ turn = 0 /\ jobs = <<>> /\ at = [addr |-> 0, value |-> 0]
  /\ out = <<>> /\ written = {}

ProgramInit ==
  /\ CacheInit /\ dev = Nic0
  /\ SetpciInit(Machines, Dumps \cup {<<>>}, Commands)
  /\ file = <<>> <=> Opt("A", "dump") \notin Range(argv)

Init == ClientInit \/ ProgramInit

Next ==
  \/ IsClient /\ ClientStep /\ UNCHANGED <<setpciVars, dumpVars>>
  \/ ~IsClient /\ SetpciStep /\ UNCHANGED cacheVars

vars == <<machine, tree, method, space, cacheVars, setpciVars, dumpVars>>
Spec == Init /\ [][Next]_vars
============================================================================
