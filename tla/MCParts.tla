------------------------------- MODULE MCParts -------------------------------
(***************************************************************************)
(* Instances for TLC of the parts of lspcie and libpci that do not         *)
(* interact: each behaviour is one of one part.                            *)
(***************************************************************************)
EXTENDS FilterArray, KernelModules, Vpd, BaseRegs, SysfsFill, VersionFiles,
        FreeGuard, Dmi, NameList, NetNames, TLC

VARIABLE part

Parts == {"filters", "kernel", "vpd", "bases", "fill", "versions", "guard", "dmi",
          "names", "net"}

----------------------------------------------------------------------------
\* Filters: two slots, two identities, options in every order.
Location(domain, bus, slot, func) ==
  [domain |-> domain, bus |-> bus, slot |-> slot, func |-> func]
Identity(vendor, device, class) ==
  [text |-> "ids", vendor |-> vendor, device |-> device, class |-> class]
S(arg) == [opt |-> "s", slot |-> arg]
D(arg) == [opt |-> "d", id |-> arg]
F(arg) == [opt |-> "f", file |-> arg]
Is(name, value) == [name |-> name, value |-> value]
SomeOptions ==
  {S(Location(Empty, Empty, 31, Empty)), S(Location(Star, 1, Star, Empty)),
   S(Location(Empty, Empty, 32, Empty)), S(Location(1, Empty, Empty, 7)),
   D(Identity(5549, Empty, Empty)), D(Identity(Star, 2, 512)),
   D(Identity(Bad, Empty, Empty)), D(Identity(Empty, 1, Star)),
   F(<<<<Is("vendor", 5549), Is("slot", 31)>>, <<Is("super", 2)>>>>),
   F(<<>>), F(<<<<Is("device", 1), Is("func", 9)>>>>),
   F(<<<<Is("bus", 1), Is("domain", 1)>>, <<Is("func", 7), Is("sub", 1)>>>>)}
Lines == UNION {[1..n -> SomeOptions] : n \in 0..3}
Device(domain, bus, slot, func, vendor, device, class) ==
  [domain |-> domain, bus |-> bus, slot |-> slot, func |-> func,
   vendor |-> vendor, device |-> device, class |-> class]
SomeVisitors ==
  {Device(0, 0, 31, 0, 5549, 1, 512), Device(1, 1, 31, 7, 5549, 2, 512),
   Device(0, 1, 0, 0, 32902, 2, 513), Device(1, 0, 0, 7, 32902, 1, 257)}

----------------------------------------------------------------------------
\* Kernel modules: three devices, one of which has no module.
SomeOrders == {<<"nic", "hba", "nic">>, <<"hba", "nic", "hba">>, <<"odd", "nic", "hba">>,
               <<"nic", "nic", "odd">>, <<"hba", "odd", "nic">>}
SomeLookups == ("nic" :> <<"a", "a", "b", "a">>) @@ ("hba" :> <<"a">>)
               @@ ("odd" :> <<>>)
SomeConfigs == [d \in {"nic", "hba", "odd"} |->
  [vendor |-> IF d = "odd" THEN 2 ELSE 1, device |-> IF d = "hba" THEN 2 ELSE 1,
   subvendor |-> 3, subdevice |-> 4, class |-> IF d = "hba" THEN 1 ELSE 2]]
Entry(module, device, subdevice, mask) ==
  [kind |-> "entry", module |-> module, vendor |-> 1, device |-> device,
   subvendor |-> AnyId, subdevice |-> subdevice, mask |-> mask,
   class |-> IF mask THEN 2 ELSE 0]
SomeLines == {Entry("a", AnyId, 4, FALSE), Entry("b", 1, AnyId, TRUE),
              Entry("b", 2, 5, FALSE), Entry("", AnyId, AnyId, FALSE),
              [kind |-> "comment"], [kind |-> "long"]}
SomeFiles == UNION {[1..n -> SomeLines] : n \in 0..3} \cup
  [1..4 -> {line \in SomeLines : line.kind = "entry"}]

----------------------------------------------------------------------------
\* Vital product data of 17 bytes, read through a buffer of four.
SomeLengths == {0, 1, 2, 3}

----------------------------------------------------------------------------
\* Strings of two functions of one device and of an object of no list for it.
SomeListed == {"f0", "f1"}
SomeLoose == {"x"}
SomeAddresses == [o \in SomeListed \cup SomeLoose |-> "A"]
Slot(name, at) == [name |-> name, at |-> at]
SomeSlots == {<<Slot("3", "B")>>, <<Slot("1", "A"), Slot("2", "none"), Slot("3", "A")>>}
Files(ident, alias, group) ==
  [o \in SomeListed \cup SomeLoose |->
     IF o = "f1" THEN [ident |-> ident, alias |-> "", group |-> group]
     ELSE [ident |-> TRUE, alias |-> alias, group |-> ""]]
SomeFileLists == {Files(TRUE, "pci:a", "7"), Files(FALSE, "pci:b", "")}
SomeRequests ==
  {{"PHYS_SLOT", "RESCAN"}, {"PHYS_SLOT", "IDENT"}, {"MODULE_ALIAS", "IOMMU_GROUP"}}

----------------------------------------------------------------------------
\* Versions: directories with and without what the patterns ask for.
Dir(name) == [name |-> name, kind |-> "dir"]
Link(name) == [name |-> name, kind |-> "link"]
File(name) == [name |-> name, kind |-> "file"]
\* Levels are basic regular expressions, which match a part of the name: host*
\* is a name that contains "hos", e* matches each name, net/ib* any with an "i".
NameFits(name, pattern) ==
  CASE pattern = "host*" -> name \in {"host", "host0", "host1", "scsi_host"}
    [] pattern = "e*" -> TRUE
    [] pattern = "ib*" -> name \in {"ib0", "scsi_host", "driver"}
    [] pattern = "nvme*" -> name \in {"nvme", "nvme0"}
    [] pattern = "version|driver_version" -> name \in {"version", "driver_version"}
    [] pattern = "version|firmware_rev" -> name \in {"version", "firmware_rev"}
    [] OTHER -> name = pattern
SomeFilesOf == <<File("uevent"), File("version"), File("driver_version"),
                 File("firmware_rev"), File("option_rom_version")>>
HostTree(first) ==
  (<<>> :> <<File("host"), Dir("host0"), Dir("host1"), Link("driver"), Dir("nvme")>>)
  @@ (<<"host0">> :> <<Dir(first)>>) @@ (<<"host1">> :> <<Dir("scsi_host")>>)
  @@ (<<"host0", "scsi_host">> :> <<Dir("host0")>>)
  @@ (<<"host1", "scsi_host">> :> <<Dir("host1")>>)
  @@ (<<"host0", "scsi_host", "host0">> :> SomeFilesOf)
  @@ (<<"driver">> :> <<File("module"), Link("module")>>)
  @@ (<<"driver", "module">> :> SomeFilesOf)
  @@ (<<"nvme">> :> <<Dir("nvme0")>>)
  @@ (<<"nvme", "nvme0">> :> <<File("firmware_rev")>>)
PlainTree ==
  (<<>> :> <<File("host"), Dir("host1"), Link("driver")>>)
  @@ (<<"host1">> :> <<File("power"), Dir("scsi_host")>>)
  @@ (<<"host1", "scsi_host">> :> <<Dir("host1")>>)
  @@ (<<"host1", "scsi_host", "host1">> :> SomeFilesOf)
  @@ (<<"driver">> :> <<Link("module")>>) @@ (<<"driver", "module">> :> SomeFilesOf)
NetTree == (<<>> :> <<Dir("net")>>) @@ (<<"net">> :> <<Link("ib0"), Link("eth0")>>)
BareTree == (<<>> :> <<Link("driver")>>)
SomeTrees == {HostTree("scsi_host"), HostTree("power"), PlainTree, NetTree, BareTree}
Texts == {Unreadable, <<>>, <<"1.0">>, <<"1.0", "2.0", NoVersion>>,
          <<NoVersion, "3.0">>, <<"long">>}
SomeContents ==
  {[f \in {"version", "driver_version", "firmware_rev", "option_rom_version"} |->
      IF f = "version" THEN t ELSE u] : t \in Texts, u \in Texts}
SomeAnswers == {"fails", "5.0"}
LongVersions == {"long"}

----------------------------------------------------------------------------
\* What delete_tree() frees for four topologies, and lists with repetitions as
\* in garbage_collector/example.c.
HostBridge == 9
Br(bridge, buses) == [bridge |-> bridge, buses |-> buses]
SomeChains ==
  {<<Br(HostBridge, <<>>)>>, <<Br(HostBridge, <<1, 2>>)>>,
   <<Br(HostBridge, <<1>>), Br(2, <<3, 4>>), Br(5, <<>>)>>,
   <<Br(HostBridge, <<1, 2>>), Br(3, <<>>), Br(4, <<5>>)>>}
SomeLists == UNION {[1..n -> 1..3] : n \in 1..5}

----------------------------------------------------------------------------
\* DMI tables: structures of each form, and a tree of four devices.
Struct(type, form, slot, addr) == [type |-> type, form |-> form, slot |-> slot, addr |-> addr]
SomeStructs ==
  {Struct(9, "full", "r1i2s3", "0000:01:00.0"), Struct(9, "full", "J6B2", "0000:02:00.0"),
   Struct(9, "full", "PCIe r1i2s4", "0000:00:01.0"),
   Struct(9, "full", "r1i2s5", "0000:01:00.0"),
   Struct(9, "full", "J6B2", NoAddr), Struct(9, "nameless", "J6B2", NoAddr),
   Struct(9, "cut", "J6B2", NoAddr), Struct(9, "short", "J6B2", NoAddr),
   Struct(4, "full", "r1i2s3", NoAddr), Struct(127, "full", "end", NoAddr)}
SomeTables == UNION {[1..n -> SomeStructs] : n \in 0..3}
Point(type, sum, num, t) == [type |-> type, sum |-> sum, num |-> num, table |-> t]
FW(entry, efi, low) == [entry |-> entry, efi |-> efi, low |-> low]
TheTable == <<Struct(9, "full", "r1i2s3", "0000:01:00.0")>>
EfiPoints == {Point(t, sum, 0, TheTable) :
                t \in {"SM3", "SM", "DMI", "not found", "no smbios", "unreadable"},
                sum \in BOOLEAN}
LowPoints ==
  {<<NoPoint>>, <<>>, <<Point("SM", FALSE, 1, TheTable), Point("DMI", TRUE, 1, TheTable)>>,
   <<Point("SM", TRUE, 1, <<>>), Point("SM3", TRUE, 1, TheTable)>>}
SomeFirmwares ==
  {FW(Point(t, TRUE, num, table), NoPoint, <<>>) :
     t \in {"SM3", "SM"}, num \in {0, 2}, table \in SomeTables}
  \cup {FW(Point(t, FALSE, 0, TheTable), efi, low) :
          t \in {"SM3", "none"}, efi \in EfiPoints, low \in LowPoints}
SomeDevices == <<"host", "port", "switch", "card">>
SomeAbove == ("host" :> "none") @@ ("port" :> "none") @@ ("switch" :> "port")
             @@ ("card" :> "switch")
SomePlaces == ("host" :> ZeroAddr) @@ ("port" :> "0000:00:01.0")
              @@ ("switch" :> "0000:01:00.0") @@ ("card" :> "0000:02:00.0")
\* With a device 0000:00:00.0, which is above itself, and without.
Machine(parent, at, above) ==
  [parent |-> [SomeAbove EXCEPT !["host"] = parent, !["port"] = above],
   at |-> [SomePlaces EXCEPT !["host"] = at]]
SomeMachines ==
  {Machine("host", ZeroAddr, "host"), Machine("none", "0000:00:02.0", "none")}
Geo(slot) ==
  CASE slot = "PCIe r1i2s4" -> "r1i2s4"
    [] slot \in {"r1i2s3", "r1i2s4", "r1i2s5"} -> slot
    [] OTHER -> NoSlot

----------------------------------------------------------------------------
\* The list of identifiers: all short lists of a few lines, asked for a vendor, and
\* two longer ones, asked for everything.
SomeHex ==
  [w \in {"A", "C", "S", "01", "80", "0001", "1000", "10de", "1af4", "Red", "Net", "x"} |->
     LET Word(d, v) == [digits |-> d, value |-> v]
     IN CASE w \in {"A", "C"} -> Word(1, 10)
          [] w = "01" -> Word(2, 1) [] w = "80" -> Word(2, 128)
          [] w = "0001" -> Word(4, 1) [] w = "1000" -> Word(4, 4096)
          [] w = "10de" -> Word(4, 4318) [] w = "1af4" -> Word(4, 6900)
          [] OTHER -> Word(0, 0)]
L(nest, words) == [nest |-> nest, words |-> words]
SomeLinesOfIds ==
  {L(0, <<"1af4", "Red">>), L(0, <<"10de", "x">>), L(1, <<"1000", "Net">>),
   L(2, <<"1af4", "0001", "x">>), L(0, <<"S", "1af4">>), L(0, <<"C", "01", "x">>),
   L(1, <<"01", "Red">>), L(2, <<"80", "Red">>), L(0, <<"A", "x">>), L(0, <<>>),
   L(0, <<TooLong>>), L(3, <<"01", "x">>), L(1, <<"1000">>)}
ShortLists == UNION {[1..n -> SomeLinesOfIds] : n \in 0..3}
LongLists ==
  {<<L(0, <<"1af4", "Red">>), L(1, <<"1000", "Net">>), L(2, <<"1af4", "0001", "Net", "x">>),
     L(1, <<"0001", "Net", "1000">>), L(0, <<"S", "1af4">>), L(1, <<"0001", "x">>),
     L(0, <<>>), L(0, <<"C", "01", "x">>), L(1, <<"01", "x", "Red">>),
     L(2, <<"80", "x", "80">>), L(0, <<"C", "80", "Red", "Net">>)>>,
   <<L(0, <<"10de", "x">>), L(0, <<"A", "x">>), L(1, <<"x">>), L(0, <<"1af4", "Red">>),
     L(1, <<"1000", "Net">>), L(0, <<"C", "01", "x">>), L(2, <<"80", "x", "80">>),
     L(1, <<"80", "Net">>)>>}
Question(type, ids, flags, numeric) ==
  [type |-> type, ids |-> ids, flags |-> flags, numeric |-> numeric]
SomeIds ==
  [t \in {"VENDOR", "SUBSYSTEM VENDOR"} |-> {<<6900>>, <<1>>}]
  @@ [t \in {"DEVICE", "VENDOR DEVICE"} |->
        {<<6900, 4096>>, <<6900, 2>>, <<4318, 1>>, <<1, 1>>}]
  @@ [t \in {"SUBSYSTEM DEVICE", "SUBSYSTEM VENDOR DEVICE"} |->
        {<<6900, 4096, 6900, 1>>, <<0, 4096, 6900, 1>>, <<6900, 4096, 6900, 4096>>,
         <<6900, 1, 6900, 2>>, <<1, 1, 1, 1>>}]
  @@ ("CLASS" :> {<<257>>, <<258>>, <<32769>>, <<768>>})
  @@ ("PROGIF" :> {<<257, 128>>, <<257, 133>>, <<257, 0>>, <<257, 16>>, <<256, 128>>})
SomeFlags ==
  {<<{}, 0>>, <<{}, 1>>, <<{}, 2>>, <<{"NUMERIC"}, 0>>, <<{"NO_NUMBERS"}, 1>>,
   <<{"NUMERIC", "NO_NUMBERS"}, 0>>, <<{"MIXED", "NO_NUMBERS"}, 1>>}
SomeSessions ==
  {[file |-> f, questions |-> {Question("VENDOR", <<6900>>, {}, 0)}] :
     f \in ShortLists \cup
             {<<L(0, <<"1af4", "Red">>), L(1, <<"0001", "Net">>)>> \o g : g \in ShortLists}}
  \cup {[file |-> l, questions |->
           UNION {{Question(t, x, f[1], f[2]) : x \in SomeIds[t], f \in SomeFlags} :
                    t \in DOMAIN SomeIds}] : l \in LongLists}

----------------------------------------------------------------------------
\* Packets with one question, up to two answers of each kind and a record of
\* another section, whole and cut, with records missing and with bad names.
Rr(n, type, class, texts, spare) ==
  [name |-> n, type |-> type, class |-> class, texts |-> texts, spare |-> spare]
Pointer == <<192, 12>>
IdText == <<105, 61, 120>>
QuestionRr == Rr(<<1, 49, 2, 50, 51, 0>>, 16, 1, <<>>, <<>>)
SomeTexts ==
  {<<IdText>>, <<<<>>, <<105>>, <<110, 61>>>>, <<<<110, 61, 120>>, <<105, 61, 121>>, IdText>>,
   <<>>}
SomeRr ==
  {Rr(n, type, class, texts, spare) : n \in {Pointer, <<1, 49, 192, 12>>, <<0>>, <<64, 0>>},
     type \in {16, 5}, class \in {1, 3}, texts \in SomeTexts, spare \in {<<>>, <<9>>}}
Answers == {<<>>} \cup {<<r>> : r \in SomeRr}
           \cup {<<Rr(Pointer, type, class, <<<<110>>>>, <<4, 105, 61>>), r>> :
                   type \in {16, 5}, class \in {1, 3}, r \in SomeRr}
Extra == Rr(Pointer, 16, 1, <<<<105, 61, 122>>>>, <<>>)
NoBadName(rs) == \A i \in 1..Len(rs) : rs[i].name # <<64, 0>>
SomeReplies ==
  {[counts |-> <<1, Len(rs), 0, 1>>, records |-> <<QuestionRr>> \o rs \o <<Extra>>,
    length |-> 4096, good |-> NoBadName(rs)] : rs \in Answers}
  \cup {[counts |-> <<1, Len(rs), missing, 0>>, records |-> <<QuestionRr>> \o rs,
         length |-> length, good |-> missing = 0 /\ NoBadName(rs)] :
           rs \in {<<r>> : r \in SomeRr}, missing \in {0, 1}, length \in 0..40}
SomeSubjects ==
  {[cat |-> "VENDOR", ids |-> <<1, 0, 0, 0>>], [cat |-> "CLASS", ids |-> <<1, 0, 0, 0>>]}
  \cup {[cat |-> c, ids |-> <<i, j, 0, 0>>] :
           c \in {"DEVICE", "GEN_SUBSYSTEM", "SUBCLASS"}, i \in 1..2, j \in 1..2}
  \cup {[cat |-> "SUBSYSTEM", ids |-> <<1, 2, i, j>>] : i \in 1..2, j \in 1..2}
  \cup {[cat |-> "PROGIF", ids |-> <<1, 2, i, 0>>] : i \in 1..2}

----------------------------------------------------------------------------
Init ==
  /\ part \in Parts
  /\ FilterInit /\ KernelInit /\ VpdInit /\ BaseInit /\ FillInit /\ VersionInit
  /\ GuardInit /\ DmiInit /\ ListInit /\ NetInit

\* All but one part stay as they are.
OthersStay(p) ==
  /\ UNCHANGED part
  /\ IF p = "filters" THEN TRUE ELSE UNCHANGED filterVars
  /\ IF p = "kernel" THEN TRUE ELSE UNCHANGED kernelVars
  /\ IF p = "vpd" THEN TRUE ELSE UNCHANGED vpdVars
  /\ IF p = "bases" THEN TRUE ELSE UNCHANGED baseVars
  /\ IF p = "fill" THEN TRUE ELSE UNCHANGED fillVars
  /\ IF p = "versions" THEN TRUE ELSE UNCHANGED versionVars
  /\ IF p = "guard" THEN TRUE ELSE UNCHANGED guardVars
  /\ IF p = "dmi" THEN TRUE ELSE UNCHANGED dmiVars
  /\ IF p = "names" THEN TRUE ELSE UNCHANGED listVars
  /\ IF p = "net" THEN TRUE ELSE UNCHANGED netVars

Next ==
  \/ part = "filters" /\ FilterNext /\ OthersStay("filters")
  \/ part = "kernel" /\ KernelNext /\ OthersStay("kernel")
  \/ part = "vpd" /\ VpdNext /\ OthersStay("vpd")
  \/ part = "bases" /\ BaseNext /\ OthersStay("bases")
  \/ part = "fill" /\ FillNext /\ OthersStay("fill")
  \/ part = "versions" /\ VersionNext /\ OthersStay("versions")
  \/ part = "guard" /\ GuardNext /\ OthersStay("guard")
  \/ part = "dmi" /\ DmiNext /\ OthersStay("dmi")
  \/ part = "names" /\ ListNext /\ OthersStay("names")
  \/ part = "net" /\ NetNext /\ OthersStay("net")

\* lspcie's own steps go on; nothing is assumed of clients.
Spec == Init /\ [][Next]_<<part, filterVars, kernelVars, vpdVars, baseVars, fillVars,
                           versionVars, guardVars, dmiVars, listVars, netVars>>
             /\ WF_vpdVars(VpdWalk /\ Next)
============================================================================
