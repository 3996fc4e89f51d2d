---------------------------- MODULE KernelModules ----------------------------
(***************************************************************************)
(* Kernel modules of a device (ls-kernel.c).  next_module() hands out one  *)
(* name after the other and keeps its place in static variables, of which  *)
(* there is one set for all devices; there is one version for libkmod and  *)
(* one for a file modules.pcimap.                                          *)
(***************************************************************************)
EXTENDS Integers, Sequences, FiniteSets

CONSTANTS
  ShowOrders,   \* sequences of devices to show
  Lookups,      \* device -> sequence of modules libkmod finds, <<>> if there
                \* are none, no alias to look for, or an error
  MapFiles,     \* sequences of lines of modules.pcimap
  ConfigOf      \* device -> [vendor, device, subvendor, subdevice, class] as
                \* match_pcimap() gets them

\* A line is an entry, one that is skipped (a comment, a name without a blank
\* behind it, fewer than six numbers), or too long.
MapLines ==
  [kind : {"entry"}, module : STRING, vendor : Nat, device : Nat,
   subvendor : Nat, subdevice : Nat, mask : BOOLEAN, class : Nat]
    \cup [kind : {"comment", "long"}]

ASSUME KernelAssumption ==
  /\ \A order \in ShowOrders : order \in Seq(DOMAIN Lookups)
  /\ \A d \in DOMAIN Lookups : Lookups[d] \in Seq(STRING)
  /\ MapFiles \subseteq Seq(MapLines)

VARIABLES
  loader,       \* "idle", then "kmod" or "pcimap"
  inited,       \* show_kernel_inited, tried_pcimap: "no", "reading", "failed", "yes"
  lines,        \* the file, and how many lines of it have been read
  lines_read,
  toShow,       \* devices still to show; the first is the one at hand
  asking,       \* show_kernel() is in its loop for the first of toShow
  klist,        \* list of libkmod, <<>> for NULL
  kcurrent,     \* place in it, 0 for NULL
  pcimap,       \* entries from pcimap_head on, each the number of its line
  current,      \* place in pcimap, 0 for NULL
  prev_module,  \* "" for none
  shown         \* history: a sequence of [dev, modules]

kernelVars == <<loader, inited, lines, lines_read, toShow, asking, klist, kcurrent,
                pcimap, current, prev_module, shown>>

KernelInit ==
  /\ loader = "idle" /\ inited = "no" /\ lines = <<>> /\ lines_read = 0
  /\ toShow = <<>> /\ asking = FALSE
  /\ klist = <<>> /\ kcurrent = 0
  /\ pcimap = <<>> /\ current = 0
  /\ prev_module = "" /\ shown = <<>>

StartKernel ==
  /\ loader = "idle" /\ loader' \in {"kmod", "pcimap"}
  /\ toShow' \in ShowOrders
  /\ UNCHANGED <<inited, lines, lines_read, asking, klist, kcurrent, pcimap, current,
                 prev_module, shown>>

AnyId == 65536   \* an entry's number above 0xffff matches all

\* match_pcimap(); a mask has all the bits of the class or none.
EntryMatches(d, e) ==
  /\ \A x \in {"vendor", "device", "subvendor", "subdevice"} :
       e[x] >= AnyId \/ ConfigOf[d][x] = e[x]
  /\ (IF e.mask THEN ConfigOf[d].class ELSE 0) = e.class

\* show_kernel_init(): libkmod fails, or the file named by -p cannot be opened,
\* which ends the program; one that need not be there has no lines.
ShowKernelInit ==
  /\ toShow # <<>> /\ inited = "no"
  /\ UNCHANGED <<loader, lines_read, asking, klist, kcurrent, pcimap, current,
                 prev_module, shown>>
  /\ \/ /\ loader = "kmod"
        /\ inited' \in {"yes", "failed"}
        /\ UNCHANGED <<lines, toShow>>
     \/ /\ loader = "pcimap" /\ inited' = "reading"
        /\ \/ lines' \in MapFiles /\ UNCHANGED toShow
           \/ toShow' = <<>> /\ UNCHANGED lines

\* show_kernel_init() reads a line, or the end of the file; an entry comes first
\* in the list.
ReadMapLine ==
  /\ inited = "reading" /\ toShow # <<>>
  /\ UNCHANGED <<loader, lines, asking, klist, kcurrent, current, prev_module, shown>>
  /\ \/ /\ lines_read < Len(lines) /\ lines_read' = lines_read + 1
        /\ LET line == lines[lines_read']
           IN /\ pcimap' = IF line.kind = "entry" THEN <<lines_read'>> \o pcimap
                           ELSE pcimap
              /\ toShow' = IF line.kind = "long" THEN <<>> ELSE toShow  \* die()
        /\ UNCHANGED inited
     \/ /\ lines_read = Len(lines) /\ inited' = "yes"
        /\ UNCHANGED <<lines_read, pcimap, toShow>>

\* show_kernel() begins with a device.
BeginModules ==
  /\ toShow # <<>> /\ inited \in {"yes", "failed"} /\ ~asking
  /\ IF inited = "yes"
     THEN /\ asking' = TRUE
          /\ shown' = Append(shown, [dev |-> Head(toShow), modules |-> <<>>])
          /\ UNCHANGED toShow
     ELSE toShow' = Tail(toShow) /\ UNCHANGED <<asking, shown>>
  /\ UNCHANGED <<loader, inited, lines, lines_read, klist, kcurrent, pcimap, current,
                 prev_module>>

\* What show_kernel() prints behind what it has printed for the device at hand.
Shows(module) ==
  shown' = [shown EXCEPT ![Len(shown)] =
              [dev |-> shown[Len(shown)].dev,
               modules |-> Append(shown[Len(shown)].modules, module)]]

\* A fault: the last module of the device before is not forgotten.
FilteredKept(more, module) ==
  IF more THEN /\ prev_module' = module
               /\ IF module = prev_module THEN UNCHANGED shown ELSE Shows(module)
  ELSE UNCHANGED <<prev_module, shown>>

\* next_module_filtered() for what next_module() returned, if more than NULL.
Filtered(more, module) ==
  IF more THEN /\ prev_module' = module
               /\ IF module = prev_module THEN UNCHANGED shown ELSE Shows(module)
  ELSE prev_module' = "" /\ UNCHANGED shown

Asked(more) ==
  /\ asking' = more
  /\ toShow' = IF more THEN toShow ELSE Tail(toShow)

\* next_module() with libkmod
NextModuleKmod ==
  LET list == IF klist # <<>> THEN klist ELSE Lookups[Head(toShow)]
      at == IF klist # <<>> THEN kcurrent + 1 ELSE 1
      more == at <= Len(list)
  IN /\ loader = "kmod" /\ asking
     /\ klist' = IF more THEN list ELSE <<>>
     /\ kcurrent' = IF more THEN at ELSE 0
     /\ Filtered(more, IF more THEN list[at] ELSE "") /\ Asked(more)
     /\ UNCHANGED <<loader, inited, lines, lines_read, pcimap, current>>

\* next_module() with the file
NextModulePcimap ==
  LET matching == {i \in current + 1..Len(pcimap) :
                     EntryMatches(Head(toShow), lines[pcimap[i]])}
      more == matching # {}
      at == CHOOSE i \in matching : \A j \in matching : i <= j
  IN /\ loader = "pcimap" /\ asking
     /\ current' = IF more THEN at ELSE 0
     /\ Filtered(more, IF more THEN lines[pcimap[at]].module ELSE "") /\ Asked(more)
     /\ UNCHANGED <<loader, inited, lines, lines_read, klist, kcurrent>>
     /\ UNCHANGED pcimap

KernelNext ==
  \/ StartKernel \/ ShowKernelInit \/ ReadMapLine \/ BeginModules
  \/ NextModuleKmod \/ NextModulePcimap

----------------------------------------------------------------------------
\* Where a device's modules are: places in libkmod's list, or lines of the file,
\* of which later ones come first.
PlacesOf(d) ==
  IF loader = "kmod" THEN 1..Len(Lookups[d])
  ELSE {i \in 1..Len(lines) : lines[i].kind = "entry" /\ EntryMatches(d, lines[i])}
NameAt(d, i) == IF loader = "kmod" THEN Lookups[d][i] ELSE lines[i].module
Precedes(i, j) == IF loader = "kmod" THEN i < j ELSE j < i

\* A name that follows itself, or an empty one that is first, is not printed.
Follows(d, i, j) ==
  /\ i \in PlacesOf(d) /\ Precedes(i, j)
  /\ \A k \in PlacesOf(d) : ~(Precedes(i, k) /\ Precedes(k, j))
Repeats(d, j) ==
  \/ \E i \in PlacesOf(d) : Follows(d, i, j) /\ NameAt(d, i) = NameAt(d, j)
  \/ NameAt(d, j) = "" /\ \A i \in PlacesOf(d) : ~Precedes(i, j)
Printed(d) == {j \in PlacesOf(d) : ~Repeats(d, j)}

\* The modules are the names at some places, in order.
AreNamesAt(modules, d, S) ==
  /\ Len(modules) = Cardinality(S)
  /\ \A j \in S : modules[Cardinality({i \in S : ~Precedes(j, i)})] = NameAt(d, j)

\* Whatever devices were shown before, a device that has been shown got exactly
\* the modules that fit it, one after the other, where a name that follows
\* itself is printed once.
ModulesAreOwn ==
  \A k \in 1..Len(shown) :
    k < Len(shown) \/ ~asking =>
      AreNamesAt(shown[k].modules, shown[k].dev, Printed(shown[k].dev))
============================================================================
