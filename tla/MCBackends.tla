----------------------------- MODULE MCBackends -----------------------------
(***************************************************************************)
(* The two Linux back-ends for TLC.  pci_init() settles on one of them,    *)
(* which serves the access from then on: sysfs in a build with pread(),    *)
(* where each position of a file behaves alike, or proc in a build without *)
(* it, where the second position may fail or fall short.  Two objects of   *)
(* two devices; permissions, registers and memory change.                  *)
(***************************************************************************)
EXTENDS ProcConfig, TLC

CONSTANTS p1, p2, b1, b2

VARIABLE method   \* a->methods

OneDomain == {<<0, b1>>, <<0, b2>>}
TwoDomains == {<<0, b1>>, <<1, b1>>}

\* Each position reads differently at first.
StripedContents == {[f \in Files |-> [x \in Regs |-> x % 2]]}

\* The first device is closed, readable or writeable; the other one is
\* writeable.
SomePerms ==
  {[f \in Files |-> IF f[2] = "vpd" THEN "none"
                    ELSE IF f[1] = <<0, b1>> THEN c ELSE "rw"] :
     c \in {"none", "ro", "rw"}}

\* For sysfs: all registers read 0 at first, but the vital product data of the
\* second device reads 1; configuration space is closed, readable or writeable,
\* for each device on its own, and vital product data with it.
OneContents ==
  {[f \in Files |-> [x \in {0} |-> IF f = <<<<0, b2>>, "vpd">> THEN 1 ELSE 0]]}
AllPerms ==
  {[f \in Files |-> IF f[2] = "vpd" /\ c[f[1]] = "rw" THEN "ro" ELSE c[f[1]]] :
     c \in [Locs -> {"none", "ro", "rw"}]}

Sysfs == INSTANCE SysfsConfig
           WITH Regs <- {0}, Contents <- OneContents, Perms <- AllPerms,
                Glue <- FALSE, Fallible <- {}

\* Of the methods pci_init() tries, the first that detects its files.
Detect(m) ==
  /\ method = m
  /\ IF m = "sysfs" THEN Sysfs!FilesInit ELSE FilesInit

BackendsInit == \E m \in {"sysfs", "proc"} : Detect(m)

BackendsNext ==
  /\ IF method = "sysfs" THEN Sysfs!Next ELSE Next
  /\ UNCHANGED method

bvars == <<cvars, method>>
BackendsSpec == BackendsInit /\ [][BackendsNext]_bvars

ObjectSymmetry == Permutations({p1, p2})

----------------------------------------------------------------------------
\* Every variable of either back-end has its type (fd, fd_vpd, cached_dev and
\* fd_pos of struct pci_access).
BothTypeOK == IF method = "sysfs" THEN Sysfs!TypeOK ELSE TypeOK

\* sysfs_setup() and sysfs_cleanup_dev() keep the cached descriptors those of
\* cached_dev, which is alive.
CacheOK == method = "sysfs" => Sysfs!CacheOK

\* proc_setup() never reuses a descriptor for an object it was not opened for,
\* although nothing clears cached_dev when its object is freed.
ProcReuseIsSafe == method = "proc" => ReuseIsSafe

\* The glue's fd_pos is the kernel's offset.
ProcOffsetKnown == method = "proc" => OffsetKnown

\* Both back-ends implement raw access to the specified device: pci_read_xxx()
\* and pci_write_xxx() of interleaved objects reach the device of each.
BothRefine ==
  /\ IF method = "sysfs" THEN Sysfs!Raw!Init ELSE Raw!Init
  /\ [][IF method = "sysfs" THEN Sysfs!Raw!Next ELSE Raw!Next]_<<dev, reg, out>>

\* No failed attempt to write gets in the way of a read that the kernel would
\* allow: ReadWorks of either back-end.
BothRead == [][IF method = "sysfs" THEN Sysfs!ReadWorks ELSE ReadWorks]_cvars

\* No descriptor for reading gets in the way of a write that the kernel would
\* allow: WriteWorks of either back-end.
BothWrite == [][IF method = "sysfs" THEN Sysfs!WriteWorks ELSE WriteWorks]_cvars

\* What the descriptor cache of either back-end claims is so: whose descriptors
\* they are, and where the kernel is in the file.
CacheIsTrue == BothTypeOK /\ CacheOK /\ ProcReuseIsSafe /\ ProcOffsetKnown

\* What the kernel allows works, whatever was opened or refused before.
AllowedWorks == BothRead /\ BothWrite
============================================================================
