# Verification of Home Assistant OS: booting, updating, data disk, Supervisor start, Kconfig

This directory holds TLA+ models of the parts of this repository that decide
whether a machine comes up, with the right release and the right data: the A/B
boot scripts, the RAUC install hook, the tryboot back end of the Raspberry Pi 5,
the units that prepare the data partition and the script that starts the
Supervisor; and of the library that decides whether a kernel configuration is
what was asked for, `kconfiglib.py`, with the script that uses it. TLC checks the
models on small instances; TLAPS proves most of their safety properties for every
instance (section 6 says which, and which stay with TLC).

Paths below are relative to `buildroot-external/`; `libexec/` and `sbin/` stand
for `rootfs-overlay/usr/libexec/` and `rootfs-overlay/usr/sbin/`, and `units/`
for `rootfs-overlay/usr/lib/systemd/system/`. `PROJECT.json` maps every definition
to the lines it models.

## 1. Inventory

| Component | State it keeps | Operations | Interacts with | Hard behaviour |
|---|---|---|---|---|
| U-Boot script `board/raspberrypi/uboot-boot64.ush` and its nine siblings | `BOOT_ORDER`, `BOOT_A_LEFT`, `BOOT_B_LEFT`, `MACHINE_ID` in one CRC-protected copy on `hassos-bootstate` | choose a slot, spend an attempt, store, start or reset | the running system and RAUC write the same variables (`fw_setenv`) | power loss inside the only copy, attempts at zero, endless resets |
| GRUB `board/pc/grub.cfg` | `ORDER`, `x_OK`, `x_TRY`, `MACHINE_ID` in `EFI/BOOT/grubenv` | the same, with rescue entries | the block lies on the partition that an update replaces | unreadable block that nothing repairs, backup and restore around the copy |
| Tryboot back end `board/raspberrypi/rpi5-64/.../rpi-tryboot.sh`, `cmdline.sh` | `config.txt`, `cmdline.txt`, their trial twins, `slot-A`, `slot-B`, `.good`, `reboot-param` | set-primary, set-state (commit), get-primary, get-state | the firmware's one-shot flag, `hassos-persists`, `haos-wipe` edit `cmdline.txt` | several files make one state; a trial boot that nobody commits |
| RAUC hook and manifest `ota/` | boot partition, kernel and root file system of two slots, SPL, copies in `/tmp` | install-check, install boot, install spl, post-install kernel | RAUC, the boot loaders' state | failure or power loss between any two writes, shared parts without a second copy |
| `libexec/hassos-persists` | the machine id in the boot loader's state | store it once | the boot scripts: no id means first boot | a lost id detaches the data disk |
| Data partition: `haos-wipe`, `hassos-data`, `haos-data-disk-detach`, `hassos-expand`, `mnt-data.mount` | file system labels, data, `/mnt/overlay/move-data` | wipe, migrate, detach, enlarge, mount | systemd orders only some pairs of them; udev resolves the label | two partitions with one label, late disks, power loss in the copy |
| `sbin/hassos-supervisor`, `units/hassos-supervisor.service`, `libexec/hassos-apparmor` | image, container, time stamp, `updater.json`, startup marker, AppArmor profile | repair, pull, re-create, start | Docker, registry, systemd's restart and start limit | repair within three starts, stale container, failed removals |
| `libexec/hassos-overlay`, `sbin/hassos-config`, NTP dispatcher | files under `/mnt/overlay/etc` | create when missing, import, rewrite | the same files | partial copies, import removed although it failed |
| `libexec/haos-swapfile`, `hassos-zram`, `docker-prepare`, `docker-disk-check`, `raucdb-update` | swap file, flags, `rauc.db` | size arithmetic, flags across wipes | - | rounding and tolerance, appending twice |
| `package/hassio/` | downloaded archives, data image | fetch under a lock, import | parallel builds | interrupted download taken for complete |
| `scripts/kconfiglib.py`: parser and menu tree | open files, include path, menu nodes, dependencies of symbols and choices | parse, propagate conditions, finalize, check for loops | the kernel's Kconfig files | lines kept for the surrounding block, nested and recursive sources, choices that contain anything, trees that are rearranged, loops |
| `scripts/kconfiglib.py`: values and `.config` files | user values, cached values, who depends on whom | read values, `set_value`, `unset_value`, `load_config`, `write_config`, `write_min_config` | `.config` | cached values that go stale, order of reads and changes, MODULES, what a saved file stands for |
| `scripts/kconfiglib.py`: files for a build | `.config`, `.config.old`, `autoconf.h`, `auto.conf`, touched files | `write_config`, `write_autoconf`, `sync_deps` | make | interruption between or inside the writes, objects that are not recompiled |
| `scripts/check-dotconfig.py` | options expected by the fragments | parse fragments, load `.config`, compare | kconfiglib | `m` against `y`, options that are not defined |
| image construction (`scripts/*.sh`, `genimage/`, `board/*/hassos-hook.sh`) | partition images | straight-line build | produces the initial states | - |

What makes each of them correct, in one line: the boot loaders only start
complete releases, never forget the running one, and get to a bootable one by
themselves; an update never harms the running system; the owner's settings and
the machine id survive updates; the data that is mounted is the data last
written; the Supervisor that is started is the current one, and a corrupted one
is repaired. A Kconfig that is accepted can be evaluated, its conditions are the
ones the files state, a value that is read is the one that the current user
values imply, a saved configuration stands for what was saved, and a build
recompiles what a change concerns and nothing else.

## 2. Modules

| Module | Models | Built on |
|---|---|---|
| `ABUpdate` | abstract: what A/B updating promises (start only complete releases, rewrite only the slot that is not running) | - |
| `RaucInstall` | the slots and one RAUC installation with the hook's steps | - |
| `UBootBoot` | U-Boot script, environment, `hassos-persists`, RAUC's U-Boot back end | `RaucInstall`, refines `ABUpdate` |
| `GrubBoot` | `grub.cfg`, `grubenv`, `hassos-persists`, `check_grubenv`, RAUC's GRUB back end | `RaucInstall`, refines `ABUpdate` |
| `TryBoot` | `rpi-tryboot.sh`, firmware, hook on the Raspberry Pi 5, `haos-wipe`'s flag | refines `ABUpdate` |
| `DataDisk` | wipe, migration, detach, expansion and mount as concurrent units | - |
| `SupervisorStart` | start script, AppArmor profile, systemd's restarts | - |
| `KconfigCache` | abstract: what the value cache promises (nothing stale stays, what is cached is what would be calculated now), whatever the values are | - |
| `KconfigExpr` | expressions: parsing, simplification, printing, dependencies between items | - |
| `KconfigData` | the symbols and choices of a Kconfig and their types | - |
| `KconfigValues` | how the values of symbols and choices follow from user values; the reference evaluation without a cache | `KconfigExpr`, `KconfigData` |
| `KconfigUser` | the user values: `set_value`, `unset_value`, `unset_values`, `load_config`, whatever is calculated from them | `KconfigData` |
| `KconfigSession` | a program that reads and changes values and loads files; saving; `check-dotconfig.py` | `KconfigValues`, `KconfigUser`, refines `KconfigCache` |
| `KconfigTree` | menu nodes: propagation of conditions, implicit menus, flattening of ifs, choices, `node_iter`, the loop check | `KconfigValues` |
| `KconfigParse` | the parser over Kconfig files, for any way to parse expressions and to finalize a tree | - |
| `KconfigInit` | `Kconfig._init` as a whole: the parser with the expressions and the tree above, and the checks of the result | `KconfigParse`, `KconfigTree` |
| `KconfigBuild` | saving, `autoconf.h`, `sync_deps`, make (external), interruptions | - |
| `KconfigSessionProofs` | theorems about `KconfigCache` and `KconfigUser` | `KconfigCache`, `KconfigUser`, `TLAPS` |
| `KconfigParseProofs` | theorems about `KconfigParse` | `KconfigParse`, `TLAPS` |
| `KconfigBuildProofs` | theorems about `KconfigBuild` | `KconfigBuild`, `TLAPS` |
| `UBootProofs` | theorems about `UBootBoot` | `UBootBoot`, `TLAPS` |
| `GrubProofs` | theorems about `GrubBoot` | `GrubBoot`, `TLAPS` |
| `TryBootProofs` | theorems about `TryBoot` | `TryBoot`, `TLAPS` |
| `DataDiskProofs` | theorems about `DataDisk` | `DataDisk`, `TLAPS` |
| `SupervisorProofs` | theorems about `SupervisorStart` | `SupervisorStart`, `TLAPS` |
| `MC*` | instances for TLC: two releases, one of which does not come up; two Supervisor versions; four Kconfig trees; six languages of Kconfig files | the module of the same name |

### How state and actions correspond to the code

**Writes.** A write that a power loss can tear is two actions: the first leaves
the target torn (`Torn`, `Corrupt`), the second completes it. What is replaced
in one step by the code (`mv`, `touch`, `sed -i`, `e2label`) is one action.

**RaucInstall.** `rauc.stage` is the position in the manifest: `BootBackup`,
`BootCopyConfig`, `BootCopy`, `BootRestore`, `BootRestoreEnv` are the lines of
`install_boot`; kernel and root file system are written by RAUC itself
(external); `SplBegin`/`SplEnd` are `install_spl`. `InstallFails` is errexit with
the EXIT trap: the copies go and nothing is put back. The copies that are
followed by `|| true` may fail without ending the installation.

**UBootBoot.** `Script` is one run of the loop: `Attempts` says which slots it
reaches with attempts left, `Spend` decrements exactly those (also when the
kernel does not load), `ResetTries` is the branch without a valid slot;
`ScriptStored` is the end of `storebootstate` followed by `booti` or `reset`. An
environment that fails its CRC is replaced by `DefaultEnv`. The pure A/B logic of
the ten scripts is the same; the buttons of Yellow and Green are left out.

**GrubBoot.** `Selected`, `RescueSelected` and `FirstEntry` are the three ways in
which `default` gets its value. `save_env` and `grub-editenv set` fail on a block
they cannot read, so a torn block stays until `check_grubenv`.

**TryBoot.** One action per command of `set-primary` and of the commit in
`set-state`. `config`/`cmdline` are the permanent files, `tryConfig`/`tryCmd` the
trial files, `param` is `/run/systemd/reboot-param`, `tryFlag` the firmware's flag
that one boot consumes. `RemoveSlot` (`rm -rf`) is one action: a directory that is partly
removed is not told apart from one that is gone, and neither is complete.

**DataDisk.** `unit` records how far each of the four units is. The guards are
systemd's ordering: wipe before overlay and data are mounted, migration after
the overlay, expansion after the migration, mount after all; detach is ordered
against the mount only, and starts when a device carries the label. `Labelled` is what
`/dev/disk/by-label` may resolve to. `WipeFails` is a failing `mkfs`; `MoveSkips` includes
a disk that shows up after its device unit timed out. Reading the labels and
renaming a partition in `haos-data-disk-detach` are one action: the ten seconds it sleeps
come before both.

**SupervisorStart.** `pc` runs through the script; `known` and `found` are
`SUPERVISOR_CONTAINER_ID` and `SUPERVISOR_IMAGE_ID` as they were read at the
start; `starts` counts against `StartLimitBurst`.

**KconfigValues.** A value is a cell, that is an attribute (`vis`, `tri`, `str`,
`sel`, `asg`) of a symbol or choice; a cache gives each cell `{}` or `{value}`. The
operators calculate a cell from the cells in a cache and yield `{}` when one they
need is missing: the recursion of the properties in Python becomes a
calculation that waits for its inputs. `Fresh` fills a cache completely, and is
the reference that cached values are compared with; a cell that `Fresh` cannot
fill is a recursion without end. n, m, y are 0, 1, 2; a string is a number or
something that is not one. The read that only decides about a warning (4496) is left
out.

**KconfigUser.** `user` holds the user values, with the flags `_was_set` in
`user.was`. `Call` is one call of `set_value` or `unset_value` by a program;
`calls` is what `load_config` or `unset_values` still has to do, so that
properties see the states in between: the lines of the file (`ReadConfLine` turns
one into calls), and before and after them, if the configuration is replaced, the
reset of the flags and the unsetting of what was not set. `RaiseKeyError` is the
exception that the report of a second assignment ends in. `fromFile` is a history
variable: a fresh instance that loads the same file at the same time.

**KconfigSession.** The calls of `KconfigUser` together with the cache. `cache` holds what has
been read so far and `used` the cells that each of it was calculated from; `anew` is `Fresh` of
the current user values. `Drop` is the invalidation that comes with a call. Every step
is a step of `KconfigUser` or leaves its variables alone.

**KconfigCache.** The same cache without the calculations: a value is right when the
values it is calculated from are, and cells that were calculated from each other
only, and from user values that stay, are worth the same after a change
(`Settled`). The values of `KconfigSession` meet both, which is part of what
`ImplementsCache` checks.

**KconfigTree, KconfigParse, KconfigInit.** Files are made up while they are read: a line that
is fetched for the first time is any line of the language, so one run covers all
files of that language up to `MaxLines`. `line` is the line that `_parse_props`
leaves to the block, `blocks` the recursion of `_parse_block`, `filestack` that of
`source`. `origin` records every node as it was stated, and the properties compare
it with the finalized tree in `heap`. What `_parse_expr` and `_finalize_node` compute
is given to `KconfigParse` as constant operators (`Expr`, `Cond`, `ExprAndEol`,
`Finalized`), which the cfg sets to those of `KconfigExpr` and `KconfigTree`; this keeps
the module free of recursion. `KconfigInit` adds `kconf`, the symbols that result
from the finalized tree, and the two checks that decide between `done` and
`rejected`; `KconfigParse` leaves their outcome open. The loop check visits the
dependents of an item in one fixed order where Python's set has any; the order decides
which loop is reported, not whether there is one.

**KconfigBuild.** One action per file system step of `write_config`,
`write_autoconf` and `sync_deps`; opening a file for writing truncates it and the
next action completes it. `SaveOldFails` and `CopyOldFails` are the errors of the
backup that `_save_old` ignores: saving goes on. `Crash` is a power loss or an exception of the
file system, possible between any two, and leaves some lines of the file that was
being written. There is one object per symbol, which
is compiled with what `autoconf.h` says of it.

## 3. Properties, by run

| Run | Properties |
|---|---|
| `uboot` | `BootOrderWhole`: a slot in `BOOT_ORDER` is complete or was never written. `RunningSlotInOrder`: the running slot never leaves the order. `FirstBootOnce`: no second first boot. `BootPartitionKept`: the boot partition and the owner's files survive. `BoundedRetries`, `KeepsComingUp`: a machine with a bootable slot comes up, after at most two rounds of attempts. `ImplementsABUpdate`. |
| `grub` | `OkSlotWhole`, `BootStateSound` (the running slot stays OK, no second first boot, bounded retries), `ImplementsABUpdate`; `FallsBack`: a release that does not come up is given up. |
| `tryboot` | `TrialSound`: the firmware never takes incomplete or contradictory trial files. `FallbackStays`: the permanent files name one bootable slot. `IdKept`, `ImplementsABUpdate`; `FailedTrialReturns`. |
| `datadisk` | `RightDataMounted`, `LatestSurvives`, `BootLeavesOrder` (the next boot has one partition to find, what is expanded is what is mounted); `DataFound`. Yellow and the other boards in one run. |
| `supervisor` | `StartsCurrentContainer`; `HealsItself`: two corruptions are repaired within the start limit. |
| `kconfig_session` | `CacheCoherent`: a cached value is the value that would be calculated now, in every order of reads, changes and loads, also in the middle of a load. `AssignableTruthful`: a value is assignable exactly when assigning it works. `ValuesLegal`: user values of the right type, one symbol per choice in y mode, numbers in range. `SavedStandsForIt`: loading `.config` or the minimal configuration restores the values. `LostValuesReported`: given the saved configuration and a later fragment with the user values, `check-dotconfig.py` reports exactly the user values that a dependency, MODULES or another symbol of the choice took away. `ReplaceSetsValues`: after a configuration was replaced, values and modes are those that the file sets in a fresh instance, the selections that it makes hold, and no such load raises an exception. `ImplementsCache`. |
| `kconfig_parse` | `NodesSound`: every node carries the file and line of its statement, lies below an earlier node and is linked to later ones. `NoRecursiveSource`: no file is entered while it is being read. `TreeSound`: the rearranged tree is visited in definition order, and types are handed through choices. `DependenciesAsStated`: conditions, prompts, selects and implies are the ones that the nesting of the files states, and choices know their symbols. `LoopsFound`: an accepted Kconfig evaluates, a rejected one has a loop. `PrintParse`: printing an expression and parsing it keeps its value. |
| `kconfig_build` | `ObjectsUpToDate`: after a build every object was compiled with the current value of its symbol. `TouchedForAChange`: nothing is recompiled in vain. `FilesSound`: the configuration that a build found is in `.config` or `.config.old`, unless the backup failed, and then it stays until `.config` is opened for writing. |

The type invariant `TypeOK` of a module is a property of its own in `uboot` and
`supervisor`; elsewhere it is the first conjunct of `BootStateSound`, `TrialSound`,
`BootLeavesOrder`, `ValuesLegal`, `NodesSound` and `FilesSound`. Every property has a
mutant: a definition next to the one it replaces, named for the mistake, that
breaks it.

### What is excused, and why

Some promises end when something irreplaceable is destroyed. The models do not
leave these events out; they record them in history variables that the
properties name:

* `waived` (UBootBoot, GrubBoot): power was lost inside a write of the boot
  loader's state, the bundle's `grubenv` was left in place, or the owner switched
  to a slot without a complete release.
* `cut` (RaucInstall): an installation ended inside a write of the boot partition
  or of the SPL, or the owner's files could not be put back.
* `waived` (TryBoot): `commit`, power lost inside the commit; `hurried`, an update
  started from an uncommitted trial; `stale`, a reboot into a slot without a
  complete release.
* `excused` (DataDisk): `twin`, two partitions left with the label by an
  interrupted migration or a failed rename; `late`, a leftover disk enumerated
  after the detaching; `lostId`, a spurious first boot; `wipeCut`, power lost in
  `mkfs`, or `mkfs` failed.
* `cut`, `disturbed` (SupervisorStart): a restart just before the time stamp;
  network outage, failed removal or early stop on the current boot.
* `tornAuto` (KconfigBuild): power was lost inside `auto.conf`, so old values are
  unknown; `lapsed`: a symbol that lost its definition but is still mentioned;
  `unsaved`: the backup failed. `_save_old` ignores every error (6430, and the
  docstring of `write_config` at 1547 says so), and `write_config` truncates
  `.config` all the same, so that the configuration found is lost. `FilesSound` is about the
  configuration that the current build found: a `.config` that an interrupted build left torn is moved over
  `.config.old` by the next one, like any other.
* `NoBoolInTristateChoice` (KconfigSession, minimal configurations only), and in
  KconfigInit a choice with something other than symbols inside (`LoopsFound`) and
  symbols whose prompts are all outside of their choice (`DependenciesAsStated`).
  Each is a disagreement listed below.

`KeepsComingUp` has no such excuse: it holds after torn environments too.

### Disagreements between the code and what it says

Four runs are expected to be violated; each checks what a comment, message or
docstring of the code states.

| Run | Statement | What happens |
|---|---|---|
| `tryboot_wipe` | `haos-wipe:29` "Removing wipe flag from cmdline.txt" | set-primary copies a pending flag to the trial command line and the commit brings it back: the next boot wipes again |
| `datadisk_copy` | `hassos-data:39` "make sure HAOS does not try to mount a failed copy attempt" | the label is copied before the rename, which may fail or not be reached |
| `kconfig_replace` | `kconfiglib.py:1193` "all existing user values will be cleared before loading the .config" | they are cleared after it, on what the file did not set: a choice whose mode it sets keeps the old selection |
| `kconfig_merge` | `kconfiglib.py:4663` "as if the symbol had never gotten a user value" | the flag `_was_set` stays; a later `load_config(replace=False)` looks up the value that is gone and raises |

Others were met on the way and have no run of their own:

* `rpi-tryboot.sh:31` means to do nothing for the slot that is running, but reads
  `cmdline.txt`, which names the other slot during a trial; `hassos-supervisor:117`
  stores the time stamp after the container was created; `hassos-apparmor:9` tests
  for a directory that it creates before the download.
* kconfiglib, all in Kconfig files that the kernel does not have: a choice default
  that is not a symbol of the choice is not registered as a dependency of it; a
  choice symbol whose prompts are all outside the choice can keep a stale value
  (the comment at 3525 takes the opposite for granted); MODULES that depends on a
  tristate symbol recurses without end, and so does a named choice that is nested
  in itself, which the loop check does not follow; the minimal configuration
  loses the y mode of a tristate choice whose default symbol is bool; a symbol
  that is removed but still mentioned is not touched by `sync_deps` (1880).

## 4. Bounds

| Bound | Value | Why it is enough |
|---|---|---|
| releases | 2, one good, one not | properties tell apart only whether a release comes up and whether two partitions agree |
| `Tries` | 3 | the code's value |
| `MaxLosses` | 1 (U-Boot, tryboot), 2 (GRUB, data disk) | a loss is possible at every step of every boot and update; failures of an installation and resets are unbounded; the second loss hits the repair of the first, on the data disk or in `grubenv`. The theorems hold for any number |
| `MaxWrites` | 3 | three states of the data tell old copies from new ones |
| `MaxDamage` | 2 | one start is used up by each, and three are allowed |
| `Burst` | 3 | the unit's value |
| `MaxChanges` | 3 | a stale value takes a read, a change and a read; the third change undoes or follows the second. Reads are unbounded |
| Kconfig trees | 4 | selects, implies and MODULES; a tristate choice; an optional bool choice; ranges and comparisons |
| `MaxLines` | 6, in each of six languages | two entries with properties inside one block, or a file that sources another; `H` is a file that does not exist |
| `MaxBuilds`, `MaxCrashes` | 3, 2 | two interrupted builds before one that ends; four kinds of change between any two of them |

`fails` in the boot models is a history variable that stops one above the bound
it is compared with. There are no state constraints. Deadlock is checked in all
runs but `kconfig_session`, `kconfig_build` and the two violations of the former,
where the bounded changes and builds come to an end.

## 5. Fairness

Weak fairness is assumed of the boot chain (`Boot`: scripts end in a start or a
reset, and a kernel that does not come up is reset by `CONFIG_PANIC_TIMEOUT` and
the runtime watchdog), of a started write of the environment, of systemd's jobs
on the data partition and of the start script. Nothing is assumed of the owner,
of updates, of the network, of plugging, or of marking a slot good. The Kconfig
modules assume no fairness: their properties are safety properties. `FallsBack`
and `FailedTrialReturns` ask for slots whose kernel partition is not torn, since
GRUB and the firmware wait in their menus for somebody to switch the machine off.

## 6. Theorems

Proved for every value of the constants are: all the safety properties that the runs
`uboot`, `grub`, `tryboot`, `datadisk`, `supervisor` and `kconfig_build` check, the two
properties of `kconfig_parse` that are about reading the files (`NodesSound`,
`NoRecursiveSource`), and of `kconfig_session` `ReplaceSetsValues` and, for the abstract
cache that the session implements, `CacheCoherent`. The list at the end of this section names
what is left to TLC. Each of the modules below defines an
inductive invariant `IInv` (`UserInv` for the user values), proves that the initial states satisfy it and that
every action keeps it (one step per action, one lemma per group of conjuncts), and derives the
properties from it. TLC checked every one of them on the instance of its run before it
was proved. The bounds on power losses, writes, builds and the like are constants
of the models, so that the theorems hold for any of them.

### U-Boot

`UBootProofs` proves about `UBootBoot`, for any set of releases, any number of
attempts (`Tries >= 1`) and any number of power losses:

| Theorem | States |
|---|---|
| `Invariance` | `Spec => []IInv` |
| `TypeCorrect` | `Spec => []TypeOK` |
| `RunningSlotStays` | `Spec => []RunningSlotInOrder` |
| `OrderStaysWhole` | `Spec => []BootOrderWhole` |
| `FirstBootHappensOnce` | `Spec => []FirstBootOnce` |
| `BootPartitionStays` | `Spec => []BootPartitionKept` |
| `RetriesBounded` | `Spec => []BoundedRetries` |
| `Refinement` | `Spec => ImplementsABUpdate` |

Assumptions: `ImagesAssumption` (the factory release is good; torn and empty
partitions are not releases), `TriesAssumption`, `EnvAssumption` (a torn
environment is not a valid one). TLC evaluates them in the run `uboot`.

**The argument.** None of the properties is inductive. `IInv` adds what makes
them so: the environment is torn only while it is being written or after a
recorded power loss; while the system is up the running slot is in every
environment that a boot may read; from the moment RAUC has marked the target bad
until it activates it, the target is not the running slot and is in no such
environment; once the stages after a partition's write are reached, that
partition of the target holds the bundle's image. `StepIInv` has one step per
action. `Refinement` needs one fact more, `ChosenInv` with `StartedWhole`: the
slot that the script has chosen was not empty, so together with `BootOrderWhole`
it is complete, and nothing writes to it until it runs. `FirstBootHappensOnce`
rests on a second invariant: once the id has been stored, every environment a
boot may read has it. `BootPartitionStays` rests on `SharedInv`, which says for
every stage of an installation which of the shared parts are complete and where
the owner's files are.

`RetriesBounded` is a counting argument that the property itself does not show.
`RetryInv` says, for a slot that comes up and that the script knows of: the
kernels started in vain and the attempts that the *other* slot has left add up to
at most one round while a reset of the attempts is still to come (the good slot
has none left), and to at most two rounds otherwise. A failed kernel moves one
from the second summand to the first; the reset, which happens only when neither
slot has attempts, adds one round and gives the good slot its attempts back, and
`AttemptFacts` says that the script does not pass by a slot that loads and has some.

### GRUB

`GrubProofs` proves about `GrubBoot`, for any set of releases, any number of
attempts and any number of power losses:

| Theorem | States |
|---|---|
| `Invariance` | `Spec => []IInv` |
| `OkStaysWhole` | `Spec => []OkSlotWhole` |
| `StateSound` | `Spec => []BootStateSound` |
| `Refinement` | `Spec => ImplementsABUpdate` |

Assumptions: `ImagesAssumption`, `SplAssumption` (no SPL on these boards),
`TriesAssumption`, `EnvAssumption` (a block that cannot be parsed is not a valid
one).

**The argument.** grubenv lies on the partition that an update copies over, so the
block on disk is at times the bundle's. `IInv` is therefore about `Kept`, the
block that remains once the write or the copying that is under way is over: the
hook's copy until it is put back, else the pending block, else the one on disk.
`SoundInv` says of it what the properties say of the blocks a boot may read, and
that the target is not ok from the moment RAUC marked it until it activates it.
`WriteInv` says where a write can be under way and what the hook's copy is worth
(after `check_grubenv` the copied block was readable), `InstallInv` what has been
written at which stage. `RetryInv` bounds the attempts: GRUB counts before the
kernel starts, so the failures are at most what `TRY` of the other slot says, and a
slot whose `TRY` has reached the bound is not chosen.

### Raspberry Pi 5

`TryBootProofs` proves about `TryBoot`, for any set of releases and any number of
power losses:

| Theorem | States |
|---|---|
| `Invariance` | `Spec => []IInv` |
| `TrialIsSound` | `Spec => []TrialSound` |
| `FallbackKept` | `Spec => []FallbackStays` |
| `IdIsKept` | `Spec => []IdKept` |
| `Refinement` | `Spec => ImplementsABUpdate` |

Assumption: `TryBootAssumption` (as `ImagesAssumption`; torn and missing files are
told apart from slots and command lines).

**The argument.** A trial spans three files, one reboot and a commit that copies
two of the files back, and each step relies on what the ones before left. `OpInv`
follows `set-primary` and the commit stage by stage. `TrialInv` says that a trial
that has been *asked for*, by the reboot parameter of this boot or by the flag in the
firmware, has both its files, and that a trial that runs was prepared for the slot
it runs from; without it the commit could copy the files of another slot.
`FallbackInv` is `FallbackStays` extended into the commit (`config.txt` is
replaced first, then `cmdline.txt`) and to what is running; `IdInv` says that every command
line that is written has the machine id. Power lost during a commit is excused
(`waived`), as in the runs: the two files then name different slots.

### Data partition

`DataDiskProofs` proves about `DataDisk`, for any number of writes and power losses
and every order of the units that systemd allows:

| Theorem | States |
|---|---|
| `Invariance` | `Spec => []IInv` |
| `RightData` | `Spec => []RightDataMounted` |
| `DataSurvives` | `Spec => []LatestSurvives` |
| `OrderLeft` | `Spec => []BootLeavesOrder` |

Assumptions: `DataDiskAssumption` and `NoneAssumption` (torn, foreign and fresh
contents are no state of the data; no partition is none of them).

**The argument.** Which partition is mounted depends on labels that four units
change. `DataInv` distinguishes four situations: `Settled` (at most one partition
carries the label, and the one that does holds the data last written; detached
disks count too), `Undecided` (a new machine with the disk of an earlier
installation, where the detach unit has yet to decide), `Moving` (the copy is
under way or done, and the source still holds the data) and `Wiping` (no partition
carries the label). `UnitInv` says which units have finished when another runs,
`NewInv` that a new machine has nothing to move or to wipe, so that `Undecided`
meets neither. `GrownInv` carries what hassos-expand worked on to the mount.

### Supervisor

`SupervisorProofs` proves about `SupervisorStart`, for any releases, any start
limit and any number of corruptions:

| Theorem | States |
|---|---|
| `Invariance` | `Spec => []IInv` |
| `TypeCorrect` | `Spec => []TypeOK` |
| `CurrentContainer` | `Spec => StartsCurrentContainer` |

Assumptions: `SupervisorAssumption`, `NoneAssumption` (there is a version; `None`
is no version, container or script).

**The argument.** The script compares once and starts several steps later, and its
time stamp is written after the container it stands for. `StampInv` says when the
stamp can be trusted (always but between the two, unless power was lost there),
`KnowledgeInv` and `CurrentInv` that what was compared still holds at the start.

### Kconfig: the value cache

`KconfigSessionProofs` proves about `KconfigCache`, for any items, any dependency
graph (with cycles too) and any user values:

| Theorem | States |
|---|---|
| `FlagInvariance` | `Spec => []IInv` |
| `InputsStayCached` | `Spec => []InputsCached` |
| `NothingStaleStays` | `Spec => NoReaderLeft` |
| `CacheStaysCoherent` | `Spec => []CacheCoherent` |

**The argument.** `_rec_invalidate` stops at items without a cached visibility. That
is right only because whatever has a cached value has a cached visibility, and
so does everything that the value was calculated from: `IInv` says so, and it is
inductive because the set that the invalidation reaches is closed under
dependents with values. `NothingStaleStays` follows: a cached value that was
calculated from a dropped one belongs to a dependent with values, so it was
reached and dropped as well. Then what survives an invalidation was calculated from
survivors, and none of their user values has changed (`SurvivorsSettled`), so the
survivors are worth what they were, and a value calculated from right values is
right: `CacheStaysCoherent`. That kconfiglib keeps to `KconfigCache` (that it
registers everything a calculation reads, reads the visibility first, starts the
invalidation at the right item, and calculates from nothing else) is the property `ImplementsCache` of
`KconfigSession`, which TLC checks. No assumptions about the constants are needed.

### Kconfig: the user values

`KconfigSessionProofs` proves about `KconfigUser`, for any Kconfigs, any files, any
values that a program passes, and any order of calls and loads:

| Theorem | States |
|---|---|
| `UserInvariance` | `UserSpec => []UserInv` |
| `UserValuesTyped` | `UserSpec => []UserTyped` |
| `ReplacingSetsValues` | `UserSpec => []ReplaceSetsValues` |

Assumptions: `KconfigsAssumption` (the lists of symbols and choices are complete, a
choice is no symbol, and a symbol belongs to a choice or to none), `FilesAssumption` (a
file is a finite sequence of lines). Steps of `KconfigSession` are steps of
`KconfigUser` or leave its variables alone, so the theorems hold of it too.

**The argument.** `load_config` does not clear the old values before it applies the
lines: it resets the flags, applies the lines on top of what is there, and unsets
what has no flag afterwards. `UserInv` runs the load side by side with the same
load into a fresh instance (`fromFile`). `SetAlike` says that whatever has its flag
has the same value in both, and the rest has none in the fresh instance; `RestUnset`
that what has no flag is unset already or still to be unset. The shortcuts make this
subtle. A value that is set already is not checked again, which is right only
because user values are typed: the fresh instance does check it, and must accept it
too (`Good`). Selecting a symbol sets the flag of its choice and so keeps an old
mode of the choice from being unset; it does no harm because a line sets the mode right
before the symbol (`SelectsInMode`). And a symbol with its flag has a value
during such a load, so that the report of a second assignment finds one: the
exception of `LoadsAfterUnset` is confined to loads that merge. What is not equal,
and not claimed, is a selection that the file does not make: it may be left over
from before, which is the finding of `kconfig_replace`.

### Kconfig: the files for a build

`KconfigBuildProofs` proves about `KconfigBuild`, for any symbols, any
configurations, any number of builds and of interruptions:

| Theorem | States |
|---|---|
| `Invariance` | `Spec => []IInv` |
| `ConfigSurvives` | `Spec => []FilesSound` |
| `NothingOutdated` | `Spec => []ObjectsUpToDate` |
| `NothingInVain` | `Spec => TouchedForAChange` |

Assumptions: `BoundsAssumption`, `ConfigsAssumption` (defined symbols are symbols,
each with a value and a flag that says whether it is written).

**The argument.** An interrupted build leaves objects, touched files and an
auto.conf of different ages. `ObjectInv` is what holds them together: an object
that is not up to date *will be found out*, because its symbol's file is touched
already or because the comparison with auto.conf is still to come and differs.
This is why `sync_deps` may write auto.conf only after it has touched everything.
`GoneInv` and `SyncInv` say what is still to be touched in the two loops,
`AutoInv` that auto.conf holds no bool that is n (a missing line and n
compare equal), and `SaveInv` where the old configuration is during each step of
saving. A failed backup leaves it in `.config`, and the only step that may then destroy it is
the truncation: what `.config` holds afterwards is empty or the new configuration.

### Kconfig: reading the files

`KconfigParseProofs` proves about `KconfigParse`, for any language of lines, any files,
any number of lines, and any way to parse expressions and to finalize the tree:

| Theorem | States |
|---|---|
| `Invariance` | `Spec => []IInv` |
| `NodesAreSound` | `Spec => []NodesSound` |
| `SourceNotRecursive` | `Spec => []NoRecursiveSource` |

`KconfigInit`'s specification constrains the steps of `KconfigParse` further, so the
theorems hold of it too. No assumptions about the constants are needed.

**The argument.** A node takes its position from `filename` and `linenr`, which
`source` replaces and the end of a file restores, while a line that was read too
far is kept. `StackInv` says what every entry of `filestack` and of the include path
goes back to: the `source` statement in a file that is still open. `NumberInv`
equates `linenr` with the lines read, but for two cases: while a help text is read
it lags behind, and a help text that ends with its file counts one line too many,
after which only the end of the file is left to read.
`LineInv` says that the fetched line is the one at that position. On the side of the tree, `BlockInv` says which nodes the open
blocks hold, one block per open file at least, with the node of each block between
what the outer block and what the block itself holds, and `NodeInv` that links
lead forward and that nodes are where `origin` has them. `NoRecursiveSource`
is inductive together with `StackInv`: the check of `_enter_file` looks at the
include path only, which names every open file because of it.

### Only model-checked

* The liveness properties `KeepsComingUp`, `FallsBack`, `FailedTrialReturns`,
  `DataFound` and `HealsItself`: fairness is beyond the prover.
* `ValuesLegal` (but for the types of user values), `AssignableTruthful`,
  `SavedStandsForIt`, `LostValuesReported` and `ImplementsCache` of `KconfigSession` (that the cache stays
  coherent is proved of `KconfigCache`, which the session implements), and `TreeSound`,
  `DependenciesAsStated`, `LoopsFound` and `PrintParse` of `KconfigInit`. These modules, with `KconfigExpr`, `KconfigValues` and
  `KconfigTree`, follow the recursion of the code over expressions, menus and
  dependencies with RECURSIVE operators; what they compute could only be proved by
  induction over that data, which the prover does not offer.
* The four properties of runs that expect a violation, which do not hold.

## 7. Not modelled

* RAUC, the Raspberry Pi firmware, Docker, e2image, udev and OS Agent are external:
  their actions are modelled from how the scripts here use them.
* The buttons of Yellow and Green, the sector arithmetic of `hassos-expand`, and
  writes of `rpi-tryboot.sh` that fail for lack of space.
* Of kconfiglib: the tokenizer and the macros of the preprocessor (text is turned
  into text before anything modelled here happens), globs in `source`, unnamed
  choices, `mainmenu`, `option env`, `defconfig_list` and `allnoconfig_y`, the
  `all*config` helpers, warnings, `eval_string` and the printing of menu nodes. They
  format or look things up and keep no state that the modelled part depends on.
* Hazards seen in components without a model: `hassos-overlay:9` and
  `hassos-apparmor:11` take an incomplete file for one that was created before;
  `hassos-config:38` removes connections before the new ones are copied;
  `fetch-container-image.sh:64` takes the archive of a killed download for a
  complete one; `haos-swapfile:49` compares a size with a tolerance and with a
  rounded size.
* The components marked so in `PROJECT.json`, with the reason for each.
* Device trees, kernel configurations, patches and package recipes have no
  behaviour of their own to check.

## 8. Plan

In order of importance:

1. Done: `ABUpdate`, `RaucInstall`, `UBootBoot` with its proofs, `GrubBoot`,
   `TryBoot`, `DataDisk`, `SupervisorStart`; the Kconfig modules, with the proofs
   about the cache.
2. Done: the proofs about `GrubBoot`, `TryBoot`, `DataDisk`, `SupervisorStart`,
   `KconfigBuild`, `KconfigParse` and `KconfigUser`, the coherence of `KconfigCache`, and
   the remaining safety properties of `UBootBoot`.
3. `HostFiles`: `hassos-overlay`, `hassos-config`, the NTP dispatcher,
   `docker-prepare`, `raucdb-update` on the files they share, with power losses.
4. `ImageFetch`: parallel, retried and interrupted fetches under the lock, and
   the data partition they end in.
5. Size arithmetic (`haos-swapfile`, `hassos-zram`, `hassos-expand`) as functions
   checked against what they are meant to compute.
6. The buttons of Yellow and Green in `UBootBoot`.
