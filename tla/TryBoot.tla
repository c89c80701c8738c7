------------------------------ MODULE TryBoot ------------------------------
(***************************************************************************)
(* A/B booting on the Raspberry Pi 5, without a boot loader of its own:    *)
(* the firmware reads config.txt and cmdline.txt on the boot partition,    *)
(* or, once after a reboot that asks for it, tryboot.txt and               *)
(* cmdline-tryboot.txt.  rpi-tryboot.sh is RAUC's boot loader back end.    *)
(* A slot's kernel is a directory slot-A or slot-B of the boot partition.  *)
(*                                                                         *)
(* Files written by a redirection are torn until the write ends; mv, touch *)
(* and sed -i replace a file in one step.  /run and the firmware's one-    *)
(* shot flag do not survive a power loss.                                  *)
(***************************************************************************)
EXTENDS Naturals

CONSTANTS
    Images,     \* releases an update bundle can carry
    Good,       \* the releases that boot and reach the supervisor
    Factory,    \* the release the disk was flashed with
    Torn,       \* content of a file, directory or partition half written
    Empty,      \* content of what was never written
    None,       \* a file that does not exist
    MaxLosses   \* bound: unplanned power losses in a behaviour

Slot == {"A", "B"}
Other(s) == IF s = "A" THEN "B" ELSE "A"
NoSlot == "none"
Content == Images \cup {Torn, Empty}

\* What a kernel command line says: rauc.slot (with root= of the same slot),
\* systemd.machine_id, haos.wipe=1.
CmdLine == [slot : Slot, id : BOOLEAN, wipe : BOOLEAN]

ASSUME TryBootAssumption ==
    /\ Good \subseteq Images /\ Factory \in Good
    /\ {Torn, Empty} \cap Images = {} /\ Torn # Empty
    /\ {Torn, None} \cap Slot = {} /\ Torn # None
    /\ {Torn, None} \cap CmdLine = {}
    /\ MaxLosses \in Nat

VARIABLES
    slotdir,    \* slot-A and slot-B on hassos-boot
    default,    \* slot-default on hassos-boot
    rootfs,     \* content of hassos-system0/1
    config,     \* os_prefix in config.txt
    configTorn, \* ... which is half written
    cmdline,    \* cmdline.txt
    tryConfig,  \* os_prefix in tryboot.txt
    tryCmd,     \* cmdline-tryboot.txt
    good,       \* the slots whose directory contains .good
    param,      \* /run/systemd/reboot-param asks for tryboot
    tryFlag,    \* the firmware's flag for the next boot
    pc,         \* where the machine is
    tryActive,  \* this boot is a tryboot (/proc/device-tree/.../tryboot)
    prefix,     \* the slot directory this boot's kernel came from
    cur,        \* rauc.slot on this boot's command line
    wiping,     \* haos.wipe=1 on this boot's command line, not yet obeyed
    op,         \* what RAUC is doing
    losses,     \* unplanned power losses so far
    requested,  \* history: a wipe has been asked for and not completed
    provisioned,\* history: the machine id has been stored once
    waived      \* history: what ended the promises, see Excuses

files == <<slotdir, default, rootfs, config, configTorn, cmdline,
           tryConfig, tryCmd, good>>
run == <<pc, tryActive, prefix, cur, wiping>>
history == <<losses, requested, provisioned, waived>>
vars == <<files, run, history, param, tryFlag, op>>

(***************************************************************************)
(* commit: power was lost while the permanent files were replaced.         *)
(* hurried: an update was started from a trial boot that nobody had        *)
(*   committed, so it replaces the slot the firmware would fall back to.   *)
(* stale: the machine was rebooted into a slot that holds no complete      *)
(*   release, by the owner or because a second update failed after a first *)
(*   one had asked for the trial.                                          *)
(***************************************************************************)
Excuses == {"commit", "hurried", "stale"}

Committing == {"commitConfig", "commitCmdline"}

Stages == {"idle", "check", "bad", "default", "copy", "slot", "move", "rootfs",
           "rootfsWrite", "primary", "tryCmd", "tryConfig", "param",
           "commitRemove"} \cup Committing

Idle == [stage |-> "idle", target |-> NoSlot, image |-> Factory]

TypeOK ==
    /\ slotdir \in [Slot -> Content] /\ rootfs \in [Slot -> Content]
    /\ default \in Content
    /\ config \in Slot /\ configTorn \in BOOLEAN
    /\ cmdline \in CmdLine
    /\ tryConfig \in Slot \cup {None, Torn}
    /\ tryCmd \in CmdLine \cup {None, Torn}
    /\ good \subseteq Slot
    /\ param \in BOOLEAN /\ tryFlag \in BOOLEAN
    /\ pc \in {"off", "kernel", "start", "up", "dead"}
    /\ tryActive \in BOOLEAN /\ wiping \in BOOLEAN
    /\ prefix \in Slot \cup {NoSlot} /\ cur \in Slot \cup {NoSlot}
    /\ op \in [stage : Stages, target : Slot \cup {NoSlot}, image : Images]
    /\ losses \in 0 .. MaxLosses
    /\ requested \in BOOLEAN /\ provisioned \in BOOLEAN
    /\ waived \subseteq Excuses

Init ==
    /\ slotdir = [s \in Slot |-> IF s = "A" THEN Factory ELSE Empty]
    /\ rootfs = [s \in Slot |-> IF s = "A" THEN Factory ELSE Empty]
    /\ default = Empty
    /\ config = "A" /\ configTorn = FALSE
    /\ cmdline = [slot |-> "A", id |-> FALSE, wipe |-> FALSE]
    /\ tryConfig = None /\ tryCmd = None
    /\ good = {}
    /\ param = FALSE /\ tryFlag = FALSE
    /\ pc = "off" /\ tryActive = FALSE /\ wiping = FALSE
    /\ prefix = NoSlot /\ cur = NoSlot
    /\ op = Idle
    /\ losses = 0
    /\ requested = FALSE /\ provisioned = FALSE
    /\ waived = {}

Whole(s) == slotdir[s] \in Images /\ rootfs[s] = slotdir[s]
Bootable(s) == Whole(s) /\ slotdir[s] \in Good

Stage(st) == op.stage = st
GoTo(st) == op' = [op EXCEPT !.stage = st]

-----------------------------------------------------------------------------
(***************************************************************************)
(* The firmware and the kernel.                                            *)
(***************************************************************************)

\* Start the kernel of directory p with command line c; without a kernel the
\* firmware stops.
StartKernel(p, c) ==
    /\ prefix' = p
    /\ cur' = c.slot
    /\ wiping' = c.wipe
    /\ \/ slotdir[p] # Empty /\ pc' = "kernel"
       \/ slotdir[p] \in {Torn, Empty} /\ pc' = "dead"

\* The slot directory tryboot.txt names if it is complete enough to name one.
TryPrefix == IF tryConfig = Torn THEN tryCmd.slot ELSE tryConfig

Hang == pc' = "dead" /\ UNCHANGED <<prefix, cur, wiping>>

\* The one-shot flag selects the trial files.  A file that is torn where it
\* matters leaves the firmware without a kernel.
Firmware ==
    /\ pc = "off"
    /\ tryFlag' = FALSE
    /\ tryActive' = tryFlag
    /\ \/ ~tryFlag /\ StartKernel(config, cmdline)
       \/ ~tryFlag /\ configTorn /\ Hang
       \/ /\ tryFlag /\ tryConfig # None /\ tryCmd \in CmdLine
          /\ StartKernel(TryPrefix, tryCmd)
       \/ tryFlag /\ (tryConfig = Torn \/ tryCmd \notin CmdLine) /\ Hang
    /\ UNCHANGED <<files, history, param, op>>

\* The owner switches a machine that hangs off and on.
PowerCycle ==
    /\ pc = "dead"
    /\ pc' = "off"
    /\ UNCHANGED <<files, history, tryActive, prefix, cur, wiping, param, tryFlag, op>>

\* A kernel and a root file system that belong together.
Matched == prefix = cur /\ Whole(cur)

ComesUp ==
    /\ pc = "kernel"
    /\ Matched => Bootable(cur)
    /\ pc' = "start"
    /\ UNCHANGED <<files, history, tryActive, prefix, cur, wiping, param, tryFlag, op>>

\* The kernel panics or the watchdog bites.  The reset does not set the flag.
BootFails ==
    /\ pc = "kernel"
    /\ ~(Matched /\ Bootable(cur))
    /\ pc' = "off"
    /\ UNCHANGED <<files, history, tryActive, prefix, cur, wiping, param, tryFlag, op>>

-----------------------------------------------------------------------------
(***************************************************************************)
(* Start-up.                                                               *)
(***************************************************************************)

\* haos-wipe: the partitions are made anew and the flag is removed from
\* cmdline.txt.
Wipe ==
    /\ pc = "start"
    /\ wiping
    /\ wiping' = FALSE
    /\ requested' = FALSE
    /\ cmdline' = [cmdline EXCEPT !.wipe = FALSE]
    /\ UNCHANGED <<slotdir, default, rootfs, config, configTorn, tryConfig, tryCmd,
                   good, pc, tryActive, prefix, cur, losses, provisioned, waived,
                   param, tryFlag, op>>

\* A partition is missing or in use, or cannot be formatted: the flag stays.
WipeFails ==
    /\ pc = "start"
    /\ wiping
    /\ wiping' = FALSE
    /\ UNCHANGED <<files, pc, tryActive, prefix, cur, history, param, tryFlag, op>>

\* hassos-persists: add the machine id to cmdline.txt unless it is there.
Persist ==
    /\ pc = "start"
    /\ ~wiping
    /\ pc' = "up"
    /\ cmdline' = [cmdline EXCEPT !.id = TRUE]
    /\ provisioned' = TRUE
    /\ UNCHANGED <<slotdir, default, rootfs, config, configTorn, tryConfig, tryCmd,
                   good, tryActive, prefix, cur, wiping, losses, requested, waived,
                   param, tryFlag, op>>

\* The owner asks for a wipe: the flag is added to cmdline.txt.
RequestWipe ==
    /\ pc = "up"
    /\ ~requested
    /\ requested' = TRUE
    /\ cmdline' = [cmdline EXCEPT !.wipe = TRUE]
    /\ UNCHANGED <<slotdir, default, rootfs, config, configTorn, tryConfig, tryCmd,
                   good, run, losses, provisioned, waived, param, tryFlag, op>>

-----------------------------------------------------------------------------
(***************************************************************************)
(* rpi-tryboot.sh set-state: RAUC reports the running slot good.           *)
(***************************************************************************)

\* A boot from the permanent files: only leave the mark.
MarkGood ==
    /\ pc = "up" /\ Stage("idle")
    /\ ~tryActive
    /\ good' = good \cup {cur}
    /\ UNCHANGED <<slotdir, default, rootfs, config, configTorn, cmdline, tryConfig,
                   tryCmd, run, history, param, tryFlag, op>>

\* Mutant: a trial boot is committed again and again.
CommittableUnchecked == tryActive

\* A trial boot whose files are there and name the slot; otherwise set-state
\* changes nothing.
Committable ==
    /\ tryActive
    /\ tryCmd \in CmdLine
    /\ tryConfig # None
    /\ tryCmd.slot = cur

\* A trial boot is made permanent: config.txt first,
CommitBegin ==
    /\ pc = "up" /\ Stage("idle")
    /\ Committable
    /\ configTorn' = TRUE
    /\ GoTo("commitConfig")
    /\ UNCHANGED <<slotdir, default, rootfs, config, cmdline, tryConfig, tryCmd, good,
                   run, history, param, tryFlag>>

CommitConfig ==
    /\ pc = "up" /\ Stage("commitConfig")
    /\ config' = TryPrefix
    /\ configTorn' = (tryConfig = Torn)
    /\ GoTo("commitCmdline")
    /\ UNCHANGED <<slotdir, default, rootfs, cmdline, tryConfig, tryCmd, good,
                   run, history, param, tryFlag>>

\* Mutant: the command line is copied before set-primary's, from the old one.
CommitCmdlineKeepsSlot ==
    /\ pc = "up" /\ Stage("commitCmdline")
    /\ tryCmd' = None
    /\ GoTo("commitRemove")
    /\ UNCHANGED <<slotdir, default, rootfs, config, configTorn, cmdline, tryConfig, good,
                   run, history, param, tryFlag>>

\* then cmdline.txt,
CommitCmdline ==
    /\ pc = "up" /\ Stage("commitCmdline")
    /\ cmdline' = tryCmd
    /\ tryCmd' = None
    /\ GoTo("commitRemove")
    /\ UNCHANGED <<slotdir, default, rootfs, config, configTorn, tryConfig, good,
                   run, history, param, tryFlag>>

\* and the trial files go.
CommitRemove ==
    /\ pc = "up" /\ Stage("commitRemove")
    /\ tryConfig' = None
    /\ param' = FALSE
    /\ good' = good \cup {cur}
    /\ op' = Idle
    /\ UNCHANGED <<slotdir, default, rootfs, config, configTorn, cmdline, tryCmd,
                   run, history, tryFlag>>

-----------------------------------------------------------------------------
(***************************************************************************)
(* Installing an update.                                                   *)
(***************************************************************************)
BeginUpdate ==
    /\ pc = "up" /\ Stage("idle")
    /\ \E img \in Images :
         op' = [stage |-> "check", target |-> Other(cur), image |-> img]
    /\ UNCHANGED <<files, run, history, param, tryFlag>>

\* install-check.
InstallCheck ==
    /\ pc = "up" /\ Stage("check")
    /\ op' = Idle \/ GoTo("bad")
    /\ UNCHANGED <<files, run, history, param, tryFlag>>

\* set-state bad: remove the mark of the target.
MarkTargetBad ==
    /\ pc = "up" /\ Stage("bad")
    /\ good' = good \ {op.target}
    /\ waived' = waived \cup (IF op.target = cmdline.slot THEN {"hurried"} ELSE {})
    /\ GoTo("default")
    /\ UNCHANGED <<slotdir, default, rootfs, config, configTorn, cmdline, tryConfig,
                   tryCmd, run, losses, requested, provisioned, param, tryFlag>>

\* install_boot: replace slot-default by the bundle's slot-A.
CopyBegin ==
    /\ pc = "up" /\ Stage("default")
    /\ default' = Torn
    /\ GoTo("copy")
    /\ UNCHANGED <<slotdir, rootfs, config, configTorn, cmdline, tryConfig, tryCmd,
                   good, run, history, param, tryFlag>>

CopyEnd ==
    /\ pc = "up" /\ Stage("copy")
    /\ default' = op.image
    /\ GoTo("slot")
    /\ UNCHANGED <<slotdir, rootfs, config, configTorn, cmdline, tryConfig, tryCmd,
                   good, run, history, param, tryFlag>>

\* post_install_kernel: remove the target's directory,
RemoveSlot ==
    /\ pc = "up" /\ Stage("slot")
    /\ slotdir' = [slotdir EXCEPT ![op.target] = Empty]
    /\ good' = good \ {op.target}
    /\ GoTo("move")
    /\ UNCHANGED <<default, rootfs, config, configTorn, cmdline, tryConfig, tryCmd,
                   run, history, param, tryFlag>>

\* Mutant: slot-default goes to the running slot.
MoveSlotWrong ==
    /\ pc = "up" /\ Stage("move")
    /\ slotdir' = [slotdir EXCEPT ![cur] = default]
    /\ default' = Empty
    /\ GoTo("rootfs")
    /\ UNCHANGED <<rootfs, config, configTorn, cmdline, tryConfig, tryCmd, good,
                   run, history, param, tryFlag>>

\* and rename slot-default to it.
MoveSlot ==
    /\ pc = "up" /\ Stage("move")
    /\ slotdir' = [slotdir EXCEPT ![op.target] = default]
    /\ default' = Empty
    /\ GoTo("rootfs")
    /\ UNCHANGED <<rootfs, config, configTorn, cmdline, tryConfig, tryCmd, good,
                   run, history, param, tryFlag>>

RootfsBegin ==
    /\ pc = "up" /\ Stage("rootfs")
    /\ rootfs' = [rootfs EXCEPT ![op.target] = Torn]
    /\ GoTo("rootfsWrite")
    /\ UNCHANGED <<slotdir, default, config, configTorn, cmdline, tryConfig, tryCmd,
                   good, run, history, param, tryFlag>>

RootfsEnd ==
    /\ pc = "up" /\ Stage("rootfsWrite")
    /\ rootfs' = [rootfs EXCEPT ![op.target] = op.image]
    /\ GoTo("primary")
    /\ UNCHANGED <<slotdir, default, config, configTorn, cmdline, tryConfig, tryCmd,
                   good, run, history, param, tryFlag>>

\* A write or a hook fails; nothing is put back.
UpdateFails ==
    /\ pc = "up"
    /\ op.stage \in {"default", "copy", "slot", "move", "rootfs", "rootfsWrite"}
    /\ op' = Idle
    /\ UNCHANGED <<files, run, history, param, tryFlag>>

-----------------------------------------------------------------------------
(***************************************************************************)
(* rpi-tryboot.sh set-primary.                                             *)
(***************************************************************************)

\* The owner makes the other slot primary (ha os boot-slot other).
BootOther ==
    /\ pc = "up" /\ Stage("idle")
    /\ op' = [stage |-> "primary", target |-> Other(cur), image |-> Factory]
    /\ UNCHANGED <<files, run, history, param, tryFlag>>

\* get_primary names the requested slot already.
SetPrimarySkips ==
    /\ pc = "up" /\ Stage("primary")
    /\ cmdline.slot = op.target
    /\ op' = Idle
    /\ UNCHANGED <<files, run, history, param, tryFlag>>

SetPrimaryBegin ==
    /\ pc = "up" /\ Stage("primary")
    /\ cmdline.slot # op.target
    /\ tryCmd' = Torn
    /\ GoTo("tryCmd")
    /\ UNCHANGED <<slotdir, default, rootfs, config, configTorn, cmdline, tryConfig,
                   good, run, history, param, tryFlag>>

\* Mutant: the new command line is made from scratch.
WriteTryCmdlineAnew ==
    /\ pc = "up" /\ Stage("tryCmd")
    /\ tryCmd' = [slot |-> op.target, id |-> FALSE, wipe |-> FALSE]
    /\ tryConfig' = Torn
    /\ GoTo("tryConfig")
    /\ UNCHANGED <<slotdir, default, rootfs, config, configTorn, cmdline, good,
                   run, history, param, tryFlag>>

\* cmdline-tryboot.txt is cmdline.txt with the slot replaced.
WriteTryCmdline ==
    /\ pc = "up" /\ Stage("tryCmd")
    /\ tryCmd' = [cmdline EXCEPT !.slot = op.target]
    /\ tryConfig' = Torn
    /\ GoTo("tryConfig")
    /\ UNCHANGED <<slotdir, default, rootfs, config, configTorn, cmdline, good,
                   run, history, param, tryFlag>>

\* Mutant: the prefix is not replaced.
WriteTryConfigSame ==
    /\ pc = "up" /\ Stage("tryConfig")
    /\ tryConfig' = IF configTorn THEN Torn ELSE config
    /\ GoTo("param")
    /\ UNCHANGED <<slotdir, default, rootfs, config, configTorn, cmdline, tryCmd, good,
                   run, history, param, tryFlag>>

\* Mutant: the prefix is replaced in config.txt itself.
WriteTryConfigInPlace ==
    /\ pc = "up" /\ Stage("tryConfig")
    /\ tryConfig' = op.target
    /\ config' = op.target
    /\ GoTo("param")
    /\ UNCHANGED <<slotdir, default, rootfs, configTorn, cmdline, tryCmd, good,
                   run, history, param, tryFlag>>

\* tryboot.txt is config.txt with the prefix replaced.
WriteTryConfig ==
    /\ pc = "up" /\ Stage("tryConfig")
    /\ tryConfig' = IF configTorn THEN Torn ELSE op.target
    /\ GoTo("param")
    /\ UNCHANGED <<slotdir, default, rootfs, config, configTorn, cmdline, tryCmd, good,
                   run, history, param, tryFlag>>

AskForTryboot ==
    /\ pc = "up" /\ Stage("param")
    /\ param' = TRUE
    /\ op' = Idle
    /\ UNCHANGED <<files, run, history, tryFlag>>

-----------------------------------------------------------------------------
\* Power is gone from everything volatile.
SwitchOff ==
    /\ pc' = "off"
    /\ tryActive' = FALSE
    /\ prefix' = NoSlot
    /\ cur' = NoSlot
    /\ wiping' = FALSE
    /\ param' = FALSE
    /\ op' = Idle

\* systemd passes reboot-param to the kernel, which sets the flag.
Reboot ==
    /\ pc = "up" /\ Stage("idle")
    /\ SwitchOff
    /\ tryFlag' = param
    /\ waived' = waived \cup (IF param /\ ~Whole(tryCmd.slot) THEN {"stale"} ELSE {})
    /\ UNCHANGED <<files, losses, requested, provisioned>>

PowerLoss ==
    /\ losses < MaxLosses
    /\ pc \in {"kernel", "start", "up"}
    /\ SwitchOff
    /\ losses' = losses + 1
    /\ waived' = waived \cup (IF op.stage \in Committing THEN {"commit"} ELSE {})
    /\ UNCHANGED <<files, tryFlag, requested, provisioned>>

Boot == Firmware \/ ComesUp \/ BootFails \/ Wipe \/ WipeFails \/ Persist

Commit == CommitBegin \/ CommitConfig \/ CommitCmdline \/ CommitRemove

Install ==
    \/ BeginUpdate \/ InstallCheck \/ MarkTargetBad \/ CopyBegin \/ CopyEnd
    \/ RemoveSlot \/ MoveSlot \/ RootfsBegin \/ RootfsEnd \/ UpdateFails

SetPrimary ==
    \/ BootOther \/ SetPrimarySkips \/ SetPrimaryBegin \/ WriteTryCmdline
    \/ WriteTryConfig \/ AskForTryboot

Next ==
    \/ Boot \/ Commit \/ Install \/ SetPrimary
    \/ MarkGood \/ RequestWipe \/ Reboot \/ PowerLoss \/ PowerCycle

(***************************************************************************)
(* The firmware starts a kernel and a kernel that does not come up is      *)
(* reset; start-up finishes.  Nothing obliges the owner or an update.      *)
(***************************************************************************)
Fairness == WF_vars(Boot)

Spec == Init /\ [][Next]_vars /\ Fairness

-----------------------------------------------------------------------------
(***************************************************************************)
(* Properties.                                                             *)
(***************************************************************************)

\* Whenever the firmware is about to take the trial files, both are complete
\* and agree on the slot, also after power losses and failed updates between
\* their writes: set-primary asks for the trial last.  Only a config.txt torn
\* by a power loss makes a torn tryboot.txt.
TrialPrepared ==
    tryFlag /\ "commit" \notin waived => tryCmd \in CmdLine /\ tryConfig = tryCmd.slot

\* The files and flags have their types and a trial is prepared completely.
TrialSound == TypeOK /\ TrialPrepared

\* Outside the commit itself, the slot that the firmware falls back to when a
\* trial fails is one slot, for kernel and root, and holds a complete release
\* that comes up: an update never touches it and a commit only moves it to a
\* slot that has come up.
FallbackStays ==
    waived = {} /\ op.stage \notin Committing =>
        /\ ~configTorn
        /\ config = cmdline.slot
        /\ Bootable(config)

\* The machine id that hassos-persists stored is on the command line of every
\* later boot: set-primary carries it over to the trial, the commit back.
IdKept ==
    provisioned =>
        /\ cmdline.id
        /\ tryFlag => tryCmd.id

\* With a fallback slot, and no torn directory, resets and reboots end in a
\* running system: a trial that fails is followed by a boot of the permanent
\* slot.
FailedTrialReturns ==
    (pc = "off" /\ waived = {} /\ \A s \in Slot : slotdir[s] \in Images) ~> (pc = "up")

\* The promise of ABUpdate.
AB == INSTANCE ABUpdate WITH
        Slots <- Slot, Releases <- Images, Gap <- Empty, Nowhere <- NoSlot,
        holds <- [s \in Slot |-> IF Whole(s) THEN slotdir[s] ELSE Empty],
        running <- IF pc \in {"start", "up"} THEN cur ELSE NoSlot,
        valid <- waived = {}

\* Booting and updating with tryboot implement ABUpdate: the system only comes
\* up from a complete release and no step changes the slot it runs from.
ImplementsABUpdate == AB!AbsSpec

\* haos-wipe:29 "Removing wipe flag from cmdline.txt": once a wipe is done, no
\* later boot wipes again unless it is asked to.
WipesOnRequest == wiping => requested
=============================================================================
