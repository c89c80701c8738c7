------------------------------ MODULE GrubBoot ------------------------------
(***************************************************************************)
(* A/B booting on the UEFI machines: grub.cfg, the environment block       *)
(* EFI/BOOT/grubenv on the boot partition, the running system that writes  *)
(* the same block (hassos-persists, RAUC), and RAUC installations.         *)
(*                                                                         *)
(* Unlike the U-Boot environment, grubenv lives on the partition that      *)
(* install_boot replaces: for a while the block on disk is the one of the  *)
(* update bundle.  A block that cannot be parsed stays unreadable, because *)
(* neither save_env nor grub-editenv set can repair it; only the install   *)
(* hook creates a new one.                                                 *)
(***************************************************************************)
EXTENDS RaucInstall

\* No machine with GRUB has an SPL (BOOT_SPL=false in their meta files).
ASSUME SplAssumption == HasSpl = FALSE

CONSTANTS
    Tries,      \* boot attempts a slot gets (3)
    Corrupt,    \* a grubenv that cannot be parsed
    NoEnv,      \* no write of grubenv is under way, or no copy is kept
    MaxLosses   \* bound: unplanned power losses in a behaviour

ASSUME TriesAssumption == Tries \in Nat \ {0} /\ MaxLosses \in Nat

VARIABLES
    pc,         \* where the machine is
    cur,        \* the slot of the menu entry that was chosen
    rescue,     \* ... and whether it is the slot's rescue entry
    env,        \* grubenv on disk
    pend,       \* the block being written, or NoEnv
    savedEnv,   \* the copy of grubenv in /tmp/boot-tmp, or NoEnv
    firstBoot,  \* systemd.condition-first-boot=true was passed
    losses,     \* unplanned power losses so far
    provisioned,\* history: MACHINE_ID has been stored completely once
    waived,     \* history: grubenv was torn or left to the bundle's by a power
                \* loss or a failed installation or copy, or the owner switched
                \* to a slot that holds no complete release
    fails       \* history: kernels started in vain since the system was last up
                \* or power was lost

bootVars == <<pc, cur, rescue, env, pend, savedEnv, firstBoot>>
history == <<losses, provisioned, waived, fails>>
vars == <<installVars, bootVars, history>>

\* ORDER always names both slots; first is the one in front.
Env == [first : Slot, ok : [Slot -> BOOLEAN], try : [Slot -> 0 .. Tries],
        machineId : BOOLEAN]

ASSUME EnvAssumption == Corrupt \notin Env /\ NoEnv \notin Env

\* The values grub.cfg starts from, and those of an empty environment block.
DefaultEnv == [first |-> "A",
               ok |-> [s \in Slot |-> FALSE],
               try |-> [s \in Slot |-> 0],
               machineId |-> FALSE]

\* The block that hassos_pre_image puts on every boot partition.
FactoryEnv == [DefaultEnv EXCEPT !.ok = [s \in Slot |-> s = "A"]]

\* The history variable fails counts up to one more than its claimed bound.
FailCap == Tries + 1

TypeOK ==
    /\ InstallTypeOK
    /\ pc \in {"off", "save", "kernel", "start", "up", "rescue", "menu", "dead"}
    /\ cur \in Slot \cup {NoSlot}
    /\ rescue \in BOOLEAN
    /\ env \in Env \cup {Corrupt}
    /\ pend \in Env \cup {NoEnv}
    /\ savedEnv \in Env \cup {NoEnv}
    /\ firstBoot \in BOOLEAN
    /\ losses \in 0 .. MaxLosses
    /\ provisioned \in BOOLEAN
    /\ waived \in BOOLEAN
    /\ fails \in 0 .. FailCap

Init ==
    /\ InstallInit
    /\ pc = "off"
    /\ cur = NoSlot
    /\ rescue = FALSE
    /\ env = FactoryEnv
    /\ pend = NoEnv
    /\ savedEnv = NoEnv
    /\ firstBoot = FALSE
    /\ losses = 0
    /\ provisioned = FALSE
    /\ waived = FALSE
    /\ fails = 0

\* The stages in which the block on disk is the one of the bundle.
Replaced == {"copy", "restore", "restoreEnv"}

-----------------------------------------------------------------------------
(***************************************************************************)
(* Writing grubenv.                                                        *)
(***************************************************************************)
WriteBegin(e) ==
    /\ pend = NoEnv
    /\ env' = Corrupt
    /\ pend' = e

WriteEnd ==
    /\ pend # NoEnv
    /\ env' = pend
    /\ pend' = NoEnv

-----------------------------------------------------------------------------
(***************************************************************************)
(* grub.cfg.                                                               *)
(***************************************************************************)
\* Mutant: one attempt too many.
EligibleOnceMore(e, s) == e.ok[s] /\ e.try[s] <= Tries

\* "$OK" -eq 1 -a "$TRY" -lt 3
Eligible(e, s) == e.ok[s] /\ e.try[s] < Tries

\* Mutant: the loop looks at the attempts only.
SelectedUnchecked(e, s) ==
    /\ e.try[s] < Tries
    /\ s = e.first \/ e.try[e.first] >= Tries

\* The loop over ORDER stops at the first eligible slot.
Selected(e, s) ==
    /\ Eligible(e, s)
    /\ s = e.first \/ ~Eligible(e, e.first)

NoneEligible(e) == \A s \in Slot : ~Eligible(e, s)

\* "No bootable slot found, choose rescue...": B when it is OK, else A.
RescueSelected(e, s) ==
    /\ NoneEligible(e)
    /\ e.ok[s]
    /\ s = "A" => ~e.ok["B"]

\* default stays 99, an entry that does not exist: GRUB takes the first one.
FirstEntry(e, s) ==
    /\ \A t \in Slot : ~e.ok[t]
    /\ s = "A"

\* Mutant: the attempt is not counted.
CountForgotten(e, s) == e

\* 1 and 2 are counted up, anything else starts again at 1.
Count(e, s) ==
    [e EXCEPT !.try[s] = IF e.try[s] \in 1 .. Tries - 1 THEN e.try[s] + 1 ELSE 1]

Loaded == IF env = Corrupt THEN DefaultEnv ELSE env

\* save_env reports an error on a block it cannot parse and changes nothing.
SaveEnv(e) ==
    \/ env # Corrupt /\ WriteBegin(e)
    \/ env = Corrupt /\ UNCHANGED <<env, pend>>

Script ==
    /\ pc = "off"
    /\ \E s \in Slot :
         /\ cur' = s
         /\ \/ Selected(Loaded, s) /\ rescue' = FALSE /\ SaveEnv(Count(Loaded, s))
            \/ RescueSelected(Loaded, s) /\ rescue' = TRUE /\ SaveEnv(Loaded)
            \/ FirstEntry(Loaded, s) /\ rescue' = FALSE /\ SaveEnv(Loaded)
    /\ firstBoot' = ~Loaded.machineId
    /\ pc' = "save"
    /\ UNCHANGED <<installVars, history, savedEnv>>

\* save_env is done: run the menu entry.  A slot without a kernel leaves GRUB
\* in its menu, a torn one may.
MenuEntry ==
    /\ pc = "save"
    /\ (pend = NoEnv /\ UNCHANGED <<env, pend>>) \/ WriteEnd
    /\ \/ kernel[cur] # Empty /\ pc' = "kernel"
       \/ kernel[cur] \in {Torn, Empty} /\ pc' = "menu"
    /\ UNCHANGED <<installVars, history, cur, rescue, savedEnv, firstBoot>>

\* A boot partition that was cut short may not reach grub.cfg.
ChainBroken ==
    /\ pc = "off"
    /\ ~BootChainWhole
    /\ pc' = "dead"
    /\ UNCHANGED <<installVars, history, cur, rescue, env, pend, savedEnv, firstBoot>>

\* The owner switches a machine that hangs off and on.
PowerCycle ==
    /\ pc \in {"dead", "menu"}
    /\ pc' = "off"
    /\ UNCHANGED <<installVars, history, cur, rescue, env, pend, savedEnv, firstBoot>>

\* The system comes up, or its recovery.target does.  A torn slot may too.
ComesUp ==
    /\ pc = "kernel"
    /\ Whole(cur) => Bootable(cur)
    /\ pc' = IF rescue THEN "rescue" ELSE "start"
    /\ fails' = 0
    /\ UNCHANGED <<installVars, cur, rescue, env, pend, savedEnv, firstBoot,
                   losses, provisioned, waived>>

\* The kernel panics or the watchdog bites: reset.
BootFails ==
    /\ pc = "kernel"
    /\ ~Bootable(cur)
    /\ pc' = "off"
    /\ fails' = IF fails < FailCap THEN fails + 1 ELSE FailCap
    /\ UNCHANGED <<installVars, cur, rescue, env, pend, savedEnv, firstBoot,
                   losses, provisioned, waived>>

-----------------------------------------------------------------------------
(***************************************************************************)
(* The running system.  Every change of an unreadable block fails.         *)
(***************************************************************************)

\* hassos-persists, once per boot: store the machine id unless it is stored
\* already; an unreadable block cannot take it.
Persist ==
    /\ pc = "start"
    /\ \/ /\ env # Corrupt /\ ~env.machineId
          /\ WriteBegin([env EXCEPT !.machineId = TRUE])
       \/ /\ env # Corrupt => env.machineId
          /\ UNCHANGED <<env, pend>>
    /\ pc' = "up"
    /\ UNCHANGED <<installVars, history, cur, rescue, savedEnv, firstBoot>>

\* A write of grubenv is done.
StoreDone ==
    /\ pc = "up"
    /\ WriteEnd
    /\ provisioned' = (provisioned \/ pend.machineId)
    /\ UNCHANGED <<installVars, pc, cur, rescue, savedEnv, firstBoot,
                   losses, waived, fails>>

\* How RAUC's GRUB back end changes the block.
GoodEnv(e, s) == [e EXCEPT !.ok = [@ EXCEPT ![s] = TRUE],
                           !.try = [@ EXCEPT ![s] = 0]]
BadEnv(e, s) == [e EXCEPT !.ok = [@ EXCEPT ![s] = FALSE],
                          !.try = [@ EXCEPT ![s] = 0]]
PrimaryEnv(e, s) == [GoodEnv(e, s) EXCEPT !.first = s]

\* The running slot is reported good.
MarkGood ==
    /\ pc = "up"
    /\ Stage("idle")
    /\ env # Corrupt
    /\ WriteBegin(GoodEnv(env, cur))
    /\ UNCHANGED <<installVars, history, pc, cur, rescue, savedEnv, firstBoot>>

\* The owner makes the other slot primary (ha os boot-slot other).
BootOther ==
    /\ pc = "up"
    /\ Stage("idle")
    /\ env # Corrupt
    /\ WriteBegin(PrimaryEnv(env, Other(cur)))
    /\ waived' = (waived \/ ~Whole(Other(cur)))
    /\ UNCHANGED <<installVars, pc, cur, rescue, savedEnv, firstBoot,
                   losses, provisioned, fails>>

BeginUpdate ==
    /\ pc = "up"
    /\ pend = NoEnv
    /\ \E img \in Images : Begin(cur, img)
    /\ UNCHANGED <<bootVars, history>>

\* Mutant: a new block is created without looking at the old one.
InstallCheckCreates ==
    /\ pc = "up"
    /\ \/ CheckRejects /\ UNCHANGED env
       \/ CheckAccepts /\ env' = DefaultEnv
    /\ UNCHANGED <<history, pc, cur, rescue, pend, savedEnv, firstBoot>>

\* install-check: check_grubenv replaces an unreadable block by an empty one.
InstallCheck ==
    /\ pc = "up"
    /\ \/ CheckRejects /\ UNCHANGED env
       \/ CheckAccepts /\ env' = IF env = Corrupt THEN DefaultEnv ELSE env
    /\ UNCHANGED <<history, pc, cur, rescue, pend, savedEnv, firstBoot>>

\* RAUC takes the OK flag from the target slot before it writes to it.
MarkTargetBad ==
    /\ pc = "up"
    /\ Stage("bad")
    /\ WriteBegin(BadEnv(env, rauc.target))
    /\ GoTo("backup")
    /\ UNCHANGED <<diskVars, saved, cut, history, pc, cur, rescue, savedEnv, firstBoot>>

\* Mutant: the copy is taken after the block has been overwritten.
BackupEnvLate ==
    /\ pc = "up"
    /\ pend = NoEnv
    /\ BootBackup
    /\ savedEnv' = FactoryEnv
    /\ UNCHANGED <<history, pc, cur, rescue, env, pend, firstBoot>>

\* install_boot copies grubenv to /tmp,
BackupEnv ==
    /\ pc = "up"
    /\ pend = NoEnv
    /\ BootBackup
    /\ savedEnv' = env
    /\ UNCHANGED <<history, pc, cur, rescue, env, pend, firstBoot>>

\* overwrites it with the bundle's,
OverwriteEnv ==
    /\ pc = "up"
    /\ BootCopyConfig
    /\ WriteBegin(FactoryEnv)
    /\ UNCHANGED <<history, pc, cur, rescue, savedEnv, firstBoot>>

\* Mutant: the bundle's block stays.
RestoreEnvForgotten ==
    /\ pc = "up"
    /\ pend = NoEnv
    /\ BootRestoreEnv
    /\ savedEnv' = NoEnv
    /\ UNCHANGED <<history, pc, cur, rescue, env, pend, firstBoot>>

\* and copies it back; a copy that fails is ignored.
RestoreEnv ==
    /\ pc = "up"
    /\ BootRestoreEnv
    /\ \/ WriteBegin(savedEnv) /\ UNCHANGED waived
       \/ pend = NoEnv /\ UNCHANGED <<env, pend>> /\ waived' = TRUE
    /\ savedEnv' = NoEnv
    /\ UNCHANGED <<losses, provisioned, fails, pc, cur, rescue, firstBoot>>

\* The steps of the installation that leave grubenv alone.
Replace ==
    /\ pc = "up"
    /\ pend = NoEnv
    /\ \/ BootCopy \/ BootRestore \/ KernelBegin \/ KernelEnd
       \/ RootfsBegin \/ RootfsEnd
    /\ UNCHANGED <<bootVars, history>>

UpdateFails ==
    /\ pc = "up"
    /\ pend = NoEnv
    /\ InstallFails
    /\ waived' = (waived \/ rauc.stage \in Replaced)
    /\ savedEnv' = NoEnv
    /\ UNCHANGED <<pc, cur, rescue, env, pend, firstBoot, losses, provisioned, fails>>

\* RAUC makes the target primary; the installation is complete.
Activate ==
    /\ pc = "up"
    /\ Stage("activate")
    /\ WriteBegin(PrimaryEnv(env, rauc.target))
    /\ rauc' = Idle
    /\ UNCHANGED <<diskVars, saved, cut, history, pc, cur, rescue, savedEnv, firstBoot>>

\* An orderly reboot waits for the writes under way.
Reboot ==
    /\ pc \in {"up", "rescue"}
    /\ Stage("idle")
    /\ pend = NoEnv
    /\ pc' = "off"
    /\ cur' = NoSlot
    /\ InstallStops
    /\ UNCHANGED <<history, rescue, env, pend, savedEnv, firstBoot>>

PowerLoss ==
    /\ losses < MaxLosses
    /\ pc \in {"save", "kernel", "start", "up", "rescue"}
    /\ losses' = losses + 1
    /\ waived' = (waived \/ pend # NoEnv \/ rauc.stage \in Replaced)
    /\ pc' = "off"
    /\ cur' = NoSlot
    /\ pend' = NoEnv
    /\ savedEnv' = NoEnv
    /\ fails' = 0
    /\ InstallStops
    /\ UNCHANGED <<rescue, env, firstBoot, provisioned>>

Boot == Script \/ MenuEntry \/ ChainBroken \/ ComesUp \/ BootFails \/ Persist

Running ==
    \/ StoreDone \/ MarkGood \/ BootOther
    \/ BeginUpdate \/ InstallCheck \/ MarkTargetBad
    \/ BackupEnv \/ OverwriteEnv \/ RestoreEnv
    \/ Replace \/ UpdateFails \/ Activate \/ Reboot

Next == Boot \/ Running \/ PowerLoss \/ PowerCycle

(***************************************************************************)
(* GRUB runs its entry after a second and a kernel that does not come up   *)
(* is reset.  A write ends.  Nothing obliges the owner, the supervisor or  *)
(* an update.                                                              *)
(***************************************************************************)
Fairness == WF_vars(Boot) /\ WF_vars(StoreDone)

Spec == Init /\ [][Next]_vars /\ Fairness

-----------------------------------------------------------------------------
(***************************************************************************)
(* Properties.                                                             *)
(***************************************************************************)

\* The blocks a boot may read once the installation's own copying is over.
Environments == (IF rauc.stage \in Replaced THEN {savedEnv} ELSE {env, pend}) \cap Env

\* A slot whose OK flag is set holds a complete release, across updates that
\* fail or lose power at any step; excused is only a grubenv that was itself
\* torn or replaced by the bundle's, and an owner who insists.
OkSlotWhole ==
    ~waived => \A e \in Environments : \A s \in Slot : e.ok[s] => Whole(s)

\* The running system's own slot keeps its OK flag, so grub.cfg never finds
\* both flags clear and never falls through to the first menu entry.
RunningSlotOk ==
    pc \in {"start", "up", "rescue"} /\ ~waived => \A e \in Environments : e.ok[cur]

\* Once a machine id has been stored, no boot is taken for a first boot (which
\* would detach the data disk) unless grubenv was lost: install_boot puts back
\* the block it overwrote.
FirstBootOnce ==
    pc \in {"save", "kernel"} /\ firstBoot /\ provisioned => waived

\* A bootable slot that still has attempts.
Recoverable ==
    /\ BootChainWhole
    /\ \E s \in Slot : Bootable(s) /\ Eligible(IF pend = NoEnv THEN Loaded ELSE pend, s)

\* While a bootable slot has attempts left, at most Tries kernels are started
\* in vain: those of the slot in front of it.
BoundedRetries == Recoverable => fails <= Tries

\* What boots and updates may rely on in every state: types, the running
\* slot's OK flag, the one first boot and the bound on attempts.
BootStateSound == TypeOK /\ RunningSlotOk /\ FirstBootOnce /\ BoundedRetries

\* With stable power, a machine with a bootable slot that has attempts left and
\* no torn slot comes up: the slot in front uses up its attempts and the
\* other one is taken.
FallsBack ==
    (/\ pc = "off" /\ Recoverable /\ losses = MaxLosses
     /\ \A s \in Slot : kernel[s] \in Images \/ ~Loaded.ok[s])
    ~> (pc = "up")

\* The promise of ABUpdate.
AB == INSTANCE ABUpdate WITH
        Slots <- Slot, Releases <- Images, Gap <- Empty, Nowhere <- NoSlot,
        holds <- [s \in Slot |-> IF Whole(s) THEN kernel[s] ELSE Empty],
        running <- IF pc \in {"start", "up", "rescue"} THEN cur ELSE NoSlot,
        valid <- ~waived

\* Booting and updating with GRUB implement ABUpdate: the system only comes up
\* from a complete release and no step changes the slot it runs from.
ImplementsABUpdate == AB!AbsSpec
=============================================================================
