----------------------------- MODULE UBootBoot -----------------------------
(***************************************************************************)
(* A/B booting on the boards that start with U-Boot: the boot script       *)
(* (uboot-boot64.ush) with its environment on the hassos-bootstate         *)
(* partition, the running system that writes the same environment          *)
(* (hassos-persists, RAUC), and RAUC installations (RaucInstall).          *)
(*                                                                         *)
(* The environment is one CRC-protected copy.  Writing it is two steps, so *)
(* a power loss inside the write leaves an environment that fails its CRC, *)
(* and the script goes on with its built-in defaults.                      *)
(***************************************************************************)
EXTENDS RaucInstall

CONSTANTS
    Tries,      \* boot attempts a slot gets (3 in every script)
    Corrupt,    \* an environment that fails its CRC
    NoEnv,      \* no write of the environment is under way
    MaxLosses   \* bound: unplanned power losses in a behaviour

ASSUME TriesAssumption == Tries \in Nat \ {0} /\ MaxLosses \in Nat

VARIABLES
    pc,         \* where the machine is
    cur,        \* the slot the script chose on this boot
    env,        \* the environment on disk
    pend,       \* the environment being written, or NoEnv
    firstBoot,  \* systemd.condition-first-boot=true was passed
    losses,     \* unplanned power losses so far
    provisioned,\* history: MACHINE_ID has been stored completely once
    waived,     \* history: the environment was torn by a power loss, or the
                \* owner switched to a slot that holds no complete release
    fails       \* history: kernels started in vain since the system was last up or
                \* power was lost

bootVars == <<pc, cur, env, pend, firstBoot>>
history == <<losses, provisioned, waived, fails>>
vars == <<installVars, bootVars, history>>

Orders == {<<"A", "B">>, <<"B", "A">>, <<"A">>, <<"B">>}

Env == [order : Orders, left : [Slot -> 0 .. Tries], machineId : BOOLEAN]

ASSUME EnvAssumption == Corrupt \notin Env /\ NoEnv \notin Env

InOrder(o, s) == \E i \in DOMAIN o : o[i] = s

\* The environment a script works with when the import fails.
DefaultEnv == [order |-> <<"A", "B">>,
               left |-> [s \in Slot |-> Tries],
               machineId |-> FALSE]

\* The history variable fails counts up to one more than its claimed bound.
FailCap == 2 * Tries + 1

TypeOK ==
    /\ InstallTypeOK
    /\ pc \in {"off", "store", "kernel", "start", "up", "dead"}
    /\ cur \in Slot \cup {NoSlot}
    /\ env \in Env \cup {Corrupt}
    /\ pend \in Env \cup {NoEnv}
    /\ firstBoot \in BOOLEAN
    /\ losses \in 0 .. MaxLosses
    /\ provisioned \in BOOLEAN
    /\ waived \in BOOLEAN
    /\ fails \in 0 .. FailCap

\* hassos-bootstate is empty on a flashed disk, which fails the CRC too.
Init ==
    /\ InstallInit
    /\ pc = "off"
    /\ cur = NoSlot
    /\ env = Corrupt
    /\ pend = NoEnv
    /\ firstBoot = FALSE
    /\ losses = 0
    /\ provisioned = FALSE
    /\ waived = FALSE
    /\ fails = 0

-----------------------------------------------------------------------------
(***************************************************************************)
(* Writing the environment.                                                *)
(***************************************************************************)
WriteBegin(e) ==
    /\ pend = NoEnv
    /\ env' = Corrupt
    /\ pend' = e

WriteEnd ==
    /\ pend # NoEnv
    /\ env' = pend
    /\ pend' = NoEnv

-----------------------------------------------------------------------------
(***************************************************************************)
(* The boot script.                                                        *)
(***************************************************************************)

\* Whether `load' can find a kernel in slot s.
LoadResults ==
    {ok \in [Slot -> BOOLEAN] :
        \A s \in Slot : /\ kernel[s] \in Images => ok[s]
                        /\ kernel[s] = Empty => ~ok[s]}

\* Mutant: the loop does not ask for attempts left.
AttemptsUnchecked(e, ok, s) ==
    \E i \in DOMAIN e.order :
        /\ e.order[i] = s
        /\ \A j \in 1 .. i - 1 : ~ok[e.order[j]]

\* Mutant: the loop runs over "A B" whatever BOOT_ORDER says.
AttemptsInFixedOrder(e, ok, s) ==
    /\ e.left[s] > 0
    /\ s = "B" => ~(e.left["A"] > 0 /\ ok["A"])

\* The loop reaches slot s with attempts left: no earlier slot of the order
\* had attempts left and a kernel that loads.
Attempts(e, ok, s) ==
    \E i \in DOMAIN e.order :
        /\ e.order[i] = s
        /\ e.left[s] > 0
        /\ \A j \in 1 .. i - 1 : ~(e.left[e.order[j]] > 0 /\ ok[e.order[j]])

\* Mutant: storebootstate does not export MACHINE_ID.
SpendForgetsId(e, ok) ==
    [e EXCEPT !.left =
        [s \in Slot |-> IF Attempts(e, ok, s) THEN @[s] - 1 ELSE @[s]],
              !.machineId = FALSE]

\* Mutant: the attempts are never counted down.
SpendNothing(e, ok) == e

\* Every attempted slot loses an attempt, loaded or not.
Spend(e, ok) ==
    [e EXCEPT !.left =
        [s \in Slot |-> IF Attempts(e, ok, s) THEN @[s] - 1 ELSE @[s]]]

\* Mutant: the attempts are not given back.
ResetTriesForgotten(e) == e

\* "No valid slot found, resetting tries to 3"
ResetTries(e) == [e EXCEPT !.left = [s \in Slot |-> Tries]]

\* Mutant: BOOT_ORDER is set to its default even if it has been imported.
ImportedInDefaultOrder ==
    IF env = Corrupt THEN DefaultEnv ELSE [env EXCEPT !.order = DefaultEnv.order]

Imported == IF env = Corrupt THEN DefaultEnv ELSE env

Script ==
    /\ pc = "off"
    /\ \E ok \in LoadResults :
         \/ \E s \in Slot :
              /\ Attempts(Imported, ok, s)
              /\ ok[s]
              /\ cur' = s
              /\ WriteBegin(Spend(Imported, ok))
         \/ /\ \A s \in Slot : ~(Attempts(Imported, ok, s) /\ ok[s])
            /\ cur' = NoSlot
            /\ WriteBegin(ResetTries(Imported))
    /\ firstBoot' = ~Imported.machineId
    /\ pc' = "store"
    /\ UNCHANGED <<installVars, history>>

\* storebootstate is done: start the kernel, or reset when there is none.
ScriptStored ==
    /\ pc = "store"
    /\ WriteEnd
    /\ pc' = IF cur = NoSlot THEN "off" ELSE "kernel"
    /\ UNCHANGED <<installVars, history, cur, firstBoot>>

\* A boot partition or an SPL that was cut short may not reach the script.
ChainBroken ==
    /\ pc = "off"
    /\ ~BootChainWhole
    /\ pc' = "dead"
    /\ UNCHANGED <<installVars, history, cur, env, pend, firstBoot>>

\* The owner switches a dead machine off and on.
PowerCycle ==
    /\ pc = "dead"
    /\ pc' = "off"
    /\ UNCHANGED <<installVars, history, cur, env, pend, firstBoot>>

\* The kernel of slot cur mounts its root and the system comes up.  A torn
\* slot may come up too.
ComesUp ==
    /\ pc = "kernel"
    /\ Whole(cur) => Bootable(cur)
    /\ pc' = "start"
    /\ fails' = 0
    /\ UNCHANGED <<installVars, cur, env, pend, firstBoot,
                   losses, provisioned, waived>>

\* booti returns, the kernel panics or the watchdog bites: reset.
BootFails ==
    /\ pc = "kernel"
    /\ ~Bootable(cur)
    /\ pc' = "off"
    /\ fails' = IF fails < FailCap THEN fails + 1 ELSE FailCap
    /\ UNCHANGED <<installVars, cur, env, pend, firstBoot,
                   losses, provisioned, waived>>

-----------------------------------------------------------------------------
(***************************************************************************)
(* The running system.                                                     *)
(***************************************************************************)

\* hassos-persists, once per boot: store the machine id unless it is stored
\* already.
Persist ==
    /\ pc = "start"
    /\ \/ ~env.machineId /\ WriteBegin([env EXCEPT !.machineId = TRUE])
       \/ env.machineId /\ UNCHANGED <<env, pend>>
    /\ pc' = "up"
    /\ UNCHANGED <<installVars, history, cur, firstBoot>>

\* fw_setenv is done; RAUC goes on if it was the caller.
StoreDone ==
    /\ pc = "up"
    /\ WriteEnd
    /\ provisioned' = (provisioned \/ pend.machineId)
    /\ UNCHANGED <<installVars, pc, cur, firstBoot, losses, waived, fails>>

\* How RAUC's U-Boot back end changes the environment.

\* Order o without slot s.
Drop(o, s) == IF InOrder(o, Other(s)) THEN <<Other(s)>> ELSE <<>>

\* Order o with slot s in front.
Promote(o, s) == IF InOrder(o, Other(s)) THEN <<s, Other(s)>> ELSE <<s>>

GoodEnv(e, s) == [e EXCEPT !.left = [@ EXCEPT ![s] = Tries]]
BadEnv(e, s) == [order |-> Drop(e.order, s),
                 left |-> [e.left EXCEPT ![s] = 0],
                 machineId |-> e.machineId]
PrimaryEnv(e, s) == [order |-> Promote(e.order, s),
                     left |-> [e.left EXCEPT ![s] = Tries],
                     machineId |-> e.machineId]

\* The running slot is reported good.
MarkGood ==
    /\ pc = "up"
    /\ Stage("idle")
    /\ env # Corrupt
    /\ WriteBegin(GoodEnv(env, cur))
    /\ UNCHANGED <<installVars, history, pc, cur, firstBoot>>

\* The owner makes the other slot primary (ha os boot-slot other).
BootOther ==
    /\ pc = "up"
    /\ Stage("idle")
    /\ env # Corrupt
    /\ WriteBegin(PrimaryEnv(env, Other(cur)))
    /\ waived' = (waived \/ ~Whole(Other(cur)))
    /\ UNCHANGED <<installVars, pc, cur, firstBoot, losses, provisioned, fails>>

BeginUpdate ==
    /\ pc = "up"
    /\ pend = NoEnv
    /\ \E img \in Images : Begin(cur, img)
    /\ UNCHANGED <<bootVars, history>>

InstallCheck ==
    /\ pc = "up"
    /\ CheckRejects \/ CheckAccepts
    /\ UNCHANGED <<bootVars, history>>

\* RAUC takes the target slot out of the boot order before it writes to it.
MarkTargetBad ==
    /\ pc = "up"
    /\ Stage("bad")
    /\ env # Corrupt
    /\ WriteBegin(BadEnv(env, rauc.target))
    /\ GoTo("backup")
    /\ UNCHANGED <<diskVars, saved, cut, history, pc, cur, firstBoot>>

\* The hook and RAUC replace the images, once fw_setenv has returned.
Replace ==
    /\ pc = "up"
    /\ pend = NoEnv
    /\ InstallStep \/ BootRestore \/ BootRestoreEnv
    /\ UNCHANGED <<bootVars, history>>

UpdateFails ==
    /\ pc = "up"
    /\ pend = NoEnv
    /\ InstallFails
    /\ UNCHANGED <<bootVars, history>>

\* RAUC makes the target primary; the installation is complete.
Activate ==
    /\ pc = "up"
    /\ Stage("activate")
    /\ env # Corrupt
    /\ WriteBegin(PrimaryEnv(env, rauc.target))
    /\ rauc' = Idle
    /\ UNCHANGED <<diskVars, saved, cut, history, pc, cur, firstBoot>>

\* An orderly reboot waits for the writes under way.
Reboot ==
    /\ pc = "up"
    /\ Stage("idle")
    /\ pend = NoEnv
    /\ pc' = "off"
    /\ cur' = NoSlot
    /\ InstallStops
    /\ UNCHANGED <<history, env, pend, firstBoot>>

PowerLoss ==
    /\ losses < MaxLosses
    /\ pc \in {"store", "kernel", "start", "up"}
    /\ losses' = losses + 1
    /\ waived' = (waived \/ pend # NoEnv)
    /\ pc' = "off"
    /\ cur' = NoSlot
    /\ pend' = NoEnv
    /\ fails' = 0
    /\ InstallStops
    /\ UNCHANGED <<env, firstBoot, provisioned>>

Boot == Script \/ ScriptStored \/ ChainBroken \/ ComesUp \/ BootFails \/ Persist

Running ==
    \/ StoreDone \/ MarkGood \/ BootOther
    \/ BeginUpdate \/ InstallCheck \/ MarkTargetBad
    \/ Replace \/ UpdateFails \/ Activate \/ Reboot

Next == Boot \/ Running \/ PowerLoss \/ PowerCycle

(***************************************************************************)
(* The boot chain never stops by itself: a script ends in booti or reset,  *)
(* and a kernel that does not come up is reset (CONFIG_PANIC_TIMEOUT, the  *)
(* runtime watchdog).  A write of the environment ends.  Nothing obliges   *)
(* the owner, the supervisor or an update.                                 *)
(***************************************************************************)
Fairness == WF_vars(Boot) /\ WF_vars(StoreDone)

Spec == Init /\ [][Next]_vars /\ Fairness

-----------------------------------------------------------------------------
(***************************************************************************)
(* Properties.                                                             *)
(***************************************************************************)

\* The environments a boot may read next: the one on disk and the one being
\* written.
Environments == {env, pend} \cap Env

\* A slot in BOOT_ORDER holds a complete release or was never written: RAUC
\* takes a slot out of the order before it writes to it and puts it back only
\* when both partitions are complete, whatever power losses fall in between.
\* Only a torn environment (the defaults name both slots again) and an owner
\* who insists are excused.
BootOrderWhole ==
    ~waived => \A e \in Environments : \A s \in Slot :
        InOrder(e.order, s) =>
            \/ Whole(s)
            \/ kernel[s] = Empty /\ rootfs[s] = Empty

\* The slot the system runs from is in BOOT_ORDER, even when it runs from the
\* script's defaults: a reboot can come back to it, and taking the other slot
\* out never leaves an empty order.
RunningSlotInOrder ==
    pc = "up" => \A e \in Environments : InOrder(e.order, cur)

\* Once a machine id has been stored, no boot is taken for a first boot (which
\* would detach the data disk) unless a power loss tore the environment.
FirstBootOnce ==
    pc \in {"store", "kernel"} /\ firstBoot /\ provisioned => waived

\* Outside the steps that replace them the boot partition and the SPL are
\* complete and the owner's *.txt files are in place, unless an installation
\* ended inside those steps: install_boot puts back what it copied over.
BootPartitionKept ==
    ~cut /\ rauc.stage \notin Sharing =>
        BootChainWhole /\ settings = "owner"

\* A slot that comes up is within the script's reach.
Recoverable ==
    /\ BootChainWhole
    /\ \E s \in Slot :
         /\ Bootable(s)
         /\ InOrder(IF pend = NoEnv THEN Imported.order ELSE pend.order, s)

\* A machine that has a bootable slot starts at most two rounds of kernels in
\* vain before it comes up: the attempts of the broken slot run out, twice if
\* the other slot's attempts were used up and the script resets both.
BoundedRetries == Recoverable => fails <= 2 * Tries

\* ... and it does come up: the resets end on the bootable slot, also when the
\* environment is torn or all attempts have been used up.
KeepsComingUp == (pc = "off" /\ Recoverable) ~> (pc = "up")

\* The promise of ABUpdate: the release a slot holds is the one both of its
\* partitions agree on.
AB == INSTANCE ABUpdate WITH
        Slots <- Slot, Releases <- Images, Gap <- Empty, Nowhere <- NoSlot,
        holds <- [s \in Slot |-> IF Whole(s) THEN kernel[s] ELSE Empty],
        running <- IF pc \in {"start", "up"} THEN cur ELSE NoSlot,
        valid <- ~waived

\* Booting and updating with U-Boot implement ABUpdate: the system only comes
\* up from a complete release and no step changes the slot it runs from.
ImplementsABUpdate == AB!AbsSpec
=============================================================================
