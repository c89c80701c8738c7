--------------------------- MODULE TryBootProofs ---------------------------
(***************************************************************************)
(* Proofs about TryBoot, for every set of releases and any number of power *)
(* losses.                                                                 *)
(***************************************************************************)
EXTENDS TryBoot, TLAPS

\* The stages that have a target, and those that write to it.
Targeting == {"check", "bad", "default", "copy", "slot", "move", "rootfs", "rootfsWrite",
              "primary", "tryCmd", "tryConfig", "param"}
Writing == {"default", "copy", "slot", "move", "rootfs", "rootfsWrite"}

\* Where the machine is, and what is gone with its power.
RunInv ==
    /\ pc \in {"kernel", "start", "up"} => prefix \in Slot /\ cur \in Slot
    /\ pc # "up" => op = Idle /\ ~param
    /\ pc = "up" => provisioned
    /\ tryFlag => pc = "off"

\* What RAUC does goes to the slot that is not running, and what a commit copies
\* are the files of the trial that is running.
OpInv ==
    /\ op.stage \in Targeting => op.target \in Slot /\ op.target = Other(cur)
    /\ op.stage \in {"tryConfig", "param"} => tryCmd \in CmdLine /\ tryCmd.slot = op.target
    /\ op.stage = "param" /\ "commit" \notin waived => tryConfig = op.target
    /\ op.stage \in Committing =>
          tryCmd \in CmdLine /\ tryCmd.slot = cur /\ tryConfig # None

\* A trial has been asked for, by this boot or the one before.
Asked ==
    \/ tryFlag
    \/ param /\ op.stage \notin {"tryCmd", "tryConfig", "param", "commitRemove"}

\* The trial files: a trial that has been asked for is prepared, and one that
\* runs was prepared for its slot, unless power was lost during a commit.
TrialInv ==
    /\ Asked => tryCmd \in CmdLine /\ ("commit" \notin waived => tryConfig = tryCmd.slot)
    /\ Committable \/ op.stage \in Committing =>
          "commit" \in waived \/ tryConfig = cur
    /\ configTorn => "commit" \in waived \/ op.stage = "commitConfig"

\* Command lines that are written while the machine id is known have it.
IdInv ==
    /\ tryCmd \in CmdLine => tryCmd.id = TRUE
    /\ provisioned => cmdline.id = TRUE

\* Unless waived: the permanent files name one slot that comes up, which is not
\* written to, and so does what is running; a trial is only started on a
\* complete release.
FallbackInv ==
    waived = {} =>
        /\ op.stage # "commitCmdline" => config = cmdline.slot /\ Bootable(config)
        /\ op.stage = "commitCmdline" => config = cur
        /\ pc \in {"kernel", "start", "up"} => prefix = cur /\ Whole(cur)
        /\ pc \in {"start", "up"} => Bootable(cur)
        /\ tryFlag => Whole(tryCmd.slot)
        /\ op.stage \in Writing => op.target # cmdline.slot

IInv == TypeOK /\ RunInv /\ OpInv /\ TrialInv /\ IdInv /\ FallbackInv

-----------------------------------------------------------------------------
\* The two slots are each other's other slot; a file that is torn or missing
\* names none.
LEMMA SlotFacts ==
    /\ "A" \in Slot /\ "B" \in Slot /\ NoSlot \notin Slot
    /\ Torn \notin Slot /\ None \notin Slot /\ Torn \notin CmdLine /\ None \notin CmdLine
    /\ Torn # None
    /\ \A s \in Slot : Other(s) \in Slot /\ Other(s) # s /\ Other(Other(s)) = s
    /\ \A s, t \in Slot : t # s => t = Other(s)
BY TryBootAssumption DEF Slot, Other, NoSlot

\* Command lines have their fields, also after one of them is changed.
LEMMA CmdLineFacts ==
    ASSUME NEW c \in CmdLine, NEW s \in Slot, NEW b \in BOOLEAN
    PROVE  /\ c.slot \in Slot /\ c.id \in BOOLEAN /\ c.wipe \in BOOLEAN
           /\ [c EXCEPT !.slot = s] \in CmdLine
           /\ [c EXCEPT !.slot = s].slot = s /\ [c EXCEPT !.slot = s].id = c.id
           /\ [c EXCEPT !.id = TRUE] \in CmdLine
           /\ [c EXCEPT !.id = TRUE].slot = c.slot /\ [c EXCEPT !.id = TRUE].id = TRUE
           /\ [c EXCEPT !.wipe = b] \in CmdLine
           /\ [c EXCEPT !.wipe = b].slot = c.slot /\ [c EXCEPT !.wipe = b].id = c.id
BY DEF CmdLine

\* An operation that goes on keeps its target and its image.
LEMMA GoToFacts ==
    ASSUME TypeOK, NEW st \in Stages, GoTo(st)
    PROVE  /\ op' \in [stage : Stages, target : Slot \cup {NoSlot}, image : Images]
           /\ op'.stage = st /\ op'.target = op.target /\ op'.image = op.image
BY DEF TypeOK, GoTo

\* RAUC's idle state.
LEMMA IdleFacts ==
    /\ Idle \in [stage : Stages, target : Slot \cup {NoSlot}, image : Images]
    /\ Idle.stage = "idle"
BY TryBootAssumption DEF Idle, Stages

-----------------------------------------------------------------------------
(***************************************************************************)
(* The invariant holds initially and is preserved by every step.           *)
(***************************************************************************)

\* A freshly flashed disk satisfies IInv.
LEMMA InitIInv == Init => IInv
<1> SUFFICES ASSUME Init PROVE IInv
  OBVIOUS
<1> USE SlotFacts, IdleFacts DEF Init
<1>1. TypeOK
  <2>1. losses \in 0 .. MaxLosses
    BY TryBootAssumption
  <2>2. slotdir \in [Slot -> Content] /\ rootfs \in [Slot -> Content] /\ default \in Content
    BY TryBootAssumption DEF Content
  <2>3. cmdline \in CmdLine
    BY DEF CmdLine
  <2> QED BY <2>1, <2>2, <2>3 DEF TypeOK
<1>2. RunInv /\ OpInv /\ TrialInv /\ IdInv
  BY DEF RunInv, OpInv, TrialInv, IdInv, Targeting, Committing, Committable, Asked
<1>3. FallbackInv
  BY TryBootAssumption DEF FallbackInv, Bootable, Whole, Writing
<1> QED BY <1>1, <1>2, <1>3 DEF IInv

\* The steps of an installation between set-state bad and set-primary.
WriteStep ==
    CopyBegin \/ CopyEnd \/ RemoveSlot \/ MoveSlot \/ RootfsBegin \/ RootfsEnd

\* They write to the target only and leave the firmware's files alone.
LEMMA WriteFacts ==
    ASSUME IInv, WriteStep
    PROVE  /\ pc = "up" /\ op.stage \in Writing /\ op'.stage \in Writing \cup {"primary"}
           /\ op'.target = op.target
           /\ op' \in [stage : Stages, target : Slot \cup {NoSlot}, image : Images]
           /\ slotdir' \in [Slot -> Content] /\ rootfs' \in [Slot -> Content]
           /\ default' \in Content /\ good' \subseteq Slot
           /\ \A s \in Slot \ {op.target} : slotdir'[s] = slotdir[s] /\ rootfs'[s] = rootfs[s]
           /\ UNCHANGED <<config, configTorn, cmdline, tryConfig, tryCmd, run, history, param,
                          tryFlag>>
<1>0. /\ TypeOK /\ op.image \in Content /\ Torn \in Content /\ Empty \in Content
      /\ slotdir \in [Slot -> Content] /\ rootfs \in [Slot -> Content]
      /\ default \in Content /\ good \subseteq Slot
  BY DEF IInv, TypeOK, Content
<1> USE DEF Writing, Stage
<1>1. CASE CopyBegin
  <2>1. "copy" \in Stages /\ GoTo("copy")
    BY <1>1 DEF CopyBegin, Stages
  <2> QED BY <1>0, <1>1, <2>1, GoToFacts DEF CopyBegin
<1>2. CASE CopyEnd
  <2>1. "slot" \in Stages /\ GoTo("slot")
    BY <1>2 DEF CopyEnd, Stages
  <2> QED BY <1>0, <1>2, <2>1, GoToFacts DEF CopyEnd
<1>3. CASE RemoveSlot
  <2>1. "move" \in Stages /\ GoTo("move")
    BY <1>3 DEF RemoveSlot, Stages
  <2> QED BY <1>0, <1>3, <2>1, GoToFacts DEF RemoveSlot
<1>4. CASE MoveSlot
  <2>1. "rootfs" \in Stages /\ GoTo("rootfs")
    BY <1>4 DEF MoveSlot, Stages
  <2> QED BY <1>0, <1>4, <2>1, GoToFacts DEF MoveSlot
<1>5. CASE RootfsBegin
  <2>1. "rootfsWrite" \in Stages /\ GoTo("rootfsWrite")
    BY <1>5 DEF RootfsBegin, Stages
  <2> QED BY <1>0, <1>5, <2>1, GoToFacts DEF RootfsBegin
<1>6. CASE RootfsEnd
  <2>1. "primary" \in Stages /\ GoTo("primary")
    BY <1>6 DEF RootfsEnd, Stages
  <2> QED BY <1>0, <1>6, <2>1, GoToFacts DEF RootfsEnd
<1> QED BY <1>1, <1>2, <1>3, <1>4, <1>5, <1>6 DEF WriteStep

\* No step of the firmware, start-up, rpi-tryboot.sh, RAUC, the hook or a power
\* loss leads out of IInv.
LEMMA StepIInv == IInv /\ [Next]_vars => IInv'
<1> SUFFICES ASSUME IInv, [Next]_vars PROVE IInv'
  OBVIOUS
<1> USE SlotFacts, IdleFacts
<1>0. /\ TypeOK /\ RunInv /\ OpInv /\ TrialInv /\ IdInv /\ FallbackInv
      /\ cmdline \in CmdLine /\ config \in Slot
  BY DEF IInv, TypeOK
\* A system that is up.
<1>a. ASSUME pc = "up"
      PROVE  cur \in Slot /\ prefix \in Slot /\ provisioned /\ ~tryFlag /\ cmdline.id = TRUE
  BY <1>0, <1>a DEF RunInv, IdInv
<1>1. CASE Firmware
  <2>1. /\ pc = "off" /\ op = Idle /\ ~param /\ tryFlag' = FALSE /\ tryActive' = tryFlag
        /\ pc' \in {"kernel", "dead"}
        /\ UNCHANGED <<files, history, param, op>>
    BY <1>0, <1>1 DEF Firmware, RunInv, StartKernel, Hang
  <2>2. tryFlag => tryCmd \in CmdLine /\ ("commit" \notin waived => tryConfig = tryCmd.slot)
    BY <1>0 DEF TrialInv, Asked
  <2>3. \/ pc' = "dead" /\ UNCHANGED <<prefix, cur, wiping>>
           /\ (tryFlag => "commit" \in waived)
        \/ /\ prefix' = config /\ cur' = cmdline.slot /\ wiping' = cmdline.wipe /\ ~tryFlag
        \/ /\ tryFlag /\ tryCmd \in CmdLine /\ prefix' = TryPrefix /\ TryPrefix \in Slot
           /\ cur' = tryCmd.slot /\ wiping' = tryCmd.wipe
    <3>1. CASE tryFlag /\ (tryConfig = Torn \/ tryCmd \notin CmdLine) /\ Hang
      BY <2>2, <3>1 DEF Hang, CmdLine
    <3>2. CASE ~tryFlag /\ configTorn /\ Hang
      BY <3>2 DEF Hang
    <3>3. CASE ~tryFlag /\ StartKernel(config, cmdline)
      BY <3>3 DEF StartKernel
    <3>4. CASE tryFlag /\ tryConfig # None /\ tryCmd \in CmdLine /\ StartKernel(TryPrefix, tryCmd)
      <4>1. TryPrefix \in Slot
        BY <1>0, <3>4 DEF TryPrefix, TypeOK, CmdLine
      <4> QED BY <3>4, <4>1 DEF StartKernel
    <3> QED BY <1>1, <3>1, <3>2, <3>3, <3>4 DEF Firmware
  <2>a. prefix' \in Slot \cup {NoSlot} /\ cur' \in Slot \cup {NoSlot} /\ wiping' \in BOOLEAN
    BY <1>0, <2>3 DEF TypeOK, CmdLine
  <2>b. tryActive' \in BOOLEAN /\ tryFlag' \in BOOLEAN
    BY <1>0, <2>1 DEF TypeOK
  <2>4. TypeOK'
    <3>1. pc' \in {"off", "kernel", "start", "up", "dead"}
      BY <2>1
    <3>2. UNCHANGED <<files, history, param, op>>
      BY <2>1
    <3> QED BY <1>0, <3>1, <3>2, <2>a, <2>b DEF TypeOK, files, history
  <2>5. RunInv'
    BY <1>0, <2>1, <2>3 DEF RunInv, history, CmdLine
  <2>6. OpInv' /\ IdInv'
    BY <1>0, <2>1 DEF OpInv, IdInv, Targeting, Committing, files, history
  <2>7. TrialInv'
    BY <1>0, <2>1, <2>2, <2>3
       DEF TrialInv, Asked, Committable, Committing, files, history
  <2>8. FallbackInv'
    <3> SUFFICES ASSUME waived = {} PROVE FallbackInv'
      BY <2>1 DEF FallbackInv, history
    <3>1. config = cmdline.slot /\ Bootable(config) /\ (tryFlag => Whole(tryCmd.slot))
      BY <1>0, <2>1 DEF FallbackInv
    <3>2. pc' = "kernel" => prefix' = cur' /\ Whole(cur')
      BY <2>2, <2>3, <3>1 DEF TryPrefix, Bootable, CmdLine
    <3> QED BY <2>1, <3>1, <3>2 DEF FallbackInv, files, history, Bootable, Whole, Writing
  <2> QED BY <2>4, <2>5, <2>6, <2>7, <2>8 DEF IInv
<1>2. CASE PowerCycle \/ ComesUp \/ BootFails
  <2>1. /\ UNCHANGED <<files, history, tryActive, prefix, cur, wiping, param, tryFlag, op>>
        /\ \/ pc \in {"dead", "kernel"} /\ pc' = "off"
           \/ pc = "kernel" /\ pc' = "start" /\ (Matched => Bootable(cur))
    BY <1>2 DEF PowerCycle, ComesUp, BootFails
  <2>2. TypeOK'
    BY <1>0, <2>1 DEF TypeOK, files, history
  <2>3. RunInv' /\ OpInv' /\ IdInv'
    BY <1>0, <2>1 DEF RunInv, OpInv, IdInv, Targeting, Committing, files, history
  <2>4. TrialInv'
    BY <1>0, <2>1 DEF TrialInv, Asked, Committable, Committing, files, history
  <2>5. FallbackInv'
    <3>1. UNCHANGED <<Whole(cur), Bootable(cur), Bootable(config), Whole(tryCmd.slot)>>
      BY <2>1 DEF Whole, Bootable, files
    <3> QED BY <1>0, <2>1, <3>1 DEF FallbackInv, files, history, Matched, Whole, Bootable
  <2> QED BY <2>2, <2>3, <2>4, <2>5 DEF IInv
<1>3. CASE Wipe \/ WipeFails \/ Persist \/ RequestWipe
  <2>1. /\ pc \in {"start", "up"} /\ pc' \in {"start", "up"} /\ (pc = "up" => pc' = "up")
        /\ cur \in Slot /\ prefix \in Slot
        /\ wiping' \in BOOLEAN /\ requested' \in BOOLEAN /\ provisioned' \in BOOLEAN
        /\ UNCHANGED <<slotdir, default, rootfs, config, configTorn, tryConfig, tryCmd, good,
                       tryActive, prefix, cur, losses, waived, param, tryFlag, op>>
    BY <1>0, <1>3 DEF Wipe, WipeFails, Persist, RequestWipe, run, files, history, RunInv, TypeOK
  <2>2. /\ cmdline' \in CmdLine /\ cmdline'.slot = cmdline.slot
        /\ provisioned' => cmdline'.id = TRUE
        /\ pc' = "up" => provisioned'
    <3>1. CASE Wipe
      BY <1>0, <3>1, CmdLineFacts DEF Wipe, IdInv
    <3>2. CASE Persist
      BY <1>0, <3>2, CmdLineFacts DEF Persist
    <3>3. CASE RequestWipe
      BY <1>0, <3>3, CmdLineFacts DEF RequestWipe, IdInv, RunInv, run
    <3>4. CASE WipeFails
      BY <1>0, <3>4, CmdLineFacts DEF WipeFails, IdInv, files, history
    <3> QED BY <1>3, <3>1, <3>2, <3>3, <3>4
  <2>3. TypeOK'
    BY <1>0, <2>1, <2>2 DEF TypeOK
  <2>4. RunInv' /\ OpInv' /\ IdInv'
    BY <1>0, <2>1, <2>2 DEF RunInv, OpInv, IdInv, Targeting, Committing
  <2>5. TrialInv'
    BY <1>0, <2>1 DEF TrialInv, Asked, Committable, Committing
  <2>6. FallbackInv'
    BY <1>0, <2>1, <2>2 DEF FallbackInv, Whole, Bootable
  <2> QED BY <2>3, <2>4, <2>5, <2>6 DEF IInv
<1>4. CASE MarkGood
  <2>1. /\ pc = "up" /\ cur \in Slot /\ good' = good \cup {cur}
        /\ UNCHANGED <<slotdir, default, rootfs, config, configTorn, cmdline, tryConfig,
                       tryCmd, run, history, param, tryFlag, op>>
    BY <1>4, <1>a DEF MarkGood
  <2>2. TypeOK'
    BY <1>0, <2>1 DEF TypeOK, run, history
  <2>3. RunInv' /\ OpInv' /\ IdInv'
    BY <1>0, <2>1 DEF RunInv, OpInv, IdInv, run, history
  <2>4. TrialInv' /\ FallbackInv'
    BY <1>0, <2>1
       DEF TrialInv, Asked, Committable, FallbackInv, Whole, Bootable, run, history
  <2> QED BY <2>2, <2>3, <2>4 DEF IInv
<1>5. CASE CommitBegin
  <2>1. /\ pc = "up" /\ op.stage = "idle" /\ Committable /\ configTorn' = TRUE
        /\ GoTo("commitConfig") /\ cur \in Slot /\ provisioned /\ ~tryFlag
        /\ UNCHANGED <<slotdir, default, rootfs, config, cmdline, tryConfig, tryCmd, good,
                       run, history, param, tryFlag>>
    BY <1>5, <1>a DEF CommitBegin, Stage
  <2>2. /\ op' \in [stage : Stages, target : Slot \cup {NoSlot}, image : Images]
        /\ op'.stage = "commitConfig"
    BY <1>0, <2>1, GoToFacts DEF Stages, Committing
  <2>3. TypeOK'
    BY <1>0, <2>1, <2>2 DEF TypeOK, run, history
  <2>4. RunInv' /\ OpInv' /\ IdInv'
    BY <1>0, <2>1, <2>2
       DEF RunInv, OpInv, IdInv, run, history, Targeting, Committing, Committable
  <2>5. TrialInv'
    BY <1>0, <2>1, <2>2 DEF TrialInv, Asked, Committable, run, history
  <2>6. FallbackInv'
    BY <1>0, <2>1, <2>2 DEF FallbackInv, Whole, Bootable, Writing, run, history
  <2> QED BY <2>3, <2>4, <2>5, <2>6 DEF IInv
<1>6. CASE CommitConfig
  <2>1. /\ pc = "up" /\ op.stage = "commitConfig" /\ config' = TryPrefix
        /\ configTorn' = (tryConfig = Torn)
        /\ GoTo("commitCmdline") /\ cur \in Slot /\ provisioned /\ ~tryFlag
        /\ UNCHANGED <<slotdir, default, rootfs, cmdline, tryConfig, tryCmd, good,
                       run, history, param, tryFlag>>
    BY <1>6, <1>a DEF CommitConfig, Stage
  <2>2. /\ op' \in [stage : Stages, target : Slot \cup {NoSlot}, image : Images]
        /\ op'.stage = "commitCmdline"
    BY <1>0, <2>1, GoToFacts DEF Stages, Committing
  <2>3. /\ tryCmd \in CmdLine /\ tryCmd.slot = cur /\ tryConfig # None
        /\ TryPrefix \in Slot
        /\ "commit" \notin waived => tryConfig = cur /\ TryPrefix = cur /\ ~configTorn'
    BY <1>0, <2>1 DEF OpInv, TrialInv, TypeOK, TryPrefix, Committing
  <2>4. configTorn' \in BOOLEAN
    BY <2>1
  <2>5. TypeOK'
    BY <1>0, <2>1, <2>2, <2>3, <2>4 DEF TypeOK, run, history
  <2>6. RunInv' /\ OpInv' /\ IdInv'
    BY <1>0, <2>1, <2>2, <2>3
       DEF RunInv, OpInv, IdInv, run, history, Targeting, Committing
  <2>7. TrialInv'
    BY <1>0, <2>1, <2>2, <2>3 DEF TrialInv, Asked, Committable, run, history
  <2>8. FallbackInv'
    BY <1>0, <2>1, <2>2, <2>3 DEF FallbackInv, Whole, Bootable, Writing, run, history
  <2> QED BY <2>5, <2>6, <2>7, <2>8 DEF IInv
<1>7. CASE CommitCmdline
  <2>1. /\ pc = "up" /\ op.stage = "commitCmdline" /\ cmdline' = tryCmd /\ tryCmd' = None
        /\ GoTo("commitRemove") /\ cur \in Slot /\ provisioned /\ ~tryFlag
        /\ UNCHANGED <<slotdir, default, rootfs, config, configTorn, tryConfig, good,
                       run, history, param, tryFlag>>
    BY <1>7, <1>a DEF CommitCmdline, Stage
  <2>2. /\ op' \in [stage : Stages, target : Slot \cup {NoSlot}, image : Images]
        /\ op'.stage = "commitRemove"
    BY <1>0, <2>1, GoToFacts DEF Stages
  <2>3. tryCmd \in CmdLine /\ tryCmd.slot = cur /\ tryCmd.id = TRUE
    BY <1>0, <2>1 DEF OpInv, IdInv, Committing
  <2>4. TypeOK'
    BY <1>0, <2>1, <2>2, <2>3 DEF TypeOK, run, history
  <2>5. RunInv' /\ OpInv' /\ IdInv'
    BY <1>0, <2>1, <2>2, <2>3
       DEF RunInv, OpInv, IdInv, run, history, Targeting, Committing
  <2>6. TrialInv'
    BY <1>0, <2>1, <2>2 DEF TrialInv, Asked, Committable, Committing, run, history
  <2>7. FallbackInv'
    BY <1>0, <2>1, <2>2, <2>3 DEF FallbackInv, Whole, Bootable, Writing, run, history
  <2> QED BY <2>4, <2>5, <2>6, <2>7 DEF IInv
<1>8. CASE CommitRemove
  <2>1. /\ pc = "up" /\ op.stage = "commitRemove" /\ tryConfig' = None /\ param' = FALSE
        /\ good' = good \cup {cur} /\ op' = Idle /\ cur \in Slot /\ provisioned /\ ~tryFlag
        /\ UNCHANGED <<slotdir, default, rootfs, config, configTorn, cmdline, tryCmd,
                       run, history, tryFlag>>
    BY <1>8, <1>a DEF CommitRemove, Stage
  <2>2. TypeOK'
    BY <1>0, <2>1 DEF TypeOK, run, history
  <2>3. RunInv' /\ OpInv' /\ IdInv'
    BY <1>0, <2>1 DEF RunInv, OpInv, IdInv, run, history, Targeting, Committing
  <2>4. TrialInv'
    BY <1>0, <2>1 DEF TrialInv, Asked, Committable, Committing, run, history
  <2>5. FallbackInv'
    BY <1>0, <2>1 DEF FallbackInv, Whole, Bootable, Writing, run, history
  <2> QED BY <2>2, <2>3, <2>4, <2>5 DEF IInv
\* Operations begin, are rejected, fail or are skipped.
<1>9. CASE BeginUpdate \/ BootOther \/ InstallCheck \/ SetPrimarySkips \/ UpdateFails
  <2>1. /\ pc = "up" /\ cur \in Slot /\ provisioned /\ ~tryFlag
        /\ UNCHANGED <<files, run, history, param, tryFlag>>
        /\ op.stage \in {"idle", "check", "primary"} \cup Writing
    BY <1>9, <1>a
       DEF BeginUpdate, BootOther, InstallCheck, SetPrimarySkips, UpdateFails, Stage, Writing
  <2>2. /\ op' \in [stage : Stages, target : Slot \cup {NoSlot}, image : Images]
        /\ op'.stage \in {"idle", "check", "bad", "primary"}
        /\ op'.stage # "idle" => op'.target = Other(cur)
    <3>1. CASE BeginUpdate
      BY <2>1, <3>1 DEF BeginUpdate, Stages
    <3>2. CASE BootOther
      BY <2>1, <3>2, TryBootAssumption DEF BootOther, Stages
    <3>3. CASE InstallCheck
      BY <1>0, <2>1, <3>3, GoToFacts DEF InstallCheck, Stages, Stage, OpInv, Targeting
    <3>4. CASE SetPrimarySkips \/ UpdateFails
      BY <3>4 DEF SetPrimarySkips, UpdateFails
    <3> QED BY <1>9, <3>1, <3>2, <3>3, <3>4
  <2>3. TypeOK'
    BY <1>0, <2>1, <2>2 DEF TypeOK, files, run, history
  <2>4. RunInv' /\ OpInv' /\ IdInv'
    BY <1>0, <2>1, <2>2
       DEF RunInv, OpInv, IdInv, files, run, history, Targeting, Committing
  <2>5. TrialInv'
    BY <1>0, <2>1, <2>2
       DEF TrialInv, Asked, Committable, Committing, Writing, files, run, history
  <2>6. FallbackInv'
    BY <1>0, <2>1, <2>2 DEF FallbackInv, Whole, Bootable, Writing, files, run, history
  <2> QED BY <2>3, <2>4, <2>5, <2>6 DEF IInv
<1>10. CASE MarkTargetBad
  <2>1. /\ pc = "up" /\ op.stage = "bad" /\ good' = good \ {op.target}
        /\ waived \subseteq waived' /\ waived' \subseteq waived \cup {"hurried"}
        /\ op.target = cmdline.slot => waived' # {}
        /\ GoTo("default") /\ cur \in Slot /\ provisioned /\ ~tryFlag
        /\ UNCHANGED <<slotdir, default, rootfs, config, configTorn, cmdline, tryConfig,
                       tryCmd, run, losses, requested, provisioned, param, tryFlag>>
    BY <1>10, <1>a DEF MarkTargetBad, Stage
  <2>2. /\ op' \in [stage : Stages, target : Slot \cup {NoSlot}, image : Images]
        /\ op'.stage = "default" /\ op'.target = op.target
    BY <1>0, <2>1, GoToFacts DEF Stages
  <2>3. "commit" \in waived' <=> "commit" \in waived
    BY <2>1
  <2>4. TypeOK'
    BY <1>0, <2>1, <2>2 DEF TypeOK, run, Excuses
  <2>5. RunInv' /\ OpInv' /\ IdInv'
    BY <1>0, <2>1, <2>2 DEF RunInv, OpInv, IdInv, run, Targeting, Committing
  <2>6. TrialInv'
    BY <1>0, <2>1, <2>2, <2>3 DEF TrialInv, Asked, Committable, Committing, run
  <2>7. FallbackInv'
    <3> SUFFICES ASSUME waived' = {} PROVE FallbackInv'
      BY DEF FallbackInv
    <3>1. waived = {} /\ op.target # cmdline.slot
      BY <2>1
    <3> QED BY <1>0, <2>1, <2>2, <3>1 DEF FallbackInv, Whole, Bootable, run
  <2> QED BY <2>4, <2>5, <2>6, <2>7 DEF IInv
<1>11. CASE WriteStep
  <2>1. cur \in Slot /\ provisioned /\ ~tryFlag
    BY <1>11, <1>a, WriteFacts
  <2>2. TypeOK'
    BY <1>0, <1>11, WriteFacts DEF TypeOK, run, history
  <2>3. RunInv' /\ OpInv' /\ IdInv'
    BY <1>0, <1>11, <2>1, WriteFacts
       DEF RunInv, OpInv, IdInv, run, history, Targeting, Committing, Writing
  <2>4. TrialInv'
    BY <1>0, <1>11, WriteFacts
       DEF TrialInv, Asked, Committable, Committing, Writing, run, history
  <2>5. FallbackInv'
    <3> SUFFICES ASSUME waived = {} PROVE FallbackInv'
      BY <1>11, WriteFacts DEF FallbackInv, history
    <3>1. /\ config = cmdline.slot /\ Bootable(config) /\ op.target # config
          /\ prefix = cur /\ Whole(cur) /\ Bootable(cur) /\ op.target # cur
      BY <1>0, <1>11, <2>1, WriteFacts DEF FallbackInv, OpInv, Writing, Targeting
    <3>2. Bootable(config)' /\ Whole(cur)' /\ Bootable(cur)'
      BY <1>0, <1>11, <2>1, <3>1, WriteFacts DEF Bootable, Whole, run
    <3> QED BY <1>11, <2>1, <3>1, <3>2, WriteFacts DEF FallbackInv, Writing, run
  <2> QED BY <2>2, <2>3, <2>4, <2>5 DEF IInv
<1>12. CASE SetPrimaryBegin
  <2>1. /\ pc = "up" /\ op.stage = "primary" /\ tryCmd' = Torn
        /\ GoTo("tryCmd") /\ cur \in Slot /\ provisioned /\ ~tryFlag
        /\ UNCHANGED <<slotdir, default, rootfs, config, configTorn, cmdline, tryConfig, good,
                       run, history, param, tryFlag>>
    BY <1>12, <1>a DEF SetPrimaryBegin, Stage
  <2>2. /\ op' \in [stage : Stages, target : Slot \cup {NoSlot}, image : Images]
        /\ op'.stage = "tryCmd" /\ op'.target = op.target
    BY <1>0, <2>1, GoToFacts DEF Stages
  <2>3. TypeOK'
    BY <1>0, <2>1, <2>2 DEF TypeOK, run, history
  <2>4. RunInv' /\ OpInv' /\ IdInv'
    BY <1>0, <2>1, <2>2 DEF RunInv, OpInv, IdInv, run, history, Targeting, Committing
  <2>5. TrialInv'
    BY <1>0, <2>1, <2>2 DEF TrialInv, Asked, Committable, Committing, run, history
  <2>6. FallbackInv'
    BY <1>0, <2>1, <2>2 DEF FallbackInv, Whole, Bootable, Writing, run, history
  <2> QED BY <2>3, <2>4, <2>5, <2>6 DEF IInv
<1>13. CASE WriteTryCmdline
  <2>1. /\ pc = "up" /\ op.stage = "tryCmd" /\ tryCmd' = [cmdline EXCEPT !.slot = op.target]
        /\ tryConfig' = Torn
        /\ GoTo("tryConfig") /\ cur \in Slot /\ provisioned /\ ~tryFlag /\ cmdline.id = TRUE
        /\ UNCHANGED <<slotdir, default, rootfs, config, configTorn, cmdline, good,
                       run, history, param, tryFlag>>
    BY <1>13, <1>a DEF WriteTryCmdline, Stage
  <2>2. /\ op' \in [stage : Stages, target : Slot \cup {NoSlot}, image : Images]
        /\ op'.stage = "tryConfig" /\ op'.target = op.target
    BY <1>0, <2>1, GoToFacts DEF Stages
  <2>3. /\ op.target \in Slot /\ op.target = Other(cur)
        /\ tryCmd' \in CmdLine /\ tryCmd'.slot = op.target /\ tryCmd'.id = TRUE
    <3>1. op.target \in Slot /\ op.target = Other(cur)
      BY <1>0, <2>1 DEF OpInv, Targeting
    <3> QED BY <1>0, <2>1, <3>1, CmdLineFacts
  <2>4. TypeOK'
    BY <1>0, <2>1, <2>2, <2>3 DEF TypeOK, run, history
  <2>5. RunInv' /\ OpInv' /\ IdInv'
    BY <1>0, <2>1, <2>2, <2>3 DEF RunInv, OpInv, IdInv, run, history, Targeting, Committing
  <2>6. TrialInv'
    BY <1>0, <2>1, <2>2, <2>3 DEF TrialInv, Asked, Committable, Committing, run, history
  <2>7. FallbackInv'
    BY <1>0, <2>1, <2>2 DEF FallbackInv, Whole, Bootable, Writing, run, history
  <2> QED BY <2>4, <2>5, <2>6, <2>7 DEF IInv
<1>14. CASE WriteTryConfig
  <2>1. /\ pc = "up" /\ op.stage = "tryConfig"
        /\ tryConfig' = IF configTorn THEN Torn ELSE op.target
        /\ GoTo("param") /\ cur \in Slot /\ provisioned /\ ~tryFlag
        /\ UNCHANGED <<slotdir, default, rootfs, config, configTorn, cmdline, tryCmd, good,
                       run, history, param, tryFlag>>
    BY <1>14, <1>a DEF WriteTryConfig, Stage
  <2>2. /\ op' \in [stage : Stages, target : Slot \cup {NoSlot}, image : Images]
        /\ op'.stage = "param" /\ op'.target = op.target
    BY <1>0, <2>1, GoToFacts DEF Stages
  <2>3. /\ op.target \in Slot /\ op.target = Other(cur)
        /\ tryCmd \in CmdLine /\ tryCmd.slot = op.target
        /\ "commit" \notin waived => tryConfig' = op.target
    BY <1>0, <2>1 DEF OpInv, TrialInv, Targeting
  <2>4. TypeOK'
    BY <1>0, <2>1, <2>2, <2>3 DEF TypeOK, run, history
  <2>5. RunInv' /\ OpInv' /\ IdInv'
    BY <1>0, <2>1, <2>2, <2>3 DEF RunInv, OpInv, IdInv, run, history, Targeting, Committing
  <2>6. TrialInv'
    BY <1>0, <2>1, <2>2, <2>3 DEF TrialInv, Asked, Committable, Committing, run, history
  <2>7. FallbackInv'
    BY <1>0, <2>1, <2>2 DEF FallbackInv, Whole, Bootable, Writing, run, history
  <2> QED BY <2>4, <2>5, <2>6, <2>7 DEF IInv
<1>15. CASE AskForTryboot
  <2>1. /\ pc = "up" /\ op.stage = "param" /\ param' = TRUE /\ op' = Idle
        /\ cur \in Slot /\ provisioned /\ ~tryFlag
        /\ UNCHANGED <<files, run, history, tryFlag>>
    BY <1>15, <1>a DEF AskForTryboot, Stage
  <2>2. TypeOK'
    BY <1>0, <2>1 DEF TypeOK, files, run, history
  <2>3. RunInv' /\ OpInv' /\ IdInv'
    BY <1>0, <2>1 DEF RunInv, OpInv, IdInv, files, run, history, Targeting, Committing
  <2>4. TrialInv'
    BY <1>0, <2>1 DEF TrialInv, OpInv, Asked, Committable, Committing, files, run, history
  <2>5. FallbackInv'
    BY <1>0, <2>1 DEF FallbackInv, Whole, Bootable, Writing, files, run, history
  <2> QED BY <2>2, <2>3, <2>4, <2>5 DEF IInv
<1>16. CASE Reboot \/ PowerLoss
  <2>1. /\ pc \in {"kernel", "start", "up"} /\ pc' = "off" /\ tryActive' = FALSE
        /\ prefix' = NoSlot /\ cur' = NoSlot /\ wiping' = FALSE /\ param' = FALSE /\ op' = Idle
        /\ UNCHANGED <<files, requested, provisioned>>
        /\ ~tryFlag
    BY <1>0, <1>16 DEF Reboot, PowerLoss, SwitchOff, RunInv
  <2>2. /\ losses' \in 0 .. MaxLosses
        /\ waived \subseteq waived' /\ waived' \subseteq Excuses
        /\ op.stage \in Committing => "commit" \in waived'
        /\ tryFlag' \in BOOLEAN
        /\ tryFlag' => param /\ op.stage = "idle" /\ (waived' = {} => Whole(tryCmd.slot))
    <3>1. CASE Reboot
      BY <1>0, <3>1 DEF Reboot, TypeOK, Excuses, Stage, Committing
    <3>2. CASE PowerLoss
      <4>1. losses' \in 0 .. MaxLosses
        BY <1>0, <3>2, TryBootAssumption DEF PowerLoss, TypeOK
      <4> QED BY <1>0, <2>1, <3>2, <4>1 DEF PowerLoss, TypeOK, Excuses
    <3> QED BY <1>16, <3>1, <3>2
  <2>3. TypeOK'
    BY <1>0, <2>1, <2>2 DEF TypeOK, files
  <2>4. RunInv' /\ OpInv' /\ IdInv'
    BY <1>0, <2>1, <2>2 DEF RunInv, OpInv, IdInv, files, Targeting, Committing
  <2>5. TrialInv'
    <3>1. tryFlag' => tryCmd \in CmdLine /\ ("commit" \notin waived => tryConfig = tryCmd.slot)
      BY <1>0, <2>2 DEF TrialInv, Asked
    <3> QED BY <1>0, <2>1, <2>2, <3>1
            DEF TrialInv, Asked, Committable, Committing, files
  <2>6. FallbackInv'
    <3> SUFFICES ASSUME waived' = {} PROVE FallbackInv'
      BY DEF FallbackInv
    <3>1. waived = {} /\ op.stage \notin Committing
      BY <2>2
    <3>2. config = cmdline.slot /\ Bootable(config)
      BY <1>0, <3>1 DEF FallbackInv, Committing
    <3> QED BY <2>1, <2>2, <3>2 DEF FallbackInv, Whole, Bootable, Writing, files
  <2> QED BY <2>3, <2>4, <2>5, <2>6 DEF IInv
<1>17. CASE UNCHANGED vars
  BY <1>0, <1>17
     DEF IInv, TypeOK, RunInv, OpInv, TrialInv, IdInv, FallbackInv, Asked, Committable, Whole,
         Bootable, vars, files, run, history
<1> QED BY <1>1, <1>2, <1>3, <1>4, <1>5, <1>6, <1>7, <1>8, <1>9, <1>10, <1>11, <1>12, <1>13,
           <1>14, <1>15, <1>16, <1>17 DEF Next, Boot, Commit, Install, SetPrimary, WriteStep

\* Every reachable state satisfies IInv.
THEOREM Invariance == Spec => []IInv
BY InitIInv, StepIInv, PTL DEF Spec

-----------------------------------------------------------------------------
(***************************************************************************)
(* What the runs check, for every set of releases and number of losses.    *)
(***************************************************************************)

\* The firmware never takes trial files that are torn, missing or at odds, as
\* long as config.txt was not torn by a power loss: set-primary writes both
\* before it asks for the trial.
THEOREM TrialIsSound == Spec => []TrialSound
<1>1. IInv => TrialSound
  BY DEF IInv, TrialInv, Asked, TrialSound, TrialPrepared
<1> QED BY <1>1, Invariance, PTL

\* The permanent files name one complete slot that comes up, whatever an update,
\* a trial, a commit or a power loss outside the commit has done.
THEOREM FallbackKept == Spec => []FallbackStays
<1>1. IInv => FallbackStays
  <2> SUFFICES ASSUME IInv, waived = {}, op.stage \notin Committing
               PROVE  ~configTorn /\ config = cmdline.slot /\ Bootable(config)
    BY DEF FallbackStays
  <2> QED BY DEF IInv, TrialInv, FallbackInv, Committing
<1> QED BY <1>1, Invariance, PTL

\* A machine id that was stored is on the command line of every later boot.
THEOREM IdIsKept == Spec => []IdKept
<1>1. IInv => IdKept
  BY DEF IInv, IdInv, TrialInv, Asked, IdKept
<1> QED BY <1>1, Invariance, PTL

-----------------------------------------------------------------------------
(***************************************************************************)
(* Tryboot implements the promise of ABUpdate.                             *)
(***************************************************************************)

\* The abstract variables, as ImplementsABUpdate maps them.
Holds == [s \in Slot |-> IF Whole(s) THEN slotdir[s] ELSE Empty]
RunningSlot == IF pc \in {"start", "up"} THEN cur ELSE NoSlot

\* A freshly flashed disk is an initial state of ABUpdate.
LEMMA RefinementInit == Init => AB!AbsInit
<1> SUFFICES ASSUME Init PROVE AB!AbsInit
  OBVIOUS
<1>1. Holds \in [Slot -> Images \cup {Empty}]
  BY DEF Holds, Whole
<1>2. Holds["A"] # Empty
  BY TryBootAssumption DEF Holds, Whole, Init, Slot
<1>3. RunningSlot = NoSlot /\ (waived = {}) = TRUE
  BY DEF RunningSlot, Init
<1> QED BY <1>1, <1>2, <1>3, SlotFacts DEF AB!AbsInit, Holds, RunningSlot

\* Every step of booting and updating is a step of ABUpdate or changes nothing
\* that ABUpdate sees.
LEMMA RefinementStep == IInv /\ [Next]_vars => [AB!AbsNext]_(AB!absVars)
<1> SUFFICES ASSUME IInv, [Next]_vars
             PROVE  [AB!AbsNext]_(AB!absVars)
  OBVIOUS
<1> USE SlotFacts
<1>0. CASE waived' # {}
  BY <1>0 DEF AB!AbsNext
<1>1. ASSUME waived' = {}, waived = {}, Holds' = Holds, RunningSlot' = RunningSlot
      PROVE  UNCHANGED AB!absVars
  BY <1>1 DEF AB!absVars, Holds, RunningSlot
<1>2. CASE waived' = {} /\ (Firmware \/ PowerCycle \/ BootFails)
  <2>1. /\ UNCHANGED <<slotdir, rootfs, waived>>
        /\ pc \notin {"start", "up"} /\ pc' \notin {"start", "up"}
    BY <1>2 DEF Firmware, StartKernel, Hang, PowerCycle, BootFails, files, history
  <2> QED BY <1>1, <1>2, <2>1 DEF Holds, RunningSlot, Whole
<1>3. CASE waived' = {} /\ (Wipe \/ WipeFails \/ Persist \/ RequestWipe \/ MarkGood \/ Commit)
  <2>1. /\ UNCHANGED <<slotdir, rootfs, waived, cur>>
        /\ pc \in {"start", "up"} /\ pc' \in {"start", "up"}
    <3>1. CASE Wipe \/ WipeFails \/ Persist
      BY <3>1 DEF Wipe, WipeFails, Persist, files, history
    <3>2. CASE RequestWipe \/ MarkGood
      BY <3>2 DEF RequestWipe, MarkGood, run, history
    <3>3. CASE Commit
      BY <3>3 DEF Commit, CommitBegin, CommitConfig, CommitCmdline, CommitRemove, run, history
    <3> QED BY <1>3, <3>1, <3>2, <3>3
  <2> QED BY <1>1, <1>3, <2>1 DEF Holds, RunningSlot, Whole
<1>4. CASE waived' = {} /\ Install /\ ~WriteStep
  <2>1. UNCHANGED <<slotdir, rootfs, cur, pc>> /\ waived \subseteq waived'
    <3>1. CASE BeginUpdate \/ InstallCheck \/ UpdateFails
      BY <3>1 DEF BeginUpdate, InstallCheck, UpdateFails, files, run, history
    <3>2. CASE MarkTargetBad
      BY <3>2 DEF MarkTargetBad, run
    <3> QED BY <1>4, <3>1, <3>2 DEF Install, WriteStep
  <2> QED BY <1>1, <1>4, <2>1 DEF Holds, RunningSlot, Whole
<1>5. CASE waived' = {} /\ SetPrimary
  <2>1. UNCHANGED <<slotdir, rootfs, cur, pc, waived>>
    <3>1. CASE BootOther \/ SetPrimarySkips \/ AskForTryboot
      BY <3>1 DEF BootOther, SetPrimarySkips, AskForTryboot, files, run, history
    <3>2. CASE SetPrimaryBegin \/ WriteTryCmdline \/ WriteTryConfig
      BY <3>2 DEF SetPrimaryBegin, WriteTryCmdline, WriteTryConfig, run, history
    <3> QED BY <1>5, <3>1, <3>2 DEF SetPrimary
  <2> QED BY <1>1, <1>5, <2>1 DEF Holds, RunningSlot, Whole
<1>6. CASE waived' = {} /\ ComesUp
  <2>1. UNCHANGED <<slotdir, rootfs, cur, waived>> /\ pc = "kernel" /\ pc' = "start"
    BY <1>6 DEF ComesUp, files, history
  <2>2. cur \in Slot /\ Whole(cur)
    BY <1>6, <2>1 DEF IInv, RunInv, FallbackInv
  <2>3. /\ Holds' = Holds /\ Holds[cur] \in Images
        /\ RunningSlot = NoSlot /\ RunningSlot' = cur
    BY <2>1, <2>2 DEF Holds, RunningSlot, Whole
  <2>4. (waived = {}) = TRUE /\ (waived = {})' = TRUE
    BY <1>6, <2>1
  <2>5. AB!Start(cur)
    BY <2>3 DEF AB!Start, Holds, RunningSlot
  <2> QED BY <2>2, <2>4, <2>5 DEF AB!AbsNext
<1>7. CASE waived' = {} /\ WriteStep
  <2>1. /\ UNCHANGED <<pc, cur, waived>> /\ pc = "up"
        /\ cur \in Slot /\ op.target \in Slot /\ op.target = Other(cur)
        /\ \A s \in Slot \ {op.target} : slotdir'[s] = slotdir[s] /\ rootfs'[s] = rootfs[s]
    BY <1>7, WriteFacts DEF run, history, IInv, RunInv, OpInv, Writing, Targeting
  <2>2. PICK r \in Images \cup {Empty} : Holds'[op.target] = r
    BY <2>1 DEF Holds, Whole
  <2>3. Holds' = [Holds EXCEPT ![op.target] = r]
    <3>1. \A s \in Slot \ {op.target} : Holds'[s] = Holds[s]
      BY <2>1 DEF Holds, Whole
    <3>2. /\ Holds' = [s \in Slot |-> Holds'[s]]
          /\ Holds = [s \in Slot |-> Holds[s]]
      BY DEF Holds
    <3> HIDE DEF Holds
    <3> QED BY <2>1, <2>2, <3>1, <3>2
  <2>4. RunningSlot \in Slot \ {op.target} /\ RunningSlot' = RunningSlot
    BY <2>1 DEF RunningSlot
  <2>5. (waived = {}) = TRUE /\ (waived = {})' = TRUE
    BY <1>7, <2>1
  <2>6. PICK t \in Slot : t = op.target
    BY <2>1
  <2>7. AB!Rewrite(t)
    BY <2>2, <2>3, <2>4, <2>6 DEF AB!Rewrite, Holds, RunningSlot
  <2> QED BY <2>5, <2>7 DEF AB!AbsNext
<1>8. CASE waived' = {} /\ (Reboot \/ PowerLoss)
  <2>1. UNCHANGED <<slotdir, rootfs>> /\ pc' = "off" /\ waived = {}
    BY <1>8 DEF Reboot, PowerLoss, SwitchOff, files
  <2>2. Holds' = Holds /\ RunningSlot' = NoSlot
    BY <2>1 DEF Holds, RunningSlot, Whole
  <2>3. (waived = {}) = TRUE /\ (waived = {})' = TRUE
    BY <1>8, <2>1
  <2>4. AB!Stop
    BY <2>2 DEF AB!Stop, Holds, RunningSlot
  <2> QED BY <2>3, <2>4 DEF AB!AbsNext
<1>9. CASE waived' = {} /\ UNCHANGED vars
  BY <1>1, <1>9 DEF Holds, RunningSlot, Whole, vars, files, run, history
<1> QED BY <1>0, <1>2, <1>3, <1>4, <1>5, <1>6, <1>7, <1>8, <1>9 DEF Next, Boot

\* Booting and updating with tryboot keep the promise of ABUpdate: the system
\* only ever comes up from a complete release and an update only ever writes the
\* slot that is not running.
THEOREM Refinement == Spec => ImplementsABUpdate
BY Invariance, RefinementInit, RefinementStep, PTL
   DEF Spec, ImplementsABUpdate, AB!AbsSpec
=============================================================================
