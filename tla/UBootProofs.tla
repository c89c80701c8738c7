---------------------------- MODULE UBootProofs ----------------------------
(***************************************************************************)
(* Proofs about UBootBoot, for every set of releases, every number of      *)
(* attempts and any number of power losses.                                *)
(***************************************************************************)
EXTENDS UBootBoot, TLAPS

NeverWritten(s) == kernel[s] = Empty /\ rootfs[s] = Empty

\* An environment write is under way exactly where the code can be in one.
WriteInv ==
    /\ pc \in {"off", "dead"} => pend = NoEnv
    /\ pc = "store" => env = Corrupt /\ pend \in Env
    /\ pc \in {"kernel", "start"} => env \in Env /\ pend = NoEnv
    /\ pc = "up" => \/ env \in Env /\ pend = NoEnv
                    \/ env = Corrupt /\ pend \in Env

\* The slot chosen by the script is in the order it is about to store or has
\* stored, and stays there while the system runs.
CurInv ==
    /\ pc \in {"kernel", "start", "up"} => cur \in Slot
    /\ pc \in {"store", "kernel", "start", "up"} /\ cur \in Slot =>
          \A e \in Environments : InOrder(e.order, cur)

\* An installation targets the other slot, which is out of the order from the
\* moment it may be incomplete until it is complete.
InstallInv ==
    /\ pc # "up" => rauc = Idle
    /\ rauc.stage # "idle" => rauc.target \in Slot /\ rauc.target = Other(cur)
    /\ rauc.stage \in Replacing =>
          \A e \in Environments : ~InOrder(e.order, rauc.target)
    /\ rauc.stage \in {"rootfs", "rootfsWrite", "spl", "splWrite", "activate"} =>
          kernel[rauc.target] = rauc.image
    /\ rauc.stage \in {"spl", "splWrite", "activate"} =>
          rootfs[rauc.target] = rauc.image
    /\ rauc.stage \in {"config", "copy", "restore"} => saved # "nothing"

\* A disk whose environment was never stored still has no half-written slot.
BlankInv ==
    ~waived /\ env = Corrupt /\ pend = NoEnv =>
        \A s \in Slot : Whole(s) \/ NeverWritten(s)

IInv ==
    /\ TypeOK
    /\ WriteInv
    /\ CurInv
    /\ InstallInv
    /\ BlankInv
    /\ BootOrderWhole

-----------------------------------------------------------------------------
(***************************************************************************)
(* Facts about boot orders and the environments built from them.           *)
(***************************************************************************)

\* The two slots are each other's other slot, and NoSlot is neither.
LEMMA SlotFacts ==
    /\ "A" \in Slot /\ "B" \in Slot /\ NoSlot \notin Slot
    /\ \A s \in Slot : Other(s) \in Slot /\ Other(s) # s /\ Other(Other(s)) = s
    /\ \A s, t \in Slot : t # s => t = Other(s)
BY DEF Slot, Other, NoSlot

\* What each of the four possible orders contains.
LEMMA OrderMembers ==
    ASSUME NEW s \in Slot
    PROVE  /\ InOrder(<<"A", "B">>, s)
           /\ InOrder(<<"B", "A">>, s)
           /\ InOrder(<<"A">>, s) <=> s = "A"
           /\ InOrder(<<"B">>, s) <=> s = "B"
<1>1. InOrder(<<"A", "B">>, s)
  BY <<"A", "B">>[1] = "A", <<"A", "B">>[2] = "B" DEF InOrder, Slot
<1>2. InOrder(<<"B", "A">>, s)
  BY <<"B", "A">>[1] = "B", <<"B", "A">>[2] = "A" DEF InOrder, Slot
<1>3. InOrder(<<"A">>, s) <=> s = "A"
  BY DEF InOrder, Slot
<1>4. InOrder(<<"B">>, s) <=> s = "B"
  BY DEF InOrder, Slot
<1> QED BY <1>1, <1>2, <1>3, <1>4

\* Dropping a slot leaves the other one; promoting it keeps the other one.
LEMMA DropFacts ==
    ASSUME NEW o \in Orders, NEW s \in Slot, NEW t \in Slot,
           InOrder(o, Other(s))
    PROVE  /\ Drop(o, s) \in Orders
           /\ InOrder(Drop(o, s), t) <=> t = Other(s)
           /\ Promote(o, s) \in Orders
           /\ InOrder(Promote(o, s), t)
<1>1. Drop(o, s) = <<Other(s)>> /\ Promote(o, s) = <<s, Other(s)>>
  BY DEF Drop, Promote
<1>2. CASE s = "A" /\ Other(s) = "B"
  BY <1>1, <1>2, OrderMembers DEF Orders
<1>3. CASE s = "B" /\ Other(s) = "A"
  BY <1>1, <1>3, OrderMembers DEF Orders
<1> QED BY <1>2, <1>3 DEF Slot, Other

\* What RAUC writes when it marks slot s bad or makes it primary.
LEMMA RaucEnvFacts ==
    ASSUME NEW e \in Env, NEW s \in Slot, NEW t \in Slot,
           InOrder(e.order, Other(s))
    PROVE  /\ BadEnv(e, s) \in Env
           /\ InOrder(BadEnv(e, s).order, t) <=> t = Other(s)
           /\ PrimaryEnv(e, s) \in Env
           /\ InOrder(PrimaryEnv(e, s).order, t)
<1>1. e.order \in Orders
  BY DEF Env
<1>a. Drop(e.order, s) \in Orders /\ Promote(e.order, s) \in Orders
  BY <1>1, DropFacts
<1>b. /\ [e.left EXCEPT ![s] = 0] \in [Slot -> 0 .. Tries]
      /\ [e.left EXCEPT ![s] = Tries] \in [Slot -> 0 .. Tries]
      /\ e.machineId \in BOOLEAN
  BY TriesAssumption DEF Env
<1>2. BadEnv(e, s).order = Drop(e.order, s) /\ BadEnv(e, s) \in Env
  BY <1>a, <1>b DEF BadEnv, Env
<1>3. PrimaryEnv(e, s).order = Promote(e.order, s) /\ PrimaryEnv(e, s) \in Env
  BY <1>a, <1>b DEF PrimaryEnv, Env
<1> QED BY <1>1, <1>2, <1>3, DropFacts

\* The script keeps the order and the machine id of what it imported.
LEMMA ScriptEnvFacts ==
    ASSUME NEW e \in Env, NEW ok \in [Slot -> BOOLEAN]
    PROVE  /\ Spend(e, ok) \in Env
           /\ Spend(e, ok).order = e.order
           /\ ResetTries(e) \in Env
           /\ ResetTries(e).order = e.order
<1>1. \A s \in Slot : Attempts(e, ok, s) => e.left[s] > 0
  BY DEF Attempts
<1>2. [s \in Slot |-> IF Attempts(e, ok, s) THEN e.left[s] - 1 ELSE e.left[s]]
        \in [Slot -> 0 .. Tries]
  BY <1>1, TriesAssumption DEF Env
<1>3. Spend(e, ok) \in Env /\ Spend(e, ok).order = e.order
  BY <1>2 DEF Spend, Env
<1>4. ResetTries(e) \in Env /\ ResetTries(e).order = e.order
  BY TriesAssumption DEF ResetTries, Env
<1> QED BY <1>3, <1>4

\* Marking a slot good and storing the machine id leave the order alone.
LEMMA GoodEnvFacts ==
    ASSUME NEW e \in Env, NEW s \in Slot
    PROVE  /\ GoodEnv(e, s) \in Env
           /\ GoodEnv(e, s).order = e.order
           /\ [e EXCEPT !.machineId = TRUE] \in Env
           /\ [e EXCEPT !.machineId = TRUE].order = e.order
<1>1. [e.left EXCEPT ![s] = Tries] \in [Slot -> 0 .. Tries]
  BY TriesAssumption DEF Env
<1> QED BY <1>1 DEF GoodEnv, Env

\* What a boot may read: the stored environment, or the one being stored.
LEMMA EnvSet ==
    ASSUME NEW d, NEW p
    PROVE  /\ d \in Env /\ p = NoEnv => {d, p} \cap Env = {d}
           /\ d = Corrupt /\ p \in Env => {d, p} \cap Env = {p}
           /\ d = Corrupt /\ p = NoEnv => {d, p} \cap Env = {}
BY EnvAssumption

\* The script works with an environment that has its fields.
LEMMA ImportedFacts ==
    ASSUME TypeOK
    PROVE  /\ Imported \in Env
           /\ env \in Env => Imported = env
           /\ env = Corrupt => Imported.order = <<"A", "B">>
<1>1. DefaultEnv \in Env /\ DefaultEnv.order = <<"A", "B">>
  BY TriesAssumption DEF DefaultEnv, Env, Orders
<1> QED BY <1>1, EnvAssumption DEF Imported, TypeOK

-----------------------------------------------------------------------------
(***************************************************************************)
(* The invariant holds initially and is preserved by every step.           *)
(***************************************************************************)

\* A freshly flashed disk with its empty bootstate partition satisfies IInv.
LEMMA InitIInv == Init => IInv
<1> SUFFICES ASSUME Init PROVE IInv
  OBVIOUS
<1> USE DEF Init, InstallInit
<1>1. TypeOK
  <2>1. InstallTypeOK
    BY ImagesAssumption DEF InstallTypeOK, Idle, Stages, Content
  <2>2. losses \in 0 .. MaxLosses /\ fails \in 0 .. FailCap
    BY TriesAssumption DEF FailCap
  <2> QED BY <2>1, <2>2 DEF TypeOK
<1>2. WriteInv /\ CurInv
  BY DEF WriteInv, CurInv
<1>3. InstallInv
  BY DEF InstallInv, Idle, Replacing
<1>4. BlankInv
  BY ImagesAssumption DEF BlankInv, Whole, NeverWritten, Slot
<1>5. BootOrderWhole
  BY EnvAssumption DEF BootOrderWhole, Environments
<1> QED BY <1>1, <1>2, <1>3, <1>4, <1>5 DEF IInv

\* Every step of an installation that stays on the disk: the environment and
\* pc do not move, only the target slot is written, and a slot that reaches
\* the last stages is complete.
LEMMA ReplaceFacts ==
    ASSUME IInv, Replace
    PROVE  /\ InstallTypeOK'
           /\ rauc.stage \in Replacing /\ rauc'.stage \in Replacing
           /\ rauc'.target = rauc.target /\ rauc'.image = rauc.image
           /\ \A s \in Slot \ {rauc.target} :
                 kernel'[s] = kernel[s] /\ rootfs'[s] = rootfs[s]
           /\ rauc'.stage \in {"rootfs", "rootfsWrite", "spl", "splWrite", "activate"} =>
                 kernel'[rauc.target] = rauc.image
           /\ rauc'.stage \in {"spl", "splWrite", "activate"} =>
                 rootfs'[rauc.target] = rauc.image
           /\ rauc'.stage \in {"config", "copy", "restore"} => saved' # "nothing"
<1> USE DEF Stage, Replacing
<1>0. /\ rauc \in [stage : Stages, target : Slot \cup {NoSlot}, image : Images]
      /\ rauc.image \in Images
      /\ InstallTypeOK
      /\ Torn \in Content /\ Images \subseteq Content
  BY DEF IInv, TypeOK, InstallTypeOK, Content
<1>1. /\ rauc.stage \in Replacing => rauc.target \in Slot
      /\ rauc.stage \in {"config", "copy", "restore"} => saved # "nothing"
      /\ rauc.stage \in {"rootfs", "rootfsWrite", "spl", "splWrite", "activate"} =>
            kernel[rauc.target] = rauc.image
      /\ rauc.stage \in {"spl", "splWrite", "activate"} =>
            rootfs[rauc.target] = rauc.image
  BY DEF IInv, InstallInv
<1>2. ASSUME NEW st \in Stages, GoTo(st)
      PROVE  /\ rauc' \in [stage : Stages, target : Slot \cup {NoSlot}, image : Images]
             /\ rauc'.stage = st
             /\ rauc'.target = rauc.target /\ rauc'.image = rauc.image
  BY <1>0, <1>2 DEF GoTo
<1>3. CASE BootBackup
  <2>1. ("config") \in Stages /\ GoTo("config")
    BY <1>3 DEF BootBackup, Stages
  <2> QED BY <1>0, <1>1, <1>2, <1>3, <2>1 DEF BootBackup, InstallTypeOK
<1>4. CASE BootCopyConfig
  <2>1. ("copy") \in Stages /\ GoTo("copy")
    BY <1>4 DEF BootCopyConfig, Stages
  <2> QED BY <1>0, <1>1, <1>2, <1>4, <2>1 DEF BootCopyConfig, InstallTypeOK
<1>5. CASE BootCopy
  <2>1. ("restore") \in Stages /\ GoTo("restore")
    BY <1>5 DEF BootCopy, Stages
  <2> QED BY <1>0, <1>1, <1>2, <1>5, <2>1 DEF BootCopy, InstallTypeOK
<1>6. CASE BootRestore
  <2>1. ("restoreEnv") \in Stages /\ GoTo("restoreEnv")
    BY <1>6 DEF BootRestore, Stages
  <2> QED BY <1>0, <1>1, <1>2, <1>6, <2>1 DEF BootRestore, InstallTypeOK
<1>7. CASE BootRestoreEnv
  <2>1. ("kernel") \in Stages /\ GoTo("kernel")
    BY <1>7 DEF BootRestoreEnv, Stages
  <2> QED BY <1>0, <1>1, <1>2, <1>7, <2>1 DEF BootRestoreEnv, InstallTypeOK, diskVars
<1>8. CASE KernelBegin
  <2>1. ("kernelWrite") \in Stages /\ GoTo("kernelWrite")
    BY <1>8 DEF KernelBegin, Stages
  <2> QED BY <1>0, <1>1, <1>2, <1>8, <2>1 DEF KernelBegin, InstallTypeOK
<1>9. CASE KernelEnd
  <2>1. ("rootfs") \in Stages /\ GoTo("rootfs")
    BY <1>9 DEF KernelEnd, Stages
  <2> QED BY <1>0, <1>1, <1>2, <1>9, <2>1 DEF KernelEnd, InstallTypeOK
<1>10. CASE RootfsBegin
  <2>1. ("rootfsWrite") \in Stages /\ GoTo("rootfsWrite")
    BY <1>10 DEF RootfsBegin, Stages
  <2> QED BY <1>0, <1>1, <1>2, <1>10, <2>1 DEF RootfsBegin, InstallTypeOK
<1>11. CASE RootfsEnd
  <2>1. (IF HasSpl THEN "spl" ELSE "activate") \in Stages /\ GoTo(IF HasSpl THEN "spl" ELSE "activate")
    BY <1>11 DEF RootfsEnd, Stages
  <2> QED BY <1>0, <1>1, <1>2, <1>11, <2>1 DEF RootfsEnd, InstallTypeOK
<1>12. CASE SplBegin
  <2>1. ("splWrite") \in Stages /\ GoTo("splWrite")
    BY <1>12 DEF SplBegin, Stages
  <2> QED BY <1>0, <1>1, <1>2, <1>12, <2>1 DEF SplBegin, InstallTypeOK
<1>13. CASE SplEnd
  <2>1. ("activate") \in Stages /\ GoTo("activate")
    BY <1>13 DEF SplEnd, Stages
  <2> QED BY <1>0, <1>1, <1>2, <1>13, <2>1 DEF SplEnd, InstallTypeOK
<1> QED BY <1>3, <1>4, <1>5, <1>6, <1>7, <1>8, <1>9, <1>10, <1>11, <1>12, <1>13 DEF Replace, InstallStep

\* No step of the boot script, the running system, RAUC, the hook or a power
\* loss leads out of IInv.
LEMMA StepIInv == IInv /\ [Next]_vars => IInv'
<1> SUFFICES ASSUME IInv, [Next]_vars PROVE IInv'
  OBVIOUS
<1> USE EnvAssumption, SlotFacts
<1>0. /\ TypeOK /\ WriteInv /\ CurInv /\ InstallInv /\ BlankInv /\ BootOrderWhole
      /\ InstallTypeOK
  BY DEF IInv, TypeOK
\* Once the environment is stored, the running system can rewrite it.
<1>a. ASSUME pc = "up", env # Corrupt
      PROVE  /\ env \in Env /\ pend = NoEnv /\ cur \in Slot
             /\ Environments = {env} /\ InOrder(env.order, cur)
  BY <1>0, <1>a, EnvSet DEF WriteInv, CurInv, Environments
\* A running system that starts to store environment e.
<1>b. ASSUME pc = "up", env # Corrupt, pc' = pc, cur' = cur,
             NEW e \in Env, WriteBegin(e), InOrder(e.order, cur)
      PROVE  /\ WriteInv' /\ CurInv' /\ BlankInv'
             /\ Environments' = {e}
             /\ env' \in Env \cup {Corrupt} /\ pend' \in Env \cup {NoEnv}
  <2>1. env' = Corrupt /\ pend' = e /\ Environments' = {e}
    BY <1>b, EnvSet DEF WriteBegin, Environments
  <2> QED BY <1>a, <1>b, <2>1 DEF WriteInv, CurInv, BlankInv
<1>c. CASE Script
  <2>1. /\ pc = "off" /\ pend = NoEnv /\ pc' = "store" /\ env' = Corrupt
        /\ UNCHANGED <<installVars, history>> /\ firstBoot' \in BOOLEAN
        /\ rauc = Idle
    BY <1>0, <1>c, ImportedFacts
       DEF Script, WriteBegin, WriteInv, InstallInv, Env
  <2>2. /\ Imported \in Env /\ pend' \in Env
        /\ pend'.order = Imported.order
        /\ cur' \in Slot \cup {NoSlot}
        /\ cur' \in Slot => InOrder(Imported.order, cur')
    <3>1. PICK ok \in LoadResults :
            \/ \E s \in Slot : /\ Attempts(Imported, ok, s)
                               /\ cur' = s
                               /\ WriteBegin(Spend(Imported, ok))
            \/ cur' = NoSlot /\ WriteBegin(ResetTries(Imported))
      BY <1>c DEF Script
    <3>2. ok \in [Slot -> BOOLEAN]
      BY DEF LoadResults
    <3>3. \A s \in Slot : Attempts(Imported, ok, s) => InOrder(Imported.order, s)
      BY DEF Attempts, InOrder
    <3> QED BY <1>0, <3>1, <3>2, <3>3, ImportedFacts, ScriptEnvFacts DEF WriteBegin
  <2>3. Environments' = {pend'}
    BY <2>1, <2>2, EnvSet DEF Environments
  <2>4. TypeOK'
    BY <1>0, <2>1, <2>2 DEF TypeOK, InstallTypeOK, installVars, history
  <2>5. WriteInv' /\ CurInv' /\ BlankInv'
    BY <2>1, <2>2, <2>3 DEF WriteInv, CurInv, BlankInv
  <2>6. InstallInv'
    BY <1>0, <2>1 DEF InstallInv, installVars, Idle, Replacing
  <2>7. BootOrderWhole'
    <3>1. \A s \in Slot : ~waived /\ InOrder(Imported.order, s) =>
                             Whole(s) \/ NeverWritten(s)
      BY <1>0, <2>1, ImportedFacts, EnvSet
         DEF BootOrderWhole, BlankInv, TypeOK, Environments, NeverWritten
    <3> QED BY <2>1, <2>2, <2>3, <3>1
            DEF BootOrderWhole, installVars, history, Whole, NeverWritten
  <2> QED BY <2>4, <2>5, <2>6, <2>7 DEF IInv
<1>d. CASE ScriptStored
  <2>1. /\ pend \in Env /\ env' = pend /\ pend' = NoEnv
        /\ Environments = {pend} /\ Environments' = {pend}
    BY <1>0, <1>d, EnvSet DEF ScriptStored, WriteEnd, WriteInv, Environments
  <2>2. UNCHANGED <<installVars, history, cur, firstBoot>> /\ pc = "store"
        /\ pc' = IF cur = NoSlot THEN "off" ELSE "kernel"
    BY <1>d DEF ScriptStored
  <2>3. TypeOK'
    BY <1>0, <2>1, <2>2 DEF TypeOK, InstallTypeOK, installVars, history
  <2>4. WriteInv' /\ CurInv' /\ BlankInv'
    BY <1>0, <2>1, <2>2 DEF WriteInv, CurInv, BlankInv, TypeOK
  <2>5. InstallInv'
    BY <1>0, <2>1, <2>2 DEF InstallInv, installVars, Idle, Replacing
  <2>6. BootOrderWhole'
    BY <1>0, <2>1, <2>2 DEF BootOrderWhole, installVars, history, Whole
  <2> QED BY <2>3, <2>4, <2>5, <2>6 DEF IInv
<1>e. CASE ChainBroken \/ PowerCycle \/ ComesUp \/ BootFails
  <2>1. /\ UNCHANGED <<installVars, cur, env, pend, firstBoot,
                       losses, provisioned, waived>>
        /\ Environments' = Environments
        /\ \/ pc \in {"off", "dead"} /\ pc' \in {"off", "dead"}
           \/ pc = "kernel" /\ pc' \in {"start", "off"}
    BY <1>e DEF ChainBroken, PowerCycle, ComesUp, BootFails, history, Environments
  <2>2. fails' \in 0 .. FailCap
    BY <1>0, <1>e, TriesAssumption
       DEF ChainBroken, PowerCycle, ComesUp, BootFails, history, TypeOK, FailCap
  <2>3. TypeOK'
    BY <1>0, <2>1, <2>2 DEF TypeOK, InstallTypeOK, installVars
  <2>4. WriteInv' /\ CurInv'
    BY <1>0, <2>1 DEF WriteInv, CurInv
  <2>5. InstallInv'
    BY <1>0, <2>1 DEF InstallInv, installVars, Idle, Replacing
  <2>6. BlankInv' /\ BootOrderWhole'
    BY <1>0, <2>1 DEF BlankInv, BootOrderWhole, installVars, Whole, NeverWritten
  <2> QED BY <2>3, <2>4, <2>5, <2>6 DEF IInv
<1>p. CASE Persist
  <2>1. /\ UNCHANGED <<installVars, history, cur, firstBoot>>
        /\ pc = "start" /\ pc' = "up" /\ rauc = Idle
        /\ env \in Env /\ pend = NoEnv /\ Environments = {env}
        /\ cur \in Slot /\ InOrder(env.order, cur)
    BY <1>0, <1>p, EnvSet DEF Persist, WriteInv, CurInv, InstallInv, Environments
  <2>2. PICK e \in Env : /\ e.order = env.order
                         /\ Environments' = {e}
                         /\ \/ env' = e /\ pend' = NoEnv
                            \/ env' = Corrupt /\ pend' = e
    <3>1. CASE WriteBegin([env EXCEPT !.machineId = TRUE])
      BY <2>1, <3>1, GoodEnvFacts, EnvSet DEF WriteBegin, Environments
    <3>2. CASE UNCHANGED <<env, pend>>
      BY <2>1, <3>2 DEF Environments
    <3> QED BY <1>p, <3>1, <3>2 DEF Persist
  <2>3. TypeOK'
    BY <1>0, <2>1, <2>2 DEF TypeOK, InstallTypeOK, installVars, history
  <2>4. WriteInv' /\ CurInv' /\ BlankInv'
    BY <2>1, <2>2 DEF WriteInv, CurInv, BlankInv
  <2>5. InstallInv'
    BY <1>0, <2>1 DEF InstallInv, installVars, Idle, Replacing
  <2>6. BootOrderWhole'
    BY <1>0, <2>1, <2>2 DEF BootOrderWhole, installVars, history, Whole
  <2> QED BY <2>3, <2>4, <2>5, <2>6 DEF IInv
<1>f. CASE MarkGood
  <2>1. PICK e \in Env : WriteBegin(e) /\ e.order = env.order
    BY <1>a, <1>f, GoodEnvFacts DEF MarkGood
  <2>2. /\ UNCHANGED <<installVars, history, pc, cur, firstBoot>> /\ pc = "up"
        /\ env # Corrupt
    BY <1>f DEF MarkGood
  <2>3. WriteInv' /\ CurInv' /\ BlankInv' /\ Environments' = {e}
        /\ env' \in Env \cup {Corrupt} /\ pend' \in Env \cup {NoEnv}
    BY <1>a, <1>b, <2>1, <2>2
  <2>4. TypeOK'
    BY <1>0, <2>2, <2>3 DEF TypeOK, InstallTypeOK, installVars, history
  <2>5. InstallInv'
    BY <1>0, <1>a, <2>1, <2>2, <2>3 DEF InstallInv, installVars
  <2>6. BootOrderWhole'
    BY <1>0, <1>a, <2>1, <2>2, <2>3 DEF BootOrderWhole, installVars, history, Whole
  <2> QED BY <2>3, <2>4, <2>5, <2>6 DEF IInv
<1>g. CASE StoreDone
  <2>1. /\ env = Corrupt /\ pend \in Env /\ env' = pend /\ pend' = NoEnv
        /\ Environments = {pend} /\ Environments' = {pend}
        /\ UNCHANGED <<installVars, pc, cur, firstBoot, losses, waived, fails>>
        /\ pc = "up"
    BY <1>0, <1>g, EnvSet DEF StoreDone, WriteEnd, WriteInv, Environments
  <2>2. provisioned' \in BOOLEAN
    BY <1>g DEF StoreDone
  <2>3. TypeOK'
    BY <1>0, <2>1, <2>2 DEF TypeOK, InstallTypeOK, installVars
  <2>4. WriteInv' /\ CurInv' /\ BlankInv'
    BY <1>0, <2>1 DEF WriteInv, CurInv, BlankInv
  <2>5. InstallInv'
    BY <1>0, <2>1 DEF InstallInv, installVars
  <2>6. BootOrderWhole'
    BY <1>0, <2>1 DEF BootOrderWhole, installVars, Whole
  <2> QED BY <2>3, <2>4, <2>5, <2>6 DEF IInv
<1>h. CASE BootOther
  <2>1. /\ pc = "up" /\ env # Corrupt /\ Stage("idle")
        /\ UNCHANGED <<installVars, pc, cur, firstBoot, losses, provisioned, fails>>
        /\ waived' = (waived \/ ~Whole(Other(cur)))
        /\ WriteBegin(PrimaryEnv(env, Other(cur)))
    BY <1>h DEF BootOther
  <2>2. /\ PrimaryEnv(env, Other(cur)) \in Env
        /\ \A t \in Slot : InOrder(PrimaryEnv(env, Other(cur)).order, t)
    BY <1>a, <2>1, RaucEnvFacts
  <2>3. /\ WriteInv' /\ CurInv' /\ BlankInv'
        /\ Environments' = {PrimaryEnv(env, Other(cur))}
        /\ env' \in Env \cup {Corrupt} /\ pend' \in Env \cup {NoEnv}
    BY <1>a, <1>b, <2>1, <2>2
  <2>4. TypeOK'
    BY <1>0, <2>1, <2>3 DEF TypeOK, InstallTypeOK, installVars
  <2>5. InstallInv'
    BY <1>0, <2>1 DEF InstallInv, installVars, Stage, Replacing
  <2>6. BootOrderWhole'
    <3>1. ~waived' => Whole(Other(cur)) /\ (Whole(cur) \/ NeverWritten(cur))
      BY <1>0, <1>a, <2>1 DEF BootOrderWhole, NeverWritten
    <3> QED BY <1>a, <2>1, <2>3, <3>1
            DEF BootOrderWhole, installVars, Whole, NeverWritten
  <2> QED BY <2>3, <2>4, <2>5, <2>6 DEF IInv
<1>i. CASE BeginUpdate \/ InstallCheck
  <2>1. /\ UNCHANGED <<diskVars, saved, cut, bootVars, history>> /\ pc = "up"
        /\ Environments' = Environments
    BY <1>i DEF BeginUpdate, InstallCheck, Begin, CheckRejects, CheckAccepts,
                bootVars, Environments
  <2>2. /\ rauc' \in [stage : Stages, target : Slot \cup {NoSlot}, image : Images]
        /\ rauc'.stage \in {"idle", "check", "bad"}
        /\ rauc'.stage # "idle" => rauc'.target \in Slot /\ rauc'.target = Other(cur)
    <3>1. CASE BeginUpdate
      BY <1>0, <2>1, <3>1 DEF BeginUpdate, Begin, Stages, CurInv
    <3>2. CASE InstallCheck
      BY <1>0, <3>2, ImagesAssumption
         DEF InstallCheck, CheckRejects, CheckAccepts, GoTo, Stage, Idle, Stages,
             InstallInv, InstallTypeOK
    <3> QED BY <1>i, <3>1, <3>2
  <2>3. TypeOK'
    BY <1>0, <2>1, <2>2 DEF TypeOK, InstallTypeOK, diskVars, bootVars, history
  <2>4. WriteInv' /\ CurInv'
    BY <1>0, <2>1 DEF WriteInv, CurInv, bootVars
  <2>5. InstallInv'
    BY <2>1, <2>2 DEF InstallInv, bootVars, Replacing
  <2>6. BlankInv' /\ BootOrderWhole'
    BY <1>0, <2>1
       DEF BlankInv, BootOrderWhole, diskVars, bootVars, history, Whole, NeverWritten
  <2> QED BY <2>3, <2>4, <2>5, <2>6 DEF IInv
<1>j. CASE MarkTargetBad
  <2>1. /\ pc = "up" /\ env # Corrupt /\ Stage("bad") /\ GoTo("backup")
        /\ UNCHANGED <<diskVars, saved, cut, history, pc, cur, firstBoot>>
        /\ WriteBegin(BadEnv(env, rauc.target))
    BY <1>j DEF MarkTargetBad
  <2>2. /\ rauc.target \in Slot /\ rauc.target = Other(cur)
        /\ BadEnv(env, rauc.target) \in Env
        /\ \A t \in Slot : InOrder(BadEnv(env, rauc.target).order, t) <=> t = cur
    <3>1. rauc.target \in Slot /\ rauc.target = Other(cur)
      BY <1>0, <2>1 DEF InstallInv, Stage
    <3> QED BY <1>a, <2>1, <3>1, RaucEnvFacts
  <2>3. /\ WriteInv' /\ CurInv' /\ BlankInv'
        /\ Environments' = {BadEnv(env, rauc.target)}
        /\ env' \in Env \cup {Corrupt} /\ pend' \in Env \cup {NoEnv}
    BY <1>a, <1>b, <2>1, <2>2
  <2>4. /\ rauc' \in [stage : Stages, target : Slot \cup {NoSlot}, image : Images]
        /\ rauc'.stage = "backup" /\ rauc'.target = rauc.target
    BY <1>0, <2>1 DEF GoTo, InstallTypeOK, Stages
  <2>5. TypeOK'
    BY <1>0, <2>1, <2>3, <2>4 DEF TypeOK, InstallTypeOK, diskVars, history
  <2>6. InstallInv'
    BY <1>a, <2>1, <2>2, <2>3, <2>4 DEF InstallInv
  <2>7. BootOrderWhole'
    BY <1>0, <1>a, <2>1, <2>2, <2>3 DEF BootOrderWhole, diskVars, history, Whole
  <2> QED BY <2>3, <2>5, <2>6, <2>7 DEF IInv
<1>k. CASE Replace
  <2>1. /\ UNCHANGED <<bootVars, history>> /\ pc = "up" /\ pend = NoEnv
        /\ env \in Env /\ Environments' = Environments /\ Environments = {env}
    BY <1>0, <1>k, EnvSet DEF Replace, bootVars, Environments, WriteInv
  <2>2. TypeOK'
    BY <1>0, <1>k, <2>1, ReplaceFacts DEF TypeOK, bootVars, history
  <2>3. WriteInv' /\ CurInv' /\ BlankInv'
    BY <1>0, <2>1 DEF WriteInv, CurInv, BlankInv, bootVars
  <2>4. InstallInv'
    BY <1>0, <1>k, <2>1, ReplaceFacts DEF InstallInv, bootVars, Replacing
  <2>5. BootOrderWhole'
    <3>1. /\ rauc.target \in Slot /\ ~InOrder(env.order, rauc.target)
          /\ \A s \in Slot \ {rauc.target} :
                kernel'[s] = kernel[s] /\ rootfs'[s] = rootfs[s]
      BY <1>0, <1>k, <2>1, ReplaceFacts DEF InstallInv, Replacing
    <3> QED BY <1>0, <2>1, <3>1 DEF BootOrderWhole, Whole, history, bootVars
  <2> QED BY <2>2, <2>3, <2>4, <2>5 DEF IInv
<1>l. CASE UpdateFails
  <2>1. /\ UNCHANGED <<diskVars, bootVars, history>> /\ rauc' = Idle
        /\ saved' = "nothing" /\ cut' \in BOOLEAN
        /\ Environments' = Environments
    BY <1>l DEF UpdateFails, InstallFails, InstallStops, bootVars, Environments
  <2>2. TypeOK'
    BY <1>0, <2>1, ImagesAssumption
       DEF TypeOK, InstallTypeOK, diskVars, bootVars, history, Idle, Stages
  <2>3. WriteInv' /\ CurInv'
    BY <1>0, <2>1 DEF WriteInv, CurInv, bootVars
  <2>4. InstallInv'
    BY <2>1 DEF InstallInv, Idle, Replacing
  <2>5. BlankInv' /\ BootOrderWhole'
    BY <1>0, <2>1
       DEF BlankInv, BootOrderWhole, diskVars, bootVars, history, Whole, NeverWritten
  <2> QED BY <2>2, <2>3, <2>4, <2>5 DEF IInv
<1>m. CASE Activate
  <2>1. /\ pc = "up" /\ env # Corrupt /\ Stage("activate") /\ rauc' = Idle
        /\ UNCHANGED <<diskVars, saved, cut, history, pc, cur, firstBoot>>
        /\ WriteBegin(PrimaryEnv(env, rauc.target))
    BY <1>m DEF Activate
  <2>2. /\ rauc.target \in Slot /\ rauc.target = Other(cur)
        /\ rauc.image \in Images /\ Whole(rauc.target)
    BY <1>0, <2>1 DEF InstallInv, InstallTypeOK, Stage, Whole
  <2>3. /\ PrimaryEnv(env, rauc.target) \in Env
        /\ \A t \in Slot : InOrder(PrimaryEnv(env, rauc.target).order, t)
    BY <1>a, <2>1, <2>2, RaucEnvFacts
  <2>4. /\ WriteInv' /\ CurInv' /\ BlankInv'
        /\ Environments' = {PrimaryEnv(env, rauc.target)}
        /\ env' \in Env \cup {Corrupt} /\ pend' \in Env \cup {NoEnv}
    BY <1>a, <1>b, <2>1, <2>3
  <2>5. TypeOK'
    BY <1>0, <2>1, <2>4, ImagesAssumption
       DEF TypeOK, InstallTypeOK, diskVars, history, Idle, Stages
  <2>6. InstallInv'
    BY <2>1 DEF InstallInv, Idle, Replacing
  <2>7. BootOrderWhole'
    <3>1. ~waived => Whole(cur) \/ NeverWritten(cur)
      BY <1>0, <1>a, <2>1 DEF BootOrderWhole, NeverWritten
    <3> QED BY <1>a, <2>1, <2>2, <2>4, <3>1
            DEF BootOrderWhole, diskVars, history, Whole, NeverWritten
  <2> QED BY <2>4, <2>5, <2>6, <2>7 DEF IInv
<1>n. CASE Reboot \/ PowerLoss
  <2>1. /\ UNCHANGED diskVars /\ rauc' = Idle /\ saved' = "nothing"
        /\ cut' \in BOOLEAN /\ pc' = "off" /\ cur' = NoSlot /\ env' = env
        /\ pend' = NoEnv /\ UNCHANGED <<firstBoot, provisioned>>
        /\ Environments' \subseteq Environments
    BY <1>n DEF Reboot, PowerLoss, InstallStops, history, Environments
  <2>2. /\ losses' \in 0 .. MaxLosses /\ fails' \in 0 .. FailCap
        /\ waived' \in BOOLEAN /\ (~waived' => ~waived)
        /\ (~waived' /\ env = Corrupt => pend = NoEnv)
    <3>1. CASE Reboot
      BY <1>0, <3>1 DEF Reboot, history, TypeOK
    <3>2. CASE PowerLoss
      <4>1. losses' \in 0 .. MaxLosses /\ fails' \in 0 .. FailCap
        BY <1>0, <3>2, TriesAssumption DEF PowerLoss, TypeOK, FailCap
      <4>2. /\ waived' \in BOOLEAN /\ (~waived' => ~waived)
            /\ (~waived' => pend = NoEnv)
        BY <3>2 DEF PowerLoss
      <4> QED BY <4>1, <4>2
    <3> QED BY <1>n, <3>1, <3>2
  <2>3. TypeOK'
    BY <1>0, <2>1, <2>2, ImagesAssumption
       DEF TypeOK, InstallTypeOK, diskVars, Idle, Stages
  <2>4. WriteInv' /\ CurInv'
    BY <2>1 DEF WriteInv, CurInv
  <2>5. InstallInv'
    BY <2>1 DEF InstallInv, Idle, Replacing
  <2>6. BlankInv'
    BY <1>0, <2>1, <2>2 DEF BlankInv, diskVars, Whole, NeverWritten
  <2>7. BootOrderWhole'
    BY <1>0, <2>1, <2>2 DEF BootOrderWhole, diskVars, Whole
  <2> QED BY <2>3, <2>4, <2>5, <2>6, <2>7 DEF IInv
<1>o. CASE UNCHANGED vars
  BY <1>0, <1>o
     DEF IInv, TypeOK, InstallTypeOK, WriteInv, CurInv, InstallInv, BlankInv,
         BootOrderWhole, Environments, Whole, NeverWritten, vars, installVars,
         bootVars, history
<1> QED BY <1>c, <1>d, <1>e, <1>f, <1>g, <1>h, <1>i, <1>j, <1>k, <1>l, <1>m, <1>n, <1>o, <1>p
        DEF Next, Boot, Running

\* The invariant holds in every reachable state.
THEOREM Invariance == Spec => []IInv
BY InitIInv, StepIInv, PTL DEF Spec

-----------------------------------------------------------------------------
\* Every variable keeps its type; in particular no attempt counter of the boot
\* script goes below zero or above Tries and BOOT_ORDER never gets empty.
THEOREM TypeCorrect == Spec => []TypeOK
<1>1. IInv => TypeOK
  BY DEF IInv
<1> QED BY <1>1, Invariance, PTL

\* The slot the system runs from is always in BOOT_ORDER.
THEOREM RunningSlotStays == Spec => []RunningSlotInOrder
<1>1. IInv => RunningSlotInOrder
  BY DEF IInv, CurInv, RunningSlotInOrder
<1> QED BY <1>1, Invariance, PTL

\* No power loss during an update, wherever it falls, leaves a half-written
\* slot in BOOT_ORDER, as long as the environment itself survived.
THEOREM OrderStaysWhole == Spec => []BootOrderWhole
<1>1. IInv => BootOrderWhole
  BY DEF IInv
<1> QED BY <1>1, Invariance, PTL

-----------------------------------------------------------------------------
(***************************************************************************)
(* UBootBoot implements ABUpdate.                                          *)
(***************************************************************************)

\* The script only chooses a slot whose kernel loads.
ChosenInv ==
    pc \in {"store", "kernel"} /\ cur \in Slot => kernel[cur] # Empty

\* The kernel the script loaded stays until it runs: a slot is only written by
\* the running system, and only the one it does not run from.
LEMMA ChosenStep == IInv /\ ChosenInv /\ [Next]_vars => ChosenInv'
<1> SUFFICES ASSUME IInv, ChosenInv, [Next]_vars PROVE ChosenInv'
  OBVIOUS
<1>1. CASE Script
  <2>1. PICK ok \in LoadResults :
          \/ \E s \in Slot : ok[s] /\ cur' = s
          \/ cur' = NoSlot
    BY <1>1 DEF Script
  <2>2. \A s \in Slot : ok[s] => kernel[s] # Empty
    BY DEF LoadResults
  <2> QED BY <1>1, <2>1, <2>2, SlotFacts DEF Script, ChosenInv, installVars
<1>2. CASE ScriptStored
  BY <1>2 DEF ScriptStored, ChosenInv, installVars
<1>3. CASE ChainBroken \/ PowerCycle \/ ComesUp \/ BootFails \/ Persist
  BY <1>3 DEF ChainBroken, PowerCycle, ComesUp, BootFails, Persist, ChosenInv
<1>4. CASE Reboot \/ PowerLoss
  BY <1>4 DEF Reboot, PowerLoss, ChosenInv
<1>5. CASE Running /\ ~Reboot
  <2>1. pc' = "up"
    BY <1>5
       DEF Running, StoreDone, MarkGood, BootOther, BeginUpdate, InstallCheck,
           MarkTargetBad, Replace, UpdateFails, Activate, bootVars
  <2> QED BY <2>1 DEF ChosenInv
<1>6. CASE UNCHANGED vars
  BY <1>6 DEF ChosenInv, vars, bootVars, installVars
<1> QED BY <1>1, <1>2, <1>3, <1>4, <1>5, <1>6 DEF Next, Boot

\* A slot about to be started holds a complete release.
LEMMA StartedWhole ==
    ASSUME IInv, ChosenInv, pc = "kernel", ~waived
    PROVE  cur \in Slot /\ Whole(cur)
<1>1. /\ cur \in Slot /\ env \in Env /\ pend = NoEnv
      /\ \A e \in Environments : InOrder(e.order, cur)
  BY DEF IInv, CurInv, WriteInv
<1>2. Environments = {env}
  BY <1>1, EnvSet DEF Environments
<1> QED BY <1>1, <1>2 DEF IInv, BootOrderWhole, ChosenInv

Holds == [s \in Slot |-> IF Whole(s) THEN kernel[s] ELSE Empty]
RunningSlot == IF pc \in {"start", "up"} THEN cur ELSE NoSlot

\* A freshly flashed disk is an initial state of ABUpdate: slot A holds a
\* release and nothing runs.
LEMMA RefinementInit == Init => AB!AbsInit
<1> SUFFICES ASSUME Init PROVE AB!AbsInit
  OBVIOUS
<1>1. Holds \in [Slot -> Images \cup {Empty}]
  BY DEF Holds, Whole
<1>2. Holds["A"] # Empty
  BY ImagesAssumption DEF Holds, Whole, Init, InstallInit, Slot
<1>3. RunningSlot = NoSlot /\ (~waived) = TRUE
  BY DEF RunningSlot, Init
<1> QED BY <1>1, <1>2, <1>3, SlotFacts DEF AB!AbsInit, Holds, RunningSlot

\* Every step of booting and updating is a step of ABUpdate or changes nothing
\* that ABUpdate sees.
LEMMA RefinementStep ==
    IInv /\ ChosenInv /\ [Next]_vars => [AB!AbsNext]_(AB!absVars)
<1> SUFFICES ASSUME IInv, ChosenInv, [Next]_vars
             PROVE  [AB!AbsNext]_(AB!absVars)
  OBVIOUS
<1> USE SlotFacts
<1>0. CASE waived'
  BY <1>0 DEF AB!AbsNext
<1>1. ASSUME ~waived', ~waived, Holds' = Holds, RunningSlot' = RunningSlot
      PROVE  UNCHANGED AB!absVars
  BY <1>1 DEF AB!absVars, Holds, RunningSlot
<1>2. ASSUME Running, ~Replace, ~Reboot
      PROVE  UNCHANGED <<kernel, rootfs, pc, cur>> /\ (waived => waived')
  <2>1. CASE StoreDone \/ MarkGood
    BY <2>1 DEF StoreDone, MarkGood, installVars, history
  <2>2. CASE BootOther
    <3>1. waived => waived'
      BY <2>2 DEF BootOther
    <3> QED BY <2>2, <3>1 DEF BootOther, installVars
  <2>3. CASE BeginUpdate \/ InstallCheck
    BY <2>3 DEF BeginUpdate, InstallCheck, Begin, CheckRejects, CheckAccepts,
                bootVars, diskVars, history
  <2>4. CASE MarkTargetBad \/ Activate
    BY <2>4 DEF MarkTargetBad, Activate, diskVars, history
  <2>5. CASE UpdateFails
    BY <2>5 DEF UpdateFails, InstallFails, InstallStops, bootVars, diskVars, history
  <2> QED BY <1>2, <2>1, <2>2, <2>3, <2>4, <2>5 DEF Running
<1>3. CASE ~waived' /\ Running /\ ~Replace /\ ~Reboot
  BY <1>1, <1>2, <1>3 DEF Holds, RunningSlot, Whole
<1>4. CASE ~waived' /\ (Script \/ ScriptStored \/ ChainBroken \/ PowerCycle \/ BootFails)
  <2>1. /\ UNCHANGED <<kernel, rootfs, waived>>
        /\ pc \notin {"start", "up"} /\ pc' \notin {"start", "up"}
    BY <1>4 DEF Script, ScriptStored, ChainBroken, PowerCycle, BootFails,
                installVars, history
  <2> QED BY <1>1, <1>4, <2>1 DEF Holds, RunningSlot, Whole
<1>5. CASE ~waived' /\ Persist
  BY <1>1, <1>5 DEF Persist, Holds, RunningSlot, Whole, installVars, history
<1>6. CASE ~waived' /\ ComesUp
  <2>1. /\ UNCHANGED <<kernel, rootfs, cur, waived>> /\ pc = "kernel" /\ pc' = "start"
    BY <1>6 DEF ComesUp, installVars
  <2>2. cur \in Slot /\ Whole(cur)
    BY <1>6, <2>1, StartedWhole
  <2>3. /\ Holds' = Holds /\ Holds[cur] \in Images
        /\ RunningSlot = NoSlot /\ RunningSlot' = cur
    BY <2>1, <2>2 DEF Holds, RunningSlot, Whole
  <2>4. (~waived) = TRUE /\ (~waived)' = TRUE
    BY <1>6, <2>1
  <2>5. AB!Start(cur)
    BY <2>3 DEF AB!Start, Holds, RunningSlot
  <2> QED BY <2>2, <2>4, <2>5 DEF AB!AbsNext
<1>7. CASE ~waived' /\ Replace
  <2>1. /\ UNCHANGED <<pc, cur, waived>> /\ pc = "up"
        /\ cur \in Slot /\ rauc.target \in Slot /\ rauc.target = Other(cur)
        /\ \A s \in Slot \ {rauc.target} :
              kernel'[s] = kernel[s] /\ rootfs'[s] = rootfs[s]
    BY <1>7, ReplaceFacts
       DEF Replace, bootVars, history, IInv, CurInv, InstallInv, Replacing
  <2>2. PICK r \in Images \cup {Empty} : Holds'[rauc.target] = r
    BY <2>1 DEF Holds, Whole
  <2>3. Holds' = [Holds EXCEPT ![rauc.target] = r]
    <3>1. \A s \in Slot \ {rauc.target} : Holds'[s] = Holds[s]
      BY <2>1 DEF Holds, Whole
    <3>2. /\ Holds' = [s \in Slot |-> Holds'[s]]
          /\ Holds = [s \in Slot |-> Holds[s]]
      BY DEF Holds
    <3> HIDE DEF Holds
    <3> QED BY <2>1, <2>2, <3>1, <3>2
  <2>4. RunningSlot \in Slot \ {rauc.target} /\ RunningSlot' = RunningSlot
    BY <2>1 DEF RunningSlot
  <2>5. (~waived) = TRUE /\ (~waived)' = TRUE
    BY <1>7, <2>1
  <2>6. PICK t \in Slot : t = rauc.target
    BY <2>1
  <2>7. AB!Rewrite(t)
    BY <2>2, <2>3, <2>4, <2>6 DEF AB!Rewrite, Holds, RunningSlot
  <2> QED BY <2>5, <2>7 DEF AB!AbsNext
<1>8. CASE ~waived' /\ (Reboot \/ PowerLoss)
  <2>1. UNCHANGED <<kernel, rootfs>> /\ pc' = "off" /\ ~waived
    <3>1. ~waived
      <4>1. CASE PowerLoss
        BY <1>8, <4>1 DEF PowerLoss
      <4>2. CASE Reboot
        BY <1>8, <4>2 DEF Reboot, history
      <4> QED BY <1>8, <4>1, <4>2
    <3> QED BY <1>8, <3>1 DEF Reboot, PowerLoss, InstallStops, diskVars
  <2>2. Holds' = Holds /\ RunningSlot' = NoSlot
    BY <2>1 DEF Holds, RunningSlot, Whole
  <2>3. (~waived) = TRUE /\ (~waived)' = TRUE
    BY <1>8, <2>1
  <2>4. AB!Stop
    BY <2>2 DEF AB!Stop, Holds, RunningSlot
  <2> QED BY <2>3, <2>4 DEF AB!AbsNext
<1>9. CASE ~waived' /\ UNCHANGED vars
  BY <1>1, <1>9 DEF Holds, RunningSlot, Whole, vars, installVars, bootVars, history
<1> QED BY <1>0, <1>3, <1>4, <1>5, <1>6, <1>7, <1>8, <1>9 DEF Next, Boot, Running

\* Booting and updating with U-Boot keep the promise of ABUpdate: the system
\* only ever runs from a complete release and an update only ever writes the
\* other slot.
THEOREM Refinement == Spec => ImplementsABUpdate
<1>1. Init => ChosenInv
  BY DEF Init, ChosenInv
<1>2. Spec => []ChosenInv
  BY <1>1, ChosenStep, Invariance, PTL DEF Spec
<1> QED BY <1>2, Invariance, RefinementInit, RefinementStep, PTL
        DEF Spec, ImplementsABUpdate, AB!AbsSpec

-----------------------------------------------------------------------------
(***************************************************************************)
(* A machine is taken for new only once.                                   *)
(***************************************************************************)

\* A machine id that was stored is in whatever a boot may read.
IdInv ==
    ~waived /\ provisioned =>
        /\ Environments # {}
        /\ \A e \in Environments : e.machineId = TRUE

\* Every environment built from another one keeps or sets the machine id.
LEMMA IdKept ==
    ASSUME NEW e \in Env, NEW s \in Slot
    PROVE  /\ \A ok \in [Slot -> BOOLEAN] : Spend(e, ok).machineId = e.machineId
           /\ ResetTries(e).machineId = e.machineId
           /\ GoodEnv(e, s).machineId = e.machineId
           /\ BadEnv(e, s).machineId = e.machineId
           /\ PrimaryEnv(e, s).machineId = e.machineId
           /\ [e EXCEPT !.machineId = TRUE].machineId = TRUE
BY DEF Spend, ResetTries, GoodEnv, BadEnv, PrimaryEnv, Env

\* No write of the environment, by the script, hassos-persists or RAUC, loses a
\* machine id that has been stored.
LEMMA IdStep ==
    IInv /\ IdInv /\ FirstBootOnce /\ [Next]_vars => IdInv' /\ FirstBootOnce'
<1> SUFFICES ASSUME IInv, IdInv, FirstBootOnce, [Next]_vars
             PROVE  IdInv' /\ FirstBootOnce'
  OBVIOUS
<1> USE SlotFacts
<1>0. /\ TypeOK /\ WriteInv /\ CurInv /\ InstallInv
      /\ provisioned \in BOOLEAN /\ waived \in BOOLEAN /\ firstBoot \in BOOLEAN
  BY DEF IInv, TypeOK
<1>1. CASE Script
  <2>1. /\ pc = "off" /\ pend = NoEnv /\ env' = Corrupt
        /\ firstBoot' = ~Imported.machineId
        /\ UNCHANGED <<provisioned, waived>>
    BY <1>0, <1>1 DEF Script, WriteBegin, WriteInv, history
  <2>2. /\ Imported \in Env /\ pend' \in Env
        /\ pend'.machineId = Imported.machineId
    <3>1. PICK ok \in LoadResults :
            WriteBegin(Spend(Imported, ok)) \/ WriteBegin(ResetTries(Imported))
      BY <1>1 DEF Script
    <3>2. ok \in [Slot -> BOOLEAN]
      BY DEF LoadResults
    <3> QED BY <1>0, <3>1, <3>2, ImportedFacts, ScriptEnvFacts, IdKept DEF WriteBegin
  <2>3. Environments' = {pend'}
    BY <2>1, <2>2, EnvSet DEF Environments
  <2>4. ~waived /\ provisioned => Imported.machineId = TRUE
    <3>1. CASE env \in Env
      BY <1>0, <2>1, <3>1, EnvSet, ImportedFacts DEF IdInv, Environments
    <3>2. CASE env = Corrupt
      BY <2>1, <3>2, EnvSet DEF IdInv, Environments
    <3> QED BY <1>0, <3>1, <3>2 DEF TypeOK
  <2> QED BY <2>1, <2>2, <2>3, <2>4 DEF IdInv, FirstBootOnce
<1>2. CASE ScriptStored
  <2>1. /\ Environments = {pend} /\ Environments' = {pend}
        /\ UNCHANGED <<provisioned, waived, firstBoot>> /\ pc = "store"
    BY <1>0, <1>2, EnvSet
       DEF ScriptStored, WriteEnd, WriteInv, Environments, history
  <2> QED BY <2>1 DEF IdInv, FirstBootOnce
<1>3. CASE ChainBroken \/ PowerCycle \/ ComesUp \/ BootFails
  <2>1. /\ UNCHANGED <<env, pend, provisioned, waived, firstBoot>>
        /\ pc' \notin {"store", "kernel"}
    BY <1>3 DEF ChainBroken, PowerCycle, ComesUp, BootFails, history
  <2> QED BY <2>1 DEF IdInv, FirstBootOnce, Environments
<1>4. CASE StoreDone
  <2>1. /\ Environments = {pend} /\ Environments' = {pend} /\ pend \in Env
        /\ provisioned' = (provisioned \/ pend.machineId)
        /\ UNCHANGED <<pc, waived>> /\ pc = "up"
    BY <1>0, <1>4, EnvSet, EnvAssumption
       DEF StoreDone, WriteEnd, WriteInv, Environments
  <2>2. pend.machineId \in BOOLEAN
    BY <2>1 DEF Env
  <2>3. ~waived /\ provisioned' => pend.machineId = TRUE
    BY <1>0, <2>1, <2>2 DEF IdInv
  <2> QED BY <2>1, <2>3 DEF IdInv, FirstBootOnce
\* A running system rewrites the environment.
<1>5. ASSUME pc \in {"start", "up"}, env \in Env, pend = NoEnv,
             NEW e \in Env, WriteBegin(e),
             e.machineId = env.machineId \/ e.machineId = TRUE,
             pc' = "up", UNCHANGED provisioned, waived => waived'
      PROVE  IdInv' /\ FirstBootOnce'
  <2>1. Environments = {env} /\ Environments' = {e}
    BY <1>5, EnvSet DEF WriteBegin, Environments
  <2> QED BY <1>5, <2>1 DEF IdInv, FirstBootOnce
<1>6. CASE Persist
  <2>1. pc = "start" /\ env \in Env /\ pend = NoEnv /\ pc' = "up"
        /\ UNCHANGED <<provisioned, waived>>
    BY <1>0, <1>6 DEF Persist, WriteInv, history
  <2>2. CASE WriteBegin([env EXCEPT !.machineId = TRUE])
    <3>1. PICK e \in Env : WriteBegin(e) /\ e.machineId = TRUE
      BY <2>1, <2>2, GoodEnvFacts, IdKept
    <3> QED BY <1>5, <2>1, <3>1
  <2>3. CASE UNCHANGED <<env, pend>>
    BY <2>1, <2>3 DEF IdInv, FirstBootOnce, Environments
  <2> QED BY <1>6, <2>2, <2>3 DEF Persist
<1>7. CASE MarkGood \/ BootOther \/ MarkTargetBad \/ Activate
  <2>1. /\ pc = "up" /\ pc' = "up" /\ env \in Env /\ pend = NoEnv
        /\ cur \in Slot /\ InOrder(env.order, cur) /\ UNCHANGED provisioned
    BY <1>0, <1>7, EnvSet
       DEF MarkGood, BootOther, MarkTargetBad, Activate, WriteInv, CurInv,
           Environments, history
  <2>2. waived => waived'
    <3>1. CASE BootOther
      BY <3>1 DEF BootOther
    <3>2. CASE MarkGood \/ MarkTargetBad \/ Activate
      BY <3>2 DEF MarkGood, MarkTargetBad, Activate, history
    <3> QED BY <1>7, <3>1, <3>2
  <2>3. CASE MarkGood
    <3>1. PICK e \in Env : WriteBegin(e) /\ e.machineId = env.machineId
      BY <2>1, <2>3, GoodEnvFacts, IdKept DEF MarkGood
    <3> QED BY <1>5, <2>1, <2>2, <3>1
  <2>4. CASE BootOther
    <3>1. PICK e \in Env : WriteBegin(e) /\ e.machineId = env.machineId
      BY <2>1, <2>4, RaucEnvFacts, IdKept DEF BootOther
    <3> QED BY <1>5, <2>1, <2>2, <3>1
  <2>5. CASE MarkTargetBad \/ Activate
    <3>1. rauc.target \in Slot /\ rauc.target = Other(cur)
      BY <1>0, <2>5 DEF MarkTargetBad, Activate, InstallInv, Stage
    <3>2. PICK e \in Env : WriteBegin(e) /\ e.machineId = env.machineId
      BY <2>1, <2>5, <3>1, RaucEnvFacts, IdKept DEF MarkTargetBad, Activate
    <3> QED BY <1>5, <2>1, <2>2, <3>2
  <2> QED BY <1>7, <2>3, <2>4, <2>5
<1>8. CASE BeginUpdate \/ InstallCheck \/ Replace \/ UpdateFails
  <2>1. UNCHANGED <<bootVars, history>> /\ pc = "up"
    BY <1>8 DEF BeginUpdate, InstallCheck, Replace, UpdateFails
  <2> QED BY <2>1 DEF IdInv, FirstBootOnce, Environments, bootVars, history
<1>9. CASE Reboot
  BY <1>9 DEF Reboot, IdInv, FirstBootOnce, Environments, history
<1>10. CASE PowerLoss
  <2>1. /\ pc' = "off" /\ env' = env /\ pend' = NoEnv /\ UNCHANGED provisioned
        /\ ~waived' => ~waived /\ pend = NoEnv
    BY <1>10 DEF PowerLoss
  <2> QED BY <2>1 DEF IdInv, FirstBootOnce, Environments
<1>11. CASE UNCHANGED vars
  BY <1>11 DEF IdInv, FirstBootOnce, Environments, vars, bootVars, history
<1> QED BY <1>1, <1>2, <1>3, <1>4, <1>6, <1>7, <1>8, <1>9, <1>10, <1>11
        DEF Next, Boot, Running

\* A machine that has stored its id is never again taken for a new one, unless
\* a power loss tore the environment.
THEOREM FirstBootHappensOnce == Spec => []FirstBootOnce
<1>1. Init => IdInv /\ FirstBootOnce
  BY DEF Init, IdInv, FirstBootOnce
<1>2. Spec => [](IdInv /\ FirstBootOnce)
  BY <1>1, IdStep, Invariance, PTL DEF Spec
<1> QED BY <1>2, PTL
-----------------------------------------------------------------------------
(***************************************************************************)
(* The parts both slots share.                                             *)
(***************************************************************************)

\* Unless an installation ended inside the steps that replace them: which of
\* the shared parts are complete at which stage, and where the owner's files are.
SharedInv ==
    ~cut =>
        /\ rauc.stage \notin {"config", "copy"} => bootfs = TRUE
        /\ rauc.stage # "splWrite" => spl = TRUE
        /\ rauc.stage \notin {"copy", "restore"} => settings = "owner"
        /\ rauc.stage \in {"config", "copy", "restore"} => saved = "owner"

\* install_boot and install_spl go through their stages in order; whatever ends
\* them early sets cut.
LEMMA SharedStep == IInv /\ SharedInv /\ [Next]_vars => SharedInv'
<1> SUFFICES ASSUME IInv, SharedInv, [Next]_vars PROVE SharedInv'
  OBVIOUS
<1> USE DEF Stage
<1>0. rauc \in [stage : Stages, target : Slot \cup {NoSlot}, image : Images]
  BY DEF IInv, TypeOK, InstallTypeOK
<1>1. ASSUME NEW st, GoTo(st) PROVE rauc'.stage = st
  BY <1>0, <1>1 DEF GoTo
<1>2. Idle.stage = "idle"
  BY DEF Idle
<1>3. ASSUME UNCHANGED installVars PROVE SharedInv'
  BY <1>3 DEF installVars, SharedInv
<1>4. CASE Boot \/ PowerCycle \/ StoreDone \/ MarkGood \/ BootOther \/ UNCHANGED vars
  BY <1>3, <1>4
     DEF Boot, Script, ScriptStored, ChainBroken, ComesUp, BootFails, Persist, PowerCycle,
         StoreDone, MarkGood, BootOther, vars
\* An installation moves outside the hook.
<1>5. CASE BeginUpdate \/ InstallCheck \/ MarkTargetBad \/ Activate
  <2>1. /\ UNCHANGED <<bootfs, spl, settings, saved, cut>>
        /\ rauc.stage \in {"idle", "check", "bad", "activate"}
        /\ rauc'.stage \in {"idle", "check", "bad", "backup"}
    <3>1. CASE BeginUpdate
      BY <3>1 DEF BeginUpdate, Begin, diskVars
    <3>2. CASE InstallCheck
      BY <1>1, <1>2, <3>2 DEF InstallCheck, CheckRejects, CheckAccepts, diskVars
    <3>3. CASE MarkTargetBad
      BY <1>1, <3>3 DEF MarkTargetBad, diskVars
    <3>4. CASE Activate
      BY <1>2, <3>4 DEF Activate, diskVars
    <3> QED BY <1>5, <3>1, <3>2, <3>3, <3>4
  <2> QED BY <2>1 DEF SharedInv
<1>6. CASE UpdateFails \/ Reboot \/ PowerLoss
  <2>1. InstallStops
    BY <1>6 DEF UpdateFails, InstallFails, Reboot, PowerLoss
  <2>2. ~cut' => ~cut /\ rauc.stage \notin Sharing
    BY <2>1 DEF InstallStops
  <2> QED BY <1>2, <2>1, <2>2 DEF InstallStops, SharedInv, Sharing, diskVars
<1>7. CASE Replace
  <2>1. CASE BootBackup
    BY <1>1, <2>1 DEF BootBackup, SharedInv
  <2>2. CASE BootCopyConfig
    BY <1>1, <2>2 DEF BootCopyConfig, SharedInv
  <2>3. CASE BootCopy
    BY <1>1, <2>3 DEF BootCopy, SharedInv
  <2>4. CASE BootRestore
    BY <1>1, <2>4 DEF BootRestore, SharedInv
  <2>5. CASE BootRestoreEnv
    BY <1>1, <2>5 DEF BootRestoreEnv, SharedInv, diskVars
  <2>6. CASE KernelBegin \/ KernelEnd \/ RootfsBegin
    BY <1>1, <2>6 DEF KernelBegin, KernelEnd, RootfsBegin, SharedInv
  <2>7. CASE RootfsEnd
    <3>1. rauc'.stage \in {"spl", "activate"}
      BY <1>1, <2>7 DEF RootfsEnd
    <3> QED BY <2>7, <3>1 DEF RootfsEnd, SharedInv
  <2>8. CASE SplBegin \/ SplEnd
    BY <1>1, <2>8 DEF SplBegin, SplEnd, SharedInv
  <2> QED BY <1>7, <2>1, <2>2, <2>3, <2>4, <2>5, <2>6, <2>7, <2>8 DEF Replace, InstallStep
<1> QED BY <1>4, <1>5, <1>6, <1>7 DEF Next, Running

\* Outside the steps that replace them the boot partition and the SPL are
\* complete and the owner's *.txt files are in place.
THEOREM BootPartitionStays == Spec => []BootPartitionKept
<1>1. Init => SharedInv
  BY DEF Init, InstallInit, SharedInv, Idle
<1>2. SharedInv => BootPartitionKept
  BY DEF SharedInv, BootPartitionKept, BootChainWhole, Sharing
<1> QED BY <1>1, <1>2, SharedStep, Invariance, PTL DEF Spec

-----------------------------------------------------------------------------
(***************************************************************************)
(* Boot attempts in vain.                                                  *)
(***************************************************************************)

\* The environment the next run of the script works with.
Upcoming == IF pend = NoEnv THEN Imported ELSE pend

\* A slot that comes up and that the script knows of.
Reachable(g) == Bootable(g) /\ InOrder(Upcoming.order, g)

\* The kernel of slot s has been chosen and has not failed yet.
Trying(s) == IF pc \in {"store", "kernel"} /\ cur = s THEN 1 ELSE 0

\* The kernels started in vain and the attempts the other slot has left add up
\* to at most one round while a reset of the attempts is still to come, because
\* the slot that comes up has none left, and to two rounds otherwise.
RetryInv ==
    /\ pc \in {"start", "up"} => fails = 0
    /\ \A g \in Slot : Reachable(g) =>
         /\ fails <= 2 * Tries
         /\ Trying(g) = 0 =>
              fails + Upcoming.left[Other(g)] + Trying(Other(g))
                 <= IF Upcoming.left[g] = 0 THEN Tries ELSE 2 * Tries

\* The loop settles on one slot, and not past a slot that loads and has attempts
\* left.
LEMMA AttemptFacts ==
    ASSUME NEW e \in Env, NEW ok \in [Slot -> BOOLEAN], NEW g \in Slot,
           InOrder(e.order, g), ok[g]
    PROVE  /\ Attempts(e, ok, g) /\ Attempts(e, ok, Other(g)) => ~ok[Other(g)]
           /\ e.left[g] > 0 =>
                Attempts(e, ok, g) \/ (Attempts(e, ok, Other(g)) /\ ok[Other(g)])
<1>0. PICK b \in Slot : b = Other(g) /\ g # b
  BY SlotFacts
<1>1. e.order \in Orders /\ e.left \in [Slot -> 0 .. Tries]
  BY DEF Env
<1>2. DOMAIN e.order \in {1 .. 1, 1 .. 2}
  BY <1>1 DEF Orders
<1>3. ~(Attempts(e, ok, g) /\ Attempts(e, ok, b) /\ ok[b])
  <2> SUFFICES ASSUME Attempts(e, ok, g), Attempts(e, ok, b), ok[b] PROVE FALSE
    OBVIOUS
  <2>1. PICK i \in DOMAIN e.order :
          /\ e.order[i] = g /\ e.left[g] > 0
          /\ \A j \in 1 .. i - 1 : ~(e.left[e.order[j]] > 0 /\ ok[e.order[j]])
    BY DEF Attempts
  <2>2. PICK k \in DOMAIN e.order :
          /\ e.order[k] = b /\ e.left[b] > 0
          /\ \A j \in 1 .. k - 1 : ~(e.left[e.order[j]] > 0 /\ ok[e.order[j]])
    BY DEF Attempts
  <2>3. i \in Nat /\ k \in Nat /\ i >= 1 /\ k >= 1
    BY <1>2
  <2>4. CASE i < k
    <3>1. i \in 1 .. k - 1
      BY <2>3, <2>4
    <3> QED BY <2>1, <2>2, <3>1
  <2>5. CASE k < i
    <3>1. k \in 1 .. i - 1
      BY <2>3, <2>5
    <3> QED BY <2>1, <2>2, <3>1
  <2>6. CASE i = k
    BY <1>0, <2>1, <2>2, <2>6
  <2> QED BY <2>3, <2>4, <2>5, <2>6
<1>4. ASSUME e.left[g] > 0
      PROVE  Attempts(e, ok, g) \/ (Attempts(e, ok, b) /\ ok[b])
  <2>1. PICK i \in DOMAIN e.order : e.order[i] = g
    BY DEF InOrder
  <2>2. CASE i = 1
    BY <1>4, <2>1, <2>2 DEF Attempts
  <2>3. CASE i = 2
    <3>1. 1 \in DOMAIN e.order /\ e.order[1] \in Slot
      BY <1>1, <1>2, <2>1, <2>3 DEF Orders, Slot
    <3>2. CASE e.left[e.order[1]] > 0 /\ ok[e.order[1]]
      <4>1. Attempts(e, ok, e.order[1])
        BY <3>1, <3>2 DEF Attempts
      <4>2. e.order[1] = g \/ e.order[1] = b
        BY <1>0, <3>1, SlotFacts
      <4> QED BY <3>2, <4>1, <4>2
    <3>3. CASE ~(e.left[e.order[1]] > 0 /\ ok[e.order[1]])
      <4>1. \A j \in 1 .. 2 - 1 : j = 1
        OBVIOUS
      <4> QED BY <1>4, <2>1, <2>3, <3>3, <4>1 DEF Attempts
    <3> QED BY <3>2, <3>3
  <2> QED BY <1>2, <2>1, <2>2, <2>3
<1> QED BY <1>0, <1>3, <1>4

\* What the script stores: an attempt less for every slot it attempted, or all
\* attempts again.
LEMMA SpentFacts ==
    ASSUME NEW e \in Env, NEW ok \in [Slot -> BOOLEAN], NEW s \in Slot
    PROVE  /\ e.left[s] \in 0 .. Tries
           /\ Attempts(e, ok, s) => Spend(e, ok).left[s] = e.left[s] - 1 /\ e.left[s] > 0
           /\ ~Attempts(e, ok, s) => Spend(e, ok).left[s] = e.left[s]
           /\ ResetTries(e).left[s] = Tries
<1>1. Spend(e, ok).left
        = [t \in Slot |-> IF Attempts(e, ok, t) THEN e.left[t] - 1 ELSE e.left[t]]
  BY DEF Spend, Env
<1>2. Attempts(e, ok, s) => e.left[s] > 0
  BY DEF Attempts
<1> QED BY <1>1, <1>2 DEF ResetTries, Env

\* A failed kernel is one attempt less for its slot, and a reset of the attempts
\* only happens when the slot that comes up has none left.
LEMMA RetryStep == IInv /\ IInv' /\ RetryInv /\ [Next]_vars => RetryInv'
<1> SUFFICES ASSUME IInv, IInv', RetryInv, [Next]_vars PROVE RetryInv'
  OBVIOUS
<1> USE SlotFacts
<1>0. /\ Tries \in Nat /\ fails \in Nat /\ fails' \in Nat /\ Imported \in Env
      /\ Upcoming \in Env /\ Upcoming' \in Env
      /\ \A s \in Slot : Upcoming.left[s] \in 0 .. Tries /\ Upcoming'.left[s] \in 0 .. Tries
  <2>1. TypeOK /\ TypeOK'
    BY DEF IInv
  <2>2. DefaultEnv \in Env
    BY TriesAssumption DEF DefaultEnv, Env, Orders
  <2>3. Imported \in Env /\ Upcoming \in Env /\ Upcoming' \in Env
    BY <2>1, <2>2 DEF TypeOK, Imported, Upcoming
  <2>4. Tries \in Nat /\ fails \in Nat /\ fails' \in Nat
    BY <2>1, TriesAssumption DEF TypeOK, FailCap
  <2> QED BY <2>3, <2>4 DEF Env
\* A machine that has just been up, or lost power, has failed no boot yet.
<1>1. ASSUME fails' = 0, pc' \notin {"store", "kernel"} PROVE RetryInv'
  BY <1>0, <1>1 DEF RetryInv, Trying
\* Steps that the attempts do not depend on.
<1>2. ASSUME UNCHANGED <<kernel, rootfs, fails>>, Upcoming' = Upcoming,
             \A s \in Slot : Trying(s)' = Trying(s), pc' \notin {"start", "up"}
      PROVE  RetryInv'
  BY <1>2 DEF RetryInv, Reachable, Bootable, Whole
<1>3. CASE ComesUp \/ PowerLoss
  BY <1>1, <1>3 DEF ComesUp, PowerLoss
<1>4. CASE Persist \/ Running
  <2>1. pc \in {"start", "up"} /\ UNCHANGED fails
    BY <1>4
       DEF Persist, Running, StoreDone, MarkGood, BootOther, BeginUpdate, InstallCheck,
           MarkTargetBad, Replace, UpdateFails, Activate, Reboot, history
  <2>2. pc' \in {"up", "off"}
    BY <1>4
       DEF Persist, Running, StoreDone, MarkGood, BootOther, BeginUpdate, InstallCheck,
           MarkTargetBad, Replace, UpdateFails, Activate, Reboot, bootVars
  <2> QED BY <1>1, <2>1, <2>2 DEF RetryInv
<1>5. CASE ChainBroken \/ PowerCycle
  <2>1. /\ UNCHANGED <<kernel, rootfs, fails, env, pend>>
        /\ pc \in {"off", "dead"} /\ pc' \in {"off", "dead"}
    BY <1>5 DEF ChainBroken, PowerCycle, installVars, history
  <2> QED BY <1>2, <2>1 DEF Upcoming, Imported, Trying
<1>6. CASE ScriptStored
  <2>1. /\ pc = "store" /\ UNCHANGED <<kernel, rootfs, fails, cur>>
        /\ pc' = IF cur = NoSlot THEN "off" ELSE "kernel"
        /\ pend # NoEnv /\ env' = pend /\ pend' = NoEnv /\ pend \in Env
    BY <1>6 DEF ScriptStored, WriteEnd, installVars, history, IInv, WriteInv
  <2>2. Upcoming' = Upcoming
    BY <2>1, EnvAssumption DEF Upcoming, Imported
  <2>3. \A s \in Slot : Trying(s)' = Trying(s)
    BY <2>1 DEF Trying
  <2> QED BY <1>2, <2>1, <2>2, <2>3
<1>7. CASE BootFails
  <2>1. /\ pc = "kernel" /\ ~Bootable(cur) /\ pc' = "off" /\ fails' <= fails + 1
        /\ UNCHANGED <<kernel, rootfs, env, pend>> /\ cur \in Slot
    BY <1>0, <1>7 DEF BootFails, installVars, IInv, CurInv, FailCap
  <2>2. Upcoming' = Upcoming /\ \A s \in Slot : Trying(s)' = 0
    BY <2>1 DEF Upcoming, Imported, Trying
  <2>3. ASSUME NEW g \in Slot, Reachable(g)'
        PROVE  /\ fails' <= 2 * Tries
               /\ fails' + Upcoming'.left[Other(g)]
                     <= IF Upcoming'.left[g] = 0 THEN Tries ELSE 2 * Tries
    <3>1. Reachable(g)
      BY <2>1, <2>2, <2>3 DEF Reachable, Bootable, Whole
    <3>2. cur = Other(g) /\ Trying(g) = 0 /\ Trying(Other(g)) = 1
      BY <2>1, <3>1 DEF Reachable, Trying
    <3>3. fails + Upcoming.left[Other(g)] + 1
            <= IF Upcoming.left[g] = 0 THEN Tries ELSE 2 * Tries
      BY <3>1, <3>2 DEF RetryInv
    <3> QED BY <1>0, <2>1, <2>2, <3>3
  <2> QED BY <1>0, <2>1, <2>2, <2>3 DEF RetryInv
<1>8. CASE Script
  <2>1. /\ pc = "off" /\ pc' = "store" /\ pend = NoEnv /\ Upcoming = Imported
        /\ UNCHANGED <<kernel, rootfs, fails>>
    BY <1>8 DEF Script, WriteBegin, Upcoming, installVars, history
  <2>2. PICK ok \in LoadResults :
          \/ \E s \in Slot :
               /\ Attempts(Imported, ok, s) /\ ok[s] /\ cur' = s
               /\ pend' = Spend(Imported, ok)
          \/ /\ \A s \in Slot : ~(Attempts(Imported, ok, s) /\ ok[s])
             /\ cur' = NoSlot /\ pend' = ResetTries(Imported)
    BY <1>8 DEF Script, WriteBegin
  <2>3. ok \in [Slot -> BOOLEAN] /\ \A s \in Slot : Bootable(s) => ok[s]
    BY DEF LoadResults, Bootable, Whole
  <2>4. Upcoming' = pend' /\ pend' \in Env /\ pend'.order = Imported.order
    BY <1>0, <2>2, <2>3, ScriptEnvFacts, EnvAssumption DEF Upcoming
  <2>5. ASSUME NEW g \in Slot, Reachable(g)'
        PROVE  /\ fails' <= 2 * Tries
               /\ Trying(g)' = 0 =>
                    fails' + Upcoming'.left[Other(g)] + Trying(Other(g))'
                       <= IF Upcoming'.left[g] = 0 THEN Tries ELSE 2 * Tries
    <3>1. Reachable(g) /\ ok[g] /\ InOrder(Imported.order, g)
      BY <2>1, <2>3, <2>4, <2>5 DEF Reachable, Bootable, Whole
    <3>2. /\ fails <= 2 * Tries
          /\ fails + Imported.left[Other(g)]
               <= IF Imported.left[g] = 0 THEN Tries ELSE 2 * Tries
      BY <1>0, <2>1, <3>1 DEF RetryInv, Trying
    <3>3. CASE cur' = g
      BY <2>1, <3>2, <3>3 DEF Trying
    <3>4. CASE cur' = Other(g)
      <4>1. /\ Attempts(Imported, ok, Other(g)) /\ ok[Other(g)]
            /\ pend' = Spend(Imported, ok)
        BY <2>2, <3>4
      <4>2. ~Attempts(Imported, ok, g)
        BY <1>0, <2>3, <3>1, <4>1, AttemptFacts
      <4>3. /\ Upcoming'.left[g] = Imported.left[g]
            /\ Upcoming'.left[Other(g)] = Imported.left[Other(g)] - 1
            /\ Imported.left[Other(g)] \in 0 .. Tries
        BY <1>0, <2>3, <2>4, <4>1, <4>2, SpentFacts
      <4>4. Trying(Other(g))' = 1
        BY <2>1, <3>4 DEF Trying
      <4> QED BY <1>0, <2>1, <3>2, <4>3, <4>4
    <3>5. CASE cur' = NoSlot
      <4>1. /\ \A s \in Slot : ~(Attempts(Imported, ok, s) /\ ok[s])
            /\ pend' = ResetTries(Imported)
        BY <2>2, <3>5
      <4>2. Imported.left[g] = 0
        <5>1. ~(Imported.left[g] > 0)
          BY <1>0, <2>3, <3>1, <4>1, AttemptFacts
        <5> QED BY <1>0, <2>1, <5>1
      <4>3. Upcoming'.left[g] = Tries /\ Upcoming'.left[Other(g)] = Tries
        BY <1>0, <2>3, <2>4, <4>1, SpentFacts
      <4>4. Trying(Other(g))' = 0
        BY <3>5 DEF Trying
      <4>5. Imported.left[Other(g)] \in 0 .. Tries /\ Tries > 0
        BY <1>0, <2>1, TriesAssumption
      <4> QED BY <1>0, <2>1, <3>2, <4>2, <4>3, <4>4, <4>5
    <3> QED BY <2>2, <3>3, <3>4, <3>5
  <2> QED BY <2>1, <2>5 DEF RetryInv
<1>9. CASE UNCHANGED vars
  BY <1>9
     DEF vars, installVars, bootVars, history, RetryInv, Reachable, Bootable, Whole, Upcoming,
         Imported, Trying
<1> QED BY <1>3, <1>4, <1>5, <1>6, <1>7, <1>8, <1>9 DEF Next, Boot

\* With a slot that comes up in BOOT_ORDER, at most two rounds of kernels are
\* started in vain, for every number of attempts the script grants.
THEOREM RetriesBounded == Spec => []BoundedRetries
<1>1. Init => RetryInv
  <2> SUFFICES ASSUME Init PROVE RetryInv
    OBVIOUS
  <2>1. Upcoming = DefaultEnv /\ \A s \in Slot : DefaultEnv.left[s] = Tries
    BY DEF Init, Upcoming, Imported, DefaultEnv
  <2> QED BY <2>1, TriesAssumption, SlotFacts DEF Init, RetryInv, Trying
<1>2. RetryInv => BoundedRetries
  BY DEF RetryInv, BoundedRetries, Recoverable, Reachable, Upcoming
<1>3. IInv /\ RetryInv /\ [Next]_vars => RetryInv'
  BY StepIInv, RetryStep
<1> QED BY <1>1, <1>2, <1>3, Invariance, PTL DEF Spec
=============================================================================
