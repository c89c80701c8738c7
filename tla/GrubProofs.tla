----------------------------- MODULE GrubProofs -----------------------------
(***************************************************************************)
(* Proofs about GrubBoot, for every set of releases, every number of       *)
(* attempts and any number of power losses.                                *)
(***************************************************************************)
EXTENDS GrubBoot, TLAPS

\* From the choice of a menu entry until the machine is reset.
Booting == {"save", "kernel", "start", "up", "rescue"}

\* The block that holds once the write or the installation's copying is over.
Kept ==
    IF rauc.stage \in Replaced THEN savedEnv
    ELSE IF pend = NoEnv THEN env ELSE pend

\* The block that the next boot reads, or the one it is replaced by.
InForce == IF pend = NoEnv THEN Loaded ELSE pend

\* Where grubenv can be under way, and what the hook's copy is worth: from
\* check_grubenv on the block is readable, the copy is the owner's block, and
\* what is written over it is the bundle's.
WriteInv ==
    /\ pend # NoEnv => env = Corrupt /\ pc \in {"save", "up"}
    /\ rauc.stage \in {"check", "bad", "config", "restore", "restoreEnv"} => pend = NoEnv
    /\ rauc.stage \notin {"idle", "check"} => env \in Env \/ pend \in Env
    /\ rauc.stage \in Replaced \cup {"config"} => savedEnv \in Env
    /\ rauc.stage = "config" => savedEnv = env
    /\ rauc.stage = "copy" /\ pend # NoEnv => pend = FactoryEnv

\* An installation targets the slot that is not running, and what it has
\* written is there.
InstallInv ==
    /\ pc \in Booting => cur \in Slot
    /\ pc # "up" => rauc = Idle
    /\ rauc.stage # "idle" => rauc.target \in Slot /\ rauc.target = Other(cur)
    /\ rauc.stage \in {"rootfs", "rootfsWrite", "activate"} =>
          kernel[rauc.target] = rauc.image
    /\ rauc.stage = "activate" => rootfs[rauc.target] = rauc.image
    /\ rauc.stage \in {"config", "copy", "restore"} => saved # "nothing"

\* Unless waived: the block is readable, the slot that runs is ok, the target
\* is not while it may be incomplete, slots that are ok are complete, and a
\* machine id that was stored is there.
SoundInv ==
    ~waived =>
        /\ Kept \in Env
        /\ \E s \in Slot : Kept.ok[s]
        /\ pc \in Booting => Kept.ok[cur]
        /\ rauc.stage \in Replacing => ~Kept.ok[rauc.target]
        /\ \A s \in Slot : Kept.ok[s] => Whole(s)
        /\ provisioned => Kept.machineId = TRUE

\* Every kernel started in vain was counted on the slot that is not bootable.
RetryInv ==
    /\ pc \in {"start", "up", "rescue"} => fails = 0
    /\ \A b \in Slot : Bootable(b) /\ Eligible(InForce, b) =>
          /\ fails <= InForce.try[Other(b)]
          /\ pc \in {"save", "kernel"} /\ cur = Other(b) =>
                fails + 1 <= InForce.try[Other(b)]

IInv ==
    /\ TypeOK
    /\ WriteInv
    /\ InstallInv
    /\ SoundInv
    /\ FirstBootOnce
    /\ RetryInv

-----------------------------------------------------------------------------
(***************************************************************************)
(* Facts about slots and about the blocks built from another one.          *)
(***************************************************************************)

\* The two slots are each other's other slot, and NoSlot is neither.
LEMMA SlotFacts ==
    /\ "A" \in Slot /\ "B" \in Slot /\ NoSlot \notin Slot
    /\ \A s \in Slot : Other(s) \in Slot /\ Other(s) # s /\ Other(Other(s)) = s
    /\ \A s, t \in Slot : t # s => t = Other(s)
BY DEF Slot, Other, NoSlot

\* The block of a bundle and the one of check_grubenv.
LEMMA ConstantEnvs ==
    /\ DefaultEnv \in Env /\ FactoryEnv \in Env
    /\ \A s \in Slot : DefaultEnv.ok[s] = FALSE
    /\ \A s \in Slot : FactoryEnv.ok[s] <=> s = "A"
    /\ FactoryEnv.machineId = FALSE
<1>1. [s \in Slot |-> 0] \in [Slot -> 0 .. Tries]
  BY TriesAssumption
<1>2. DefaultEnv \in Env /\ \A s \in Slot : DefaultEnv.ok[s] = FALSE
  BY <1>1 DEF DefaultEnv, Env, Slot
<1>3. FactoryEnv = [DefaultEnv EXCEPT !.ok = [s \in Slot |-> s = "A"]]
  BY DEF FactoryEnv
<1>4. FactoryEnv.ok = [s \in Slot |-> s = "A"] /\ FactoryEnv.machineId = FALSE
  BY <1>3 DEF DefaultEnv
<1>5. FactoryEnv \in Env
  BY <1>2, <1>3 DEF Env
<1> QED BY <1>2, <1>4, <1>5

\* What RAUC's back end, and hassos-persists, make of a block.
LEMMA RaucEnvFacts ==
    ASSUME NEW e \in Env, NEW s \in Slot
    PROVE  /\ GoodEnv(e, s) \in Env /\ BadEnv(e, s) \in Env /\ PrimaryEnv(e, s) \in Env
           /\ [e EXCEPT !.machineId = TRUE] \in Env
           /\ GoodEnv(e, s).ok = [e.ok EXCEPT ![s] = TRUE]
           /\ PrimaryEnv(e, s).ok = [e.ok EXCEPT ![s] = TRUE]
           /\ BadEnv(e, s).ok = [e.ok EXCEPT ![s] = FALSE]
           /\ [e EXCEPT !.machineId = TRUE].ok = e.ok
           /\ GoodEnv(e, s).machineId = e.machineId
           /\ PrimaryEnv(e, s).machineId = e.machineId
           /\ BadEnv(e, s).machineId = e.machineId
           /\ [e EXCEPT !.machineId = TRUE].machineId = TRUE
<1>1. /\ [e.ok EXCEPT ![s] = TRUE] \in [Slot -> BOOLEAN]
      /\ [e.ok EXCEPT ![s] = FALSE] \in [Slot -> BOOLEAN]
      /\ [e.try EXCEPT ![s] = 0] \in [Slot -> 0 .. Tries]
  BY TriesAssumption DEF Env
<1>2. /\ GoodEnv(e, s) \in Env
      /\ GoodEnv(e, s).ok = [e.ok EXCEPT ![s] = TRUE]
      /\ GoodEnv(e, s).machineId = e.machineId
  BY <1>1 DEF GoodEnv, Env
<1>3. /\ BadEnv(e, s) \in Env
      /\ BadEnv(e, s).ok = [e.ok EXCEPT ![s] = FALSE]
      /\ BadEnv(e, s).machineId = e.machineId
  BY <1>1 DEF BadEnv, Env
<1>4. /\ PrimaryEnv(e, s) \in Env
      /\ PrimaryEnv(e, s).ok = GoodEnv(e, s).ok
      /\ PrimaryEnv(e, s).machineId = GoodEnv(e, s).machineId
  BY <1>2 DEF PrimaryEnv, Env
<1>5. /\ [e EXCEPT !.machineId = TRUE] \in Env
      /\ [e EXCEPT !.machineId = TRUE].ok = e.ok
      /\ [e EXCEPT !.machineId = TRUE].machineId = TRUE
  BY DEF Env
<1> QED BY <1>2, <1>3, <1>4, <1>5

\* Counting an attempt of an eligible slot changes that slot's counter only and
\* stays within its bound.
LEMMA CountFacts ==
    ASSUME NEW e \in Env, NEW s \in Slot, Eligible(e, s)
    PROVE  /\ Count(e, s) \in Env
           /\ Count(e, s).ok = e.ok
           /\ Count(e, s).machineId = e.machineId
           /\ Count(e, s).try[s] = e.try[s] + 1
           /\ \A t \in Slot : t # s => Count(e, s).try[t] = e.try[t]
<1>1. [e.try EXCEPT ![s] = e.try[s] + 1] \in [Slot -> 0 .. Tries]
  BY TriesAssumption DEF Env, Eligible
<1>2. /\ Count(e, s) \in Env
      /\ Count(e, s).ok = e.ok
      /\ Count(e, s).machineId = e.machineId
      /\ Count(e, s).try = [e.try EXCEPT ![s] = e.try[s] + 1]
  <2>1. e.try[s] \in 0 .. Tries - 1
    BY TriesAssumption DEF Env, Eligible
  <2>2. (IF e.try[s] \in 1 .. Tries - 1 THEN e.try[s] + 1 ELSE 1) = e.try[s] + 1
    BY <2>1, TriesAssumption
  <2>3. Count(e, s) = [e EXCEPT !.try[s] = e.try[s] + 1]
    BY <2>2 DEF Count, Env
  <2> QED BY <1>1, <2>3 DEF Env
<1>3. e.try \in [Slot -> 0 .. Tries]
  BY DEF Env
<1> QED BY <1>2, <1>3

\* grub.cfg works with a block that has its fields, and so does whatever is
\* about to replace it.
LEMMA LoadedFacts ==
    ASSUME env \in Env \cup {Corrupt}, pend \in Env \cup {NoEnv}
    PROVE  /\ Loaded \in Env /\ InForce \in Env
           /\ env \in Env => Loaded = env
           /\ env = Corrupt => Loaded = DefaultEnv
BY ConstantEnvs, EnvAssumption DEF Loaded, InForce

\* A boot finds the block that is kept, if any.
LEMMA EnvironmentsFacts ==
    ASSUME TypeOK, WriteInv
    PROVE  Environments = {Kept} \cap Env
BY EnvAssumption DEF TypeOK, WriteInv, Environments, Kept, Replaced

-----------------------------------------------------------------------------
(***************************************************************************)
(* The invariant holds initially and is preserved by every step.           *)
(***************************************************************************)

\* A freshly flashed disk with the bundle's grubenv satisfies IInv.
LEMMA InitIInv == Init => IInv
<1> SUFFICES ASSUME Init PROVE IInv
  OBVIOUS
<1> USE ConstantEnvs, SlotFacts DEF Init, InstallInit
<1>1. TypeOK
  <2>1. InstallTypeOK
    BY ImagesAssumption DEF InstallTypeOK, Idle, Stages, Content
  <2>2. losses \in 0 .. MaxLosses /\ fails \in 0 .. FailCap
    BY TriesAssumption DEF FailCap
  <2> QED BY <2>1, <2>2 DEF TypeOK
<1>2. WriteInv /\ InstallInv
  BY DEF WriteInv, InstallInv, Idle, Replaced, Booting
<1>3. SoundInv
  <2>1. Kept = FactoryEnv
    BY DEF Kept, Idle, Replaced
  <2>2. Whole("A")
    BY ImagesAssumption DEF Whole
  <2> QED BY <2>1, <2>2 DEF SoundInv, Booting, Idle, Replacing
<1>4. FirstBootOnce /\ RetryInv
  <2>1. InForce \in Env /\ fails = 0
    BY LoadedFacts
  <2> QED BY <2>1 DEF FirstBootOnce, RetryInv, Env
<1> QED BY <1>1, <1>2, <1>3, <1>4 DEF IInv

\* The steps of an installation that leave grubenv alone write to the target
\* slot only, and a slot that reaches the last stage is complete.
LEMMA ReplaceFacts ==
    ASSUME IInv, Replace
    PROVE  /\ InstallTypeOK'
           /\ rauc.stage \in Replacing /\ rauc'.stage \in Replacing
           /\ rauc'.target = rauc.target /\ rauc'.image = rauc.image
           /\ rauc'.stage \in Replaced <=> rauc.stage \in Replaced
           /\ rauc'.stage \notin {"config", "copy"}
           /\ \A s \in Slot \ {rauc.target} :
                 kernel'[s] = kernel[s] /\ rootfs'[s] = rootfs[s]
           /\ rauc'.stage \in {"rootfs", "rootfsWrite", "activate"} =>
                 kernel'[rauc.target] = rauc.image
           /\ rauc'.stage = "activate" => rootfs'[rauc.target] = rauc.image
           /\ rauc'.stage = "restore" => saved' # "nothing"
<1> USE DEF Stage, Replacing, Replaced
<1>0. /\ rauc \in [stage : Stages, target : Slot \cup {NoSlot}, image : Images]
      /\ rauc.image \in Images
      /\ InstallTypeOK
      /\ Torn \in Content /\ Images \subseteq Content
  BY DEF IInv, TypeOK, InstallTypeOK, Content
<1>1. /\ rauc.stage \in Replacing => rauc.target \in Slot
      /\ rauc.stage \in {"rootfs", "rootfsWrite", "activate"} =>
            kernel[rauc.target] = rauc.image
      /\ rauc.stage \in {"copy", "restore"} => saved # "nothing"
  BY DEF IInv, InstallInv
<1>2. ASSUME NEW st \in Stages, GoTo(st)
      PROVE  /\ rauc' \in [stage : Stages, target : Slot \cup {NoSlot}, image : Images]
             /\ rauc'.stage = st
             /\ rauc'.target = rauc.target /\ rauc'.image = rauc.image
  BY <1>0, <1>2 DEF GoTo
<1>3. CASE BootCopy
  <2>1. "restore" \in Stages /\ GoTo("restore")
    BY <1>3 DEF BootCopy, Stages
  <2> QED BY <1>0, <1>1, <1>2, <1>3, <2>1 DEF BootCopy, InstallTypeOK
<1>4. CASE BootRestore
  <2>1. "restoreEnv" \in Stages /\ GoTo("restoreEnv")
    BY <1>4 DEF BootRestore, Stages
  <2>2. settings' \in {"owner", "bundle"} /\ cut' \in BOOLEAN
    <3>1. saved \in {"owner", "bundle"}
      BY <1>0, <1>1, <1>4 DEF InstallTypeOK, BootRestore
    <3> QED BY <1>0, <1>4, <3>1 DEF BootRestore, InstallTypeOK
  <2> QED BY <1>0, <1>1, <1>2, <1>4, <2>1, <2>2 DEF BootRestore, InstallTypeOK
<1>5. CASE KernelBegin
  <2>1. "kernelWrite" \in Stages /\ GoTo("kernelWrite")
    BY <1>5 DEF KernelBegin, Stages
  <2> QED BY <1>0, <1>1, <1>2, <1>5, <2>1 DEF KernelBegin, InstallTypeOK
<1>6. CASE KernelEnd
  <2>1. "rootfs" \in Stages /\ GoTo("rootfs")
    BY <1>6 DEF KernelEnd, Stages
  <2> QED BY <1>0, <1>1, <1>2, <1>6, <2>1 DEF KernelEnd, InstallTypeOK
<1>7. CASE RootfsBegin
  <2>1. "rootfsWrite" \in Stages /\ GoTo("rootfsWrite")
    BY <1>7 DEF RootfsBegin, Stages
  <2> QED BY <1>0, <1>1, <1>2, <1>7, <2>1 DEF RootfsBegin, InstallTypeOK
<1>8. CASE RootfsEnd
  <2>1. "activate" \in Stages /\ GoTo("activate")
    BY <1>8, SplAssumption DEF RootfsEnd, Stages
  <2> QED BY <1>0, <1>1, <1>2, <1>8, <2>1 DEF RootfsEnd, InstallTypeOK
<1> QED BY <1>3, <1>4, <1>5, <1>6, <1>7, <1>8 DEF Replace

\* No step of grub.cfg, the running system, RAUC, the hook or a power loss leads
\* out of IInv.
LEMMA StepIInv == IInv /\ [Next]_vars => IInv'
<1> SUFFICES ASSUME IInv, [Next]_vars PROVE IInv'
  OBVIOUS
<1> USE EnvAssumption, SlotFacts
<1>0. /\ TypeOK /\ WriteInv /\ InstallInv /\ SoundInv /\ FirstBootOnce /\ RetryInv
      /\ InstallTypeOK /\ env \in Env \cup {Corrupt} /\ pend \in Env \cup {NoEnv}
  BY DEF IInv, TypeOK
\* Nothing is counted and nothing is a first boot but on the way to a kernel.
<1>a. ASSUME TypeOK', fails' = 0, pc' \notin {"save", "kernel"}
      PROVE  RetryInv' /\ FirstBootOnce'
  <2>1. InForce' \in Env
    BY <1>a, ConstantEnvs DEF InForce, Loaded, TypeOK
  <2> QED BY <1>a, <2>1 DEF RetryInv, FirstBootOnce, Env
\* The steps that leave the block alone.
<1>b. ASSUME Kept' = Kept, UNCHANGED <<kernel, rootfs, provisioned>>, waived => waived',
             pc' \in Booting => pc \in Booting /\ cur' = cur,
             rauc'.stage \in Replacing =>
                rauc.stage \in Replacing /\ rauc'.target = rauc.target
      PROVE  SoundInv'
  BY <1>0, <1>b DEF SoundInv, Whole
\* An idle machine that is up, and one that installs, rewrites the block.
<1>c. ASSUME pc = "up", env \in Env, NEW e \in Env, WriteBegin(e),
             rauc.stage \notin Replaced, rauc'.stage \notin Replaced
      PROVE  /\ pend = NoEnv /\ Kept = env /\ Kept' = e
             /\ env' = Corrupt /\ pend' = e
             /\ cur \in Slot
             /\ ~waived => env.ok[cur] /\ (provisioned => env.machineId = TRUE)
             /\ ~waived => \A s \in Slot : env.ok[s] => Whole(s)
  <2>1. pend = NoEnv /\ Kept = env /\ Kept' = e /\ env' = Corrupt /\ pend' = e
    BY <1>c DEF WriteBegin, Kept
  <2> QED BY <1>0, <1>c, <2>1 DEF SoundInv, InstallInv, Booting
<1>1. CASE Script
  <2>1. /\ pc = "off" /\ pc' = "save" /\ rauc = Idle /\ pend = NoEnv /\ Kept = env
        /\ UNCHANGED <<installVars, history, savedEnv>>
        /\ firstBoot' = ~Loaded.machineId
        /\ Loaded \in Env
    BY <1>0, <1>1, LoadedFacts
       DEF Script, WriteInv, InstallInv, Kept, Idle, Replaced
  <2>2. PICK s \in Slot, e \in Env :
          /\ cur' = s /\ rescue' \in BOOLEAN /\ SaveEnv(e)
          /\ e.ok = Loaded.ok /\ e.machineId = Loaded.machineId
          /\ \/ Eligible(Loaded, s) /\ e = Count(Loaded, s)
             \/ NoneEligible(Loaded) /\ e = Loaded
          /\ Loaded.ok[s] \/ \A t \in Slot : ~Loaded.ok[t]
    <3>1. PICK s \in Slot :
            /\ cur' = s
            /\ \/ Selected(Loaded, s) /\ rescue' = FALSE /\ SaveEnv(Count(Loaded, s))
               \/ RescueSelected(Loaded, s) /\ rescue' = TRUE /\ SaveEnv(Loaded)
               \/ FirstEntry(Loaded, s) /\ rescue' = FALSE /\ SaveEnv(Loaded)
      BY <1>1 DEF Script
    <3>2. CASE Selected(Loaded, s) /\ rescue' = FALSE /\ SaveEnv(Count(Loaded, s))
      BY <2>1, <3>1, <3>2, CountFacts DEF Selected, Eligible
    <3>3. CASE RescueSelected(Loaded, s) /\ rescue' = TRUE /\ SaveEnv(Loaded)
      BY <2>1, <3>1, <3>3 DEF RescueSelected
    <3>4. CASE FirstEntry(Loaded, s) /\ rescue' = FALSE /\ SaveEnv(Loaded)
      BY <2>1, <3>1, <3>4 DEF FirstEntry, NoneEligible, Eligible
    <3> QED BY <3>1, <3>2, <3>3, <3>4
  <2>3. \/ env \in Env /\ Loaded = env /\ env' = Corrupt /\ pend' = e
        \/ env = Corrupt /\ Loaded = DefaultEnv /\ env' = Corrupt /\ pend' = NoEnv
    BY <1>0, <2>1, <2>2, LoadedFacts DEF SaveEnv, WriteBegin
  <2>4. TypeOK'
    <3>1. firstBoot' \in BOOLEAN
      BY <2>1
    <3> QED BY <1>0, <2>1, <2>2, <2>3, <3>1
            DEF TypeOK, InstallTypeOK, installVars, history
  <2>5. WriteInv' /\ InstallInv'
    BY <1>0, <2>1, <2>2, <2>3
       DEF WriteInv, InstallInv, installVars, Idle, Replaced, Booting
  <2>6. SoundInv' /\ FirstBootOnce'
    <3> SUFFICES ASSUME ~waived PROVE SoundInv' /\ FirstBootOnce'
      BY <2>1 DEF SoundInv, FirstBootOnce, history
    <3>1. /\ env \in Env /\ \E t \in Slot : env.ok[t]
          /\ \A t \in Slot : env.ok[t] => Whole(t)
          /\ provisioned => env.machineId = TRUE
      BY <1>0, <2>1 DEF SoundInv
    <3>2. Kept' = e /\ Loaded = env
      BY <2>1, <2>3, <3>1 DEF Kept, installVars, Idle, Replaced
    <3>3. e.ok[s] /\ rauc'.stage = "idle"
      BY <2>1, <2>2, <3>1, <3>2 DEF installVars, Idle
    <3>4. SoundInv'
      BY <2>1, <2>2, <3>1, <3>2, <3>3 DEF SoundInv, installVars, history, Whole, Replacing
    <3>5. provisioned => firstBoot' = FALSE
      BY <2>1, <3>1, <3>2
    <3> QED BY <2>1, <3>4, <3>5 DEF FirstBootOnce, history
  <2>7. RetryInv'
    <3>1. CASE env = Corrupt
      <4>1. InForce' = DefaultEnv
        BY <2>3, <3>1 DEF InForce, Loaded
      <4> QED BY <2>1, <4>1, ConstantEnvs DEF RetryInv, Eligible
    <3>2. CASE env \in Env
      <4>1. InForce = env /\ InForce' = e /\ Loaded = env
        BY <2>1, <2>3, <3>2 DEF InForce, Loaded
      <4>2. CASE NoneEligible(Loaded) /\ e = Loaded
        BY <2>1, <4>1, <4>2 DEF RetryInv, NoneEligible
      <4>3. CASE Eligible(Loaded, s) /\ e = Count(Loaded, s)
        <5> SUFFICES ASSUME NEW b \in Slot, Bootable(b), Eligible(e, b)
                     PROVE  /\ fails <= e.try[Other(b)]
                            /\ s = Other(b) => fails + 1 <= e.try[Other(b)]
          BY <2>1, <2>2, <4>1
             DEF RetryInv, Bootable, Whole, installVars, history
        <5>1. /\ e.ok = env.ok /\ e.try[s] = env.try[s] + 1
              /\ \A t \in Slot : t # s => e.try[t] = env.try[t]
          BY <2>1, <4>1, <4>3, CountFacts
        <5>2. fails \in Nat /\ env.try \in [Slot -> 0 .. Tries] /\ e.try \in [Slot -> 0 .. Tries]
          BY <1>0, <3>2, TriesAssumption DEF TypeOK, Env, FailCap
        <5>3. Eligible(env, b)
          BY <5>1, <5>2, TriesAssumption DEF Eligible
        <5>4. fails <= env.try[Other(b)]
          BY <1>0, <4>1, <5>3 DEF RetryInv
        <5> QED BY <5>1, <5>2, <5>4, TriesAssumption
      <4> QED BY <2>2, <4>2, <4>3
    <3> QED BY <1>0, <3>1, <3>2
  <2> QED BY <2>4, <2>5, <2>6, <2>7 DEF IInv
<1>2. CASE MenuEntry
  <2>1. /\ pc = "save" /\ pc' \in {"kernel", "menu"} /\ rauc = Idle
        /\ UNCHANGED <<installVars, history, cur, rescue, savedEnv, firstBoot>>
        /\ \/ pend = NoEnv /\ env' = env /\ pend' = pend
           \/ pend \in Env /\ env' = pend /\ pend' = NoEnv
    BY <1>0, <1>2 DEF MenuEntry, WriteEnd, InstallInv
  <2>2. Kept' = Kept /\ InForce' = InForce
    BY <2>1 DEF Kept, InForce, Loaded, installVars
  <2>3. TypeOK'
    BY <1>0, <2>1 DEF TypeOK, InstallTypeOK, installVars, history
  <2>4. WriteInv' /\ InstallInv'
    BY <1>0, <2>1 DEF WriteInv, InstallInv, installVars, Idle, Replaced, Booting
  <2>5. SoundInv'
    BY <1>b, <2>1, <2>2 DEF installVars, history, Booting
  <2>6. FirstBootOnce' /\ RetryInv'
    BY <1>0, <2>1, <2>2
       DEF FirstBootOnce, RetryInv, installVars, history, Bootable, Whole
  <2> QED BY <2>3, <2>4, <2>5, <2>6 DEF IInv
<1>3. CASE ChainBroken \/ PowerCycle
  <2>1. /\ pc \notin Booting /\ pc' \notin Booting /\ pc # "up" /\ pc' \in {"off", "dead"}
        /\ pend = NoEnv /\ rauc = Idle
        /\ UNCHANGED <<installVars, history, cur, rescue, env, pend, savedEnv, firstBoot>>
    BY <1>0, <1>3 DEF ChainBroken, PowerCycle, Booting, WriteInv, InstallInv
  <2>2. Kept' = Kept /\ InForce' = InForce
    BY <2>1 DEF Kept, InForce, Loaded, installVars
  <2>3. TypeOK'
    BY <1>0, <2>1 DEF TypeOK, InstallTypeOK, installVars, history
  <2>4. WriteInv' /\ InstallInv'
    BY <1>0, <2>1 DEF WriteInv, InstallInv, installVars, Idle, Replaced
  <2>5. SoundInv'
    BY <1>b, <2>1, <2>2 DEF installVars, history
  <2>6. FirstBootOnce' /\ RetryInv'
    BY <1>0, <2>1, <2>2
       DEF FirstBootOnce, RetryInv, installVars, history, Bootable, Whole, Booting
  <2> QED BY <2>3, <2>4, <2>5, <2>6 DEF IInv
<1>4. CASE ComesUp \/ BootFails
  <2>1. /\ pc = "kernel" /\ pend = NoEnv /\ rauc = Idle /\ cur \in Slot
        /\ UNCHANGED <<installVars, cur, rescue, env, pend, savedEnv, firstBoot,
                       losses, provisioned, waived>>
        /\ \/ pc' \in {"start", "rescue"} /\ fails' = 0
           \/ /\ pc' = "off" /\ ~Bootable(cur)
              /\ fails' = IF fails < FailCap THEN fails + 1 ELSE FailCap
    BY <1>0, <1>4 DEF ComesUp, BootFails, Booting, WriteInv, InstallInv
  <2>2. Kept' = Kept /\ InForce' = InForce
    BY <2>1 DEF Kept, InForce, Loaded, installVars
  <2>3. fails \in 0 .. FailCap /\ fails' \in 0 .. FailCap /\ FailCap \in Nat
    BY <1>0, <2>1, TriesAssumption DEF TypeOK, FailCap
  <2>4. TypeOK'
    BY <1>0, <2>1, <2>3 DEF TypeOK, InstallTypeOK, installVars
  <2>5. WriteInv' /\ InstallInv'
    BY <1>0, <2>1 DEF WriteInv, InstallInv, installVars, Idle, Replaced, Booting
  <2>6. SoundInv'
    BY <1>b, <2>1, <2>2 DEF installVars, Booting
  <2>7. FirstBootOnce' /\ RetryInv'
    <3>1. CASE pc' \in {"start", "rescue"} /\ fails' = 0
      BY <1>a, <2>4, <3>1
    <3>2. CASE /\ pc' = "off" /\ ~Bootable(cur)
               /\ fails' = IF fails < FailCap THEN fails + 1 ELSE FailCap
      <4> SUFFICES ASSUME NEW b \in Slot, Bootable(b), Eligible(InForce, b)
                   PROVE  fails' <= InForce.try[Other(b)]
        BY <2>1, <2>2, <3>2 DEF FirstBootOnce, RetryInv, installVars, Bootable, Whole
      <4>1. cur = Other(b)
        BY <2>1, <3>2
      <4>2. fails + 1 <= InForce.try[Other(b)]
        BY <1>0, <2>1, <4>1 DEF RetryInv
      <4>3. fails' <= fails + 1
        BY <2>3, <3>2
      <4>4. InForce.try[Other(b)] \in Nat
        BY <1>0, LoadedFacts DEF Env
      <4> QED BY <2>3, <4>2, <4>3, <4>4
    <3> QED BY <2>1, <3>1, <3>2
  <2> QED BY <2>4, <2>5, <2>6, <2>7 DEF IInv
<1>5. CASE Persist
  <2>1. /\ pc = "start" /\ pc' = "up" /\ pend = NoEnv /\ rauc = Idle /\ cur \in Slot
        /\ fails = 0 /\ Kept = env
        /\ UNCHANGED <<installVars, history, cur, rescue, savedEnv, firstBoot>>
    BY <1>0, <1>5
       DEF Persist, WriteInv, InstallInv, RetryInv, Booting, Kept, Idle, Replaced
  <2>2. CASE /\ env \in Env
             /\ WriteBegin([env EXCEPT !.machineId = TRUE])
    <3>1. PICK e \in Env : /\ e = [env EXCEPT !.machineId = TRUE]
                           /\ e.ok = env.ok /\ e.machineId = TRUE
      BY <2>2, RaucEnvFacts
    <3>2. env' = Corrupt /\ pend' = e /\ Kept' = e
      BY <2>1, <2>2, <3>1 DEF WriteBegin, Kept, installVars, Idle, Replaced
    <3>3. TypeOK'
      BY <1>0, <2>1, <3>2 DEF TypeOK, InstallTypeOK, installVars, history
    <3>4. WriteInv' /\ InstallInv'
      BY <1>0, <2>1, <3>2 DEF WriteInv, InstallInv, installVars, Idle, Replaced, Booting
    <3>5. SoundInv'
      BY <1>0, <2>1, <3>1, <3>2
         DEF SoundInv, installVars, history, Whole, Booting, Idle, Replacing
    <3> QED BY <1>a, <2>1, <3>3, <3>4, <3>5 DEF IInv, history
  <2>3. CASE UNCHANGED <<env, pend>>
    <3>1. Kept' = Kept
      BY <2>1, <2>3 DEF Kept, installVars
    <3>2. TypeOK'
      BY <1>0, <2>1, <2>3 DEF TypeOK, InstallTypeOK, installVars, history
    <3>3. WriteInv' /\ InstallInv'
      BY <1>0, <2>1, <2>3 DEF WriteInv, InstallInv, installVars, Idle, Replaced, Booting
    <3>4. SoundInv'
      BY <1>b, <2>1, <3>1 DEF installVars, history, Booting
    <3> QED BY <1>a, <2>1, <3>2, <3>3, <3>4 DEF IInv, history
  <2> QED BY <1>0, <1>5, <2>2, <2>3 DEF Persist
<1>6. CASE StoreDone
  <2>1. /\ pc = "up" /\ pc' = "up" /\ fails = 0 /\ fails' = 0
        /\ pend \in Env /\ env = Corrupt /\ env' = pend /\ pend' = NoEnv
        /\ provisioned' = (provisioned \/ pend.machineId)
        /\ UNCHANGED <<installVars, cur, rescue, savedEnv, firstBoot, losses, waived>>
    BY <1>0, <1>6 DEF StoreDone, WriteEnd, WriteInv, RetryInv
  <2>2. Kept' = Kept
    BY <2>1 DEF Kept, installVars
  <2>3. TypeOK'
    <3>1. provisioned' \in BOOLEAN
      BY <2>1
    <3> QED BY <1>0, <2>1, <3>1 DEF TypeOK, InstallTypeOK, installVars, history
  <2>4. WriteInv' /\ InstallInv'
    BY <1>0, <2>1 DEF WriteInv, InstallInv, installVars, Replaced, Booting
  <2>5. SoundInv'
    <3>1. ~waived /\ provisioned' => Kept.machineId = TRUE
      <4>1. CASE rauc.stage \in Replaced
        <5>1. pend.machineId = FALSE
          BY <1>0, <2>1, <4>1, ConstantEnvs DEF WriteInv, Replaced
        <5> QED BY <1>0, <2>1, <5>1 DEF SoundInv
      <4>2. CASE rauc.stage \notin Replaced
        <5>1. Kept = pend /\ pend.machineId \in BOOLEAN
          BY <2>1, <4>2 DEF Kept, Env
        <5> QED BY <1>0, <2>1, <5>1 DEF SoundInv
      <4> QED BY <4>1, <4>2
    <3> QED BY <1>0, <2>1, <2>2, <3>1 DEF SoundInv, installVars, Whole
  <2> QED BY <1>a, <2>1, <2>3, <2>4, <2>5 DEF IInv
<1>7. CASE MarkGood \/ BootOther
  <2>1. PICK s \in Slot, e \in Env :
          /\ WriteBegin(e) /\ e.ok = [env.ok EXCEPT ![s] = TRUE]
          /\ e.machineId = env.machineId
          /\ ~waived' => s = cur \/ Whole(s)
          /\ waived => waived'
          /\ waived' \in BOOLEAN
    <3>1. cur \in Slot /\ env \in Env /\ waived \in BOOLEAN
      BY <1>0, <1>7 DEF MarkGood, BootOther, InstallInv, Booting, TypeOK
    <3>2. CASE MarkGood
      BY <3>1, <3>2, RaucEnvFacts DEF MarkGood, history
    <3>3. CASE BootOther
      <4>1. WriteBegin(PrimaryEnv(env, Other(cur))) /\ waived' = (waived \/ ~Whole(Other(cur)))
        BY <3>3 DEF BootOther
      <4>2. Other(cur) \in Slot /\ waived' \in BOOLEAN
        BY <3>1, <4>1
      <4>3. /\ PrimaryEnv(env, Other(cur)) \in Env
            /\ PrimaryEnv(env, Other(cur)).ok = [env.ok EXCEPT ![Other(cur)] = TRUE]
            /\ PrimaryEnv(env, Other(cur)).machineId = env.machineId
        BY <3>1, <4>2, RaucEnvFacts
      <4> QED BY <3>1, <4>1, <4>2, <4>3 DEF WriteBegin
    <3> QED BY <1>7, <3>2, <3>3
  <2>2. /\ pc = "up" /\ env \in Env /\ rauc.stage = "idle" /\ fails = 0
        /\ UNCHANGED <<installVars, pc, cur, rescue, savedEnv, firstBoot,
                       losses, provisioned, fails>>
    BY <1>0, <1>7 DEF MarkGood, BootOther, Stage, RetryInv, history
  <2>3. /\ Kept = env /\ Kept' = e /\ pend = NoEnv /\ env' = Corrupt /\ pend' = e
        /\ cur \in Slot
        /\ ~waived => env.ok[cur] /\ (provisioned => env.machineId = TRUE)
        /\ ~waived => \A t \in Slot : env.ok[t] => Whole(t)
    BY <1>c, <2>1, <2>2 DEF installVars, Replaced
  <2>4. TypeOK'
    BY <1>0, <2>1, <2>2, <2>3 DEF TypeOK, InstallTypeOK, installVars
  <2>5. WriteInv' /\ InstallInv'
    BY <1>0, <2>2, <2>3 DEF WriteInv, InstallInv, installVars, Replaced, Booting
  <2>6. SoundInv'
    <3>1. env.ok \in [Slot -> BOOLEAN]
      BY <2>2 DEF Env
    <3> QED BY <2>1, <2>2, <2>3, <3>1
            DEF SoundInv, installVars, Whole, Replacing
  <2> QED BY <1>a, <2>2, <2>4, <2>5, <2>6 DEF IInv
<1>8. CASE BeginUpdate \/ InstallCheck
  <2>1. /\ pc = "up" /\ pc' = pc /\ fails = 0 /\ cur \in Slot /\ pend = NoEnv
        /\ UNCHANGED <<diskVars, saved, cut, history, cur, rescue, pend, savedEnv, firstBoot>>
        /\ rauc.stage \in {"idle", "check"}
    BY <1>0, <1>8
       DEF BeginUpdate, InstallCheck, Begin, CheckRejects, CheckAccepts, bootVars,
           InstallInv, Booting, RetryInv, WriteInv, Stage
  <2>2. /\ rauc' \in [stage : Stages, target : Slot \cup {NoSlot}, image : Images]
        /\ rauc'.stage \in {"idle", "check", "bad"}
        /\ rauc'.stage # "idle" => rauc'.target \in Slot /\ rauc'.target = Other(cur)
    <3>1. CASE BeginUpdate
      BY <1>0, <2>1, <3>1 DEF BeginUpdate, Begin, Stages
    <3>2. CASE InstallCheck
      BY <1>0, <3>2, ImagesAssumption
         DEF InstallCheck, CheckRejects, CheckAccepts, GoTo, Stage, Idle, Stages,
             InstallInv, InstallTypeOK
    <3> QED BY <1>8, <3>1, <3>2
  <2>3. /\ env' = env \/ (env = Corrupt /\ env' = DefaultEnv)
        /\ rauc'.stage = "bad" => env' \in Env
    <3>1. CASE BeginUpdate
      BY <3>1 DEF BeginUpdate, Begin, bootVars
    <3>2. CASE InstallCheck
      BY <1>0, <3>2, ConstantEnvs DEF InstallCheck, CheckRejects, CheckAccepts, Idle
    <3> QED BY <1>8, <3>1, <3>2
  <2>4. TypeOK'
    BY <1>0, <2>1, <2>2, <2>3, ConstantEnvs
       DEF TypeOK, InstallTypeOK, diskVars, history
  <2>5. WriteInv' /\ InstallInv'
    BY <2>1, <2>2, <2>3 DEF WriteInv, InstallInv, Replaced, Booting
  <2>6. SoundInv'
    <3> SUFFICES ASSUME ~waived PROVE SoundInv'
      BY <2>1 DEF SoundInv, history
    <3>1. Kept = env /\ env \in Env
      BY <1>0, <2>1 DEF SoundInv, Kept, Replaced
    <3>2. Kept' = Kept
      BY <2>1, <2>2, <2>3, <3>1 DEF Kept, Replaced
    <3> QED BY <1>b, <2>1, <2>2, <3>2 DEF diskVars, history, Replacing
  <2> QED BY <1>a, <2>1, <2>4, <2>5, <2>6 DEF IInv, history
<1>9. CASE MarkTargetBad
  <2>1. /\ pc = "up" /\ pc' = pc /\ fails = 0 /\ rauc.stage = "bad"
        /\ pend = NoEnv /\ env \in Env /\ cur \in Slot
        /\ rauc.target \in Slot /\ rauc.target = Other(cur)
        /\ WriteBegin(BadEnv(env, rauc.target)) /\ GoTo("backup")
        /\ UNCHANGED <<diskVars, saved, cut, history, cur, rescue, savedEnv, firstBoot>>
    BY <1>0, <1>9 DEF MarkTargetBad, Stage, WriteBegin, WriteInv, InstallInv, RetryInv, Booting
  <2>2. /\ rauc' \in [stage : Stages, target : Slot \cup {NoSlot}, image : Images]
        /\ rauc'.stage = "backup" /\ rauc'.target = rauc.target
    BY <1>0, <2>1 DEF GoTo, InstallTypeOK, Stages
  <2>3. PICK e \in Env : /\ WriteBegin(e) /\ e.machineId = env.machineId
                         /\ e.ok = [env.ok EXCEPT ![rauc.target] = FALSE]
    <3>1. /\ BadEnv(env, rauc.target) \in Env
          /\ BadEnv(env, rauc.target).ok = [env.ok EXCEPT ![rauc.target] = FALSE]
          /\ BadEnv(env, rauc.target).machineId = env.machineId
      BY <2>1, RaucEnvFacts
    <3> QED BY <2>1, <3>1 DEF WriteBegin
  <2>4. /\ Kept = env /\ Kept' = e /\ env' = Corrupt /\ pend' = e
        /\ ~waived => env.ok[cur] /\ (provisioned => env.machineId = TRUE)
        /\ ~waived => \A t \in Slot : env.ok[t] => Whole(t)
    BY <1>c, <2>1, <2>2, <2>3 DEF Replaced
  <2>5. TypeOK'
    BY <1>0, <2>1, <2>2, <2>4 DEF TypeOK, InstallTypeOK, diskVars, history
  <2>6. WriteInv' /\ InstallInv'
    BY <2>1, <2>2, <2>4 DEF WriteInv, InstallInv, Replaced, Booting
  <2>7. SoundInv'
    <3>1. env.ok \in [Slot -> BOOLEAN]
      BY <2>1 DEF Env
    <3>2. ~waived => e.ok[cur] /\ ~e.ok[rauc.target]
      BY <2>1, <2>3, <2>4, <3>1
    <3> QED BY <2>1, <2>2, <2>3, <2>4, <3>1, <3>2
            DEF SoundInv, diskVars, history, Whole
  <2> QED BY <1>a, <2>1, <2>5, <2>6, <2>7 DEF IInv, history
<1>10. CASE BackupEnv
  <2>1. /\ pc = "up" /\ pc' = pc /\ fails = 0 /\ rauc.stage = "backup"
        /\ pend = NoEnv /\ env \in Env /\ cur \in Slot
        /\ rauc.target \in Slot /\ rauc.target = Other(cur)
        /\ savedEnv' = env /\ saved' = settings /\ bootfs' = FALSE /\ GoTo("config")
        /\ UNCHANGED <<kernel, rootfs, spl, settings, cut, history, cur, rescue, env, pend,
                       firstBoot>>
    BY <1>0, <1>10
       DEF BackupEnv, BootBackup, Stage, WriteInv, InstallInv, RetryInv, Booting
  <2>2. /\ rauc' \in [stage : Stages, target : Slot \cup {NoSlot}, image : Images]
        /\ rauc'.stage = "config" /\ rauc'.target = rauc.target
    BY <1>0, <2>1 DEF GoTo, InstallTypeOK, Stages
  <2>3. Kept' = Kept
    BY <2>1, <2>2 DEF Kept, Replaced
  <2>4. saved' # "nothing" /\ saved' \in {"owner", "bundle"}
    BY <1>0, <2>1 DEF InstallTypeOK
  <2>5. TypeOK'
    BY <1>0, <2>1, <2>2, <2>4 DEF TypeOK, InstallTypeOK, history
  <2>6. WriteInv' /\ InstallInv'
    BY <2>1, <2>2, <2>4 DEF WriteInv, InstallInv, Replaced, Booting
  <2>7. SoundInv'
    BY <1>b, <2>1, <2>2, <2>3 DEF history, Replacing
  <2> QED BY <1>a, <2>1, <2>5, <2>6, <2>7 DEF IInv, history
<1>11. CASE OverwriteEnv
  <2>1. /\ pc = "up" /\ pc' = pc /\ fails = 0 /\ rauc.stage = "config"
        /\ pend = NoEnv /\ env \in Env /\ savedEnv = env /\ cur \in Slot
        /\ rauc.target \in Slot /\ rauc.target = Other(cur) /\ saved # "nothing"
        /\ env' = Corrupt /\ pend' = FactoryEnv /\ settings' = "bundle" /\ GoTo("copy")
        /\ UNCHANGED <<kernel, rootfs, bootfs, spl, saved, cut, history, cur, rescue, savedEnv,
                       firstBoot>>
    BY <1>0, <1>11
       DEF OverwriteEnv, BootCopyConfig, WriteBegin, Stage, WriteInv, InstallInv, RetryInv,
           Booting
  <2>2. /\ rauc' \in [stage : Stages, target : Slot \cup {NoSlot}, image : Images]
        /\ rauc'.stage = "copy" /\ rauc'.target = rauc.target
    BY <1>0, <2>1 DEF GoTo, InstallTypeOK, Stages
  <2>3. Kept' = Kept
    BY <2>1, <2>2 DEF Kept, Replaced
  <2>4. TypeOK'
    BY <1>0, <2>1, <2>2, ConstantEnvs DEF TypeOK, InstallTypeOK, history
  <2>5. WriteInv' /\ InstallInv'
    BY <2>1, <2>2, ConstantEnvs DEF WriteInv, InstallInv, Replaced, Booting
  <2>6. SoundInv'
    BY <1>b, <2>1, <2>2, <2>3 DEF history, Replacing
  <2> QED BY <1>a, <2>1, <2>4, <2>5, <2>6 DEF IInv, history
<1>12. CASE RestoreEnv
  <2>1. /\ pc = "up" /\ pc' = pc /\ fails = 0 /\ rauc.stage = "restoreEnv"
        /\ pend = NoEnv /\ env \in Env /\ savedEnv \in Env /\ cur \in Slot
        /\ rauc.target \in Slot /\ rauc.target = Other(cur)
        /\ saved' = "nothing" /\ savedEnv' = NoEnv /\ GoTo("kernel")
        /\ UNCHANGED <<diskVars, cut, losses, provisioned, fails, cur, rescue, firstBoot>>
        /\ \/ env' = Corrupt /\ pend' = savedEnv /\ waived' = waived
           \/ env' = env /\ pend' = pend /\ waived' = TRUE
    BY <1>0, <1>12
       DEF RestoreEnv, BootRestoreEnv, WriteBegin, Stage, WriteInv, InstallInv, RetryInv,
           Booting, Replaced
  <2>2. /\ rauc' \in [stage : Stages, target : Slot \cup {NoSlot}, image : Images]
        /\ rauc'.stage = "kernel" /\ rauc'.target = rauc.target
    BY <1>0, <2>1 DEF GoTo, InstallTypeOK, Stages
  <2>3. TypeOK'
    BY <1>0, <2>1, <2>2 DEF TypeOK, InstallTypeOK, diskVars
  <2>4. WriteInv' /\ InstallInv'
    BY <2>1, <2>2 DEF WriteInv, InstallInv, Replaced, Booting
  <2>5. SoundInv'
    <3>1. CASE waived'
      BY <3>1 DEF SoundInv
    <3>2. CASE env' = Corrupt /\ pend' = savedEnv /\ waived' = waived
      <4>1. Kept' = Kept
        BY <2>1, <2>2, <3>2 DEF Kept, Replaced
      <4> QED BY <1>b, <2>1, <2>2, <3>2, <4>1 DEF diskVars, Replacing
    <3> QED BY <2>1, <3>1, <3>2
  <2> QED BY <1>a, <2>1, <2>3, <2>4, <2>5 DEF IInv
<1>13. CASE Replace
  <2>1. /\ pc = "up" /\ pend = NoEnv /\ fails = 0 /\ UNCHANGED <<bootVars, history>>
        /\ cur \in Slot /\ rauc.target \in Slot /\ rauc.target = Other(cur)
    BY <1>0, <1>13, ReplaceFacts DEF Replace, InstallInv, RetryInv, Booting, Replacing
  <2>2. TypeOK'
    BY <1>0, <1>13, <2>1, ReplaceFacts DEF TypeOK, bootVars, history
  <2>3. WriteInv' /\ InstallInv'
    BY <1>0, <1>13, <2>1, ReplaceFacts
       DEF WriteInv, InstallInv, bootVars, Replacing, Replaced, Booting
  <2>4. SoundInv'
    <3> SUFFICES ASSUME ~waived PROVE SoundInv'
      BY <2>1 DEF SoundInv, history
    <3>1. Kept' = Kept
      BY <1>13, <2>1, ReplaceFacts DEF Kept, bootVars
    <3>2. ~Kept.ok[rauc.target] /\ \A s \in Slot : Kept.ok[s] => Whole(s)
      BY <1>0, <1>13, ReplaceFacts DEF SoundInv
    <3>3. \A s \in Slot : Kept.ok[s] => Whole(s)'
      BY <1>13, <2>1, <3>2, ReplaceFacts DEF Whole
    <3> QED BY <1>0, <1>13, <2>1, <3>1, <3>3, ReplaceFacts
            DEF SoundInv, bootVars, history
  <2> QED BY <1>a, <2>1, <2>2, <2>3, <2>4 DEF IInv, bootVars, history
<1>14. CASE UpdateFails
  <2>1. /\ pc = "up" /\ pc' = pc /\ fails = 0 /\ pend = NoEnv /\ cur \in Slot
        /\ rauc' = Idle /\ saved' = "nothing" /\ savedEnv' = NoEnv
        /\ waived' = (waived \/ rauc.stage \in Replaced)
        /\ UNCHANGED <<diskVars, cur, rescue, env, pend, firstBoot, losses, provisioned, fails>>
    BY <1>0, <1>14 DEF UpdateFails, InstallFails, InstallStops, InstallInv, RetryInv, Booting
  <2>2. cut' \in BOOLEAN /\ waived' \in BOOLEAN
    BY <1>14 DEF UpdateFails, InstallFails, InstallStops
  <2>3. TypeOK'
    BY <1>0, <2>1, <2>2, ImagesAssumption
       DEF TypeOK, InstallTypeOK, diskVars, Idle, Stages
  <2>4. WriteInv' /\ InstallInv'
    BY <2>1 DEF WriteInv, InstallInv, Idle, Replaced, Booting
  <2>5. SoundInv'
    <3> SUFFICES ASSUME ~waived' PROVE SoundInv'
      BY DEF SoundInv
    <3>1. ~waived /\ rauc.stage \notin Replaced /\ rauc'.stage = "idle"
      BY <2>1 DEF Idle
    <3>2. Kept' = Kept
      BY <2>1, <3>1 DEF Kept, Replaced
    <3> QED BY <1>b, <2>1, <3>1, <3>2 DEF diskVars, Replacing
  <2> QED BY <1>a, <2>1, <2>3, <2>4, <2>5 DEF IInv
<1>15. CASE Activate
  <2>1. /\ pc = "up" /\ pc' = pc /\ fails = 0 /\ rauc.stage = "activate"
        /\ pend = NoEnv /\ env \in Env /\ cur \in Slot /\ rauc.target \in Slot
        /\ Whole(rauc.target)
        /\ WriteBegin(PrimaryEnv(env, rauc.target)) /\ rauc' = Idle /\ rauc'.stage = "idle"
        /\ UNCHANGED <<diskVars, saved, cut, history, cur, rescue, savedEnv, firstBoot>>
    BY <1>0, <1>15
       DEF Activate, Stage, WriteBegin, WriteInv, InstallInv, InstallTypeOK, RetryInv,
           Booting, Idle, Whole
  <2>2. PICK e \in Env : /\ WriteBegin(e) /\ e.machineId = env.machineId
                         /\ e.ok = [env.ok EXCEPT ![rauc.target] = TRUE]
    <3>1. /\ PrimaryEnv(env, rauc.target) \in Env
          /\ PrimaryEnv(env, rauc.target).ok = [env.ok EXCEPT ![rauc.target] = TRUE]
          /\ PrimaryEnv(env, rauc.target).machineId = env.machineId
      BY <2>1, RaucEnvFacts
    <3> QED BY <2>1, <3>1 DEF WriteBegin
  <2>3. /\ Kept = env /\ Kept' = e /\ env' = Corrupt /\ pend' = e
        /\ ~waived => env.ok[cur] /\ (provisioned => env.machineId = TRUE)
        /\ ~waived => \A t \in Slot : env.ok[t] => Whole(t)
    BY <1>c, <2>1, <2>2 DEF Replaced
  <2>4. TypeOK'
    BY <1>0, <2>1, <2>3, ImagesAssumption
       DEF TypeOK, InstallTypeOK, diskVars, history, Idle, Stages
  <2>5. WriteInv' /\ InstallInv'
    BY <2>1, <2>3 DEF WriteInv, InstallInv, Replaced, Booting
  <2>6. SoundInv'
    <3>1. env.ok \in [Slot -> BOOLEAN]
      BY <2>1 DEF Env
    <3> QED BY <2>1, <2>2, <2>3, <3>1
            DEF SoundInv, diskVars, history, Whole, Replacing
  <2> QED BY <1>a, <2>1, <2>4, <2>5, <2>6 DEF IInv, history
<1>16. CASE Reboot \/ PowerLoss
  <2>1. /\ pc \in Booting /\ pc' = "off" /\ cur' = NoSlot /\ rauc' = Idle
        /\ saved' = "nothing" /\ pend' = NoEnv /\ env' = env
        /\ savedEnv' \in Env \cup {NoEnv}
        /\ UNCHANGED <<diskVars, rescue, firstBoot, provisioned>>
    BY <1>0, <1>16 DEF Reboot, PowerLoss, InstallStops, Booting, history, TypeOK
  <2>2. cut' \in BOOLEAN
    BY <1>16 DEF Reboot, PowerLoss, InstallStops
  <2>3. losses' \in 0 .. MaxLosses /\ fails' = 0
    BY <1>0, <1>16, TriesAssumption DEF Reboot, PowerLoss, history, TypeOK, RetryInv
  <2>4. /\ waived' \in BOOLEAN
        /\ ~waived' => ~waived /\ pend = NoEnv /\ rauc.stage \notin Replaced
    <3>1. CASE Reboot
      BY <1>0, <3>1 DEF Reboot, Stage, Replaced, history, TypeOK
    <3>2. CASE PowerLoss
      BY <3>2 DEF PowerLoss
    <3> QED BY <1>16, <3>1, <3>2
  <2>5. TypeOK'
    <3>1. fails' \in 0 .. FailCap
      BY <2>3, TriesAssumption DEF FailCap
    <3> QED BY <1>0, <2>1, <2>2, <2>3, <2>4, <3>1, ImagesAssumption
            DEF TypeOK, InstallTypeOK, diskVars, Idle, Stages
  <2>6. WriteInv' /\ InstallInv'
    BY <2>1 DEF WriteInv, InstallInv, Idle, Replaced, Booting
  <2>7. SoundInv'
    <3> SUFFICES ASSUME ~waived' PROVE SoundInv'
      BY DEF SoundInv
    <3>1. Kept' = Kept /\ rauc'.stage = "idle"
      BY <2>1, <2>4 DEF Kept, Replaced, Idle
    <3> QED BY <1>b, <2>1, <2>4, <3>1 DEF diskVars, Replacing, Booting
  <2> QED BY <1>a, <2>1, <2>3, <2>5, <2>6, <2>7 DEF IInv
<1>17. CASE UNCHANGED vars
  <2>1. Kept' = Kept /\ InForce' = InForce
    BY <1>17 DEF vars, bootVars, installVars, Kept, InForce, Loaded
  <2> QED BY <1>0, <1>17, <2>1
          DEF IInv, TypeOK, InstallTypeOK, WriteInv, InstallInv, SoundInv, FirstBootOnce,
              RetryInv, Bootable, Whole, vars, bootVars, installVars, history
<1> QED BY <1>1, <1>2, <1>3, <1>4, <1>5, <1>6, <1>7, <1>8, <1>9, <1>10, <1>11, <1>12, <1>13,
           <1>14, <1>15, <1>16, <1>17 DEF Next, Boot, Running

\* The invariant holds in every reachable state.
THEOREM Invariance == Spec => []IInv
BY InitIInv, StepIInv, PTL DEF Spec

-----------------------------------------------------------------------------
\* No power loss and no failed update, wherever it falls, leaves the OK flag of
\* a half-written slot set, as long as grubenv itself survived.
THEOREM OkStaysWhole == Spec => []OkSlotWhole
<1>1. IInv => OkSlotWhole
  BY EnvironmentsFacts DEF IInv, SoundInv, OkSlotWhole
<1> QED BY <1>1, Invariance, PTL

\* In every state: types, the OK flag of the slot that runs, a single first
\* boot, and no more than Tries kernels started in vain while the machine can
\* recover.
THEOREM StateSound == Spec => []BootStateSound
<1>1. IInv => BootStateSound
  <2> SUFFICES ASSUME IInv PROVE BootStateSound
    OBVIOUS
  <2>1. TypeOK /\ FirstBootOnce
    BY DEF IInv
  <2>2. RunningSlotOk
    BY EnvironmentsFacts DEF IInv, SoundInv, RunningSlotOk, Booting
  <2>3. BoundedRetries
    <3> SUFFICES ASSUME NEW b \in Slot, Bootable(b), Eligible(InForce, b)
                 PROVE  fails <= Tries
      BY DEF BoundedRetries, Recoverable, InForce
    <3>1. fails <= InForce.try[Other(b)] /\ fails \in Nat
      BY <2>1 DEF IInv, RetryInv, TypeOK
    <3>2. InForce.try[Other(b)] \in 0 .. Tries
      BY <2>1, LoadedFacts, SlotFacts DEF TypeOK, Env
    <3> QED BY <3>1, <3>2, TriesAssumption
  <2> QED BY <2>1, <2>2, <2>3 DEF BootStateSound
<1> QED BY <1>1, Invariance, PTL

-----------------------------------------------------------------------------
(***************************************************************************)
(* GrubBoot implements ABUpdate.                                           *)
(***************************************************************************)

Holds == [s \in Slot |-> IF Whole(s) THEN kernel[s] ELSE Empty]
RunningSlot == IF pc \in {"start", "up", "rescue"} THEN cur ELSE NoSlot

\* A freshly flashed disk is an initial state of ABUpdate.
LEMMA RefinementInit == Init => AB!AbsInit
<1> SUFFICES ASSUME Init PROVE AB!AbsInit
  OBVIOUS
<1>1. Holds \in [Slot -> Images \cup {Empty}]
  BY DEF Holds, Whole
<1>2. Holds["A"] # Empty
  BY ImagesAssumption DEF Holds, Whole, Init, InstallInit, Slot
<1>3. RunningSlot = NoSlot /\ (~waived) = TRUE
  BY DEF RunningSlot, Init
<1> QED BY <1>1, <1>2, <1>3, SlotFacts DEF AB!AbsInit, Holds, RunningSlot

\* Every step of booting and updating is a step of ABUpdate or changes nothing
\* that ABUpdate sees.
LEMMA RefinementStep == IInv /\ [Next]_vars => [AB!AbsNext]_(AB!absVars)
<1> SUFFICES ASSUME IInv, [Next]_vars
             PROVE  [AB!AbsNext]_(AB!absVars)
  OBVIOUS
<1> USE SlotFacts
<1>0. CASE waived'
  BY <1>0 DEF AB!AbsNext
<1>1. ASSUME ~waived', ~waived, Holds' = Holds, RunningSlot' = RunningSlot
      PROVE  UNCHANGED AB!absVars
  BY <1>1 DEF AB!absVars, Holds, RunningSlot
<1>2. ASSUME Running, ~Replace, ~Reboot
      PROVE  UNCHANGED <<kernel, rootfs, pc, cur>> /\ (waived => waived')
  <2>1. CASE StoreDone \/ MarkGood
    BY <2>1 DEF StoreDone, MarkGood, installVars, history
  <2>2. CASE BootOther
    <3>1. waived => waived'
      BY <2>2 DEF BootOther
    <3> QED BY <2>2, <3>1 DEF BootOther, installVars
  <2>3. CASE BeginUpdate \/ InstallCheck
    BY <2>3 DEF BeginUpdate, InstallCheck, Begin, CheckRejects, CheckAccepts,
                bootVars, diskVars, history
  <2>4. CASE MarkTargetBad \/ Activate
    BY <2>4 DEF MarkTargetBad, Activate, diskVars, history
  <2>5. CASE BackupEnv \/ OverwriteEnv
    BY <2>5 DEF BackupEnv, OverwriteEnv, BootBackup, BootCopyConfig, history
  <2>6. CASE RestoreEnv
    <3>1. waived => waived'
      BY <2>6 DEF RestoreEnv
    <3> QED BY <2>6, <3>1 DEF RestoreEnv, BootRestoreEnv, diskVars
  <2>7. CASE UpdateFails
    <3>1. waived => waived'
      BY <2>7 DEF UpdateFails
    <3> QED BY <2>7, <3>1 DEF UpdateFails, InstallFails, InstallStops, diskVars
  <2> QED BY <1>2, <2>1, <2>2, <2>3, <2>4, <2>5, <2>6, <2>7 DEF Running
<1>3. CASE ~waived' /\ Running /\ ~Replace /\ ~Reboot
  BY <1>1, <1>2, <1>3 DEF Holds, RunningSlot, Whole
<1>4. CASE ~waived' /\ (Script \/ MenuEntry \/ ChainBroken \/ PowerCycle \/ BootFails)
  <2>1. /\ UNCHANGED <<kernel, rootfs, waived>>
        /\ pc \notin {"start", "up", "rescue"} /\ pc' \notin {"start", "up", "rescue"}
    BY <1>4 DEF Script, MenuEntry, ChainBroken, PowerCycle, BootFails,
                installVars, history
  <2> QED BY <1>1, <1>4, <2>1 DEF Holds, RunningSlot, Whole
<1>5. CASE ~waived' /\ Persist
  BY <1>1, <1>5 DEF Persist, Holds, RunningSlot, Whole, installVars, history
<1>6. CASE ~waived' /\ ComesUp
  <2>1. /\ UNCHANGED <<kernel, rootfs, cur, waived>> /\ pc = "kernel"
        /\ pc' \in {"start", "rescue"}
    BY <1>6 DEF ComesUp, installVars
  <2>2. cur \in Slot /\ Whole(cur)
    BY <1>6, <2>1 DEF IInv, InstallInv, SoundInv, Booting
  <2>3. /\ Holds' = Holds /\ Holds[cur] \in Images
        /\ RunningSlot = NoSlot /\ RunningSlot' = cur
    BY <2>1, <2>2 DEF Holds, RunningSlot, Whole
  <2>4. (~waived) = TRUE /\ (~waived)' = TRUE
    BY <1>6, <2>1
  <2>5. AB!Start(cur)
    BY <2>3 DEF AB!Start, Holds, RunningSlot
  <2> QED BY <2>2, <2>4, <2>5 DEF AB!AbsNext
<1>7. CASE ~waived' /\ Replace
  <2>1. /\ UNCHANGED <<pc, cur, waived>> /\ pc = "up"
        /\ cur \in Slot /\ rauc.target \in Slot /\ rauc.target = Other(cur)
        /\ \A s \in Slot \ {rauc.target} :
              kernel'[s] = kernel[s] /\ rootfs'[s] = rootfs[s]
    BY <1>7, ReplaceFacts
       DEF Replace, bootVars, history, IInv, InstallInv, Replacing, Booting
  <2>2. PICK r \in Images \cup {Empty} : Holds'[rauc.target] = r
    BY <2>1 DEF Holds, Whole
  <2>3. Holds' = [Holds EXCEPT ![rauc.target] = r]
    <3>1. \A s \in Slot \ {rauc.target} : Holds'[s] = Holds[s]
      BY <2>1 DEF Holds, Whole
    <3>2. /\ Holds' = [s \in Slot |-> Holds'[s]]
          /\ Holds = [s \in Slot |-> Holds[s]]
      BY DEF Holds
    <3> HIDE DEF Holds
    <3> QED BY <2>1, <2>2, <3>1, <3>2
  <2>4. RunningSlot \in Slot \ {rauc.target} /\ RunningSlot' = RunningSlot
    BY <2>1 DEF RunningSlot
  <2>5. (~waived) = TRUE /\ (~waived)' = TRUE
    BY <1>7, <2>1
  <2>6. PICK t \in Slot : t = rauc.target
    BY <2>1
  <2>7. AB!Rewrite(t)
    BY <2>2, <2>3, <2>4, <2>6 DEF AB!Rewrite, Holds, RunningSlot
  <2> QED BY <2>5, <2>7 DEF AB!AbsNext
<1>8. CASE ~waived' /\ (Reboot \/ PowerLoss)
  <2>1. UNCHANGED <<kernel, rootfs>> /\ pc' = "off" /\ ~waived
    <3>1. ~waived
      <4>1. CASE PowerLoss
        BY <1>8, <4>1 DEF PowerLoss
      <4>2. CASE Reboot
        BY <1>8, <4>2 DEF Reboot, history
      <4> QED BY <1>8, <4>1, <4>2
    <3> QED BY <1>8, <3>1 DEF Reboot, PowerLoss, InstallStops, diskVars
  <2>2. Holds' = Holds /\ RunningSlot' = NoSlot
    BY <2>1 DEF Holds, RunningSlot, Whole
  <2>3. (~waived) = TRUE /\ (~waived)' = TRUE
    BY <1>8, <2>1
  <2>4. AB!Stop
    BY <2>2 DEF AB!Stop, Holds, RunningSlot
  <2> QED BY <2>3, <2>4 DEF AB!AbsNext
<1>9. CASE ~waived' /\ UNCHANGED vars
  BY <1>1, <1>9 DEF Holds, RunningSlot, Whole, vars, installVars, bootVars, history
<1> QED BY <1>0, <1>3, <1>4, <1>5, <1>6, <1>7, <1>8, <1>9 DEF Next, Boot, Running

\* Booting and updating with GRUB keep the promise of ABUpdate: the system, and
\* its rescue entry, only ever run from a complete release and an update only
\* ever writes the other slot.
THEOREM Refinement == Spec => ImplementsABUpdate
BY Invariance, RefinementInit, RefinementStep, PTL
   DEF Spec, ImplementsABUpdate, AB!AbsSpec
=============================================================================
