-------------------------- MODULE SupervisorProofs --------------------------
(***************************************************************************)
(* Proofs about SupervisorStart, for any releases of the Supervisor, any   *)
(* start limit and any number of corruptions.                              *)
(***************************************************************************)
EXTENDS SupervisorStart, TLAPS

\* What the script remembers is there: nobody else removes image or container
\* while it runs.
KnowledgeInv ==
    /\ known => container # None
    /\ pc = "off" => ~known
    /\ pc = "image" /\ found => image # None
    /\ pc \in {"stale", "create"} => image # None

\* The time stamp belongs to the script that made the container, but between
\* the creation and the time stamp.
StampInv ==
    /\ ~cut /\ container # None /\ pc # "stamp" => container.script = stamp
    /\ pc = "stamp" =>
          container # None /\ container.image = image /\ container.script = script

\* What was compared with image and script is still so when the container is
\* started.
CurrentInv ==
    /\ pc = "create" /\ known => container.image = image /\ stamp = script
    /\ pc = "launch" =>
          /\ container # None /\ container.image = image
          /\ cut \/ container.script = script

IInv == TypeOK /\ KnowledgeInv /\ StampInv /\ CurrentInv

-----------------------------------------------------------------------------
\* A data partition as it is built satisfies the invariant.
LEMMA InitIInv == Init => IInv
<1> SUFFICES ASSUME Init PROVE IInv
  OBVIOUS
<1>1. TypeOK
  <2>1. starts \in 0 .. Burst /\ damage \in 0 .. MaxDamage
    BY SupervisorAssumption DEF Init
  <2> QED BY <2>1 DEF Init, TypeOK, Scripts
<1>2. KnowledgeInv /\ StampInv /\ CurrentInv
  BY DEF Init, KnowledgeInv, StampInv, CurrentInv
<1> QED BY <1>1, <1>2 DEF IInv

\* No step of a unit, the Supervisor, systemd or the world leads out of IInv.
LEMMA StepIInv == IInv /\ [Next]_vars => IInv'
<1> SUFFICES ASSUME IInv, [Next]_vars PROVE IInv'
  OBVIOUS
<1> USE SupervisorAssumption, NoneAssumption
<1>0. TypeOK /\ KnowledgeInv /\ StampInv /\ CurrentInv
  BY DEF IInv
\* The steps that leave image, container, time stamp and script alone.
<1>a. ASSUME UNCHANGED <<image, container, stamp, script, known, found, cut>>,
             pc' # "off", pc # "stamp", pc' # "stamp", pc' # "launch",
             pc' = "create" => pc = "create",
             pc' \in {"image", "stale"} => pc' = pc
      PROVE  KnowledgeInv' /\ StampInv' /\ CurrentInv'
  BY <1>0, <1>a DEF KnowledgeInv, StampInv, CurrentInv
<1>1. CASE Apparmor
  <2>1. TypeOK'
    BY <1>0, <1>1 DEF Apparmor, TypeOK
  <2> QED BY <1>1, <1>a, <2>1 DEF Apparmor, IInv
<1>2. CASE Begin
  <2>1. /\ container' \in {container, None} /\ image' \in {image, None}
        /\ known' => container' # None /\ container' = container
        /\ found' => image' # None
        /\ known' \in BOOLEAN /\ found' \in BOOLEAN /\ disturbed' \in BOOLEAN
        /\ marker' = TRUE /\ pc = "wait" /\ pc' = "image"
        /\ starts' = starts + 1 /\ starts < Burst
        /\ UNCHANGED <<imageOk, stamp, updater, profile, script, loaded, net, damage, cut>>
    BY <1>0, <1>2 DEF Begin, RemoveContainer, RemoveImages, TypeOK
  <2>2. TypeOK'
    BY <1>0, <2>1 DEF TypeOK
  <2>3. KnowledgeInv' /\ StampInv' /\ CurrentInv'
    BY <1>0, <2>1 DEF KnowledgeInv, StampInv, CurrentInv
  <2> QED BY <2>2, <2>3 DEF IInv
<1>3. CASE HaveImage
  <2> USE <1>3 DEF HaveImage, data
  <2>1. TypeOK'
    BY <1>0 DEF TypeOK
  <2>2. KnowledgeInv' /\ StampInv' /\ CurrentInv'
    BY <1>0 DEF KnowledgeInv, StampInv, CurrentInv
  <2> QED BY <2>1, <2>2 DEF IInv
<1>4. CASE Pull
  <2> USE <1>4 DEF Pull
  <2>1. TypeOK'
    BY <1>0 DEF TypeOK
  <2>2. KnowledgeInv' /\ StampInv' /\ CurrentInv'
    BY <1>0 DEF KnowledgeInv, StampInv, CurrentInv
  <2> QED BY <2>1, <2>2 DEF IInv
<1>5. CASE PullFails
  <2> USE <1>5 DEF PullFails, Exit
  <2>1. TypeOK'
    BY <1>0 DEF TypeOK
  <2> QED BY <1>a, <2>1 DEF IInv
<1>6. CASE CheckContainer
  <2>1. /\ container' \in {container, None}
        /\ known' => known /\ container' = container /\ ~Stale
        /\ known' \in BOOLEAN /\ disturbed' \in BOOLEAN
        /\ pc = "stale" /\ pc' = "create"
        /\ UNCHANGED <<image, imageOk, stamp, updater, profile, script, marker,
                       loaded, found, net, starts, damage, cut>>
    <3>1. CASE Stale /\ RemoveContainer /\ known' = FALSE
               /\ disturbed' = (disturbed \/ container' # None)
      BY <1>6, <3>1 DEF CheckContainer, RemoveContainer
    <3>2. CASE ~Stale /\ UNCHANGED <<container, known, disturbed>>
      BY <1>0, <1>6, <3>2 DEF CheckContainer, TypeOK
    <3> QED BY <1>6, <3>1, <3>2 DEF CheckContainer
  <2>2. TypeOK'
    BY <1>0, <2>1 DEF TypeOK
  <2>3. KnowledgeInv' /\ StampInv' /\ CurrentInv'
    BY <1>0, <2>1 DEF KnowledgeInv, StampInv, CurrentInv, Stale
  <2> QED BY <2>2, <2>3 DEF IInv
<1>7. CASE Create
  <2>0. UNCHANGED <<image, imageOk, stamp, updater, profile, script, marker,
                    loaded, known, found, net, starts, damage, disturbed, cut>>
    BY <1>7 DEF Create
  <2>1. CASE known /\ pc = "create" /\ pc' = "launch" /\ UNCHANGED container
    <3>1. TypeOK'
      BY <1>0, <2>0, <2>1 DEF TypeOK
    <3> QED BY <1>0, <2>0, <2>1, <3>1 DEF IInv, KnowledgeInv, StampInv, CurrentInv
  <2>2. CASE /\ ~known /\ pc = "create" /\ pc' = "stamp"
             /\ container' = [image |-> image, script |-> script, ok |-> imageOk]
    <3>1. container' \in Container
      BY <1>0, <2>2 DEF TypeOK, KnowledgeInv, Container
    <3>2. TypeOK'
      BY <1>0, <2>0, <2>2, <3>1 DEF TypeOK
    <3> QED BY <1>0, <2>0, <2>2, <3>1, <3>2 DEF IInv, KnowledgeInv, StampInv, CurrentInv
  <2>3. CASE ~known /\ pc = "create" /\ pc' = "wait" /\ UNCHANGED container
    <3>1. TypeOK'
      BY <1>0, <2>0, <2>3 DEF TypeOK
    <3> QED BY <1>a, <2>0, <2>3, <3>1 DEF IInv
  <2> QED BY <1>7, <2>1, <2>2, <2>3 DEF Create, Exit
<1>8. CASE Stamp
  <2> USE <1>8 DEF Stamp
  <2>1. TypeOK'
    BY <1>0 DEF TypeOK
  <2>2. KnowledgeInv' /\ StampInv' /\ CurrentInv'
    BY <1>0 DEF KnowledgeInv, StampInv, CurrentInv
  <2> QED BY <2>1, <2>2 DEF IInv
<1>9. CASE Launch \/ Ready \/ Ends
  <2>1. TypeOK'
    <3>1. CASE Launch
      BY <1>0, <3>1 DEF Launch, Exit, TypeOK, data
    <3>2. CASE Ready
      <4>1. marker' \in BOOLEAN
        BY <3>2 DEF Ready
      <4> QED BY <1>0, <3>2, <4>1 DEF Ready, TypeOK, data
    <3>3. CASE Ends
      <4>1. disturbed' \in BOOLEAN
        BY <3>3 DEF Ends
      <4> QED BY <1>0, <3>3, <4>1 DEF Ends, Exit, TypeOK, data
    <3> QED BY <1>9, <3>1, <3>2, <3>3
  <2>2. /\ UNCHANGED <<image, container, stamp, script, known, found, cut>>
        /\ pc \in {"launch", "run"} /\ pc' \in {"run", "wait"}
    BY <1>9 DEF Launch, Ready, Ends, Exit, data
  <2> QED BY <1>a, <2>1, <2>2 DEF IInv
<1>10. CASE SelfUpdate
  <2> USE <1>10 DEF SelfUpdate
  <2>1. TypeOK'
    BY <1>0 DEF TypeOK
  <2>2. KnowledgeInv' /\ StampInv' /\ CurrentInv'
    BY <1>0 DEF KnowledgeInv, StampInv, CurrentInv
  <2> QED BY <2>1, <2>2 DEF IInv
<1>11. CASE GiveUp \/ IntervalPasses \/ Wanted
  <2>1. TypeOK'
    BY <1>0, <1>11 DEF GiveUp, IntervalPasses, Wanted, TypeOK, data
  <2>2. /\ UNCHANGED <<image, container, stamp, script, known, found, cut>>
        /\ pc \in {"wait", "run", "failed"} /\ pc' \in {"wait", "run", "failed"}
    BY <1>11 DEF GiveUp, IntervalPasses, Wanted, data
  <2> QED BY <1>a, <2>1, <2>2 DEF IInv
<1>12. CASE NetworkChanges
  <2> USE <1>12 DEF NetworkChanges, data
  <2>1. TypeOK'
    BY <1>0 DEF TypeOK
  <2>2. KnowledgeInv' /\ StampInv' /\ CurrentInv'
    BY <1>0 DEF KnowledgeInv, StampInv, CurrentInv
  <2> QED BY <2>1, <2>2 DEF IInv
<1>13. CASE Damage
  <2>1. /\ UNCHANGED <<image, stamp, profile, script, marker, loaded, known, found,
                       net, pc, starts, disturbed, cut>>
        /\ damage' = damage + 1 /\ damage < MaxDamage
        /\ imageOk' \in BOOLEAN /\ updater' \in {"none", "known", "gone"}
    BY <1>0, <1>13 DEF Damage, TypeOK
  <2>2. \/ container' = container
        \/ /\ container \in Container /\ container' \in Container
           /\ container'.image = container.image /\ container'.script = container.script
    BY <1>0, <1>13 DEF Damage, TypeOK, Container
  <2>3. TypeOK'
    BY <1>0, <2>1, <2>2 DEF TypeOK
  <2>4. KnowledgeInv' /\ StampInv' /\ CurrentInv'
    BY <1>0, <2>1, <2>2 DEF KnowledgeInv, StampInv, CurrentInv
  <2> QED BY <2>3, <2>4 DEF IInv
<1>14. CASE Restart
  <2> USE <1>14 DEF Restart, data
  <2>1. TypeOK'
    <3>1. disturbed' \in BOOLEAN
      OBVIOUS
    <3>2. cut' \in BOOLEAN
      OBVIOUS
    <3>3. starts' \in 0 .. Burst
      OBVIOUS
    <3> QED BY <1>0, <3>1, <3>2, <3>3 DEF TypeOK
  <2>2. KnowledgeInv' /\ StampInv' /\ CurrentInv'
    BY <1>0 DEF KnowledgeInv, StampInv, CurrentInv
  <2> QED BY <2>1, <2>2 DEF IInv
<1>15. CASE Wipe
  <2> USE <1>15 DEF Wipe
  <2>1. TypeOK'
    BY <1>0 DEF TypeOK
  <2>2. KnowledgeInv' /\ StampInv' /\ CurrentInv'
    BY <1>0 DEF KnowledgeInv, StampInv, CurrentInv
  <2> QED BY <2>1, <2>2 DEF IInv
<1>16. CASE UNCHANGED vars
  BY <1>0, <1>16 DEF vars, data, IInv, TypeOK, KnowledgeInv, StampInv, CurrentInv
<1> QED BY <1>1, <1>2, <1>3, <1>4, <1>5, <1>6, <1>7, <1>8, <1>9, <1>10, <1>11, <1>12, <1>13,
           <1>14, <1>15, <1>16 DEF Next, Script

\* The invariant holds in every reachable state.
THEOREM Invariance == Spec => []IInv
BY InitIInv, StepIInv, PTL DEF Spec

-----------------------------------------------------------------------------
\* The script's variables keep their types; in particular a container is only
\* ever created from an image that is there, and systemd never counts more
\* starts than its limit.
THEOREM TypeCorrect == Spec => []TypeOK
<1>1. IInv => TypeOK
  BY DEF IInv
<1> QED BY <1>1, Invariance, PTL

\* Whatever was removed, pulled, updated, cut off or rolled back before, the
\* container that is started was made from the current image by the current
\* start script.
THEOREM CurrentContainer == Spec => StartsCurrentContainer
<1>1. IInv => [pc = "launch" /\ pc' = "run" =>
                  container.image = image /\ (cut \/ container.script = script)]_vars
  BY DEF IInv, CurrentInv
<1> QED BY <1>1, Invariance, PTL DEF Spec, StartsCurrentContainer
=============================================================================
