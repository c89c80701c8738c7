------------------------------ MODULE ABUpdate ------------------------------
(***************************************************************************)
(* What A/B updating promises, whichever boot loader carries it out: the   *)
(* system only ever runs from a slot that holds one complete release, and  *)
(* an update only ever touches the slot that is not running.  The promise  *)
(* ends (valid is FALSE) when the boot loader's own state is destroyed or  *)
(* the owner overrides it.                                                 *)
(***************************************************************************)
CONSTANTS Slots, Releases, Gap, Nowhere

VARIABLES
    holds,      \* the release a slot holds, or Gap
    running,    \* the slot the system runs from, or Nowhere
    valid       \* the promise still binds

absVars == <<holds, running, valid>>

AbsInit ==
    /\ holds \in [Slots -> Releases \cup {Gap}]
    /\ \E s \in Slots : holds[s] # Gap
    /\ running = Nowhere
    /\ valid = TRUE

Start(s) ==
    /\ running = Nowhere
    /\ holds[s] \in Releases
    /\ running' = s
    /\ UNCHANGED holds

Stop ==
    /\ running' = Nowhere
    /\ UNCHANGED holds

\* An update discards or completes the release of a slot that is not running.
Rewrite(s) ==
    /\ running \in Slots \ {s}
    /\ \E r \in Releases \cup {Gap} : holds' = [holds EXCEPT ![s] = r]
    /\ UNCHANGED running

AbsNext ==
    \/ /\ valid = TRUE
       /\ valid' = TRUE
       /\ Stop \/ \E s \in Slots : Start(s) \/ Rewrite(s)
    \/ valid' = FALSE

AbsSpec == AbsInit /\ [][AbsNext]_absVars
=============================================================================
