------------------------- MODULE KconfigBuildProofs -------------------------
(***************************************************************************)
(* Proofs about KconfigBuild, for any symbols and configurations, any      *)
(* number of builds and any number of interruptions.                       *)
(***************************************************************************)
EXTENDS KconfigBuild, TLAPS

\* The value that auto.conf, when it is written, records for s.
Recorded(s) == Shown(OldValsContents(conf), s)

\* auto.conf never holds what its writer leaves out: bool symbols that are n.
AutoInv ==
    \A s \in DOMAIN auto.text :
        auto.text[s] # "absent" /\ ~(s \in Bools /\ auto.text[s] = "n")

\* Where the configuration that the build found is while it is replaced.
SaveInv ==
    /\ pc \in {"save", "copying"} => before = config
    /\ pc = "copying" => config # Missing
    /\ pc \in {"saved", "writing"} /\ before.state = "whole" =>
          before = old \/ (unsaved /\ (pc = "saved" => before = config))
    /\ pc = "writing" => config = Torn(<<>>)

\* What sync_deps() knows, and what it still has to touch.
SyncInv ==
    /\ pc \in {"gone", "changed"} =>
          oldVal = [s \in DOMAIN auto.text \cap conf.syms |-> auto.text[s]]
    /\ pc = "gone" => todo \subseteq Gone(conf, auto.text)
    /\ pc = "changed" => todo \subseteq ChangedSyms(conf)

\* autoconf.h belongs to the configuration once it is written, and so does
\* auto.conf when make runs.
HeaderInv ==
    /\ pc \in {"load", "gone", "changed", "writeauto", "make", "built"} =>
          header = Whole(AutoconfContents(conf))
    /\ pc \in {"make", "built"} => auto = Whole(OldValsContents(conf))

\* An object that is not up to date will be found out: its symbol's file is
\* touched, or the comparison with auto.conf is still to come and differs.
ObjectInv ==
    \A s \in Names :
        \/ tornAuto
        \/ s \in lapsed
        \/ object[s] = "none"
        \/ s \in touched
        \/ /\ pc # "writeauto" => object[s] = Shown(auto.text, s)
           /\ pc = "changed" /\ s \notin todo => object[s] = Recorded(s)
           /\ pc = "writeauto" => object[s] = Recorded(s)

\* What is no symbol any more, or no defined one, is taken care of before the
\* values are compared.
GoneInv ==
    pc = "gone" =>
        /\ Gone(conf, auto.text) \subseteq todo \cup touched
        /\ DOMAIN auto.text \cap (conf.syms \ conf.defined) \subseteq lapsed

\* A build ends when no file is newer than its object and no object is missing.
BuiltInv ==
    /\ DOMAIN object = Names
    /\ pc = "built" => touched = {} /\ \A s \in Names : object[s] # "none"

IInv ==
    /\ TypeOK
    /\ SavedConfigSurvives
    /\ AutoInv
    /\ SaveInv
    /\ SyncInv
    /\ HeaderInv
    /\ GoneInv
    /\ ObjectInv
    /\ BuiltInv

-----------------------------------------------------------------------------
(***************************************************************************)
(* Facts about the contents of files.                                      *)
(***************************************************************************)

\* The three kinds of files, and what they hold.
LEMMA FileFacts ==
    /\ Missing.state = "missing" /\ DOMAIN Missing.text = {}
    /\ \A t : Whole(t).state = "whole" /\ Whole(t).text = t
    /\ \A t : Torn(t).state = "torn" /\ Torn(t).text = t
    /\ DOMAIN (<<>>) = {}
BY DEF Missing, Whole, Torn

\* write_autoconf() and _write_old_vals() show the same symbols: those that are
\* defined, written and not n.
LEMMA ContentsFacts ==
    ASSUME NEW c \in Configs
    PROVE  /\ AutoconfContents(c) = OldValsContents(c)
           /\ DOMAIN OldValsContents(c) = ShownIn(c)
           /\ ShownIn(c) \subseteq c.defined
           /\ c.defined \subseteq c.syms /\ c.syms \subseteq Names
           /\ DOMAIN ConfigContents(c) \subseteq Names
           /\ \A s \in ShownIn(c) : /\ OldValsContents(c)[s] = c.val[s]
                                    /\ c.val[s] # "absent"
                                    /\ ~(s \in Bools /\ c.val[s] = "n")
           /\ \A s \in c.defined : c.write[s] \in BOOLEAN
BY ConfigsAssumption
   DEF AutoconfContents, OldValsContents, ConfigContents, ShownIn, Names

\* sync_deps() takes a symbol for unchanged exactly when auto.conf records what
\* is about to be recorded: n and "not written" both have no line.
LEMMA UnchangedMeansRecorded ==
    ASSUME conf \in Configs, AutoInv,
           oldVal = [s \in DOMAIN auto.text \cap conf.syms |-> auto.text[s]],
           NEW s \in conf.defined
    PROVE  /\ Shown(oldVal, s) = Shown(auto.text, s)
           /\ Unchanged(conf, s) <=> Shown(auto.text, s) = Recorded(s)
<1>1. s \in conf.syms /\ Shown(oldVal, s) = Shown(auto.text, s)
  BY ContentsFacts DEF Shown
<1>2. Recorded(s) = IF s \in ShownIn(conf) THEN conf.val[s] ELSE "absent"
  BY ContentsFacts DEF Recorded, Shown
<1>3. s \in ShownIn(conf) <=> conf.write[s] /\ ~(s \in Bools /\ conf.val[s] = "n")
  BY DEF ShownIn
<1>4. /\ Shown(auto.text, s) # "absent" => ~(s \in Bools /\ Shown(auto.text, s) = "n")
      /\ conf.val[s] # "absent"
  BY ConfigsAssumption DEF AutoInv, Shown
<1> QED BY <1>1, <1>2, <1>3, <1>4 DEF Unchanged

-----------------------------------------------------------------------------
(***************************************************************************)
(* The invariant holds initially and is preserved by every step.           *)
(***************************************************************************)

\* Before the first build there are no files and no objects.
LEMMA InitIInv == Init => IInv
<1> SUFFICES ASSUME Init PROVE IInv
  OBVIOUS
<1> USE FileFacts DEF Init
<1>1. TypeOK
  BY BoundsAssumption DEF TypeOK, FileStates
<1>2. SavedConfigSurvives /\ AutoInv /\ SaveInv /\ SyncInv /\ HeaderInv /\ GoneInv
  BY DEF SavedConfigSurvives, AutoInv, SaveInv, SyncInv, HeaderInv, GoneInv
<1>3. ObjectInv /\ BuiltInv
  BY DEF ObjectInv, BuiltInv
<1> QED BY <1>1, <1>2, <1>3 DEF IInv

\* No step of a build, and no interruption, leads out of IInv.
LEMMA StepIInv == IInv /\ [Next]_vars => IInv'
<1> SUFFICES ASSUME IInv, [Next]_vars PROVE IInv'
  OBVIOUS
<1> USE FileFacts
<1>0. /\ TypeOK /\ SavedConfigSurvives /\ AutoInv /\ SaveInv /\ SyncInv
      /\ HeaderInv /\ GoneInv /\ ObjectInv /\ BuiltInv /\ conf \in Configs
  BY DEF IInv, TypeOK
\* The steps that leave sync_deps() and the objects alone.
<1>a. ASSUME UNCHANGED <<conf, auto, touched, object, tornAuto, lapsed>>,
             pc \notin {"gone", "changed", "writeauto"},
             pc' \notin {"gone", "changed", "writeauto"}
      PROVE  AutoInv' /\ SyncInv' /\ GoneInv' /\ ObjectInv'
  BY <1>0, <1>a DEF AutoInv, SyncInv, GoneInv, ObjectInv
<1>b. ASSUME object' = object, pc' # "built" PROVE BuiltInv'
  BY <1>0, <1>b DEF BuiltInv
<1>1. ASSUME NEW c \in Configs, Start(c) PROVE IInv'
  <2>1. TypeOK'
    BY <1>0, <1>1, BoundsAssumption DEF TypeOK, Start
  <2>2. SavedConfigSurvives' /\ SaveInv' /\ HeaderInv'
    BY <1>1 DEF Start, SavedConfigSurvives, SaveInv, HeaderInv
  <2>3. AutoInv' /\ SyncInv' /\ GoneInv' /\ ObjectInv'
    BY <1>0, <1>1 DEF Start, AutoInv, SyncInv, GoneInv, ObjectInv
  <2>4. BuiltInv'
    BY <1>1, <1>b DEF Start
  <2> QED BY <2>1, <2>2, <2>3, <2>4 DEF IInv
<1>2. CASE ConfigUnchanged \/ SaveOld \/ SaveOldFails \/ CopyOld \/ CopyOldFails
          \/ OpenConfig \/ WriteConfig
  <2>1. /\ UNCHANGED <<conf, before, header, auto, oldVal, todo, touched, object, builds,
                       crashes, tornAuto, lapsed>>
        /\ pc \in {"save", "copying", "saved", "writing"}
        /\ pc' \in {"header", "copying", "saved", "writing"}
    BY <1>2 DEF ConfigUnchanged, SaveOld, SaveOldFails, CopyOld, CopyOldFails, OpenConfig,
                WriteConfig, ConfigStep
  <2>2. TypeOK'
    <3>1. \A f \in {config', old'} : f.state \in FileStates /\ DOMAIN f.text \subseteq Names
      BY <1>0, <1>2, ContentsFacts
         DEF ConfigUnchanged, SaveOld, SaveOldFails, CopyOld, CopyOldFails, OpenConfig,
             WriteConfig, TypeOK, FileStates
    <3> QED BY <1>0, <2>1, <3>1 DEF TypeOK
  <2>3. SavedConfigSurvives' /\ SaveInv'
    <3> USE DEF SavedConfigSurvives, SaveInv, Overwritten
    <3>1. CASE ConfigUnchanged
      BY <1>0, <2>1, <3>1 DEF ConfigUnchanged
    <3>2. CASE SaveOld
      BY <1>0, <2>1, <3>2 DEF SaveOld
    <3>3. CASE CopyOld
      BY <1>0, <2>1, <3>3 DEF CopyOld
    <3>4. CASE OpenConfig
      BY <1>0, <2>1, <3>4 DEF OpenConfig
    <3>5. CASE WriteConfig
      BY <1>0, <2>1, <3>5 DEF WriteConfig
    <3>6. CASE SaveOldFails
      BY <1>0, <2>1, <3>6 DEF SaveOldFails
    <3>7. CASE CopyOldFails
      BY <1>0, <2>1, <3>7 DEF CopyOldFails
    <3> QED BY <1>2, <3>1, <3>2, <3>3, <3>4, <3>5, <3>6, <3>7
  <2>4. HeaderInv'
    BY <2>1 DEF HeaderInv
  <2> QED BY <1>b, <1>a, <2>1, <2>2, <2>3, <2>4 DEF IInv
<1>3. CASE OpenHeader \/ WriteHeader
  <2>1. /\ UNCHANGED <<conf, config, old, before, unsaved, auto, oldVal, todo, touched,
                       object, builds, crashes, tornAuto, lapsed>>
        /\ pc \in {"header", "writeheader"} /\ pc' \in {"load", "writeheader"}
        /\ pc' = "load" => header' = Whole(AutoconfContents(conf))
        /\ header' \in {header, Torn(<<>>), Whole(AutoconfContents(conf))}
    BY <1>3 DEF OpenHeader, WriteHeader, HeaderStep, ContentsEq, saving
  <2>2. TypeOK'
    BY <1>0, <2>1, ContentsFacts DEF TypeOK, FileStates
  <2>3. SavedConfigSurvives' /\ SaveInv' /\ HeaderInv'
    BY <1>0, <2>1 DEF SavedConfigSurvives, Overwritten, SaveInv, HeaderInv
  <2> QED BY <1>b, <1>a, <2>1, <2>2, <2>3 DEF IInv
<1>4. CASE LoadOldVals
  <2> USE <1>4 DEF LoadOldVals, saving
  <2>1. TypeOK'
    BY <1>0 DEF TypeOK, Gone
  <2>2. SavedConfigSurvives' /\ SaveInv' /\ HeaderInv' /\ AutoInv'
    BY <1>0 DEF SavedConfigSurvives, Overwritten, SaveInv, HeaderInv, AutoInv
  <2>3. SyncInv' /\ GoneInv'
    BY DEF SyncInv, GoneInv, Gone
  <2>4. ObjectInv'
    BY <1>0 DEF ObjectInv
  <2> QED BY <1>b, <2>1, <2>2, <2>3, <2>4 DEF IInv
<1>5. CASE CompareValues
  <2> USE <1>5 DEF CompareValues, saving
  <2>1. TypeOK'
    <3>1. ChangedSyms(conf) \subseteq Names
      BY <1>0, ContentsFacts DEF ChangedSyms
    <3> QED BY <1>0, <3>1 DEF TypeOK
  <2>2. SavedConfigSurvives' /\ SaveInv' /\ HeaderInv' /\ AutoInv' /\ GoneInv'
    BY <1>0 DEF SavedConfigSurvives, Overwritten, SaveInv, HeaderInv, AutoInv, GoneInv
  <2>3. SyncInv'
    BY <1>0 DEF SyncInv, ChangedSyms, Unchanged
  <2>4. ObjectInv'
    <3> SUFFICES ASSUME NEW s \in Names, ~tornAuto, s \notin lapsed,
                        object[s] # "none", s \notin touched
                 PROVE  /\ object[s] = Shown(auto.text, s)
                        /\ s \in todo' \/ object[s] = Recorded(s)
      BY DEF ObjectInv, Recorded
    <3>1. object[s] = Shown(auto.text, s)
      BY <1>0 DEF ObjectInv
    <3>2. CASE s \in conf.defined
      BY <1>0, <3>1, <3>2, UnchangedMeansRecorded DEF SyncInv, ChangedSyms
    <3>3. CASE s \notin conf.defined
      <4>1. s \notin DOMAIN auto.text
        BY <1>0, <3>3 DEF GoneInv, Gone
      <4>2. Recorded(s) = "absent"
        BY <1>0, <3>3, ContentsFacts DEF Recorded, Shown
      <4> QED BY <3>1, <4>1, <4>2 DEF Shown
    <3> QED BY <3>2, <3>3
  <2> QED BY <1>b, <2>1, <2>2, <2>3, <2>4 DEF IInv
<1>6. ASSUME NEW s \in Names, Touch(s) PROVE IInv'
  <2> USE <1>6 DEF Touch, saving
  <2>1. TypeOK'
    BY <1>0 DEF TypeOK
  <2>2. SavedConfigSurvives' /\ SaveInv' /\ HeaderInv' /\ AutoInv' /\ GoneInv'
    BY <1>0 DEF SavedConfigSurvives, Overwritten, SaveInv, HeaderInv, AutoInv, GoneInv, Gone
  <2>3. SyncInv'
    BY <1>0 DEF SyncInv, ChangedSyms, Unchanged, Gone
  <2>4. ObjectInv'
    BY <1>0 DEF ObjectInv, Recorded
  <2> QED BY <1>b, <2>1, <2>2, <2>3, <2>4 DEF IInv
<1>7. CASE OpenOldVals
  <2> USE <1>7 DEF OpenOldVals, OldValsStep, saving
  <2>1. TypeOK'
    BY <1>0 DEF TypeOK, FileStates
  <2>2. SavedConfigSurvives' /\ SaveInv' /\ HeaderInv' /\ AutoInv' /\ GoneInv' /\ SyncInv'
    BY <1>0 DEF SavedConfigSurvives, Overwritten, SaveInv, HeaderInv, AutoInv, GoneInv, SyncInv,
                ContentsEq
  <2>3. ObjectInv'
    BY <1>0 DEF ObjectInv, Recorded, ContentsEq
  <2> QED BY <1>b, <2>1, <2>2, <2>3 DEF IInv
<1>8. CASE WriteOldVals
  <2> USE <1>8 DEF WriteOldVals, OldValsStep, saving
  <2>1. TypeOK'
    BY <1>0, ContentsFacts DEF TypeOK, FileStates
  <2>2. AutoInv'
    BY <1>0, ContentsFacts DEF AutoInv
  <2>3. SavedConfigSurvives' /\ SaveInv' /\ HeaderInv' /\ GoneInv' /\ SyncInv'
    BY <1>0 DEF SavedConfigSurvives, Overwritten, SaveInv, HeaderInv, GoneInv, SyncInv
  <2>4. ObjectInv'
    BY <1>0 DEF ObjectInv, Recorded
  <2> QED BY <1>b, <2>1, <2>2, <2>3, <2>4 DEF IInv
<1>9. ASSUME NEW s \in Names, Compile(s) PROVE IInv'
  <2> USE <1>9 DEF Compile, saving
  <2>1. TypeOK'
    BY <1>0 DEF TypeOK
  <2>2. SavedConfigSurvives' /\ SaveInv' /\ HeaderInv' /\ AutoInv' /\ GoneInv' /\ SyncInv'
    BY <1>0 DEF SavedConfigSurvives, Overwritten, SaveInv, HeaderInv, AutoInv, GoneInv, SyncInv
  <2>3. ObjectInv'
    <3>1. Shown(header.text, s) = Shown(auto.text, s)
      BY <1>0, ContentsFacts DEF HeaderInv
    <3>2. \A r \in Names \ {s} : object'[r] = object[r] /\ (r \in touched => r \in touched')
      BY <1>0 DEF BuiltInv
    <3>3. object'[s] = Shown(auto.text, s)
      BY <1>0, <3>1 DEF BuiltInv
    <3> QED BY <1>0, <3>2, <3>3 DEF ObjectInv
  <2>4. BuiltInv'
    BY <1>0 DEF BuiltInv
  <2> QED BY <2>1, <2>2, <2>3, <2>4 DEF IInv
<1>10. CASE Built
  <2> USE <1>10 DEF Built, saving
  <2>1. TypeOK'
    BY <1>0 DEF TypeOK
  <2>2. SavedConfigSurvives' /\ SaveInv' /\ HeaderInv'
    BY <1>0 DEF SavedConfigSurvives, Overwritten, SaveInv, HeaderInv
  <2>3. BuiltInv'
    BY <1>0 DEF BuiltInv
  <2> QED BY <1>a, <2>1, <2>2, <2>3 DEF IInv
<1>11. CASE Crash
  <2> USE <1>11 DEF Crash, saving
  <2>1. PICK t \in Partial(OldValsContents(conf)) \cup {auto.text} :
           /\ auto' = auto \/ auto' = Torn(t)
           /\ pc # "writeauto" => auto' = auto
    OBVIOUS
  <2>2. /\ DOMAIN auto'.text \subseteq Names
        /\ auto'.state \in FileStates
        /\ AutoInv'
    <3>1. CASE auto' = auto
      BY <1>0, <3>1 DEF TypeOK, AutoInv
    <3>2. CASE auto' = Torn(t) /\ t \in Partial(OldValsContents(conf))
      <4>1. PICK S \in SUBSET DOMAIN OldValsContents(conf) :
               t = [s \in S |-> OldValsContents(conf)[s]]
        BY <3>2 DEF Partial
      <4> QED BY <1>0, <3>2, <4>1, ContentsFacts DEF AutoInv, FileStates
    <3>3. CASE auto' = Torn(t) /\ t = auto.text
      BY <1>0, <3>3 DEF TypeOK, AutoInv, FileStates
    <3> QED BY <2>1, <3>1, <3>2, <3>3
  <2>3. TypeOK'
    BY <1>0, <2>2, BoundsAssumption DEF TypeOK
  <2>4. SavedConfigSurvives' /\ SaveInv' /\ HeaderInv' /\ GoneInv' /\ SyncInv'
    BY <1>0 DEF SavedConfigSurvives, Overwritten, SaveInv, HeaderInv, GoneInv, SyncInv
  <2>5. ObjectInv'
    <3>1. CASE pc = "writeauto"
      BY <3>1 DEF ObjectInv
    <3>2. CASE pc # "writeauto"
      BY <1>0, <3>2 DEF ObjectInv
    <3> QED BY <3>1, <3>2
  <2> QED BY <1>b, <2>2, <2>3, <2>4, <2>5 DEF IInv
<1>12. CASE UNCHANGED vars
  BY <1>0, <1>12
     DEF IInv, vars, saving, TypeOK, SavedConfigSurvives, Overwritten, AutoInv, SaveInv, SyncInv,
         HeaderInv, GoneInv, ObjectInv, BuiltInv, Recorded, ChangedSyms, Unchanged
<1> QED BY <1>1, <1>2, <1>3, <1>4, <1>5, <1>6, <1>7, <1>8, <1>9, <1>10, <1>11, <1>12
        DEF Next

\* The invariant holds in every reachable state.
THEOREM Invariance == Spec => []IInv
BY InitIInv, StepIInv, PTL DEF Spec

-----------------------------------------------------------------------------
\* Files have their types, and write_config() loses no configuration: wherever
\* a build is interrupted, what it found is .config or .config.old.  If the
\* backup failed, it is .config until .config is opened for writing.
THEOREM ConfigSurvives == Spec => []FilesSound
<1>1. IInv => FilesSound
  BY DEF IInv, FilesSound
<1> QED BY <1>1, Invariance, PTL

\* No series of interrupted builds makes sync_deps() miss a change: after a
\* build that ends, every object was compiled with the current value.
THEOREM NothingOutdated == Spec => []ObjectsUpToDate
<1>1. IInv => ObjectsUpToDate
  <2> SUFFICES ASSUME IInv, pc = "built", NEW s \in Names, ~tornAuto, s \notin lapsed
               PROVE  object[s] = Shown(header.text, s)
    BY DEF ObjectsUpToDate
  <2>1. header.text = auto.text
    BY FileFacts, ContentsFacts DEF IInv, HeaderInv, TypeOK
  <2> QED BY <2>1 DEF IInv, ObjectInv, BuiltInv
<1> QED BY <1>1, Invariance, PTL

\* sync_deps() touches the file of a symbol only when its line changes.
THEOREM NothingInVain == Spec => TouchedForAChange
<1>1. ASSUME IInv, [Next]_vars
      PROVE  [\A s \in touched' \ touched :
                 Shown(auto.text, s) # Shown(AutoconfContents(conf), s)]_vars
  <2> SUFFICES ASSUME NEW s \in touched' \ touched
               PROVE  Shown(auto.text, s) # Shown(AutoconfContents(conf), s)
    OBVIOUS
  <2>1. s \in todo /\ pc \in {"gone", "changed"}
    BY <1>1 DEF Next, vars, Start, ConfigUnchanged, SaveOld, SaveOldFails, CopyOld,
                CopyOldFails, OpenConfig, WriteConfig, ConfigStep, OpenHeader, WriteHeader,
                HeaderStep, LoadOldVals, CompareValues, Touch, OpenOldVals, WriteOldVals, OldValsStep, Compile, Built, Crash
  <2>2. conf \in Configs /\ AutoInv /\ SyncInv
    BY <1>1 DEF IInv, TypeOK
  <2>3. CASE pc = "gone"
    BY <2>1, <2>2, <2>3, ContentsFacts DEF SyncInv, Gone, Shown, AutoInv
  <2>4. CASE pc = "changed"
    BY <2>1, <2>2, <2>4, ContentsFacts, UnchangedMeansRecorded
       DEF SyncInv, ChangedSyms, Recorded
  <2> QED BY <2>1, <2>3, <2>4
<1> QED BY <1>1, Invariance, PTL DEF Spec, TouchedForAChange
=============================================================================
