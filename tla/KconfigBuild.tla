---------------------------- MODULE KconfigBuild ----------------------------
(***************************************************************************)
(* What kconfiglib writes for a build: .config with its backup, the header *)
(* autoconf.h, and the directory of sync_deps() that makes sure that only  *)
(* the objects that depend on a changed symbol are recompiled.  A build    *)
(* can be interrupted at any point, and a file that is being written then  *)
(* is torn.                                                                *)
(*                                                                         *)
(* A configuration gives each defined symbol a value and says whether it   *)
(* is written to .config.  For every symbol there is one object that       *)
(* depends on it.                                                          *)
(***************************************************************************)
EXTENDS Integers, FiniteSets

CONSTANTS Bools,       \* bool symbols, with values "n" and "y"
          Strings,     \* string symbols
          Configs,     \* the configurations: records of syms (Kconfig.syms),
                       \* defined (unique_defined_syms), val and write
          MaxBuilds,   \* bound: builds that are started
          MaxCrashes   \* bound: builds that are interrupted

ASSUME BoundsAssumption == MaxBuilds \in Nat /\ MaxCrashes \in Nat

(* Defined symbols are symbols and have a value and a flag that says       *)
(* whether they are written; "absent" stands for a missing line.           *)
ASSUME ConfigsAssumption ==
    \A c \in Configs :
        /\ c.defined \subseteq c.syms /\ c.syms \subseteq Bools \cup Strings
        /\ \A s \in c.defined : c.write[s] \in BOOLEAN /\ c.val[s] # "absent"

VARIABLES conf,     \* the configuration of the current build
          pc,       \* what the build does next
          config,   \* .config
          old,      \* .config.old
          link,     \* whether .config is a symbolic link
          header,   \* autoconf.h
          auto,     \* auto.conf
          oldVal,   \* Symbol._old_val
          todo,     \* the symbol files that are still to be touched
          touched,  \* symbol files that are newer than the objects
          object,   \* object[s]: what autoconf.h said of s when the object
                    \* of s was compiled
          before,   \* .config when the build was started
          unsaved,  \* history: the backup of .config failed in this build
          builds, crashes, tornAuto, lapsed   \* history

saving == <<config, old, link, before, unsaved>>

vars == <<conf, pc, saving, header, auto, oldVal, todo, touched, object, builds, crashes,
          tornAuto, lapsed>>

Names == Bools \cup Strings

(* A file is missing, torn or whole.  What is readable of a torn file is   *)
(* some of its lines: text is a function from symbols to values.           *)
Missing  == [state |-> "missing", text |-> <<>>]
Whole(t) == [state |-> "whole", text |-> t]
Torn(t)  == [state |-> "torn", text |-> t]

Partial(t) == {[s \in S |-> t[s]] : S \in SUBSET DOMAIN t}

-----------------------------------------------------------------------------
(* Contents.  n is not written to autoconf.h and auto.conf.                *)
ShownIn(c) ==
    {s \in c.defined : c.write[s] /\ ~(s \in Bools /\ c.val[s] = "n")}

AutoconfContents(c) == [s \in ShownIn(c) |-> c.val[s]]
OldValsContents(c)  == [s \in ShownIn(c) |-> c.val[s]]
ConfigContents(c)   == [s \in {s \in c.defined : c.write[s]} |-> c.val[s]]

Shown(text, s) == IF s \in DOMAIN text THEN text[s] ELSE "absent"

ContentsEq(file, t) == file = Whole(t)

-----------------------------------------------------------------------------
Init ==
    /\ conf \in Configs
    /\ pc = "idle"
    /\ config = Missing /\ old = Missing /\ before = Missing /\ link \in BOOLEAN
    /\ unsaved = FALSE
    /\ header = Missing /\ auto = Missing
    /\ oldVal = <<>> /\ todo = {} /\ touched = {}
    /\ object = [s \in Names |-> "none"]
    /\ builds = 0 /\ crashes = 0 /\ tornAuto = FALSE /\ lapsed = {}

(* A configuration is edited and a build is started.                       *)
Start(c) ==
    /\ pc \in {"idle", "built"}
    /\ builds < MaxBuilds
    /\ conf' = c
    /\ pc' = "save"
    /\ before' = config /\ unsaved' = FALSE
    /\ builds' = builds + 1
    /\ oldVal' = <<>>
    /\ UNCHANGED <<config, old, link, header, auto, todo, touched, object,
                   crashes, tornAuto, lapsed>>

-----------------------------------------------------------------------------
(* write_config().                                                         *)
ConfigStep ==
    UNCHANGED <<conf, before, link, header, auto, oldVal, todo, touched, object, builds, crashes,
                tornAuto, lapsed>>

ConfigUnchanged ==
    /\ pc = "save"
    /\ ContentsEq(config, ConfigContents(conf))
    /\ pc' = "header"
    /\ ConfigStep /\ UNCHANGED <<config, old, unsaved>>

\* Mutant: a .config that is a link is not saved.
SaveOldUnlessLink ==
    /\ pc = "save"
    /\ ~ContentsEq(config, ConfigContents(conf))
    /\ pc' = "saved"
    /\ IF config = Missing \/ link THEN UNCHANGED <<config, old>>
       ELSE old' = config /\ config' = Missing
    /\ ConfigStep /\ UNCHANGED unsaved

(* _save_old(): a rename, or a copy when .config is a link, which empties  *)
(* .config.old first.                                                      *)
SaveOld ==
    /\ pc = "save"
    /\ ~ContentsEq(config, ConfigContents(conf))
    /\ IF config = Missing THEN pc' = "saved" /\ UNCHANGED <<config, old>>
       ELSE IF link THEN pc' = "copying" /\ old' = Torn(<<>>) /\ UNCHANGED config
       ELSE pc' = "saved" /\ old' = config /\ config' = Missing
    /\ ConfigStep /\ UNCHANGED unsaved

CopyOld ==
    /\ pc = "copying"
    /\ old' = config
    /\ pc' = "saved"
    /\ ConfigStep /\ UNCHANGED <<config, unsaved>>

\* Mutant: a failed rename leaves nothing behind.
SaveOldFailsAfterRemoval ==
    /\ pc = "save"
    /\ ~ContentsEq(config, ConfigContents(conf))
    /\ config # Missing
    /\ pc' = "saved" /\ unsaved' = TRUE
    /\ config' = Missing
    /\ ConfigStep /\ UNCHANGED old

(* Errors are ignored.  .config.old cannot be replaced or opened, ...      *)
SaveOldFails ==
    /\ pc = "save"
    /\ ~ContentsEq(config, ConfigContents(conf))
    /\ config # Missing
    /\ pc' = "saved" /\ unsaved' = TRUE
    /\ ConfigStep /\ UNCHANGED <<config, old>>

(* ... or the copy stops half-way and stays like that.                     *)
CopyOldFails ==
    /\ pc = "copying"
    /\ pc' = "saved" /\ unsaved' = TRUE
    /\ ConfigStep /\ UNCHANGED <<config, old>>

OpenConfig ==
    /\ pc = "saved"
    /\ config' = Torn(<<>>)
    /\ pc' = "writing"
    /\ ConfigStep /\ UNCHANGED <<old, unsaved>>

WriteConfig ==
    /\ pc = "writing"
    /\ config' = Whole(ConfigContents(conf))
    /\ pc' = "header"
    /\ ConfigStep /\ UNCHANGED <<old, unsaved>>

-----------------------------------------------------------------------------
(* write_autoconf(), with _write_if_changed().                             *)
HeaderStep ==
    UNCHANGED <<conf, saving, auto, oldVal, todo, touched, object, builds,
                crashes, tornAuto, lapsed>>

OpenHeader ==
    /\ pc = "header"
    /\ IF ContentsEq(header, AutoconfContents(conf))
       THEN pc' = "load" /\ UNCHANGED header
       ELSE pc' = "writeheader" /\ header' = Torn(<<>>)
    /\ HeaderStep

WriteHeader ==
    /\ pc = "writeheader"
    /\ header' = Whole(AutoconfContents(conf))
    /\ pc' = "load"
    /\ HeaderStep

-----------------------------------------------------------------------------
(* sync_deps().                                                            *)
(* Symbols in auto.conf that no longer exist are touched at once.          *)
Gone(c, text) == DOMAIN text \ c.syms

\* Mutant: names that are no symbols any more are looked up as well.
LoadOldValsUnchecked ==
    /\ pc = "load"
    /\ oldVal' = auto.text
    /\ todo' = Gone(conf, auto.text)
    /\ lapsed' = lapsed \cup (DOMAIN auto.text \cap (conf.syms \ conf.defined))
    /\ pc' = "gone"
    /\ UNCHANGED <<conf, saving, header, auto, touched, object, builds, crashes,
                   tornAuto>>

LoadOldVals ==
    /\ pc = "load"
    /\ oldVal' = [s \in DOMAIN auto.text \cap conf.syms |-> auto.text[s]]
    /\ todo' = Gone(conf, auto.text)
    /\ lapsed' = lapsed \cup (DOMAIN auto.text \cap (conf.syms \ conf.defined))
    /\ pc' = "gone"
    /\ UNCHANGED <<conf, saving, header, auto, touched, object, builds, crashes,
                   tornAuto>>

\* Mutant: a symbol that is not written is not compared.
UnchangedIfNotWritten(c, s) ==
    c.write[s] =>
        \/ Shown(oldVal, s) = "absent" /\ s \in Bools /\ c.val[s] = "n"
        \/ Shown(oldVal, s) = c.val[s]

\* Mutant: n is not taken for an absent line.
UnchangedUnlessN(c, s) ==
    Shown(oldVal, s) = (IF c.write[s] THEN c.val[s] ELSE "absent")

(* What the loop over the defined symbols touches.                         *)
Unchanged(c, s) ==
    IF c.write[s]
    THEN \/ Shown(oldVal, s) = "absent" /\ s \in Bools /\ c.val[s] = "n"
         \/ Shown(oldVal, s) = c.val[s]
    ELSE Shown(oldVal, s) = "absent"

ChangedSyms(c) == {s \in c.defined : ~Unchanged(c, s)}

Touch(s) ==
    /\ pc \in {"gone", "changed"}
    /\ s \in todo
    /\ todo' = todo \ {s}
    /\ touched' = touched \cup {s}
    /\ UNCHANGED <<conf, saving, pc, header, auto, oldVal, object, builds,
                   crashes, tornAuto, lapsed>>

CompareValues ==
    /\ pc = "gone"
    /\ todo = {}
    /\ todo' = ChangedSyms(conf)
    /\ pc' = "changed"
    /\ UNCHANGED <<conf, saving, header, auto, oldVal, touched, object, builds,
                   crashes, tornAuto, lapsed>>

(* _write_old_vals(), the last step.                                       *)
OldValsStep ==
    UNCHANGED <<conf, saving, header, oldVal, todo, touched, object, builds,
                crashes, tornAuto, lapsed>>

OpenOldVals ==
    /\ pc = "changed"
    /\ todo = {}
    /\ IF ContentsEq(auto, OldValsContents(conf))
       THEN pc' = "make" /\ UNCHANGED auto
       ELSE pc' = "writeauto" /\ auto' = Torn(<<>>)
    /\ OldValsStep

WriteOldVals ==
    /\ pc = "writeauto"
    /\ auto' = Whole(OldValsContents(conf))
    /\ pc' = "make"
    /\ OldValsStep

-----------------------------------------------------------------------------
(* The build itself: an object is compiled when there is none or when the  *)
(* file of its symbol was touched since.                                   *)
Compile(s) ==
    /\ pc = "make"
    /\ object[s] = "none" \/ s \in touched
    /\ object' = [object EXCEPT ![s] = Shown(header.text, s)]
    /\ touched' = touched \ {s}
    /\ UNCHANGED <<conf, saving, pc, header, auto, oldVal, todo, builds, crashes,
                   tornAuto, lapsed>>

Built ==
    /\ pc = "make"
    /\ touched = {} /\ \A s \in Names : object[s] # "none"
    /\ pc' = "built"
    /\ UNCHANGED <<conf, saving, header, auto, oldVal, todo, touched, object,
                   builds, crashes, tornAuto, lapsed>>

(* The build is interrupted, or ends with an exception of the file system. *)
(* Of a file that is being written, some lines may have made it to the     *)
(* disk.                                                                   *)
Crash ==
    /\ pc \notin {"idle", "built"}
    /\ crashes < MaxCrashes
    /\ crashes' = crashes + 1
    /\ pc' = "idle"
    /\ todo' = {} /\ oldVal' = <<>>
    /\ tornAuto' = (tornAuto \/ pc = "writeauto")
    /\ IF pc = "writeauto"
       THEN auto' \in {Torn(t) : t \in Partial(OldValsContents(conf))}
       ELSE UNCHANGED auto
    /\ UNCHANGED <<conf, saving, header, touched, object, builds, lapsed>>

Next ==
    \/ \E c \in Configs : Start(c)
    \/ ConfigUnchanged \/ SaveOld \/ SaveOldFails \/ CopyOld \/ CopyOldFails
    \/ OpenConfig \/ WriteConfig
    \/ OpenHeader \/ WriteHeader
    \/ LoadOldVals \/ CompareValues \/ (\E s \in Names : Touch(s))
    \/ OpenOldVals \/ WriteOldVals
    \/ (\E s \in Names : Compile(s)) \/ Built
    \/ Crash

Spec == Init /\ [][Next]_vars

-----------------------------------------------------------------------------
FileStates == {"missing", "torn", "whole"}

(* Files hold values of symbols, only symbol files are touched, and old    *)
(* values belong to symbols that the Kconfig still has.                    *)
TypeOK ==
    /\ conf \in Configs
    /\ \A f \in {config, old, header, auto} :
          f.state \in FileStates /\ DOMAIN f.text \subseteq Names
    /\ touched \subseteq Names /\ todo \subseteq Names
    /\ DOMAIN oldVal \subseteq conf.syms
    /\ builds \in 0..MaxBuilds /\ crashes \in 0..MaxCrashes

(* After a build every object was compiled with what autoconf.h says of    *)
(* its symbol now, whatever was interrupted before.  Two cases are beyond  *)
(* sync_deps(): auto.conf itself was torn, so that old values are unknown; *)
(* and a symbol that lost its definition but is still mentioned.           *)
ObjectsUpToDate ==
    pc = "built" =>
        \A s \in Names : tornAuto \/ s \in lapsed \/ object[s] = Shown(header.text, s)

(* The file of a symbol is touched only if its line in autoconf.h differs  *)
(* from the one that auto.conf recorded: nothing is recompiled in vain.    *)
TouchedForAChange ==
    [][\A s \in touched' \ touched :
          Shown(auto.text, s) # Shown(AutoconfContents(conf), s)]_vars

(* The configuration that a build found is not lost while it saves its     *)
(* own, wherever it is interrupted: it is .config or .config.old.  Only if *)
(* the backup failed it can be gone, and then not before .config has been  *)
(* opened for the new one.                                                 *)
Overwritten == config \in {Torn(<<>>), Whole(ConfigContents(conf))}

SavedConfigSurvives ==
    before.state = "whole" => before \in {config, old} \/ (unsaved /\ Overwritten)

(* Files have their types, and the configuration that a build found is     *)
(* among them unless its backup failed.                                    *)
FilesSound == TypeOK /\ SavedConfigSurvives
=============================================================================
