----------------------------- MODULE KconfigUser -----------------------------
(***************************************************************************)
(* The user values of kconfiglib: how set_value(), unset_value(),          *)
(* unset_values() and load_config() change them.  What values symbols have *)
(* because of them is left to KconfigSession.                              *)
(*                                                                         *)
(* A configuration file is a sequence of lines <<name, kind, value>>: kind *)
(* "tri" for an assignment of n, m or y (0, 1, 2), "str" for one of        *)
(* anything else, and "unset" (value 0) for "# name is not set".           *)
(***************************************************************************)
EXTENDS Integers, Sequences, SequencesExt, KconfigData

CONSTANTS Kconfigs,  \* the Kconfig trees that are considered
          Files,     \* the configuration files there are
          Inputs(_)  \* the values that are passed to set_value(), by type

(* Symbols and choices are listed in order, and a symbol may belong to a   *)
(* choice.                                                                 *)
ASSUME KconfigsAssumption ==
    \A k \in Kconfigs :
        /\ k.syms \in Seq(DOMAIN k.type) /\ DOMAIN k.type \subseteq ToSet(k.syms)
        /\ k.choices \in Seq(DOMAIN k.ctype) /\ DOMAIN k.ctype \subseteq ToSet(k.choices)
        /\ k.choice \in [DOMAIN k.type -> DOMAIN k.ctype \cup {"none"}]
        /\ "none" \notin DOMAIN k.ctype
        /\ DOMAIN k.type \cap DOMAIN k.ctype = {}

ASSUME FilesAssumption == \A f \in DOMAIN Files : Len(Files[f]) \in Nat

VARIABLES user,     \* user values: val of symbols, mode and sel of choices
                    \* ({} while there is none), and was, the _was_set flags
          calls,    \* what load_config() or unset_values() still has to do
          outcome,  \* of the last load: "replaced", "raised", or "none" after
                    \* any other change
          fromFile  \* history: the user values of a fresh instance that
                    \* loads the configuration which replaces the old one

userVars == <<kconf, user, calls, outcome, fromFile>>

NoUserValues ==
    [val  |-> [s \in Syms |-> {}], mode |-> [ch \in ChoiceItems |-> {}],
     sel  |-> [ch \in ChoiceItems |-> {}], was  |-> {}]

-----------------------------------------------------------------------------
(* The calls that change user values.                                      *)
ValidFor(type, v) ==
    CASE type = "bool" -> v \in {0, 2}
      [] type = "tristate" -> v \in 0..2
      [] type = "string" -> TRUE
      [] type \in IntHex -> v[1] = 1
      [] OTHER -> FALSE

ValidMode(ch, v) == kconf.ctype[ch] \in BoolTristate /\ ValidFor(kconf.ctype[ch], v)

(* Setting a value that is set already is a shortcut, except for choice    *)
(* symbols.                                                                *)
SameValue(u, s, v) == u.val[s] = {v} /\ ChoiceOf(s) = "none"
Selects(s, v)      == ChoiceOf(s) # "none" /\ SymType(s) \in BoolTristate /\ v = 2

\* Mutant: values are not checked against the type.
SetValueUnchecked(u, s, v) ==
    LET ch == ChoiceOf(s)
    IN  IF Selects(s, v)
        THEN [u EXCEPT !.val[s] = {v}, !.sel[ch] = {s}, !.was = @ \cup {s, ch}]
        ELSE [u EXCEPT !.val[s] = {v}, !.was = @ \cup {s}]

SetValue(u, s, v) ==
    LET ch == ChoiceOf(s)
    IN  IF SameValue(u, s, v) THEN [u EXCEPT !.was = @ \cup {s}]
        ELSE IF ~ValidFor(SymType(s), v) THEN u
        ELSE IF Selects(s, v)
        THEN [u EXCEPT !.val[s] = {v}, !.sel[ch] = {s}, !.was = @ \cup {s, ch}]
        ELSE [u EXCEPT !.val[s] = {v}, !.was = @ \cup {s}]

SetMode(u, ch, v) ==
    IF u.mode[ch] = {v} THEN [u EXCEPT !.was = @ \cup {ch}]
    ELSE IF ~ValidMode(ch, v) THEN u
    ELSE [u EXCEPT !.mode[ch] = {v}, !.was = @ \cup {ch}]

Unset(u, i) ==
    IF i \in Syms THEN [u EXCEPT !.val[i] = {}]
    ELSE [u EXCEPT !.mode[i] = {}, !.sel[i] = {}]

(* A call is <<"set", s, v>>, <<"mode", ch, v>>, <<"unset", i>>,           *)
(* <<"unsetrest", i>> (unless i was set) or <<"forget">> (no symbol and no *)
(* choice was set yet).                                                    *)
Unsets(u, call) ==
    call[1] = "unset" \/ (call[1] = "unsetrest" /\ call[2] \notin u.was)

Effect(u, call) ==
    CASE call[1] = "set" -> SetValue(u, call[2], call[3])
      [] call[1] = "mode" -> SetMode(u, call[2], call[3])
      [] call[1] = "forget" -> [u EXCEPT !.was = {}]
      [] Unsets(u, call) -> Unset(u, call[2])
      [] OTHER -> u

-----------------------------------------------------------------------------
(* What a line of a configuration file does.  Lines that do not assign to  *)
(* a defined symbol, or whose value has the wrong form, are skipped.  The  *)
(* mode of a choice follows from the values of its symbols.                *)
LineCalls(line) ==
    LET s == line[1]
        v == IF line[2] = "unset" THEN 0 ELSE line[3]
        assigns == /\ s \in Syms
                   /\ (line[2] = "str") <=> (SymType(s) \notin BoolTristate)
                   /\ line[2] # "str" => ValidFor(SymType(s), v)
        infersMode == line[2] # "str" /\ ChoiceOf(s) # "none" /\ v # 0
    IN  IF ~assigns THEN <<>>
        ELSE IF infersMode THEN << <<"mode", ChoiceOf(s), v>>, <<"set", s, v>> >>
        ELSE << <<"set", s, v>> >>

AllItems(what) ==
    LET all == kconf.syms \o kconf.choices
    IN  [i \in 1..Len(all) |-> <<what, all[i]>>]

Lines(lines) == [i \in 1..Len(lines) |-> <<"line", lines[i]>>]

\* Mutant: the flags of the previous load are kept.
LoadCallsKeepFlags(lines, replace) ==
    Lines(lines) \o (IF replace THEN AllItems("unsetrest") ELSE <<>>)

LoadCalls(lines, replace) ==
    IF replace THEN << <<"forget">> >> \o Lines(lines) \o AllItems("unsetrest")
    ELSE Lines(lines)

-----------------------------------------------------------------------------
UserInit ==
    /\ kconf \in Kconfigs
    /\ user = NoUserValues /\ fromFile = NoUserValues
    /\ calls = <<>>
    /\ outcome = "none"

(* A program calls set_value() or unset_value() itself.                    *)
Call(call) ==
    /\ calls = <<>>
    /\ user' = Effect(user, call)
    /\ outcome' = "none" /\ fromFile' = NoUserValues
    /\ UNCHANGED <<kconf, calls>>

(* unset_values() and load_config() make several calls.                    *)
BeginUnset ==
    /\ calls = <<>>
    /\ calls' = AllItems("unset")
    /\ outcome' = "none" /\ fromFile' = NoUserValues
    /\ UNCHANGED <<kconf, user>>

BeginLoad(f, replace) ==
    /\ calls = <<>>
    /\ calls' = LoadCalls(Files[f], replace)
    /\ outcome' = IF replace THEN "replaced" ELSE "none"
    /\ fromFile' = NoUserValues
    /\ UNCHANGED <<kconf, user>>

ReadConfLine ==
    /\ calls # <<>> /\ Head(calls)[1] = "line"
    /\ calls' = LineCalls(Head(calls)[2]) \o Tail(calls)
    /\ UNCHANGED <<kconf, user, outcome, fromFile>>

(* The flag that makes load_config() report a second assignment outlives   *)
(* the value.                                                              *)
OldValueMissing(call) ==
    /\ call[1] = "set"
    /\ call[2] \in user.was
    /\ SymType(call[2]) \in BoolTristate
    /\ user.val[call[2]] = {}

NextCall ==
    /\ calls # <<>> /\ Head(calls)[1] # "line"
    /\ ~OldValueMissing(Head(calls))
    /\ user' = Effect(user, Head(calls))
    /\ fromFile' = IF outcome = "replaced" THEN Effect(fromFile, Head(calls)) ELSE fromFile
    /\ calls' = Tail(calls)
    /\ UNCHANGED <<kconf, outcome>>

(* The old value of such an assignment is looked up to be reported, and    *)
(* the load ends with an exception.                                        *)
RaiseKeyError ==
    /\ calls # <<>>
    /\ OldValueMissing(Head(calls))
    /\ calls' = <<>>
    /\ outcome' = "raised"
    /\ UNCHANGED <<kconf, user, fromFile>>

UserNext ==
    \/ \E s \in Syms : \E v \in Inputs(SymType(s)) : Call(<<"set", s, v>>)
    \/ \E ch \in ChoiceItems, v \in 0..2 : Call(<<"mode", ch, v>>)
    \/ \E i \in Items : Call(<<"unset", i>>)
    \/ BeginUnset
    \/ \E f \in DOMAIN Files, replace \in BOOLEAN : BeginLoad(f, replace)
    \/ ReadConfLine \/ NextCall \/ RaiseKeyError

UserSpec == UserInit /\ [][UserNext]_userVars

-----------------------------------------------------------------------------
(* User values fit the types of their symbols and choices, whoever set     *)
(* them, and the selected symbol of a choice is one of the choice.         *)
Typed(u) ==
    /\ \A s \in Syms : \A v \in u.val[s] : ValidFor(SymType(s), v)
    /\ \A ch \in ChoiceItems : \A v \in u.mode[ch] : ValidMode(ch, v)
    /\ \A ch \in ChoiceItems : \A s \in u.sel[ch] : s \in Syms /\ ChoiceOf(s) = ch
    /\ u.was \subseteq Items

UserTyped == Typed(user)

(* After a configuration is replaced, the values and modes of the user are *)
(* those that the file sets, as in a fresh instance, and so are the        *)
(* selections that it makes.                                               *)
SetByFile ==
    /\ user.val = fromFile.val /\ user.mode = fromFile.mode
    /\ \A ch \in ChoiceItems : fromFile.sel[ch] \in {{}, user.sel[ch]}

(* Replacing a configuration ends with what the file sets, and never with  *)
(* the exception, whatever was set, unset and loaded before.               *)
ReplaceSetsValues ==
    outcome = "replaced" =>
    IF calls = <<>> THEN SetByFile ELSE ~OldValueMissing(Head(calls))
=============================================================================
