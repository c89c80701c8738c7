--------------------------- MODULE KconfigSession ---------------------------
(***************************************************************************)
(* A program that uses one Kconfig instance of kconfiglib: it reads values *)
(* and sets user values one by one, and loads configuration files, in any  *)
(* order.  Values are calculated on demand and cached; what changes user   *)
(* values invalidates as little of the cache as it can get away with.      *)
(* check-dotconfig.py is such a program.                                   *)
(***************************************************************************)
EXTENDS KconfigValues, KconfigUser

CONSTANTS AsgRead,    \* the items whose assignable property is read
          MaxChanges  \* bound: calls that change user values

ASSUME BoundsAssumption == MaxChanges \in Nat

VARIABLES dependents, \* dependents[i]: who is invalidated along with i
          cache,  \* the calculated values, by cell
          used,   \* used[k]: the cells that the value of cell k was
                  \* calculated from
          anew,   \* history: what a program without a cache would calculate
          changes \* the calls that changed user values, for the bound

cacheVars == <<dependents, cache, used, anew>>

vars == <<userVars, cacheVars, changes>>

-----------------------------------------------------------------------------
(* The items where the invalidation of a call starts: none when the call   *)
(* returns early.                                                          *)
HasPrompt(s) == kconf.prompts[s] # <<>>

SetInvalidates(u, s, v) ==
    CASE SameValue(u, s, v) \/ ~ValidFor(SymType(s), v) -> {}
      [] Selects(s, v) -> {ChoiceOf(s)}
      [] OTHER -> {s} \cap {t \in Syms : HasPrompt(t)}

ModeInvalidates(u, ch, v) ==
    IF u.mode[ch] = {v} \/ ~ValidMode(ch, v) THEN {} ELSE {ch}

UnsetInvalidates(u, i) ==
    IF i \in Syms THEN {s \in {i} : u.val[s] # {} /\ HasPrompt(s)}
    ELSE {ch \in {i} : u.mode[ch] # {} \/ u.sel[ch] # {}}

Invalidates(u, call) ==
    CASE call[1] = "set" -> SetInvalidates(u, call[2], call[3])
      [] call[1] = "mode" -> ModeInvalidates(u, call[2], call[3])
      [] Unsets(u, call) -> UnsetInvalidates(u, call[2])
      [] OTHER -> {}

-----------------------------------------------------------------------------
(* _rec_invalidate(): follow the dependents that have a cached visibility. *)
HasValues(i) == cache[<<i, "vis">>] # {}

\* Mutant: only direct dependents are followed.
RecInvalidateOneLevel(items) ==
    items \cup {d \in UNION {dependents[i] : i \in items} : HasValues(d)}

RECURSIVE RecInvalidate(_)
RecInvalidate(items) ==
    LET next == items \cup {d \in UNION {dependents[i] : i \in items} : HasValues(d)}
    IN  IF next = items THEN items ELSE RecInvalidate(next)

\* Mutant: MODULES is a symbol like any other.
InvalidatedWithoutModules(starts) == RecInvalidate(starts)

(* MODULES takes everything with it.                                       *)
Invalidated(starts) ==
    LET reached == RecInvalidate(starts)
    IN  IF Modules \in reached THEN Items ELSE reached

(* What a call does to the cache.                                          *)
Drop(call) ==
    LET dropped == Invalidated(Invalidates(user, call))
    IN  /\ cache' = [k \in DOMAIN cache |-> IF k[1] \in dropped THEN {} ELSE cache[k]]
        /\ used' = [k \in DOMAIN used |-> IF k[1] \in dropped THEN {} ELSE used[k]]
        /\ anew' = IF user' = user THEN anew ELSE Fresh(user')
        /\ UNCHANGED dependents

(* A load at once, for the properties.                                     *)
RECURSIVE AfterCalls(_, _)
AfterCalls(u, cs) ==
    CASE cs = <<>> -> u
      [] cs # <<>> /\ Head(cs)[1] = "line" -> AfterCalls(u, LineCalls(Head(cs)[2]) \o Tail(cs))
      [] OTHER -> AfterCalls(Effect(u, Head(cs)), Tail(cs))

Loaded(u, lines) == AfterCalls(u, LoadCalls(lines, TRUE))

-----------------------------------------------------------------------------
\* Mutant: symbols that are n are left out.
ConfigStringSkipsN(c, u, s) ==
    CASE ~WriteToConf(c, u, s) \/ (SymType(s) \in BoolTristate /\ c[<<s, "tri">>] = {0}) -> <<>>
      [] SymType(s) \in BoolTristate -> << <<s, "tri", CHOOSE t \in c[<<s, "tri">>] : TRUE>> >>
      [] OTHER -> << <<s, "str", CHOOSE v \in c[<<s, "str">>] : TRUE>> >>

(* Saving a configuration.                                                 *)
ConfigString(c, u, s) ==
    CASE ~WriteToConf(c, u, s) -> <<>>
      [] SymType(s) \in BoolTristate /\ c[<<s, "tri">>] = {0} -> << <<s, "unset", 0>> >>
      [] SymType(s) \in BoolTristate -> << <<s, "tri", CHOOSE t \in c[<<s, "tri">>] : TRUE>> >>
      [] OTHER -> << <<s, "str", CHOOSE v \in c[<<s, "str">>] : TRUE>> >>

(* One line for each symbol, at its first node.                            *)
ConfigContents(c, u) ==
    FlattenSeq([i \in DOMAIN kconf.syms |-> ConfigString(c, u, kconf.syms[i])])

(* The value a symbol would have without a user value, the way the C tools *)
(* calculate it for a minimal configuration.                               *)
DefaultForMin(c, u, s) ==
    LET val == UNION {{Greater(Greater(r, w), d) : d \in TriDefault(c, u, s)}
                      : r \in ExprValue(c, u, kconf.rev[s]), w \in ExprValue(c, u, kconf.weak[s])}
    IN  CASE SymType(s) \notin BoolTristate -> StrDefault(c, u, s)
          [] ChoiceOf(s) # "none" -> {0}
          [] OTHER -> {IF v = 1 /\ TypeNow(c, u, s) = {"bool"} THEN 2 ELSE v : v \in val}

ValueCell(s) == <<s, IF SymType(s) \in BoolTristate THEN "tri" ELSE "str">>

\* Mutant: optional choices are treated like the others.
SkippedInMinOptional(c, u, s) ==
    LET ch == ChoiceOf(s)
    IN  \/ /\ ch = "none"
           /\ \A vis \in c[<<s, "vis">>], rev \in ExprValue(c, u, kconf.rev[s]) : vis <= rev
        \/ c[ValueCell(s)] = DefaultForMin(c, u, s)
        \/ /\ ch # "none"
           /\ SelectionFromDefaults(c, u, ch) = {s}
           /\ SymType(s) = "bool"
           /\ c[<<s, "tri">>] = {2}

SkippedInMin(c, u, s) ==
    LET ch == ChoiceOf(s)
    IN  \/ /\ ch = "none"
           /\ \A vis \in c[<<s, "vis">>], rev \in ExprValue(c, u, kconf.rev[s]) : vis <= rev
        \/ c[ValueCell(s)] = DefaultForMin(c, u, s)
        \/ /\ ch # "none"
           /\ ~kconf.optional[ch]
           /\ SelectionFromDefaults(c, u, ch) = {s}
           /\ SymType(s) = "bool"
           /\ c[<<s, "tri">>] = {2}

MinConfigContents(c, u) ==
    FlattenSeq([i \in DOMAIN kconf.syms |->
        IF SkippedInMin(c, u, kconf.syms[i]) THEN <<>> ELSE ConfigString(c, u, kconf.syms[i])])

-----------------------------------------------------------------------------
(* check-dotconfig.py: the options of the fragments that are not in effect *)
(* after loading a configuration.  Only y, m, n and "is not set" lines of  *)
(* a fragment are looked at, and the last line for an option counts.       *)
\* Mutant: the first line for an option counts.
ParseFragmentKeepsFirst(lines) ==
    LET relevant == {i \in DOMAIN lines : lines[i][2] # "str"}
    IN  {lines[i] : i \in {j \in relevant : \A k \in relevant :
                               lines[k][1] = lines[j][1] => k >= j}}

ParseFragment(lines) ==
    LET relevant == {i \in DOMAIN lines : lines[i][2] # "str"}
    IN  {lines[i] : i \in {j \in relevant : \A k \in relevant :
                               lines[k][1] = lines[j][1] => k <= j}}

\* Mutant: m is taken for y.
NotInEffectUnlessY(fragment, c, u) ==
    {option \in ParseFragment(fragment) :
        \/ option[1] \notin Syms
        \/ StrOf(c, u, option[1]) # {TriToStr[IF option[3] = 0 THEN 0 ELSE 2]}}

NotInEffect(fragment, c, u) ==
    {option \in ParseFragment(fragment) :
        \/ option[1] \notin Syms
        \/ StrOf(c, u, option[1]) # {TriToStr[option[3]]}}

-----------------------------------------------------------------------------
Init ==
    /\ UserInit
    /\ dependents = Dependents
    /\ cache = NothingCached
    /\ used = [k \in Cells |-> {}]
    /\ anew = Fresh(user)
    /\ changes = 0

(* A property is read.  The cells that its calculation needs were          *)
(* calculated before; used keeps which they were.                          *)
Without(c, k) == [c EXCEPT ![k] = {}]

Calculate(k) ==
    /\ calls = <<>>
    /\ k[2] = "asg" => k[1] \in AsgRead
    /\ cache[k] = {}
    /\ cache' = [cache EXCEPT ![k] = Calculated(cache, user, k)]
    /\ cache'[k] # {}
    /\ used' = [used EXCEPT ![k] =
                   {r \in DOMAIN cache : /\ cache[r] # {}
                                         /\ Calculated(Without(cache, r), user, k) = {}}]
    /\ UNCHANGED <<userVars, dependents, anew, changes>>

Change == changes < MaxChanges /\ changes' = changes + 1

Perform(call) == Call(call) /\ Drop(call) /\ Change

ApiSetValue(s, v) == Perform(<<"set", s, v>>)

ApiSetMode(ch, v) == Perform(<<"mode", ch, v>>)

ApiUnset(i) == Perform(<<"unset", i>>)

UnsetValues == BeginUnset /\ Change /\ UNCHANGED cacheVars

LoadConfig(f, replace) == BeginLoad(f, replace) /\ Change /\ UNCHANGED cacheVars

(* The next thing that load_config() or unset_values() does.               *)
ReadLine == ReadConfLine /\ UNCHANGED <<cacheVars, changes>>

Proceed == NextCall /\ Drop(Head(calls)) /\ UNCHANGED changes

Raise == RaiseKeyError /\ UNCHANGED <<cacheVars, changes>>

Next ==
    \/ \E k \in DOMAIN cache : Calculate(k)
    \/ \E s \in Syms : \E v \in Inputs(SymType(s)) : ApiSetValue(s, v)
    \/ \E ch \in ChoiceItems, v \in 0..2 : ApiSetMode(ch, v)
    \/ \E i \in Items : ApiUnset(i)
    \/ UnsetValues
    \/ \E f \in DOMAIN Files, replace \in BOOLEAN : LoadConfig(f, replace)
    \/ ReadLine
    \/ Proceed
    \/ Raise

Spec == Init /\ [][Next]_vars

-----------------------------------------------------------------------------
(* User values fit the types of their symbols, whoever set them, and every *)
(* value that is calculated and cached has the type of its cell.           *)
TypeOK ==
    /\ kconf \in Kconfigs
    /\ UserTyped
    /\ \A k \in Cells :
          /\ k[2] \in {"vis", "tri"} => cache[k] \subseteq 0..2
          /\ k[2] = "asg" => cache[k] \subseteq SUBSET (0..2)
          /\ k[2] = "sel" => cache[k] \subseteq ToSet(kconf.members[k[1]]) \cup {"none"}

Names == UNION {ToSet(k.syms \o k.choices) : k \in Kconfigs}
Attrs == {"vis", "tri", "str", "sel", "asg"}

Coded(v) == 10 * v[1] + v[2] + 3   \* keeps n, m, y and the strings apart

UserOf(i) ==
    CASE i \in ChoiceItems -> <<user.mode[i], user.sel[i]>>
      [] i \in Syms /\ HasPrompt(i) ->
            <<IF SymType(i) \in BoolTristate THEN user.val[i]
              ELSE {Coded(v) : v \in user.val[i]}, {}>>
      [] OTHER -> <<{}, {}>>

Abstract == INSTANCE KconfigCache WITH
    Item <- Names,
    Attr <- Attrs,
    Vis <- "vis",
    UserVal <- (SUBSET Nat) \X (SUBSET STRING),
    dependents <- [i \in Names |-> IF i \in Items THEN dependents[i] ELSE {}],
    assigned <- [i \in Names |-> UserOf(i)],
    cached <- {k \in DOMAIN cache : cache[k] # {}},
    value <- cache,
    used <- [k \in Names \X Attrs |-> IF k \in DOMAIN used THEN used[k] ELSE {}]

(* The session implements the abstract cache, whose proofs say that        *)
(* nothing stale stays.  User values of symbols without a prompt are not   *)
(* part of it: they have no effect.                                        *)
ImplementsCache == Abstract!Spec

(* A cached value is the value that a program without a cache would        *)
(* calculate from the current user values: no order of reads, changes and  *)
(* loads leaves a stale value behind, although the invalidation stops at   *)
(* symbols and choices without a cached visibility and skips symbols       *)
(* without a prompt.                                                       *)
CacheCoherent == Abstract!CacheCoherent

-----------------------------------------------------------------------------
(* The rest depends on user values only, so it is enough to look at it     *)
(* when no value is cached and no load is under way.                       *)
Quiet == calls = <<>> /\ \A k \in DOMAIN cache : cache[k] = {}

Values(c) == [s \in Syms |-> c[ValueCell(s)]]

AfterSet(s, v)  == Fresh(SetValue(user, s, v))[<<s, "tri">>]
ModeIn(u, ch)   == ChoiceTri(Fresh(u), u, ch)

Truthful(fresh) ==
    /\ \A s \in {s \in Syms : SymType(s) \in BoolTristate} :
          \A asg \in fresh[<<s, "asg">>] : \A v \in 0..2 :
             IF v \in asg THEN AfterSet(s, v) = {v}
             ELSE asg # {} /\ ChoiceOf(s) = "none" /\ ValidFor(SymType(s), v)
                     => AfterSet(s, v) # {v}
    /\ \A ch \in ChoiceItems : \A asg \in fresh[<<ch, "asg">>] :
          \A v \in asg : ModeIn(SetMode(user, ch, v), ch) = {v}

(* A value in Symbol.assignable or Choice.assignable is the value that the *)
(* symbol or choice has after set_value(); for a visible symbol outside a  *)
(* choice no other value is.                                               *)
AssignableTruthful == Quiet => Truthful(anew)

(* In y mode exactly one symbol of a choice is y as soon as one of them is *)
(* visible, and it is the selected one; in the other modes none is.        *)
OneOfChoice(fresh) ==
    \A ch \in ChoiceItems :
        LET ys == {s \in ToSet(kconf.members[ch]) : fresh[<<s, "tri">>] = {2}}
            visible == {s \in ToSet(kconf.members[ch]) : fresh[<<s, "vis">>] # {0}}
        IN  IF ChoiceTri(fresh, user, ch) = {2} /\ visible # {}
            THEN ys # {} /\ fresh[<<ch, "sel">>] = ys
            ELSE ys = {}

(* The value of an int or hex symbol lies in its active range, whatever    *)
(* the user set before the range changed.                                  *)
RangeRespected(fresh) ==
    \A s \in {s \in Syms : SymType(s) \in IntHex} :
        \A v \in fresh[<<s, "str">>], range \in ActiveRange(fresh, user, s) :
            InRange(<<1, NumOrZero(v)>>, range)

Legal(fresh) == OneOfChoice(fresh) /\ RangeRespected(fresh)

(* No sequence of calls leads to values that the Kconfig does not allow:   *)
(* they have their types, a choice has one selected symbol, and numbers    *)
(* are in range.                                                           *)
ValuesLegal == TypeOK /\ (Quiet => Legal(anew))

(* Loading the configuration that write_config() saved gives the values    *)
(* that were saved.                                                        *)
RoundTrip(fresh) == Values(Fresh(Loaded(user, ConfigContents(fresh, user)))) = Values(fresh)

(* And so does the minimal configuration that write_min_config() saves,    *)
(* loaded into a fresh instance.  A bool symbol that is the default of a   *)
(* tristate choice is left out of it, and its y mode is lost.              *)
NoBoolInTristateChoice ==
    \A s \in Syms : SymType(s) = "bool" /\ ChoiceOf(s) # "none"
                        => kconf.ctype[ChoiceOf(s)] = "bool"

MinRoundTrip(fresh) ==
    NoBoolInTristateChoice =>
    Values(Fresh(Loaded(NoUserValues, MinConfigContents(fresh, user)))) = Values(fresh)

(* What write_config() and write_min_config() save stands for the          *)
(* configuration: it can be loaded again.                                  *)
StandsForIt(fresh) == RoundTrip(fresh) /\ MinRoundTrip(fresh)

SavedStandsForIt == Quiet => StandsForIt(anew)

(* check-dotconfig.py is given the configuration that was saved, and the   *)
(* same configuration as a fragment, followed by a fragment that asks for  *)
(* the user values.                                                        *)
TriSyms == {s \in Syms : SymType(s) \in BoolTristate}

Asked(u) ==
    FlattenSeq([i \in DOMAIN kconf.syms |->
        LET s == kconf.syms[i]
        IN  IF s \in TriSyms /\ u.val[s] # {}
            THEN << <<s, "tri", CHOOSE v \in u.val[s] : TRUE>> >> ELSE <<>>])

ReportsLost(fresh) ==
    LET saved  == ConfigContents(fresh, user)
        loaded == Loaded(NoUserValues, saved)
        actual == Fresh(loaded)
        lost   == {s \in TriSyms : user.val[s] \notin {{}, fresh[<<s, "tri">>]}}
        Reported(f) == {option[1] : option \in NotInEffect(f, actual, loaded)}
    IN  Reported(saved) = {} /\ Reported(saved \o Asked(user)) = lost

(* check-dotconfig.py reports a user value that a dependency, MODULES or   *)
(* another symbol of the choice took away, and nothing else: what was      *)
(* saved is accepted, and a later fragment overrides an earlier one.       *)
LostValuesReported == Quiet => ReportsLost(anew)

(* After a configuration is replaced, every symbol has the value it has in *)
(* a fresh instance: "all existing user values will be cleared before      *)
(* loading the .config".                                                   *)
ReplaceClears ==
    (Quiet /\ outcome = "replaced") => Values(anew) = Values(Fresh(fromFile))

(* A symbol whose value was removed can be assigned by a file "as if the   *)
(* symbol had never gotten a user value": load_config() does not raise.    *)
LoadsAfterUnset == outcome # "raised"
=============================================================================
