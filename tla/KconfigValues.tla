---------------------------- MODULE KconfigValues ----------------------------
(***************************************************************************)
(* How kconfiglib calculates the values of symbols and choices.            *)
(*                                                                         *)
(* A value that is calculated on demand lives in a cell, an attribute of   *)
(* an item.  A cell holds {} while nothing is cached and {v} once v is, and *)
(* the operators below work on such sets: they give {} when they run into  *)
(* a cell that has no value yet, the point where the code would go and     *)
(* calculate it first.  So an operator that gives {v} has read cached      *)
(* cells only, exactly those that the short-circuits of the code read.     *)
(* A user value that is not set is {} as well.                             *)
(*                                                                         *)
(* The string value of a symbol is a pair that sorts like the string:      *)
(* <<0, 0>> is the empty string, <<1, d>> a one-digit number and <<2, k>>  *)
(* a text that starts with letter k.                                       *)
(***************************************************************************)
EXTENDS KconfigExpr, KconfigData, SequencesExt

Modules == "MODULES"

Empty == <<0, 0>>
Num(d) == <<1, d>>
TriOfName == [n |-> 0, m |-> 1, y |-> 2]
TriToStr  == [t \in 0..2 |-> <<2, <<14, 13, 25>>[t + 1]>>]
LitStr(s) == IF s \in DOMAIN kconf.lit THEN kconf.lit[s] ELSE <<2, 99>>

(* strtoll() on something that is not a number gives 0.                    *)
NumOrZero(v) == IF v[1] = 1 THEN v[2] ELSE 0

StrCmp(v, w) ==
    CASE v = w -> 0
      [] v[1] < w[1] \/ (v[1] = w[1] /\ v[2] < w[2]) -> -1
      [] OTHER -> 1

-----------------------------------------------------------------------------
(* The mode of a choice, and the types that change with it and MODULES.    *)
ModulesTri(c) ==
    IF Modules \in Syms /\ SymType(Modules) \in BoolTristate
    THEN c[<<Modules, "tri">>] ELSE {0}

ModulesType(c) == {IF t = 0 THEN "bool" ELSE "tristate" : t \in ModulesTri(c)}

ChoiceType(c, ch) ==
    IF kconf.ctype[ch] = "tristate" THEN ModulesType(c) ELSE {kconf.ctype[ch]}

ChoiceTri(c, u, ch) ==
    LET floor == IF kconf.optional[ch] THEN 0 ELSE 1
        mode  == IF u.mode[ch] = {} THEN floor
                 ELSE Greater(floor, CHOOSE t \in u.mode[ch] : TRUE)
    IN  UNION {LET val == Lesser(mode, vis)
               IN  IF val = 1
                   THEN {IF t = "bool" THEN 2 ELSE 1 : t \in ChoiceType(c, ch)}
                   ELSE {val} : vis \in c[<<ch, "vis">>]}

TypeNow(c, u, s) ==
    CASE SymType(s) # "tristate" -> {SymType(s)}
      [] ChoiceOf(s) = "none" -> ModulesType(c)
      [] OTHER -> UNION {IF t = 2 THEN {"bool"} ELSE ModulesType(c)
                         : t \in ChoiceTri(c, u, ChoiceOf(s))}

-----------------------------------------------------------------------------
(* Expressions.                                                            *)
TriOf(c, u, s) ==
    CASE s \in ChoiceItems -> ChoiceTri(c, u, s)
      [] s \in {"n", "m", "y"} -> {TriOfName[s]}
      [] SymType(s) \in BoolTristate -> c[<<s, "tri">>]
      [] OTHER -> {0}

StrOf(c, u, s) ==
    CASE SymType(s) \in BoolTristate -> {TriToStr[t] : t \in TriOf(c, u, s)}
      [] SymType(s) = "unknown" -> {LitStr(s)}
      [] OTHER -> c[<<s, "str">>]

(* The comparison of two symbols: strings as strings, everything else as   *)
(* numbers unless one of the two is not a number.                          *)
Compare(c, u, a, b) ==
    LET number(s, v) == IF SymType(s) \in BoolTristate
                        THEN CHOOSE t \in 0..2 : TriToStr[t] = v ELSE v[2]
        isNumber(s, v) == SymType(s) \in BoolTristate \/ v[1] = 1
    IN  UNION {{IF /\ ~(SymType(a) = "string" /\ SymType(b) = "string")
                   /\ isNumber(a, v) /\ isNumber(b, w)
                THEN number(a, v) - number(b, w)
                ELSE StrCmp(v, w) : v \in StrOf(c, u, a)} : w \in StrOf(c, u, b)}

Holds(op, cmp) ==
    CASE op = "=" -> cmp = 0
      [] op = "!=" -> cmp # 0
      [] op = "<" -> cmp < 0
      [] op = "<=" -> cmp <= 0
      [] op = ">" -> cmp > 0
      [] op = ">=" -> cmp >= 0

(* && does not look at its right side when the left is n, || not when the  *)
(* left is y.                                                              *)
RECURSIVE ExprValue(_, _, _)
ExprValue(c, u, e) ==
    CASE e[1] = "sym" -> TriOf(c, u, e[2])
      [] e[1] = "and" -> UNION {IF v = 0 THEN {0}
                                ELSE {Lesser(v, w) : w \in ExprValue(c, u, e[3])}
                                : v \in ExprValue(c, u, e[2])}
      [] e[1] = "or"  -> UNION {IF v = 2 THEN {2}
                                ELSE {Greater(v, w) : w \in ExprValue(c, u, e[3])}
                                : v \in ExprValue(c, u, e[2])}
      [] e[1] = "not" -> {2 - v : v \in ExprValue(c, u, e[2])}
      [] OTHER -> {IF Holds(e[1], cmp) THEN 2 ELSE 0
                   : cmp \in Compare(c, u, e[2], e[3])}

(* The position of the first entry whose condition, its last field, is not *)
(* n; the length plus one when there is none.                              *)
RECURSIVE FirstActive(_, _, _, _)
FirstActive(c, u, props, i) ==
    IF i > Len(props) THEN {i}
    ELSE UNION {IF v # 0 THEN {i} ELSE FirstActive(c, u, props, i + 1)
                : v \in ExprValue(c, u, Last(props[i]))}

-----------------------------------------------------------------------------
(* Visibility.                                                             *)
PromptsOf(sc) == IF sc \in ChoiceItems THEN kconf.cprompts[sc] ELSE kconf.prompts[sc]

RECURSIVE MaxValue(_, _, _)
MaxValue(c, u, exprs) ==
    IF exprs = <<>> THEN {0}
    ELSE UNION {{Greater(v, w) : v \in ExprValue(c, u, Head(exprs))}
                : w \in MaxValue(c, u, Tail(exprs))}

(* m is promoted to y for what is not (or no longer) tristate.             *)
Promoted(types, vis) ==
    IF vis # 1 THEN {vis} ELSE {IF t = "tristate" THEN 1 ELSE 2 : t \in types}

SymVisibility(c, u, s, vis) ==
    LET ch == ChoiceOf(s)
    IN  CASE ch = "none" -> Promoted(TypeNow(c, u, s), vis)
          [] kconf.ctype[ch] = "tristate" /\ SymType(s) # "tristate" ->
                UNION {IF t # 2 THEN {0} ELSE Promoted(TypeNow(c, u, s), vis)
                       : t \in ChoiceTri(c, u, ch)}
          [] SymType(s) = "tristate" /\ vis = 1 ->
                UNION {IF t = 2 THEN {0} ELSE Promoted(TypeNow(c, u, s), vis)
                       : t \in ChoiceTri(c, u, ch)}
          [] OTHER -> Promoted(TypeNow(c, u, s), vis)

Visibility(c, u, sc) ==
    UNION {IF sc \in ChoiceItems THEN Promoted(ChoiceType(c, sc), vis)
           ELSE SymVisibility(c, u, sc, vis) : vis \in MaxValue(c, u, PromptsOf(sc))}

-----------------------------------------------------------------------------
(* The selected symbol of a choice in y mode.                              *)
(* A symbol that is mentioned but not defined has no prompt.               *)
VisOf(c, s) == IF s \in Syms THEN c[<<s, "vis">>] ELSE {0}

RECURSIVE FirstVisible(_, _)
FirstVisible(c, syms) ==
    IF syms = <<>> THEN {"none"}
    ELSE UNION {IF vis # 0 THEN {Head(syms)} ELSE FirstVisible(c, Tail(syms))
                : vis \in c[<<Head(syms), "vis">>]}

RECURSIVE FromDefaults(_, _, _, _)
FromDefaults(c, u, ch, i) ==
    UNION {IF d > Len(kconf.cdefaults[ch]) THEN FirstVisible(c, kconf.members[ch])
           ELSE UNION {IF vis # 0 THEN {kconf.cdefaults[ch][d][1]}
                       ELSE FromDefaults(c, u, ch, d + 1)
                       : vis \in VisOf(c, kconf.cdefaults[ch][d][1])}
           : d \in FirstActive(c, u, kconf.cdefaults[ch], i)}

SelectionFromDefaults(c, u, ch) == FromDefaults(c, u, ch, 1)

Selection(c, u, ch) ==
    LET byUser(s) == UNION {IF vis # 0 THEN {s} ELSE SelectionFromDefaults(c, u, ch)
                            : vis \in c[<<s, "vis">>]}
    IN  UNION {CASE t # 2 -> {"none"}
                 [] u.sel[ch] = {} -> SelectionFromDefaults(c, u, ch)
                 [] OTHER -> UNION {byUser(s) : s \in u.sel[ch]}
               : t \in ChoiceTri(c, u, ch)}

-----------------------------------------------------------------------------
(* Tristate values.                                                        *)
(* The value of the first active default, capped by its condition.         *)
TriDefault(c, u, s) ==
    UNION {IF d > Len(kconf.defaults[s]) THEN {0}
           ELSE UNION {{Lesser(v, w) : v \in ExprValue(c, u, kconf.defaults[s][d][1])}
                       : w \in ExprValue(c, u, kconf.defaults[s][d][2])}
           : d \in FirstActive(c, u, kconf.defaults[s], 1)}

(* imply only counts when the direct dependencies are met.                 *)
Implied(c, u, s, val) ==
    UNION {IF weak = 0 THEN {val}
           ELSE {IF dir = 0 THEN val ELSE Greater(weak, val)
                 : dir \in ExprValue(c, u, kconf.direct[s])}
           : weak \in ExprValue(c, u, kconf.weak[s])}

FromUserOrDefaults(c, u, s, vis) ==
    IF vis # 0 /\ u.val[s] # {}
    THEN {Lesser(v, vis) : v \in u.val[s]}
    ELSE UNION {Implied(c, u, s, val) : val \in TriDefault(c, u, s)}

(* m becomes y for bool symbols and for symbols that are y-implied.        *)
BoolPromoted(c, u, s, val) ==
    IF val # 1 THEN {val}
    ELSE UNION {IF t = "bool" THEN {2}
                ELSE {IF weak = 2 THEN 2 ELSE 1 : weak \in ExprValue(c, u, kconf.weak[s])}
                : t \in TypeNow(c, u, s)}

\* Mutant: a symbol of a choice in m mode keeps its y.
TriValueKeepsY(c, u, s) ==
    UNION {CASE ChoiceOf(s) = "none" ->
                  UNION {UNION {BoolPromoted(c, u, s, Greater(rev, val))
                                : rev \in ExprValue(c, u, kconf.rev[s])}
                         : val \in FromUserOrDefaults(c, u, s, vis)}
             [] vis = 2 -> {IF sel = s THEN 2 ELSE 0 : sel \in c[<<ChoiceOf(s), "sel">>]}
             [] OTHER -> IF vis # 0 /\ u.val[s] # {} THEN u.val[s] ELSE {0}
           : vis \in c[<<s, "vis">>]}

TriValue(c, u, s) ==
    UNION {CASE ChoiceOf(s) = "none" ->
                  UNION {UNION {BoolPromoted(c, u, s, Greater(rev, val))
                                : rev \in ExprValue(c, u, kconf.rev[s])}
                         : val \in FromUserOrDefaults(c, u, s, vis)}
             [] vis = 2 -> {IF sel = s THEN 2 ELSE 0 : sel \in c[<<ChoiceOf(s), "sel">>]}
             [] OTHER -> {IF vis # 0 /\ u.val[s] \in {{1}, {2}} THEN 1 ELSE 0}
           : vis \in c[<<s, "vis">>]}

-----------------------------------------------------------------------------
(* String, int and hex values.                                             *)
StrDefault(c, u, s) ==
    UNION {IF d > Len(kconf.defaults[s]) THEN {Empty}
           ELSE StrOf(c, u, kconf.defaults[s][d][1][2])
           : d \in FirstActive(c, u, kconf.defaults[s], 1)}

(* The active range as <<low, high>>, or <<>>.                             *)
ActiveRange(c, u, s) ==
    UNION {IF r > Len(kconf.ranges[s]) THEN {<<>>}
           ELSE UNION {{<<NumOrZero(low), NumOrZero(high)>>
                        : high \in StrOf(c, u, kconf.ranges[s][r][2])}
                       : low \in StrOf(c, u, kconf.ranges[s][r][1])}
           : r \in FirstActive(c, u, kconf.ranges[s], 1)}

\* Mutant: the upper end of a range is not looked at.
ClampedBelow(val, range) ==
    IF range # <<>> /\ NumOrZero(val) < range[1] THEN Num(range[1]) ELSE val

(* A default is clamped to the range, and so is the 0 that stands for no   *)
(* default.                                                                *)
Clamped(val, range) ==
    CASE range = <<>> -> val
      [] NumOrZero(val) < range[1] -> Num(range[1])
      [] NumOrZero(val) > range[2] -> Num(range[2])
      [] OTHER -> val

InRange(v, range) == range = <<>> \/ (range[1] <= v[2] /\ v[2] <= range[2])

NumValue(c, u, s, vis) ==
    UNION {IF vis # 0 /\ u.val[s] # {} /\ \A v \in u.val[s] : InRange(v, range)
           THEN u.val[s]
           ELSE {Clamped(val, range) : val \in StrDefault(c, u, s)}
           : range \in ActiveRange(c, u, s)}

StrValue(c, u, s) ==
    UNION {CASE SymType(s) \in IntHex -> NumValue(c, u, s, vis)
             [] vis # 0 /\ u.val[s] # {} -> u.val[s]
             [] OTHER -> StrDefault(c, u, s)
           : vis \in c[<<s, "vis">>]}

-----------------------------------------------------------------------------
\* Mutant: an implied y does not rule out m.
SymAssignableImplied(c, u, s) ==
    UNION {{IF vis = 0 THEN {} ELSE IF t = "bool" THEN {0, 2} ELSE 0..vis : t \in TypeNow(c, u, s)}
           : vis \in c[<<s, "vis">>]}

(* What a user can currently set.                                          *)
SymAssignable(c, u, s) ==
    LET twoWay == UNION {IF t = "bool" THEN {TRUE}
                         ELSE {weak = 2 : weak \in ExprValue(c, u, kconf.weak[s])}
                         : t \in TypeNow(c, u, s)}
        yVisible(rev) ==
            CASE ChoiceOf(s) # "none" -> {{2}}
              [] rev = 0 -> {IF b THEN {0, 2} ELSE {0, 1, 2} : b \in twoWay}
              [] rev = 2 -> {{2}}
              [] OTHER -> {IF b THEN {2} ELSE {1, 2} : b \in twoWay}
        mVisible(rev) ==
            CASE rev = 0 -> {IF weak # 2 THEN {0, 1} ELSE {0, 2}
                             : weak \in ExprValue(c, u, kconf.weak[s])}
              [] rev = 2 -> {{2}}
              [] OTHER -> {{1}}
    IN  UNION {IF vis = 0 THEN {{}}
               ELSE UNION {IF vis = 2 THEN yVisible(rev) ELSE mVisible(rev)
                           : rev \in ExprValue(c, u, kconf.rev[s])}
               : vis \in c[<<s, "vis">>]}

ChoiceAssignable(c, u, ch) ==
    LET low == IF kconf.optional[ch] THEN {0} ELSE {}
    IN  UNION {CASE vis = 0 -> {{}}
                 [] vis = 1 -> {low \cup {1}}
                 [] OTHER -> {low \cup (IF t = "bool" THEN {2} ELSE {1, 2})
                              : t \in ChoiceType(c, ch)}
               : vis \in c[<<ch, "vis">>]}

-----------------------------------------------------------------------------
(* The cells and the one way to fill them.                                 *)
AttrsOf(i) ==
    CASE i \in ChoiceItems -> {"vis", "sel", "asg"}
      [] SymType(i) \in BoolTristate -> {"vis", "tri", "asg"}
      [] SymType(i) = "unknown" -> {"vis"}
      [] OTHER -> {"vis", "str"}

Cells == {<<i, a>> \in (Syms \cup ChoiceItems) \X {"vis", "tri", "str", "sel", "asg"}
          : a \in AttrsOf(i)}

Calculated(c, u, k) ==
    LET i == k[1]
    IN  CASE k[2] = "vis" -> Visibility(c, u, i)
          [] k[2] = "tri" -> TriValue(c, u, i)
          [] k[2] = "str" -> StrValue(c, u, i)
          [] k[2] = "sel" -> Selection(c, u, i)
          [] i \in ChoiceItems -> ChoiceAssignable(c, u, i)
          [] OTHER -> SymAssignable(c, u, i)

NothingCached == [k \in Cells |-> {}]

(* The values that a run without any cache arrives at.  A cell that stays  *)
(* {} would never be calculated: its calculation needs itself.             *)
RECURSIVE Settle(_, _)
Settle(c, u) ==
    LET more == [k \in DOMAIN c |-> IF c[k] = {} THEN Calculated(c, u, k) ELSE c[k]]
    IN  IF more = c THEN c ELSE Settle(more, u)

Fresh(u) == Settle(NothingCached, u)

-----------------------------------------------------------------------------
(* Whether a symbol is written to .config: worked out along with its value.*)
(* An environment variable is not, but only for symbols that are no bools. *)
ActiveDefault(c, u, s) ==
    \E d \in FirstActive(c, u, kconf.defaults[s], 1) : d <= Len(kconf.defaults[s])

UserCounts(c, u, s) ==
    /\ c[<<s, "vis">>] # {0}
    /\ u.val[s] # {}
    /\ SymType(s) \in IntHex =>
          \A range \in ActiveRange(c, u, s), v \in u.val[s] : InRange(v, range)

WriteToConf(c, u, s) ==
    IF SymType(s) \in BoolTristate
    THEN \/ c[<<s, "vis">>] # {0}
         \/ /\ ChoiceOf(s) = "none"
            /\ \/ TriDefault(c, u, s) # {0}
               \/ ExprValue(c, u, kconf.weak[s]) # {0} /\ ExprValue(c, u, kconf.direct[s]) # {0}
               \/ ExprValue(c, u, kconf.rev[s]) # {0}
    ELSE /\ SymType(s) # "unknown"
         /\ c[<<s, "vis">>] # {0} \/ (~UserCounts(c, u, s) /\ ActiveDefault(c, u, s))
         /\ s \notin kconf.env

-----------------------------------------------------------------------------
(* Dependents: who has to be recalculated when an item changes.            *)
SymReads(s) ==
    LET conds == {Last(p) : p \in ToSet(kconf.defaults[s]) \cup ToSet(kconf.ranges[s])}
        exprs == ToSet(kconf.prompts[s]) \cup conds
                 \cup {p[1] : p \in ToSet(kconf.defaults[s])}
                 \cup {kconf.rev[s], kconf.weak[s], kconf.direct[s]}
    IN  UNION {ExprItems(e) : e \in exprs}
        \cup UNION {{r[1], r[2]} : r \in ToSet(kconf.ranges[s])}

ChoiceReads(ch) ==
    UNION {ExprItems(e) : e \in ToSet(kconf.cprompts[ch])
                                \cup {d[2] : d \in ToSet(kconf.cdefaults[ch])}}

(* What _build_dep() registers: item -> its dependents.                    *)
BuiltDependents ==
    [i \in Syms \cup ChoiceItems |->
        {s \in Syms : i \in SymReads(s)} \cup {ch \in ChoiceItems : i \in ChoiceReads(ch)}]

(* After the loop check, choices also depend on their symbols.             *)
Dependents ==
    [i \in Syms \cup ChoiceItems |->
        BuiltDependents[i] \cup {ch \in ChoiceItems : i \in ToSet(kconf.members[ch])}]
=============================================================================
