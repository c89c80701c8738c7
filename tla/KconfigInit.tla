----------------------------- MODULE KconfigInit -----------------------------
(***************************************************************************)
(* Kconfig._init() as a whole: the parser with the expressions and the     *)
(* menu tree of kconfiglib, and the checks of what was parsed.             *)
(***************************************************************************)
EXTENDS KconfigTree, KconfigParse

ASSUME BoundAssumption == MaxLines \in Nat

ASSUME ExpressionAssumption == No = N /\ Yes = Y /\ BadSyntax = Malformed

-----------------------------------------------------------------------------
(* Choices and symbols that are not bool or tristate have only symbols as  *)
(* defaults, and there are no dependency loops.                            *)
CheckSanity ==
    \A n \in DOMAIN origin :
        (\/ origin[n].kind = "choice"
         \/ origin[n].kind = "symbol" /\ SymType(origin[n].item) \in {"string"} \cup IntHex)
        => \A i \in DOMAIN origin[n].defaults : origin[n].defaults[i][1][1] = "sym"

CheckResult ==
    phase = "checking" => phase' = IF CheckSanity /\ ~HasDepLoop THEN "done" ELSE "rejected"

Result == kconf' = IF phase = "parsed" THEN Finished(heap') ELSE kconf

Start == Init /\ kconf = <<>>

KconfigSpec ==
    /\ Start
    /\ [][Next /\ Result /\ CheckResult]_<<vars, kconf>>

-----------------------------------------------------------------------------
Final == phase \in {"checking", "done", "rejected"}

(* node_iter() visits every entry once, "in Kconfig definition order",     *)
(* although implicit menus and flattened ifs have rearranged the tree.     *)
NodeIterInOrder ==
    Final =>
    LET isItem(n) == heap.nodes[n].kind # "if"
    IN  NodeIter(heap.nodes, 1, <<>>)
            = SelectSeq([i \in 1..(Len(heap.nodes) - 1) |-> i + 1], isItem)

(* Links lead to nodes, and a choice with a type gives its symbols one.    *)
TypesHandedOn ==
    Final =>
    /\ \A n \in DOMAIN heap.nodes :
          {heap.nodes[n].list, heap.nodes[n].next, heap.nodes[n].parent} \subseteq 0..Len(heap.nodes)
    /\ \A s \in Syms :
          (ChoiceOf(s) # "none" /\ kconf.ctype[ChoiceOf(s)] # "unknown") => SymType(s) # "unknown"

(* The finalized tree is sound: nothing is lost or out of order, and types *)
(* are handed through choices.                                             *)
TreeSound == NodeIterInOrder /\ TypesHandedOn

-----------------------------------------------------------------------------
(* Values under an assignment v of n, m, y to symbols and choices.         *)
RECURSIVE Under(_, _)
Under(v, e) ==
    LET of(s) == IF s \in DOMAIN TriOfName THEN TriOfName[s] ELSE v[s]
    IN  CASE e[1] = "sym" -> of(e[2])
          [] e[1] = "and" -> Lesser(Under(v, e[2]), Under(v, e[3]))
          [] e[1] = "or"  -> Greater(Under(v, e[2]), Under(v, e[3]))
          [] e[1] = "not" -> 2 - Under(v, e[2])
          [] OTHER -> IF Holds(e[1], of(e[2]) - of(e[3])) THEN 2 ELSE 0

Assignments == [SymNames \cup ChoiceNames -> 0..2]

(* The condition that a statement stands under, as the files nest it.      *)
RECURSIVE Condition(_, _), Visible(_, _)
Condition(v, n) ==
    LET up == origin[n].parent
    IN  Lesser(Under(v, origin[n].dep),
               CASE up = 0 -> 2
                 [] origin[up].kind = "choice" -> v[origin[up].item]
                 [] OTHER -> Condition(v, up))

Visible(v, n) ==
    LET up == origin[n].parent
    IN  IF up = 0 THEN 2 ELSE Lesser(Under(v, origin[up].visibility), Visible(v, up))

MaxOf(S) == CHOOSE x \in S \cup {0} : \A y \in S : y <= x

NodesOf(s) == {n \in DOMAIN origin : origin[n].kind = "symbol" /\ origin[n].item = s}

(* The strongest statement that selects (or implies) s.                    *)
Strongest(v, s, statements) ==
    MaxOf(UNION {{Lesser(Lesser(v[origin[n].item], Under(v, t[2])), Condition(v, n))
                  : t \in {t \in ToSet(statements[n]) : t[1] = s}} : n \in DOMAIN origin})

(* The direct dependency of a symbol is the disjunction of what its        *)
(* definitions stand under, prompts also need every "visible if" around    *)
(* them, and a symbol is selected (or implied) whenever one of the         *)
(* statements that do so applies.                                          *)
DependenciesComplete ==
    Final =>
    \A v \in Assignments : \A s \in Syms :
        /\ Under(v, kconf.direct[s]) = MaxOf({Condition(v, n) : n \in NodesOf(s)})
        /\ MaxOf({Under(v, p) : p \in ToSet(kconf.prompts[s])})
              = MaxOf(UNION {{Lesser(Lesser(Under(v, p), Visible(v, n)), Condition(v, n))
                              : p \in origin[n].prompt} : n \in NodesOf(s)})
        /\ Under(v, kconf.rev[s]) = Strongest(v, s, [n \in DOMAIN origin |-> origin[n].selects])
        /\ Under(v, kconf.weak[s]) = Strongest(v, s, [n \in DOMAIN origin |-> origin[n].implies])

(* A symbol with a prompt in a choice is registered as a dependent of the  *)
(* choice, which the invalidation of cached values relies on: _build_dep() *)
(* takes it for granted.  A symbol of a choice whose only prompts are      *)
(* outside is not registered; the code warns of such a Kconfig.            *)
ChoiceKnowsItsSymbols ==
    Final =>
    \A n \in DOMAIN heap.nodes : heap.nodes[n].kind = "choice" =>
        \A m \in ToSet(Children(heap.nodes, n)) :
            (heap.nodes[m].kind = "symbol" /\ heap.nodes[m].prompt \notin {{}, {N}})
            => heap.nodes[m].item \in BuiltDependents[heap.nodes[n].item]

(* The conditions that symbols end up with, and who is registered as       *)
(* depending on a choice, are those that the files state.                  *)
DependenciesAsStated == DependenciesComplete /\ ChoiceKnowsItsSymbols

SomeUsers ==
    {[val |-> [s \in Syms |-> v], mode |-> [ch \in ChoiceItems |-> v],
      sel |-> [ch \in ChoiceItems |-> {}]] : v \in {{}, {2}}}

Evaluated(fresh) == \A k \in Cells : fresh[k] # {}

(* A Kconfig that passed the loop check can be evaluated: no calculation   *)
(* ever needs its own result.  The check follows a choice to its symbols   *)
(* only (_check_dep_loop_choice()), so it says nothing of a Kconfig with   *)
(* something else inside a choice, like a second definition of the choice. *)
AcceptedEvaluates ==
    (/\ phase = "done"
     /\ \A ch \in ChoiceItems : BuiltDependents[ch] \subseteq ToSet(kconf.members[ch]))
    => \A u \in SomeUsers : Evaluated(Fresh(u))

Together(i) == IF i \in Syms /\ ChoiceOf(i) # "none" THEN ChoiceOf(i) ELSE i

Edges ==
    {<<Together(e[1]), Together(e[2])>> :
        e \in {<<i, j>> \in (Syms \cup ChoiceItems) \X (Syms \cup ChoiceItems) :
                 /\ j \in BuiltDependents[i]
                 /\ ~(i \in ChoiceItems /\ j \in ToSet(kconf.members[i]))}}

RECURSIVE ReachedFrom(_)
ReachedFrom(S) ==
    LET next == S \cup {e[2] : e \in {e \in Edges : e[1] \in S}}
    IN  IF next = S THEN S ELSE ReachedFrom(next)

(* A Kconfig that is rejected for a loop has one: an item that is reached  *)
(* from itself through dependents, where a choice and its symbols count as *)
(* one (that they depend on their choice is no loop).                      *)
RejectedForACause ==
    (phase = "rejected" /\ CheckSanity) =>
    \E e \in Edges : e[1] \in ReachedFrom({e[2]})

(* The loop check is exact: what it accepts can be evaluated, and what it  *)
(* rejects has a loop.                                                     *)
LoopsFound == AcceptedEvaluates /\ RejectedForACause

(* Printing the condition of a node and parsing it again keeps its value.  *)
PrintParse ==
    Final =>
    \A n \in DOMAIN heap.nodes :
        LET e == heap.nodes[n].dep
            again == ParseExpr(ExprStr(e), 1, FALSE)
        IN  /\ again[2] = Len(ExprStr(e)) + 1
            /\ \A v \in Assignments : Under(v, again[1]) = Under(v, e)

=============================================================================
