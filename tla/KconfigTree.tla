----------------------------- MODULE KconfigTree -----------------------------
(***************************************************************************)
(* How kconfiglib turns the menu nodes of a parsed Kconfig into the        *)
(* finished menu tree and the properties of symbols and choices.           *)
(*                                                                         *)
(* A menu node is a record; list, next and parent are numbers of nodes, 0  *)
(* for None, and node 1 is the top node.  A prompt is the set that holds   *)
(* its condition, {} when there is none.  The operators work on a heap     *)
(* [nodes, items], items being the symbols and choices by name.            *)
(***************************************************************************)
EXTENDS KconfigValues

RECURSIVE Chain(_, _)
Chain(nodes, n) == IF n = 0 THEN <<>> ELSE <<n>> \o Chain(nodes, nodes[n].next)

Children(nodes, n) == Chain(nodes, nodes[n].list)

(* node_iter(): down, on, or up until there is a next node.  The walk is   *)
(* cut off when it visits more nodes than there are.                       *)
RECURSIVE UpAndOn(_, _)
UpAndOn(nodes, n) ==
    LET up == nodes[n].parent
    IN  IF up = 0 THEN 0 ELSE IF nodes[up].next # 0 THEN nodes[up].next ELSE UpAndOn(nodes, up)

RECURSIVE NodeIter(_, _, _)
NodeIter(nodes, n, walk) ==
    LET next == CASE nodes[n].list # 0 -> nodes[n].list
                  [] nodes[n].next # 0 -> nodes[n].next
                  [] OTHER -> UpAndOn(nodes, n)
    IN  IF next = 0 \/ Len(walk) > Len(nodes) THEN walk
        ELSE NodeIter(nodes, next, Append(walk, next))

-----------------------------------------------------------------------------
\* Mutant: "visible if" is not propagated to prompts.
PropagateDepsVisible(nodes, n, visibleIf) ==
    LET base == IF nodes[n].kind = "choice" THEN Sym(nodes[n].item) ELSE nodes[n].dep
        kids == ToSet(Children(nodes, n))
    IN  [i \in DOMAIN nodes |->
            IF i \notin kids THEN nodes[i]
            ELSE [nodes[i] EXCEPT !.dep = MakeAnd(@, base),
                                  !.prompt = {MakeAnd(p, MakeAnd(nodes[i].dep, base)) : p \in @}]]

\* Mutant: what is in a choice inherits the conditions of the choice.
PropagateDepsOfChoice(nodes, n, visibleIf) ==
    LET kids == ToSet(Children(nodes, n))
    IN  [i \in DOMAIN nodes |->
            IF i \notin kids THEN nodes[i]
            ELSE [nodes[i] EXCEPT !.dep = MakeAnd(@, nodes[n].dep),
                                  !.prompt = {MakeAnd(p, MakeAnd(nodes[i].dep, nodes[n].dep)) : p \in @}]]

(* The dependencies of a node go into everything its children hold.  A     *)
(* choice itself is the dependency of what is in it.                       *)
PropagateDeps(nodes, n, visibleIf) ==
    LET base == IF nodes[n].kind = "choice" THEN Sym(nodes[n].item) ELSE nodes[n].dep
        kids == ToSet(Children(nodes, n))
        Under(c, dep) ==
            LET pairs(ps) == [i \in DOMAIN ps |-> <<ps[i][1], MakeAnd(ps[i][2], dep)>>]
            IN  IF c.kind \notin {"symbol", "choice"}
                THEN [c EXCEPT !.dep = dep, !.prompt = {MakeAnd(p, dep) : p \in @}]
                ELSE
                [c EXCEPT !.dep = dep,
                          !.prompt = {MakeAnd(p, MakeAnd(visibleIf, dep)) : p \in @},
                          !.defaults = pairs(c.defaults),
                          !.ranges = [i \in DOMAIN c.ranges |->
                             <<c.ranges[i][1], c.ranges[i][2], MakeAnd(c.ranges[i][3], dep)>>],
                          !.selects = pairs(c.selects),
                          !.implies = pairs(c.implies)]
    IN  [i \in DOMAIN nodes |->
            IF i \in kids THEN Under(nodes[i], MakeAnd(nodes[i].dep, base)) ELSE nodes[i]]

(* The properties of a definition are added to its symbol, and selects and *)
(* implies to the reverse dependencies of their targets.                   *)
RECURSIVE AddReverse(_, _, _, _)
AddReverse(items, sym, targets, weak) ==
    IF targets = <<>> THEN items
    ELSE LET t    == Head(targets)[1]
             cond == MakeAnd(Sym(sym), Head(targets)[2])
             more == IF weak THEN [items EXCEPT ![t].weak = MakeOr(@, cond)]
                     ELSE [items EXCEPT ![t].rev = MakeOr(@, cond)]
         IN  AddReverse(more, sym, Tail(targets), weak)

AddPropsToSym(heap, n) ==
    LET node  == heap.nodes[n]
        sym   == node.item
        added == [heap.items EXCEPT ![sym].direct = MakeOr(@, node.dep),
                                    ![sym].defaults = @ \o node.defaults,
                                    ![sym].ranges = @ \o node.ranges]
    IN  [heap EXCEPT !.items =
            AddReverse(AddReverse(added, sym, node.selects, FALSE), sym, node.implies, TRUE)]

-----------------------------------------------------------------------------
(* Whether node m belongs into an implicit menu below the symbol of n.     *)
AutoMenuDep(nodes, n, m) ==
    LET cond == IF nodes[m].prompt # {} THEN CHOOSE p \in nodes[m].prompt : TRUE
                ELSE nodes[m].dep
    IN  ExprDependsOn(cond, nodes[n].item)

\* Mutant: the last child does not lead back to its new level.
RECURSIVE FlattenCut(_, _)
FlattenCut(nodes, n) ==
    IF n = 0 THEN nodes
    ELSE LET node == nodes[n]
             kids == Children(nodes, n)
             up(i, m) ==
                CASE i = n -> [m EXCEPT !.next = node.list, !.list = 0]
                  [] i \in ToSet(kids) -> [m EXCEPT !.parent = node.parent]
                  [] OTHER -> m
             flat == IF kids # <<>> /\ node.prompt = {} /\ node.kind # "choice"
                     THEN [i \in DOMAIN nodes |-> up(i, nodes[i])] ELSE nodes
         IN  FlattenCut(flat, flat[n].next)

(* What has children and no prompt gives its children to its own level.    *)
RECURSIVE Flatten(_, _)
Flatten(nodes, n) ==
    IF n = 0 THEN nodes
    ELSE LET node == nodes[n]
             kids == Children(nodes, n)
             up(i, m) ==
                CASE i = n -> [m EXCEPT !.next = node.list, !.list = 0]
                  [] i \in ToSet(kids) ->
                        [m EXCEPT !.parent = node.parent,
                                  !.next = IF i = Last(kids) THEN node.next ELSE @]
                  [] OTHER -> m
             flat == IF kids # <<>> /\ node.prompt = {} /\ node.kind # "choice"
                     THEN [i \in DOMAIN nodes |-> up(i, nodes[i])] ELSE nodes
         IN  Flatten(flat, flat[n].next)

RemoveIfs(nodes, n) ==
    LET isItem(m) == nodes[m].kind # "if"
        keep == SelectSeq(Children(nodes, n), isItem)
        after(i) == LET p == CHOOSE q \in DOMAIN keep : keep[q] = i
                    IN  IF p = Len(keep) THEN 0 ELSE keep[p + 1]
    IN  [i \in DOMAIN nodes |->
            CASE i = n -> [nodes[i] EXCEPT !.list = IF keep = <<>> THEN 0 ELSE keep[1]]
              [] i \in ToSet(keep) -> [nodes[i] EXCEPT !.next = after(i)]
              [] OTHER -> nodes[i]]

\* Mutant: the type is not handed on.
FinalizeChoiceUntyped(heap, n) ==
    LET ch == heap.nodes[n].item
        isSym(m) == heap.nodes[m].kind = "symbol"
        kids == SelectSeq(Children(heap.nodes, n), isSym)
        syms == heap.items[ch].members \o [i \in DOMAIN kids |-> heap.nodes[kids[i]].item]
    IN  [heap EXCEPT !.items = [i \in DOMAIN heap.items |->
            CASE i = ch -> [heap.items[i] EXCEPT !.members = syms]
              [] i \in ToSet(syms) -> [heap.items[i] EXCEPT !.choice = ch]
              [] OTHER -> heap.items[i]]]

(* The symbols right below a choice are its symbols; types are handed from *)
(* the first typed one to the choice and from the choice to the rest.      *)
FinalizeChoice(heap, n) ==
    LET ch == heap.nodes[n].item
        isSym(m) == heap.nodes[m].kind = "symbol"
        kids == SelectSeq(Children(heap.nodes, n), isSym)
        new == [i \in DOMAIN kids |-> heap.nodes[kids[i]].item]
        syms == heap.items[ch].members \o new
        typed(s) == heap.items[s].type # "unknown"
        given == SelectSeq(syms, typed)
        type == IF heap.items[ch].type = "unknown" /\ given # <<>>
                THEN heap.items[given[1]].type ELSE heap.items[ch].type
        item(i, old) ==
            CASE i = ch -> [old EXCEPT !.type = type, !.members = syms,
                                       !.direct = MakeOr(@, heap.nodes[n].dep),
                                       !.defaults = @ \o heap.nodes[n].defaults]
              [] i \in ToSet(syms) -> [old EXCEPT !.choice = IF i \in ToSet(new) THEN ch ELSE @,
                                                  !.type = IF typed(i) THEN @ ELSE type]
              [] OTHER -> old
    IN  [heap EXCEPT !.items = [i \in DOMAIN heap.items |-> item(i, heap.items[i])]]

-----------------------------------------------------------------------------
(* _finalize_node().                                                       *)
RECURSIVE FinalizeNode(_, _, _), ImplicitMenu(_, _, _, _), FinalizeList(_, _, _)

(* Finalizes what follows the symbol node n, from cur on, as long as it    *)
(* belongs below n; gives the heap and the last such node.                 *)
ImplicitMenu(heap, n, cur, visibleIf) ==
    LET next == heap.nodes[cur].next
    IN  IF next = 0 \/ ~AutoMenuDep(heap.nodes, n, next) THEN <<heap, cur>>
        ELSE LET done == FinalizeNode(heap, next, visibleIf)
             IN  ImplicitMenu([done EXCEPT !.nodes[next].parent = n], n, next, visibleIf)

FinalizeList(heap, n, visibleIf) ==
    IF n = 0 THEN heap
    ELSE LET done == FinalizeNode(heap, n, visibleIf)
         IN  FinalizeList(done, done.nodes[n].next, visibleIf)

(* The nodes up to last move from behind node n to below it.               *)
Indented(heap, n, last) ==
    IF last = n THEN heap
    ELSE [heap EXCEPT !.nodes[n].list = heap.nodes[n].next,
                      !.nodes[n].next = heap.nodes[last].next,
                      !.nodes[last].next = 0]

IndentedAs(found, n) == Indented(found[1], n, found[2])

FinalizeSym(heap, n, visibleIf) ==
    IndentedAs(ImplicitMenu(AddPropsToSym(heap, n), n, n, visibleIf), n)

FinalizeBlock(heap, n, visibleIf) ==
    LET visible == IF heap.nodes[n].kind = "menu"
                   THEN MakeAnd(visibleIf, heap.nodes[n].visibility) ELSE visibleIf
        deps == [heap EXCEPT !.nodes = PropagateDeps(@, n, visible)]
    IN  FinalizeList(deps, heap.nodes[n].list, visible)

Leveled(heap, n) ==
    IF heap.nodes[n].list = 0 THEN heap
    ELSE [heap EXCEPT !.nodes = RemoveIfs(Flatten(@, @[n].list), n)]

WithChoice(heap, n) ==
    IF heap.nodes[n].kind = "choice" THEN FinalizeChoice(heap, n) ELSE heap

FinalizeNode(heap, n, visibleIf) ==
    LET inner == IF heap.nodes[n].kind = "symbol" THEN FinalizeSym(heap, n, visibleIf)
                 ELSE IF heap.nodes[n].list # 0 THEN FinalizeBlock(heap, n, visibleIf)
                 ELSE heap
    IN  WithChoice(Leveled(inner, n), n)

-----------------------------------------------------------------------------
(* The finished Kconfig, in the form of KconfigValues.                     *)
Defined(nodes, kind) ==
    LET of(m) == m.kind = kind
        found == SelectSeq(nodes, of)
        RECURSIVE Unique(_, _)
        Unique(i, seen) ==
            IF i > Len(found) THEN seen
            ELSE Unique(i + 1, IF found[i].item \in ToSet(seen) THEN seen
                               ELSE Append(seen, found[i].item))
    IN  Unique(1, <<>>)

PromptConds(nodes, item) ==
    LET has(m) == m.kind \in {"symbol", "choice"} /\ m.item = item /\ m.prompt # {}
        found == SelectSeq(nodes, has)
    IN  [i \in DOMAIN found |-> CHOOSE p \in found[i].prompt : TRUE]

Finished(heap) ==
    LET syms == Defined(heap.nodes, "symbol")
        choices == Defined(heap.nodes, "choice")
        S == ToSet(syms)
        C == ToSet(choices)
        defaultSym(d) == <<d[1][2], d[2]>>
        of == heap.items
    IN  [syms |-> syms, choices |-> choices,
         type |-> [s \in S |-> of[s].type],
         prompts |-> [s \in S |-> PromptConds(heap.nodes, s)],
         defaults |-> [s \in S |-> of[s].defaults],
         ranges |-> [s \in S |-> of[s].ranges],
         rev |-> [s \in S |-> of[s].rev],
         weak |-> [s \in S |-> of[s].weak],
         direct |-> [s \in S |-> of[s].direct],
         choice |-> [s \in S |-> of[s].choice],
         env |-> {}, lit |-> <<>>,
         ctype |-> [ch \in C |-> of[ch].type],
         cprompts |-> [ch \in C |-> PromptConds(heap.nodes, ch)],
         cdefaults |-> [ch \in C |-> [i \in DOMAIN of[ch].defaults |->
                                         defaultSym(of[ch].defaults[i])]],
         members |-> [ch \in C |-> of[ch].members],
         optional |-> [ch \in C |-> of[ch].optional]]

-----------------------------------------------------------------------------
(* The search for dependency loops: depth first along the dependents.      *)
(* visited[i] is 0, 1 (on the stack) or 2 (in no loop); "loop" is set once *)
(* an item on the stack is met again.  A choice that is entered from one   *)
(* of its symbols visits the others.                                       *)
RECURSIVE CheckDepLoopSym(_, _, _), CheckDepLoopChoice(_, _, _),
          VisitAll(_, _), VisitMembers(_, _)

Visit(st, i, v) == [st EXCEPT !.visited[i] = v]
\* Mutant: an item that is left stays on the stack.
LeaveOnStack(st, i) == st

Leave(st, i)    == IF st.loop THEN st ELSE Visit(st, i, 2)

VisitAll(st, deps) ==
    IF st.loop \/ deps = {} THEN st
    ELSE LET d == CHOOSE x \in deps : TRUE
         IN  VisitAll(IF d \in ChoiceItems THEN CheckDepLoopChoice(st, d, "none")
                      ELSE CheckDepLoopSym(st, d, FALSE), deps \ {d})

VisitMembers(st, syms) ==
    IF st.loop \/ syms = {} THEN st
    ELSE LET s == CHOOSE x \in syms : TRUE
         IN  VisitMembers(CheckDepLoopSym(st, s, TRUE), syms \ {s})

CheckDepLoopSym(st, s, ignoreChoice) ==
    CASE st.visited[s] = 1 -> [st EXCEPT !.loop = TRUE]
      [] st.visited[s] = 2 -> st
      [] OTHER ->
            LET deps == VisitAll(Visit(st, s, 1), BuiltDependents[s])
            IN  Leave(IF ChoiceOf(s) = "none" \/ ignoreChoice \/ deps.loop THEN deps
                      ELSE CheckDepLoopChoice(deps, ChoiceOf(s), s), s)

\* Mutant: the symbols of a choice are not visited.
CheckDepLoopChoiceOnly(st, ch, skip) ==
    IF st.visited[ch] = 1 THEN [st EXCEPT !.loop = TRUE] ELSE Visit(st, ch, 2)

CheckDepLoopChoice(st, ch, skip) ==
    CASE st.visited[ch] = 1 -> [st EXCEPT !.loop = TRUE]
      [] st.visited[ch] = 2 -> st
      [] OTHER -> Leave(VisitMembers(Visit(st, ch, 1), ToSet(kconf.members[ch]) \ {skip}), ch)

RECURSIVE CheckAll(_, _)
CheckAll(st, syms) ==
    IF st.loop \/ syms = <<>> THEN st
    ELSE CheckAll(CheckDepLoopSym(st, Head(syms), FALSE), Tail(syms))

HasDepLoop ==
    CheckAll([visited |-> [i \in Syms \cup ChoiceItems |-> 0], loop |-> FALSE],
             kconf.syms).loop
=============================================================================
