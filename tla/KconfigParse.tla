---------------------------- MODULE KconfigParse ----------------------------
(***************************************************************************)
(* The parser of kconfiglib: Kconfig files are read line by line, source   *)
(* statements enter other files, blocks nest, and properties follow the    *)
(* entry they belong to until a line that is no property turns up, which   *)
(* is kept for the surrounding block.  Then the menu tree is finalized and *)
(* checked.                                                                *)
(*                                                                         *)
(* What the files hold is made up while they are read.  A line is a tuple  *)
(* whose first element is its keyword; expressions are sequences of        *)
(* tokens.  How expressions are parsed and what finalizing does to the     *)
(* tree are parameters: the operators of KconfigExpr and KconfigTree.      *)
(***************************************************************************)
EXTENDS Integers, Sequences, SequencesExt, FiniteSets, FiniteSetsExt

CONSTANTS TopFile,
          Absent,    \* files that do not exist
          Languages, SymNames, ChoiceNames,
          MaxLines,  \* bound: lines of all files together
          No, Yes, BadSyntax, And(_, _),                   \* expressions
          Expr(_, _, _), Cond(_, _), ExprAndEol(_, _),     \* parsing them
          Finalized(_, _, _)                               \* of the tree

VARIABLES language,  \* the lines that occur in the files
          text,      \* text[f]: lines of file f so far, and whether it ends there
          filename, linenr, includePath,   \* the current position
          reading,   \* the open file and the lines of it that were read
          filestack, \* saved include paths and open files
          line,      \* the fetched line, <<>> when there is none
          blocks,    \* the calls of _parse_block(), innermost last
          props,     \* the node whose properties are parsed, 0 for none
          help,      \* the lines of the help text being read, -1 for none
          heap,      \* menu nodes, symbols and choices
          origin,    \* history: origin[n] is node n as it was parsed
          phase      \* parsing, parsed, done, error

vars == <<language, text, filename, linenr, includePath, reading, filestack, line,
          blocks, props, help, heap, origin, phase>>

position == <<filename, linenr, includePath, reading, filestack>>

Keyword == line[1]
Fetched == phase = "parsing" /\ line # <<>>
InBlock == Fetched /\ props = 0
InProps == Fetched /\ props # 0
Block   == Last(blocks)

(* Menu nodes, symbols and choices as in KconfigTree.                      *)
NewNode(kind, item, parent, file, nr) ==
    [kind |-> kind, item |-> item, parent |-> parent, list |-> 0, next |-> 0,
     prompt |-> IF kind \in {"menu", "comment"} THEN {Yes} ELSE {},
     dep |-> Yes, visibility |-> Yes, defaults |-> <<>>, ranges |-> <<>>,
     selects |-> <<>>, implies |-> <<>>, file |-> file, line |-> nr]

NewItem ==
    [type |-> "unknown", direct |-> No, defaults |-> <<>>, ranges |-> <<>>, rev |-> No,
     weak |-> No, choice |-> "none", members |-> <<>>, optional |-> FALSE]

PropertyWords ==
    {"type", "depends", "help", "select", "default", "prompt", "range", "imply", "visible",
     "optional"}

-----------------------------------------------------------------------------
Init ==
    /\ language \in Languages
    /\ text = [f \in {TopFile} |-> [lines |-> <<>>, ended |-> FALSE]]
    /\ filename = TopFile /\ linenr = 0 /\ includePath = <<>>
    /\ reading = <<TopFile, 0>> /\ filestack = <<>>
    /\ line = <<>>
    /\ blocks = << [end |-> "none", parent |-> 1, prev |-> 1] >>
    /\ props = 0 /\ help = -1
    /\ heap = [nodes |-> <<NewNode("menu", "", 0, TopFile, 0)>>,
               items |-> [i \in SymNames \cup ChoiceNames |-> NewItem]]
    /\ origin = <<NewNode("menu", "", 0, TopFile, 0)>>
    /\ phase = "parsing"

-----------------------------------------------------------------------------
(* readline(): the next line of the open file is new, or <<"eof">>.        *)
LinesRead == MapThenSumSet(LAMBDA f : Len(text[f].lines), DOMAIN text)

ReadLine(new) ==
    LET f == reading[1]
        n == reading[2] + 1
    IN  \/ /\ n <= Len(text[f].lines)
           /\ new = text[f].lines[n]
           /\ reading' = <<f, n>>
           /\ UNCHANGED text
        \/ /\ n > Len(text[f].lines) /\ ~text[f].ended /\ LinesRead < MaxLines
           /\ new # <<"eof">>
           /\ text' = [text EXCEPT ![f].lines = Append(@, new)]
           /\ reading' = <<f, n>>
        \/ /\ n > Len(text[f].lines)
           /\ new = <<"eof">>
           /\ text' = [text EXCEPT ![f].ended = TRUE]
           /\ UNCHANGED reading

(* _next_line().  A line that was kept is not fetched again.               *)
NextLine ==
    /\ phase = "parsing" /\ line = <<>> /\ help = -1
    /\ \E new \in language \cup {<<"eof">>} :
          /\ ReadLine(new)
          /\ line' = new
          /\ linenr' = IF new = <<"eof">> THEN linenr ELSE linenr + 1
    /\ UNCHANGED <<language, filename, includePath, filestack, blocks, props, help,
                   heap, origin, phase>>

\* Mutant: the lines of a help text are not counted.
HelpLineUncounted ==
    /\ phase = "parsing" /\ help >= 0
    /\ \E new \in language \cup {<<"eof">>} :
          /\ ReadLine(new)
          /\ IF new = <<"text">>
             THEN help' = help + 1 /\ UNCHANGED <<line, linenr>>
             ELSE /\ help' = -1
                  /\ linenr' = linenr + 1
                  /\ line' = IF new = <<"eof">> THEN <<>> ELSE new
    /\ UNCHANGED <<language, filename, includePath, filestack, blocks, props, heap,
                   origin, phase>>

(* _parse_help(): the line that ends the text is kept.  The lines of the   *)
(* text are counted when it ends, the first one twice, for that line.      *)
HelpLine ==
    /\ phase = "parsing" /\ help >= 0
    /\ \E new \in language \cup {<<"eof">>} :
          /\ ReadLine(new)
          /\ IF new = <<"text">>
             THEN /\ help' = help + 1
                  /\ linenr' = IF help = 0 THEN linenr + 1 ELSE linenr
                  /\ UNCHANGED line
             ELSE /\ help' = -1
                  /\ linenr' = IF help = 0 THEN linenr + 1 ELSE linenr + help
                  /\ line' = IF new = <<"eof">> THEN <<>> ELSE new
    /\ UNCHANGED <<language, filename, includePath, filestack, blocks, props, heap,
                   origin, phase>>

Fail ==
    /\ phase' = "error"
    /\ UNCHANGED <<language, text, position, line, blocks, props, help, heap, origin>>

-----------------------------------------------------------------------------
(* _parse_block(): entries.                                                *)
AddNode(node) ==
    /\ heap' = [heap EXCEPT !.nodes = Append(@, node)]
    /\ origin' = Append(origin, node)

Kinds == [config |-> "symbol", menu |-> "menu", comment |-> "comment", choice |-> "choice"]

(* config, menu, comment and choice: a node whose properties follow.       *)
Entry ==
    /\ InBlock
    /\ Keyword \in DOMAIN Kinds
    /\ LET kind == Kinds[Keyword]
           item == IF kind \in {"symbol", "choice"} THEN line[2] ELSE ""
       IN  AddNode(NewNode(kind, item, Block.parent, filename, linenr))
    /\ props' = Len(heap.nodes) + 1
    /\ line' = <<>>
    /\ UNCHANGED <<language, text, position, blocks, help, phase>>

OpenIf(e) ==
    LET n == Len(heap.nodes) + 1
    IN  IF e = BadSyntax THEN Fail
        ELSE /\ AddNode([NewNode("if", "", Block.parent, filename, linenr) EXCEPT !.dep = e[1]])
             /\ blocks' = Append(blocks, [end |-> "endif", parent |-> n, prev |-> n])
             /\ line' = <<>>
             /\ UNCHANGED <<language, text, position, props, help, phase>>

If ==
    /\ InBlock
    /\ Keyword = "if"
    /\ OpenIf(ExprAndEol(line[2], 1))

(* _enter_file(): the position is saved, and a file that is being read is  *)
(* not entered again.                                                      *)
\* Mutant: only a file that sources itself is noticed.
BeingReadItself(f, path) == f = filename

BeingRead(f, path) == \E i \in DOMAIN path : path[i][1] = f

EnterFile(f, path) ==
    IF BeingRead(f, path) THEN Fail
    ELSE /\ filestack' = Append(filestack, <<includePath, reading>>)
         /\ includePath' = path
         /\ filename' = f /\ linenr' = 0 /\ reading' = <<f, 0>>
         /\ text' = [g \in DOMAIN text \cup {f} |->
                        IF g \in DOMAIN text THEN text[g] ELSE [lines |-> <<>>, ended |-> FALSE]]
         /\ blocks' = Append(blocks, [Block EXCEPT !.end = "none"])
         /\ line' = <<>>
         /\ UNCHANGED <<language, props, help, heap, origin, phase>>

Source ==
    /\ InBlock
    /\ Keyword \in {"source", "osource"}
    /\ line[2] \notin Absent
    /\ EnterFile(line[2], Append(includePath, <<filename, linenr>>))

(* A file that does not exist: osource goes on.                            *)
SourceMissing ==
    /\ InBlock
    /\ Keyword \in {"source", "osource"}
    /\ line[2] \in Absent
    /\ IF Keyword = "source" THEN Fail
       ELSE /\ line' = <<>>
            /\ UNCHANGED <<language, text, position, blocks, props, help, heap, origin, phase>>

(* The end of a block: its nodes are tilted up above the node they follow, *)
(* and that node is added after the previous one of the outer block.       *)
EndBlock ==
    /\ InBlock
    /\ Keyword = Block.end /\ Block.end # "none"
    /\ LET n     == Block.parent
           ended == [heap.nodes EXCEPT ![Block.prev].next = 0]
           up    == [ended EXCEPT ![n].list = ended[n].next]
           outer == Last(Front(blocks))
       IN  /\ heap' = [heap EXCEPT !.nodes = [up EXCEPT ![outer.prev].next = n]]
           /\ blocks' = Append(Front(Front(blocks)), [outer EXCEPT !.prev = n])
    /\ line' = <<>>
    /\ UNCHANGED <<language, text, position, props, help, origin, phase>>

(* The end of a file that was sourced: _leave_file().                      *)
LeaveFile ==
    /\ InBlock
    /\ Keyword = "eof" /\ Block.end = "none" /\ filestack # <<>>
    /\ LET from == Last(includePath)
           back == Last(filestack)
       IN  /\ filename' = from[1] /\ linenr' = from[2]
           /\ includePath' = back[1] /\ reading' = back[2]
           /\ filestack' = Front(filestack)
    /\ blocks' = Append(Front(Front(blocks)), [Last(Front(blocks)) EXCEPT !.prev = Block.prev])
    /\ line' = <<>>
    /\ UNCHANGED <<language, text, props, help, heap, origin, phase>>

EndOfTopFile ==
    /\ InBlock
    /\ Keyword = "eof" /\ Block.end = "none" /\ filestack = <<>>
    /\ LET ended == [heap.nodes EXCEPT ![Block.prev].next = 0]
       IN  heap' = [heap EXCEPT !.nodes = [ended EXCEPT ![1].list = ended[1].next, ![1].next = 0]]
    /\ phase' = "parsed"
    /\ UNCHANGED <<language, text, position, line, blocks, props, help, origin>>

(* A block that is not closed, an end without a block, or a property where *)
(* none is expected.                                                       *)
BadLine ==
    /\ InBlock
    /\ \/ Keyword = "eof" /\ Block.end # "none"
       \/ Keyword \in {"endif", "endmenu", "endchoice"} /\ Keyword # Block.end
       \/ Keyword \in PropertyWords \cup {"text"}
    /\ Fail

-----------------------------------------------------------------------------
(* _parse_props().                                                         *)
Node == heap.nodes[props]

Allowed(kind) ==
    CASE kind = "symbol" -> PropertyWords \ {"visible", "optional"}
      [] kind = "choice" -> PropertyWords \ {"visible", "select", "imply"}
      [] kind = "menu"   -> {"depends", "visible", "default", "range"}
      [] OTHER           -> {"depends", "default", "range"}

(* The expression of a property, or the condition that ends it.            *)
ParsedEnd ==
    CASE Keyword \in {"depends", "visible"} -> ExprAndEol(line[2], 1)
      [] Keyword = "type" /\ line[3] = <<"no prompt">> -> <<Yes, 1>>
      [] Keyword \in {"type", "prompt", "select", "imply", "default"} -> Cond(line[3], 1)
      [] Keyword = "range" -> Cond(line[4], 1)
      [] OTHER -> <<Yes, 1>>

ParsedValue == IF Keyword = "default" THEN Expr(line[2], 1, FALSE) ELSE <<Yes, 1>>

(* A node with the property of the current line.                           *)
With(node, value, cond) ==
    CASE Keyword = "type" /\ line[3] = <<"no prompt">> -> node
      [] Keyword \in {"type", "prompt"} -> [node EXCEPT !.prompt = {cond}]
      [] Keyword = "depends" -> [node EXCEPT !.dep = And(@, cond)]
      [] Keyword = "visible" -> [node EXCEPT !.visibility = And(@, cond)]
      [] Keyword = "select" -> [node EXCEPT !.selects = Append(@, <<line[2], cond>>)]
      [] Keyword = "imply" -> [node EXCEPT !.implies = Append(@, <<line[2], cond>>)]
      [] Keyword = "default" -> [node EXCEPT !.defaults = Append(@, <<value, cond>>)]
      [] Keyword = "range" -> [node EXCEPT !.ranges = Append(@, <<line[2], line[3], cond>>)]
      [] OTHER -> node

AddProperty(value, cond) ==
    IF Keyword \notin Allowed(Node.kind) \/ BadSyntax \in {value, cond} THEN Fail
    ELSE /\ heap' = [nodes |-> [heap.nodes EXCEPT ![props] = With(@, value[1], cond[1])],
                     items |-> CASE Keyword = "type" -> [heap.items EXCEPT ![Node.item].type = line[2]]
                                 [] Keyword = "optional" ->
                                       [heap.items EXCEPT ![Node.item].optional = TRUE]
                                 [] OTHER -> heap.items]
         /\ origin' = [origin EXCEPT ![props] = heap'.nodes[props]]
         /\ line' = <<>>
         /\ help' = IF Keyword = "help" THEN 0 ELSE -1
         /\ UNCHANGED <<language, text, position, blocks, props, phase>>

Property ==
    /\ InProps
    /\ Keyword \in PropertyWords
    /\ AddProperty(ParsedValue, ParsedEnd)

(* Any other line, which is kept.  A menu or a choice opens a block, other *)
(* nodes are added after the previous one.                                 *)
EndOfProperties ==
    /\ InProps
    /\ Keyword \notin PropertyWords
    /\ IF Node.kind \in {"menu", "choice"}
       THEN /\ blocks' = Append(blocks, [end |-> IF Node.kind = "menu" THEN "endmenu" ELSE "endchoice",
                                         parent |-> props, prev |-> props])
            /\ UNCHANGED heap
       ELSE /\ heap' = [heap EXCEPT !.nodes[Block.prev].next = props]
            /\ blocks' = Append(Front(blocks), [Block EXCEPT !.prev = props])
    /\ props' = 0
    /\ UNCHANGED <<language, text, position, line, help, origin, phase>>

-----------------------------------------------------------------------------
(* The rest of Kconfig._init(): the tree is finalized and checked.         *)
Finalize ==
    /\ phase = "parsed"
    /\ heap' = Finalized(heap, 1, Yes)
    /\ phase' = "checking"
    /\ UNCHANGED <<language, text, position, line, blocks, props, help, origin>>

Check ==
    /\ phase = "checking"
    /\ phase' \in {"done", "rejected"}
    /\ UNCHANGED <<language, text, position, line, blocks, props, help, heap, origin>>

Terminated == phase \in {"done", "rejected", "error"} /\ UNCHANGED vars

Next ==
    \/ NextLine \/ HelpLine
    \/ Entry \/ If \/ Source \/ SourceMissing \/ EndBlock \/ LeaveFile \/ EndOfTopFile \/ BadLine
    \/ Property \/ EndOfProperties
    \/ Finalize \/ Check
    \/ Terminated

Spec == Init /\ [][Next]_vars

-----------------------------------------------------------------------------
(* The phases before the tree is finalized.                                *)
Growing == phase \in {"parsing", "parsed", "error"}

TypeOK ==
    /\ phase \in {"parsing", "parsed", "checking", "done", "rejected", "error"}
    /\ reading[1] \in DOMAIN text /\ filename \in DOMAIN text
    /\ Growing => props \in 0..Len(heap.nodes) /\ Len(origin) = Len(heap.nodes)

(* Every menu node carries the file and line of the statement that defines *)
(* it: positions survive source statements, kept lines and help texts.     *)
NodesLocated ==
    \A n \in 2..Len(origin) :
        LET node == origin[n]
            lines == text[node.file].lines
        IN  /\ node.line \in DOMAIN lines
            /\ lines[node.line][1] \in IF node.kind = "if" THEN {"if"}
                                      ELSE {k \in DOMAIN Kinds : Kinds[k] = node.kind}
            /\ node.item # "" => lines[node.line][2] = node.item

(* While the tree grows, a node lies below an earlier one, and its links   *)
(* lead to later ones: no walk over the tree runs in circles.              *)
LinksForward ==
    Growing =>
    \A n \in DOMAIN heap.nodes :
        /\ heap.nodes[n].parent \in 0..(n - 1)
        /\ {heap.nodes[n].list, heap.nodes[n].next} \subseteq {0} \cup (n + 1)..Len(heap.nodes)

(* The nodes are sound while they are parsed, across nested blocks and     *)
(* files: types, positions, and links.                                     *)
NodesSound == TypeOK /\ NodesLocated /\ LinksForward

(* A file is never read while it is being read: the files on the include   *)
(* path and the current one are different.                                 *)
NoRecursiveSource ==
    \A i \in DOMAIN includePath :
        /\ includePath[i][1] # filename
        /\ \A j \in DOMAIN includePath : includePath[i][1] = includePath[j][1] => i = j
=============================================================================
