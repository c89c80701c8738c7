----------------------------- MODULE KconfigExpr -----------------------------
(***************************************************************************)
(* The expressions of kconfiglib.  An expression is a tagged tuple: a      *)
(* symbol or choice <<"sym", name>>, <<"and", e, f>>, <<"or", e, f>>,      *)
(* <<"not", e>>, or a relation <<op, a, b>> between two symbols.  n, m and *)
(* y are constant symbols.                                                 *)
(***************************************************************************)
EXTENDS Integers, Sequences, FiniteSets

Rels == {"=", "!=", "<", "<=", ">", ">="}

Sym(s) == <<"sym", s>>
N == Sym("n")
M == Sym("m")
Y == Sym("y")

Lesser(a, b) == IF a < b THEN a ELSE b
Greater(a, b) == IF a > b THEN a ELSE b

-----------------------------------------------------------------------------
(* Building: && and || with the trivial simplification of the parser.      *)
MakeAnd(e, f) ==
    CASE e = Y -> f
      [] f = Y -> e
      [] e = N \/ f = N -> N
      [] OTHER -> <<"and", e, f>>

MakeOr(e, f) ==
    CASE e = N -> f
      [] f = N -> e
      [] e = Y \/ f = Y -> Y
      [] OTHER -> <<"or", e, f>>

(* The symbols and choices in an expression.                               *)
RECURSIVE ExprItems(_)
ExprItems(e) ==
    CASE e[1] = "sym" -> {e[2]}
      [] e[1] = "not" -> ExprItems(e[2])
      [] e[1] \in Rels -> {e[2], e[3]}
      [] OTHER -> ExprItems(e[2]) \cup ExprItems(e[3])

(* Whether e can only hold when s does, as far as the implicit menus look. *)
(* The second test for y is not bound to "=", as in the code.              *)
RECURSIVE ExprDependsOn(_, _)
ExprDependsOn(e, s) ==
    CASE e[1] = "sym" -> e[2] = s
      [] e[1] \in {"=", "!="} ->
            /\ s \in {e[2], e[3]}
            /\ LET other == IF e[3] = s THEN e[2] ELSE e[3]
               IN  \/ e[1] = "=" /\ other = "m"
                   \/ other = "y"
                   \/ e[1] = "!=" /\ other = "n"
      [] e[1] = "and" -> ExprDependsOn(e[2], s) \/ ExprDependsOn(e[3], s)
      [] OTHER -> FALSE

-----------------------------------------------------------------------------
(* Parsing: from a position in a sequence of tokens, the expression that   *)
(* starts there and the position after it, or Malformed.  Tokens are       *)
(* "&&", "||", "!", "(", ")", the relations and names of symbols.          *)
(* In conditions, m stands for m && MODULES.                               *)
Operators == Rels \cup {"&&", "||", "!", "(", ")", "if"}
Malformed == <<<<"malformed">>, 0>>

TokenAt(t, i) == IF i \in DOMAIN t THEN t[i] ELSE "eol"

RECURSIVE ParseExpr(_, _, _), ParseAndExpr(_, _, _), ParseFactor(_, _, _)

ParseFactor(t, i, transformM) ==
    LET token == TokenAt(t, i)
        next  == TokenAt(t, i + 1)
        right == TokenAt(t, i + 2)
    IN  CASE token = "!" ->
                LET f == ParseFactor(t, i + 1, transformM)
                IN  IF f = Malformed THEN f ELSE <<<<"not", f[1]>>, f[2]>>
          [] token = "(" ->
                LET e == ParseExpr(t, i + 1, transformM)
                IN  IF e # Malformed /\ TokenAt(t, e[2]) = ")"
                    THEN <<e[1], e[2] + 1>> ELSE Malformed
          [] token \in Operators \cup {"eol"} -> Malformed
          [] next \in Rels /\ right \in Operators \cup {"eol"} -> Malformed
          [] next \in Rels -> <<<<next, token, right>>, i + 3>>
          [] transformM /\ token = "m" -> <<<<"and", M, Sym("MODULES")>>, i + 1>>
          [] OTHER -> <<Sym(token), i + 1>>

(* The operand f and, after an operator, the operand g.                    *)
Joined(op, f, g) == IF g = Malformed THEN g ELSE <<<<op, f[1], g[1]>>, g[2]>>

AndRest(t, f, transformM) ==
    IF f = Malformed \/ TokenAt(t, f[2]) # "&&" THEN f
    ELSE Joined("and", f, ParseAndExpr(t, f[2] + 1, transformM))

ParseAndExpr(t, i, transformM) == AndRest(t, ParseFactor(t, i, transformM), transformM)

OrRest(t, f, transformM) ==
    IF f = Malformed \/ TokenAt(t, f[2]) # "||" THEN f
    ELSE Joined("or", f, ParseExpr(t, f[2] + 1, transformM))

ParseExpr(t, i, transformM) == OrRest(t, ParseAndExpr(t, i, transformM), transformM)

(* The expression that fills the rest of a line.                           *)
UpToEol(t, e) == IF e # Malformed /\ TokenAt(t, e[2]) = "eol" THEN e ELSE Malformed

ExpectExprAndEol(t, i) == UpToEol(t, ParseExpr(t, i, TRUE))

(* An optional "if <expr>" at the end of a line.                           *)
ParseCond(t, i) ==
    CASE TokenAt(t, i) = "eol" -> <<Y, i>>
      [] TokenAt(t, i) = "if" -> ExpectExprAndEol(t, i + 1)
      [] OTHER -> Malformed

-----------------------------------------------------------------------------
\* Mutant: no parentheses.
ParenthesizeNever(e, type, str) == str

(* Printing, as a sequence of tokens.                                      *)
RECURSIVE ExprStr(_)
Parenthesize(e, type, str) == IF e[1] = type THEN <<"(">> \o str \o <<")">> ELSE str

ExprStr(e) ==
    CASE e[1] = "sym" -> <<e[2]>>
      [] e[1] = "and" -> Parenthesize(e[2], "or", ExprStr(e[2])) \o <<"&&">>
                             \o Parenthesize(e[3], "or", ExprStr(e[3]))
      [] e[1] = "or" -> Parenthesize(e[2], "and", ExprStr(e[2])) \o <<"||">>
                             \o Parenthesize(e[3], "and", ExprStr(e[3]))
      [] e[1] = "not" -> IF e[2][1] = "sym" THEN <<"!", e[2][2]>>
                         ELSE <<"!", "(">> \o ExprStr(e[2]) \o <<")">>
      [] OTHER -> <<e[2], e[1], e[3]>>
=============================================================================
