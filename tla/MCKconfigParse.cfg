SPECIFICATION KconfigSpec
CONSTANTS
    TopFile = "F"
    Absent = {"H"}
    Languages <- MCLanguages
    SymNames = {"A", "B"}
    ChoiceNames = {"CH"}
    MaxLines = 6
    No <- N
    Yes <- Y
    BadSyntax <- Malformed
    And <- MakeAnd
    Expr <- ParseExpr
    Cond <- ParseCond
    ExprAndEol <- ExpectExprAndEol
    Finalized <- FinalizeNode
INVARIANTS
    NodesSound
    NoRecursiveSource
    TreeSound
    DependenciesAsStated
    LoopsFound
    PrintParse
