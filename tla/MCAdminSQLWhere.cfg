SPECIFICATION Spec
CONSTANTS
    Clauses <- Wheres
    Nesting <- MCNesting
    Statements <- MCStatements
    Table <- MCTable
INVARIANT WhereIsObeyedOrRefused
CHECK_DEADLOCK FALSE
