SPECIFICATION Spec
CONSTANTS
    Clauses <- Wheres
    Nesting <- MCNesting
    Statements <- MCStatements
    Table <- MCTable
INVARIANTS TypeOK PlainStatementsAreObeyed UnclearStatementsAreRefused AnswersAreTrue
CHECK_DEADLOCK FALSE
