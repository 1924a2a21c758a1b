------------------------------ MODULE AdminSQL ------------------------------
(***************************************************************************)
(* How an administrator's statement is understood.  The SQL parser returns *)
(* a syntax tree; ParsedQuery visits it and collects what it meets in flat *)
(* lists - columns and values, of the WHERE clause or not - and, when it   *)
(* leaves the statement, the lists are made into rows to insert, a choice  *)
(* of rows and new column values.                                          *)
(*                                                                         *)
(* A tree is the sequence of nodes the visitor enters and leaves; column   *)
(* names are in lower case, as the parser's Name.L is.  The parser is a    *)
(* library: its order of the parts of an UPDATE is left open.              *)
(*                                                                         *)
(* The handler of the session keeps a result and an error for the answer;  *)
(* what it has when a statement comes is left by an earlier one.           *)
(* Definitions named Slip are plausible mistakes, not the code.            *)
(***************************************************************************)
EXTENDS Naturals, Sequences, SequencesExt, Selections

CONSTANTS
    Clauses, Nesting, \* the WHERE clauses and their parts, and how deep each is nested
    Statements,       \* the statements that are sent
    Table             \* the rows of the user table: [user, password]

Known == {"user", "password"}

Rows == [Known -> STRING]

ASSUME ClausesAssumption ==
    /\ Nesting \in [Clauses -> Nat]
    /\ \A e \in Clauses :
          \/ e.type = "none"
          \/ e.type = "compare" /\ {e.op, e.column, e.value} \subseteq STRING
          \/ e.type = "match" /\ {e.column, e.value} \subseteq STRING
          \/ e.type = "not" /\ e.arg \in Clauses /\ Nesting[e.arg] < Nesting[e]
          \/ /\ e.type = "both" /\ e.op \in STRING /\ {e.left, e.right} \subseteq Clauses
             /\ Nesting[e.left] < Nesting[e] /\ Nesting[e.right] < Nesting[e]

(* SET has a value for every column, and INSERT no WHERE.  The rows of an  *)
(* INSERT, which the parser does not compare with its columns, may be of   *)
(* different lengths.                                                      *)
ASSUME StatementsAssumption ==
    \A st \in Statements :
        /\ st.kind \in {"select", "insert", "update", "delete", "other", "broken", "empty"}
        /\ st.columns \in Seq(STRING) /\ st.where \in Clauses
        /\ st.kind = "insert" => st.rows \in Seq(Seq(STRING)) /\ st.where.type = "none"
        /\ st.kind # "insert" => st.values \in Seq(STRING)
        /\ st.kind = "update" => Len(st.values) = Len(st.columns)

ASSUME TableAssumption == Table \in Seq(Rows)

VARIABLES
    stmt,             \* the statement
    nodes,            \* what the visitor has yet to enter or leave
    p,                \* the ParsedQuery
    outcome,          \* what the statement was made into
    res, err,         \* whose result and error configHandler has: "nil", "earlier" or "own"
    reply             \* what the client is told

handlerVars == <<res, err, reply>>
vars == <<stmt, nodes, p, outcome, handlerVars>>

-----------------------------------------------------------------------------
(* Syntax trees.                                                           *)

Node(node, is) == [node |-> node, is |-> is]

Walk[e \in Clauses] ==
    CASE e.type = "none"    -> <<>>
      [] e.type = "compare" -> <<Node("binary", e.op), Node("column", e.column),
                                 Node("value", e.value), Node("leaveBinary", e.op)>>
      [] e.type = "both"    -> <<Node("binary", e.op)>> \o Walk[e.left] \o Walk[e.right]
                               \o <<Node("leaveBinary", e.op)>>
      [] e.type = "not"     -> Walk[e.arg]
      [] e.type = "match"   -> <<Node("column", e.column), Node("value", e.value)>>

ColumnNodes(cols) == [i \in DOMAIN cols |-> Node("column", cols[i])]
ValueNodes(vals)  == [i \in DOMAIN vals |-> Node("value", vals[i])]

AssignmentNodes(st) ==
    [i \in 1 .. 2 * Len(st.columns) |->
        IF i % 2 = 1 THEN Node("column", st.columns[(i + 1) \div 2])
        ELSE Node("value", st.values[i \div 2])]

(* The values of a statement, in the order they are visited.               *)
Values(st) == IF st.kind = "insert" THEN FlattenSeq(st.rows) ELSE st.values

(* The orders in which a statement may be visited.  The visitor does not   *)
(* know the nodes of statements of other kinds.                            *)
Visits(st) ==
    IF st.kind \in {"other", "broken", "empty"} THEN {<<>>} ELSE
    LET body == IF st.kind = "update"
                THEN {Walk[st.where] \o AssignmentNodes(st), AssignmentNodes(st) \o Walk[st.where]}
                ELSE {ColumnNodes(st.columns) \o ValueNodes(Values(st)) \o Walk[st.where],
                      Walk[st.where] \o ColumnNodes(st.columns) \o ValueNodes(Values(st))}
    IN  {<<Node("statement", st.kind)>> \o b \o <<Node("leaveStatement", st.kind)>> : b \in body}

-----------------------------------------------------------------------------
(* ParsedQuery.Enter and Leave.                                            *)

EmptyQuery ==
    [statement |-> "", columns |-> <<>>, values |-> <<>>, inWhere |-> FALSE,
     whereColumns |-> <<>>, whereValues |-> <<>>, whereOp |-> ""]

SlipForgetsWhere(q, x) ==     \* the operation, but not CurrentType
    CASE x.node = "statement"   -> [q EXCEPT !.statement = x.is]
      [] x.node = "binary"      -> [q EXCEPT !.whereOp = x.is]
      [] x.node = "column"      -> [q EXCEPT !.columns = Append(@, x.is)]
      [] x.node = "value"       -> [q EXCEPT !.values = Append(@, x.is)]

Enter(q, x) ==
    CASE x.node = "statement" -> [q EXCEPT !.statement = x.is]
      [] x.node = "binary"    -> [q EXCEPT !.inWhere = TRUE, !.whereOp = x.is]
      [] x.node = "column"    -> IF q.inWhere THEN [q EXCEPT !.whereColumns = Append(@, x.is)]
                                 ELSE [q EXCEPT !.columns = Append(@, x.is)]
      [] x.node = "value"     -> IF q.inWhere THEN [q EXCEPT !.whereValues = Append(@, x.is)]
                                 ELSE [q EXCEPT !.values = Append(@, x.is)]

SlipStaysInWhere(q) == q

Leave(q) == [q EXCEPT !.inWhere = FALSE]      \* of a BinaryOperationExpr

-----------------------------------------------------------------------------
(* From the lists to rows.  Failed stands for an error.                    *)
Failed == [status |-> "error", rows |-> <<>>, chosen |-> <<>>]

ColumnsOr(q) == IF q.columns = <<>> THEN <<"user", "password">> ELSE q.columns

(* A column of a row takes the value of the last place that names it, or   *)
(* keeps what it has.                                                      *)
Assigned(r, cols, vals) ==
    [k \in Known |->
        LET at == {i \in DOMAIN cols : cols[i] = k}
        IN  IF at = {} THEN r[k] ELSE vals[CHOOSE i \in at : \A j \in at : j <= i]]

Blank == [user |-> "", password |-> ""]

Chunk(q, i) == LET w == Len(ColumnsOr(q)) IN SubSeq(q.values, (i - 1) * w + 1, i * w)
Chunks(q)   == LET w == Len(ColumnsOr(q)) IN (Len(q.values) + w - 1) \div w

SlipIgnoresShortRow(q) ==     \* the last, incomplete row is left out
    IF ToSet(ColumnsOr(q)) \subseteq Known
    THEN [status |-> "ok", chosen |-> <<>>,
          rows |-> [i \in 1 .. Len(q.values) \div Len(ColumnsOr(q)) |-> Assigned(Blank, ColumnsOr(q), Chunk(q, i))]]
    ELSE Failed

columnsToConfig(q) ==
    IF \/ q.values = <<>>
       \/ ToSet(ColumnsOr(q)) \subseteq Known /\ Len(q.values) % Len(ColumnsOr(q)) = 0
    THEN [status |-> "ok", chosen |-> <<>>,
          rows |-> [i \in 1 .. Chunks(q) |-> Assigned(Blank, ColumnsOr(q), Chunk(q, i))]]
    ELSE Failed

getString(s, i) == IF i <= Len(s) THEN s[i] ELSE ""

(* whereColumnsToConfig: every column of the list replaces the choice of   *)
(* the one before it; an unknown column leaves it.                         *)
Choice(q) ==
    LET at == {i \in DOMAIN q.whereColumns : q.whereColumns[i] \in Known}
    IN  IF q.whereColumns = <<>> THEN Table
        ELSE IF at = {} THEN <<>>
        ELSE LET i == CHOOSE i \in at : \A j \in at : j <= i
             IN  Selected(Table, {r \in Rows : r[q.whereColumns[i]] = getString(q.whereValues, i)})

SlipAnyOperation(q) == TRUE

Supported(q) == q.whereColumns = <<>> \/ q.whereOp = "="

update(q) ==
    LET cols == ColumnsOr(q)
        new  == [i \in DOMAIN Choice(q) |-> Assigned(Choice(q)[i], cols, q.values)]
    IN  IF Choice(q) # <<>> /\ Len(q.values) >= Len(cols) /\ ToSet(cols) \subseteq Known
        THEN [status |-> "ok", rows |-> new, chosen |-> Choice(q)] ELSE Failed

delete(q) ==
    IF Choice(q) = <<>> THEN Failed
    ELSE [status |-> "ok", chosen |-> Choice(q),
          rows |-> Selected(Table, {r \in Rows : r.user \notin {Choice(q)[i].user : i \in DOMAIN Choice(q)}})]

(* selectResultset drops the columns it does not know.                     *)
selectResultset(q) ==
    LET cols == Selected(ColumnsOr(q), Known)
    IN  [status |-> "ok", chosen |-> Choice(q),
         rows |-> [i \in DOMAIN Choice(q) |-> [j \in DOMAIN cols |-> Choice(q)[i][cols[j]]]]]

LeaveFunc(q) ==
    IF q.statement # "insert" /\ ~ Supported(q) THEN Failed
    ELSE CASE q.statement = "insert" -> columnsToConfig(q)
           [] q.statement = "update" -> update(q)
           [] q.statement = "delete" -> delete(q)
           [] q.statement = "select" -> selectResultset(q)

-----------------------------------------------------------------------------
(* configHandler.                                                          *)

Pending == [status |-> "pending", rows |-> <<>>, chosen |-> <<>>]
NotYet  == [is |-> "pending", whose |-> "nobody"]

Init ==
    /\ stmt \in Statements
    /\ nodes \in Visits(stmt)
    /\ p = EmptyQuery
    /\ outcome = Pending
    /\ \E left \in {<<"nil", "nil">>, <<"earlier", "nil">>, <<"earlier", "earlier">>} :
           res = left[1] /\ err = left[2]
    /\ reply = NotYet

EnterNode ==
    /\ nodes # <<>> /\ Head(nodes).node \notin {"leaveBinary", "leaveStatement"}
    /\ p' = Enter(p, Head(nodes))
    /\ nodes' = Tail(nodes)
    /\ UNCHANGED <<stmt, outcome, handlerVars>>

LeaveBinary ==
    /\ nodes # <<>> /\ Head(nodes).node = "leaveBinary"
    /\ p' = Leave(p)
    /\ nodes' = Tail(nodes)
    /\ UNCHANGED <<stmt, outcome, handlerVars>>

(* The error left by a statement.                                          *)
SlipKeepsError(kind, ok) == IF ok THEN err ELSE "own"   \* n, err := h.Insert(p)

(* A SELECT that succeeds does not clear it.                               *)
ErrorAfter(kind, ok) ==
    IF ~ ok THEN "own" ELSE IF kind = "select" THEN err ELSE "nil"

LeaveStatement ==                  \* selectStmt, insertStmt, updateStmt, deleteStmt
    /\ nodes # <<>> /\ Head(nodes).node = "leaveStatement"
    /\ outcome' = LeaveFunc(p)
    /\ nodes' = Tail(nodes)
    /\ res' = "own"
    /\ err' = ErrorAfter(p.statement, outcome'.status = "ok")
    /\ UNCHANGED <<stmt, p, reply>>

Parsed == stmt.kind \notin {"broken", "empty"}

HandleQuery ==                     \* return h.res, h.err
    /\ nodes = <<>> /\ reply = NotYet /\ Parsed
    /\ reply' = IF err = "nil" THEN [is |-> "result", whose |-> res] ELSE [is |-> "error", whose |-> err]
    /\ UNCHANGED <<stmt, nodes, p, outcome, res, err>>

(* Parse has an error, or no statement, whose first it returns.            *)
ParseFails ==
    /\ reply = NotYet /\ ~ Parsed
    /\ reply' = [is |-> IF stmt.kind = "empty" THEN "panic" ELSE "error", whose |-> "own"]
    /\ UNCHANGED <<stmt, nodes, p, outcome, res, err>>

Next == EnterNode \/ LeaveBinary \/ LeaveStatement \/ HandleQuery \/ ParseFails

Spec == Init /\ [][Next]_vars
=============================================================================
