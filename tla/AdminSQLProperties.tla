------------------------- MODULE AdminSQLProperties -------------------------
(* What a statement should mean, and when the code agrees.                 *)
EXTENDS AdminSQL, FiniteSets

(* A statement is answered after its last node, and the lists hold no more *)
(* than its nodes (ParsedQuery.Query).                                     *)
TypeOK ==
    /\ stmt \in Statements
    /\ outcome.status \in {"pending", "ok", "error"}
    /\ outcome.status = "pending" <=> nodes # <<>> \/ Visits(stmt) = {<<>>}
    /\ {res, err} \subseteq {"nil", "earlier", "own"}
    /\ reply \in [is : {"pending", "result", "error", "panic"}, whose : {"nobody", "nil", "earlier", "own"}]
    /\ p.statement \in {"", stmt.kind}
    /\ p.inWhere \in BOOLEAN
    /\ p.inWhere => \E i \in DOMAIN nodes : nodes[i].node = "leaveBinary"
    /\ \A f \in {"columns", "values", "whereColumns", "whereValues"} : p[f] \in Seq(STRING)

-----------------------------------------------------------------------------
(* The meaning of a WHERE clause: the rows for which it holds.             *)
Holding[e \in Clauses] ==
    CASE e.type = "none"    -> Rows
      [] e.type = "compare" -> {r \in Rows : IF e.op = "=" THEN r[e.column] = e.value ELSE r[e.column] # e.value}
      [] e.type = "both"    -> IF e.op = "and" THEN Holding[e.left] \cap Holding[e.right]
                               ELSE Holding[e.left] \cup Holding[e.right]
      [] e.type = "not"     -> Rows \ Holding[e.arg]
      [] e.type = "match"   -> {r \in Rows : r[e.column] = e.value}

Wanted(st) == Selected(Table, Holding[st.where])

(* A statement of the kind README.md shows: known columns, each once, a    *)
(* value for each, and at most one equality to choose rows by.             *)
Plain(st) ==
    /\ \/ st.where.type = "none"
       \/ st.where.type = "compare" /\ st.where.op = "=" /\ st.where.column \in Known
    /\ ToSet(st.columns) \subseteq Known
    /\ Cardinality(ToSet(st.columns)) = Len(st.columns)
    /\ st.kind = "update" => st.columns # <<>> /\ Len(st.values) = Len(st.columns)
    /\ st.kind = "insert" => \A i \in DOMAIN st.rows : Len(st.rows[i]) = Len(ColumnsOr(st))

Named(st, k) == CHOOSE i \in DOMAIN ColumnsOr(st) : ColumnsOr(st)[i] = k

(* An INSERT's rows, with nothing in the columns it does not name.         *)
InsertMeans(st) ==
    [i \in DOMAIN st.rows |->
        [k \in Known |-> IF k \in ToSet(ColumnsOr(st)) THEN st.rows[i][Named(st, k)] ELSE ""]]

UpdateMeans(st) ==
    [i \in DOMAIN Wanted(st) |->
        [k \in Known |-> IF k \in ToSet(st.columns) THEN st.values[Named(st, k)] ELSE Wanted(st)[i][k]]]

SelectMeans(st) ==
    [i \in DOMAIN Wanted(st) |-> [j \in DOMAIN ColumnsOr(st) |-> Wanted(st)[i][ColumnsOr(st)[j]]]]

Finished == outcome.status # "pending"

(* No two rows of the table have one name, or the statement goes by names. *)
ByName(st) == st.where.type = "compare" => st.where.column = "user"
NoTwins    == \A i, j \in DOMAIN Table : Table[i].user = Table[j].user => i = j

(* The flat lists lose nothing of a plain statement, in whatever order its *)
(* columns are named and its parts are visited: it inserts, changes,       *)
(* deletes and shows what it says (sqlparse.go:54-107, 137-245).  A DELETE *)
(* by password also deletes the twins, rows of one name, of those it       *)
(* chooses (serverconfig.go:222-236).                                      *)
PlainStatementsAreObeyed ==
    Finished /\ Plain(stmt) =>
        /\ outcome.status =
              IF stmt.kind \in {"update", "delete"} /\ Wanted(stmt) = <<>> THEN "error" ELSE "ok"
        /\ outcome.status = "ok" =>
              CASE stmt.kind = "insert" -> outcome.rows = InsertMeans(stmt)
                [] stmt.kind = "select" -> outcome.rows = SelectMeans(stmt)
                [] stmt.kind = "update" -> outcome.rows = UpdateMeans(stmt)
                [] stmt.kind = "delete" ->
                      ByName(stmt) \/ NoTwins => outcome.rows = Selected(Table, Rows \ Holding[stmt.where])

(* A comparison other than equality, an unknown column to write, or values *)
(* whose number is no multiple of that of the columns are refused before   *)
(* any row is touched, also when the WHERE clause is visited first         *)
(* (sqlparse.go:147, 155, 170, 178, 196).  Rows of different lengths that  *)
(* even out are not: they are accepted and cut into other rows.            *)
UnclearStatementsAreRefused ==
    Finished =>
        /\ stmt.kind # "insert" /\ stmt.where.type = "compare" /\ stmt.where.op # "="
           => outcome.status = "error"
        /\ stmt.kind \in {"insert", "update"} /\ Values(stmt) # <<>> /\ ~ ToSet(stmt.columns) \subseteq Known
           => outcome.status = "error"
        /\ stmt.kind = "insert" /\ Len(Values(stmt)) % Len(ColumnsOr(stmt)) # 0
           => outcome.status = "error"

(* "where only supports equal operation" (sqlparse.go:197), for every      *)
(* clause: it is refused, or it chooses the rows that it says.             *)
WhereIsObeyedOrRefused ==
    outcome.status = "ok" /\ stmt.kind # "insert" => outcome.chosen = Wanted(stmt)

(* What an administrator is told (confighandler.go:18-64).  Of a change:    *)
(* that it was made exactly when it was, whatever happened in the session   *)
(* before.  Of a SELECT: never rows when it failed, but perhaps the error   *)
(* of an earlier one.  A statement nobody handles repeats an earlier        *)
(* answer.  A text without a statement ends the process (sqlparse.go:124).  *)
AnswersAreTrue ==
    reply # NotYet =>
        /\ reply.whose = "own" => (reply.is = "result" <=> outcome.status = "ok")
        /\ stmt.kind \in {"insert", "update", "delete"} => reply.whose = "own"
        /\ stmt.kind = "select" /\ reply.is = "result" => reply.whose = "own"
        /\ stmt.kind = "other" => reply.whose # "own"
        /\ reply.is = "panic" <=> stmt.kind = "empty"
=============================================================================
