---------------------------- MODULE AdminSQLProofs ----------------------------
(***************************************************************************)
(* Proofs about AdminSQL for every set of statements, clauses nested to    *)
(* any depth, and every table.                                             *)
(***************************************************************************)
EXTENDS AdminSQLProperties, SequenceLemmas, FiniteSetTheorems

-----------------------------------------------------------------------------
(* Clauses.                                                                *)

(* A set that has with the parts of every clause the clause has them all.  *)
LEMMA ClauseInduction ==
    ASSUME NEW P,
           \A e \in Clauses : (\A d \in Clauses : Nesting[d] < Nesting[e] => d \in P) => e \in P
    PROVE  Clauses \subseteq P
<1> DEFINE T == {n \in Nat : \A e \in Clauses : Nesting[e] < n => e \in P}
<1>0. \A e \in Clauses : Nesting[e] \in Nat
  BY ClausesAssumption
<1>1. 0 \in T
  BY <1>0
<1>2. ASSUME NEW n \in Nat, n \in T PROVE n + 1 \in T
  <2>1. SUFFICES ASSUME NEW e \in Clauses, Nesting[e] < n + 1 PROVE e \in P
    OBVIOUS
  <2>2. \A d \in Clauses : Nesting[d] < Nesting[e] => d \in P
    BY <1>0, <1>2, <2>1
  <2>3. QED
    BY <2>2
<1>3. Nat \subseteq T
  <2> HIDE DEF T
  <2>1. QED
    BY <1>1, <1>2, Induction
<1>4. QED
  <2>1. SUFFICES ASSUME NEW e \in Clauses PROVE e \in P
    OBVIOUS
  <2>2. Nesting[e] + 1 \in T /\ Nesting[e] < Nesting[e] + 1
    BY <1>0, <1>3
  <2>3. QED
    BY <2>2

(* A recursion over clauses, in which g[e] asks for what is less nested    *)
(* than e.                                                                 *)
Over(S) == [Clauses -> S]

(* f and h agree on all that is less nested than e.                        *)
Agree(e, f, h) == \A d \in Clauses : Nesting[d] < Nesting[e] => f[d] = h[d]

(* A step of a recursion: what it computes for e depends only on what it   *)
(* is given for less nested clauses.                                       *)
Recursion(S, g) ==
    /\ g \in [Clauses -> [Over(S) -> S]]
    /\ \A e \in Clauses : \A f, h \in Over(S) : Agree(e, f, h) => g[e][f] = g[e][h]

(* w solves the recursion for the clauses nested less deep than n.         *)
Upto(S, g, n, w) == w \in Over(S) /\ \A e \in Clauses : Nesting[e] < n => w[e] = g[e][w]

(* Two such solutions agree wherever both are required to solve it.        *)
LEMMA UptoUnique ==
    ASSUME NEW S, NEW g, Recursion(S, g), NEW n \in Nat, NEW m \in Nat, NEW w, NEW v,
           Upto(S, g, n, w), Upto(S, g, m, v)
    PROVE  \A e \in Clauses : Nesting[e] < n /\ Nesting[e] < m => w[e] = v[e]
<1> DEFINE P == {e \in Clauses : Nesting[e] < n /\ Nesting[e] < m => w[e] = v[e]}
<1>0. \A e \in Clauses : Nesting[e] \in Nat
  BY ClausesAssumption
<1>1. ASSUME NEW e \in Clauses, \A d \in Clauses : Nesting[d] < Nesting[e] => d \in P
      PROVE  e \in P
  <2>1. SUFFICES ASSUME Nesting[e] < n, Nesting[e] < m PROVE w[e] = v[e]
    OBVIOUS
  <2>2. Agree(e, w, v)
    BY <1>0, <1>1, <2>1 DEF Agree
  <2>3. w \in Over(S) /\ v \in Over(S) /\ w[e] = g[e][w] /\ v[e] = g[e][v]
    BY <2>1 DEF Upto
  <2>4. QED
    BY <2>2, <2>3 DEF Recursion
<1>2. Clauses \subseteq P
  <2> HIDE DEF P
  <2>1. QED
    BY <1>1, ClauseInduction
<1>3. QED
  BY <1>2

(* There is one for every depth.                                           *)
LEMMA UptoExists ==
    ASSUME NEW S, NEW s \in S, NEW g, Recursion(S, g)
    PROVE  \A n \in Nat : \E w : Upto(S, g, n, w)
<1> DEFINE T == {n \in Nat : \E w : Upto(S, g, n, w)}
<1>0. \A e \in Clauses : Nesting[e] \in Nat
  BY ClausesAssumption
<1>1. 0 \in T
  <2>1. [e \in Clauses |-> s] \in Over(S)
    BY DEF Over
  <2>2. Upto(S, g, 0, [e \in Clauses |-> s])
    BY <1>0, <2>1 DEF Upto
  <2>3. QED
    BY <2>2
<1>2. ASSUME NEW n \in Nat, n \in T PROVE n + 1 \in T
  <2>1. PICK w : Upto(S, g, n, w)
    BY <1>2
  <2> DEFINE v == [e \in Clauses |-> IF Nesting[e] < n THEN w[e] ELSE g[e][w]]
  <2>2. w \in Over(S)
    BY <2>1 DEF Upto
  <2>3. v \in Over(S)
    <3>1. \A e \in Clauses : w[e] \in S /\ g[e][w] \in S
      BY <2>2 DEF Over, Recursion
    <3>2. QED
      BY <3>1 DEF Over
  <2>4. ASSUME NEW e \in Clauses, Nesting[e] < n + 1 PROVE v[e] = g[e][v]
    <3>1. \A d \in Clauses : Nesting[d] < Nesting[e] => Nesting[d] < n
      BY <1>0, <2>4
    <3>2. Agree(e, w, v)
      BY <3>1 DEF Agree
    <3>3. v[e] = g[e][w]
      BY <2>1 DEF Upto
    <3> HIDE DEF v
    <3>4. g[e][w] = g[e][v]
      BY <2>2, <2>3, <3>2 DEF Recursion
    <3>5. QED
      BY <3>3, <3>4
  <2> HIDE DEF v
  <2>5. Upto(S, g, n + 1, v)
    BY <2>3, <2>4 DEF Upto
  <2>6. QED
    BY <2>5
<1>3. Nat \subseteq T
  <2> HIDE DEF T
  <2>1. QED
    BY <1>1, <1>2, Induction
<1>4. QED
  BY <1>3

(* So the recursion has a solution for all clauses.                        *)
LEMMA ClauseRecursion ==
    ASSUME NEW S, NEW s \in S, NEW g, Recursion(S, g)
    PROVE  \E w \in Over(S) : \A e \in Clauses : w[e] = g[e][w]
<1> DEFINE u(n) == CHOOSE w : Upto(S, g, n, w)
           w == [e \in Clauses |-> u(Nesting[e] + 1)[e]]
<1>0. \A e \in Clauses : Nesting[e] \in Nat
  BY ClausesAssumption
<1>1. \A n \in Nat : Upto(S, g, n, u(n))
  BY UptoExists
<1> HIDE DEF u
<1>2. w \in Over(S)
  <2>1. ASSUME NEW e \in Clauses PROVE u(Nesting[e] + 1)[e] \in S
    <3>1. Nesting[e] + 1 \in Nat
      BY <1>0
    <3>2. u(Nesting[e] + 1) \in Over(S)
      BY <1>1, <3>1 DEF Upto
    <3>3. QED
      BY <3>2 DEF Over
  <2>2. QED
    BY <2>1 DEF Over
<1>3. ASSUME NEW e \in Clauses PROVE w[e] = g[e][w]
  <2> DEFINE v == u(Nesting[e] + 1)
  <2>1. Nesting[e] + 1 \in Nat /\ Nesting[e] < Nesting[e] + 1
    BY <1>0
  <2>2. Upto(S, g, Nesting[e] + 1, v)
    BY <1>1, <2>1
  <2>3. v \in Over(S) /\ v[e] = g[e][v]
    BY <2>1, <2>2 DEF Upto
  <2>4. ASSUME NEW d \in Clauses, Nesting[d] < Nesting[e] PROVE v[d] = w[d]
    <3>1. Nesting[d] + 1 \in Nat /\ Nesting[d] < Nesting[d] + 1 /\ Nesting[d] < Nesting[e] + 1
      BY <1>0, <2>4
    <3>2. Upto(S, g, Nesting[d] + 1, u(Nesting[d] + 1))
      BY <1>1, <3>1
    <3> HIDE DEF v
    <3>3. v[d] = u(Nesting[d] + 1)[d]
      BY <2>1, <2>2, <3>1, <3>2, UptoUnique
    <3>4. QED
      BY <3>3
  <2>5. w[e] = v[e]
    OBVIOUS
  <2> HIDE DEF v, w
  <2>6. Agree(e, v, w)
    BY <2>4 DEF Agree
  <2>7. g[e][v] = g[e][w]
    BY <1>2, <2>3, <2>6 DEF Recursion
  <2>8. QED
    BY <2>3, <2>5, <2>7
<1> HIDE DEF w
<1>4. QED
  BY <1>2, <1>3

(* Nodes of the tree.                                                      *)
Kinds == {"binary", "column", "value", "leaveBinary"}

(* The nodes of a statement's parts: every one but its first and last.     *)
Nodes == [node : Kinds, is : STRING]

(* Node builds them.                                                       *)
LEMMA NodeType == \A k \in Kinds, x \in STRING : Node(k, x) \in Nodes
BY DEF Node, Nodes, Kinds

(* Walk is the recursion it is defined by.                                 *)
WalkStep(e, f) ==
    CASE e.type = "none"    -> <<>>
      [] e.type = "compare" -> <<Node("binary", e.op), Node("column", e.column),
                                 Node("value", e.value), Node("leaveBinary", e.op)>>
      [] e.type = "both"    -> <<Node("binary", e.op)>> \o f[e.left] \o f[e.right]
                               \o <<Node("leaveBinary", e.op)>>
      [] e.type = "not"     -> f[e.arg]
      [] e.type = "match"   -> <<Node("column", e.column), Node("value", e.value)>>

(* One step of Walk yields a sequence of nodes.                            *)
LEMMA WalkStepType ==
    ASSUME NEW e \in Clauses, NEW f \in Over(Seq(Nodes))
    PROVE  WalkStep(e, f) \in Seq(Nodes)
<1>1. CASE e.type = "none"
  BY <1>1 DEF WalkStep
<1>2. CASE e.type = "compare"
  <2>1. /\ Node("binary", e.op) \in Nodes /\ Node("column", e.column) \in Nodes
        /\ Node("value", e.value) \in Nodes /\ Node("leaveBinary", e.op) \in Nodes
    <3>1. e.op \in STRING /\ e.column \in STRING /\ e.value \in STRING
      BY <1>2, ClausesAssumption
    <3>2. QED
      BY <3>1, NodeType DEF Kinds
  <2>2. WalkStep(e, f) = <<Node("binary", e.op), Node("column", e.column),
                           Node("value", e.value), Node("leaveBinary", e.op)>>
    BY <1>2 DEF WalkStep
  <2>3. QED
    BY <2>1, <2>2
<1>3. CASE e.type = "both"
  <2>1. Node("binary", e.op) \in Nodes /\ Node("leaveBinary", e.op) \in Nodes
    <3>1. e.op \in STRING
      BY <1>3, ClausesAssumption
    <3>2. QED
      BY <3>1, NodeType DEF Kinds
  <2>2. f[e.left] \in Seq(Nodes) /\ f[e.right] \in Seq(Nodes)
    BY <1>3, ClausesAssumption DEF Over
  <2>3. WalkStep(e, f) = <<Node("binary", e.op)>> \o f[e.left] \o f[e.right]
                         \o <<Node("leaveBinary", e.op)>>
    BY <1>3 DEF WalkStep
  <2>4. QED
    BY <2>1, <2>2, <2>3
<1>4. CASE e.type = "not"
  BY <1>4, ClausesAssumption DEF WalkStep, Over
<1>5. CASE e.type = "match"
  <2>1. Node("column", e.column) \in Nodes /\ Node("value", e.value) \in Nodes
    <3>1. e.column \in STRING /\ e.value \in STRING
      BY <1>5, ClausesAssumption
    <3>2. QED
      BY <3>1, NodeType DEF Kinds
  <2>2. WalkStep(e, f) = <<Node("column", e.column), Node("value", e.value)>>
    BY <1>5 DEF WalkStep
  <2>3. QED
    BY <2>1, <2>2
<1>6. QED
  BY <1>1, <1>2, <1>3, <1>4, <1>5, ClausesAssumption

(* Walk is defined, is of that type, and obeys its equation.               *)
LEMMA WalkIs ==
    /\ Walk \in Over(Seq(Nodes))
    /\ \A e \in Clauses : Walk[e] = WalkStep(e, Walk)
<1> DEFINE S == Seq(Nodes)
           g == [e \in Clauses |-> [f \in Over(S) |-> WalkStep(e, f)]]
           s == <<>>
<1>1. s \in S
  OBVIOUS
<1>2. Recursion(S, g)
  <2>1. g \in [Clauses -> [Over(S) -> S]]
    BY WalkStepType
  <2>2. ASSUME NEW e \in Clauses, NEW f \in Over(S), NEW h \in Over(S), Agree(e, f, h)
        PROVE  g[e][f] = g[e][h]
    <3>1. e.type = "both" => f[e.left] = h[e.left] /\ f[e.right] = h[e.right]
      BY <2>2, ClausesAssumption DEF Agree
    <3>2. e.type = "not" => f[e.arg] = h[e.arg]
      BY <2>2, ClausesAssumption DEF Agree
    <3>3. WalkStep(e, f) = WalkStep(e, h)
      BY <3>1, <3>2, ClausesAssumption DEF WalkStep
    <3>4. QED
      BY <3>3
  <2>3. QED
    BY <2>1, <2>2 DEF Recursion
<1> HIDE DEF g, s
<1>3. PICK w \in Over(S) : \A e \in Clauses : w[e] = g[e][w]
  <2> HIDE DEF S
  <2>1. QED
    BY <1>1, <1>2, ClauseRecursion
<1>4. \A e \in Clauses : w[e] = WalkStep(e, w)
  BY <1>3 DEF g
<1>5. w = [e \in Clauses |-> WalkStep(e, w)]
  <2>1. w = [e \in Clauses |-> w[e]]
    BY DEF Over
  <2>2. QED
    BY <1>4, <2>1
<1>6. Walk = [e \in Clauses |-> WalkStep(e, Walk)]
  BY <1>5 DEF Walk, WalkStep
<1>7. \A e \in Clauses : Walk[e] = WalkStep(e, Walk)
  BY <1>6
<1>8. Walk \in Over(S)
  <2> DEFINE P == {e \in Clauses : Walk[e] \in S}
  <2>1. ASSUME NEW e \in Clauses, \A d \in Clauses : Nesting[d] < Nesting[e] => d \in P
        PROVE  e \in P
    <3> DEFINE f == [d \in Clauses |-> IF d \in P THEN Walk[d] ELSE <<>>]
    <3>1. f \in Over(S)
      BY DEF Over
    <3>2. e.type = "both" => f[e.left] = Walk[e.left] /\ f[e.right] = Walk[e.right]
      BY <2>1, ClausesAssumption
    <3>3. e.type = "not" => f[e.arg] = Walk[e.arg]
      BY <2>1, ClausesAssumption
    <3> HIDE DEF f
    <3>4. WalkStep(e, f) = WalkStep(e, Walk)
      BY <3>2, <3>3, ClausesAssumption DEF WalkStep
    <3>5. WalkStep(e, f) \in S
      BY <3>1, WalkStepType
    <3>6. QED
      BY <1>7, <3>4, <3>5
  <2>2. Clauses \subseteq P
    <3> HIDE DEF P
    <3>1. QED
      BY <2>1, ClauseInduction
  <2>3. QED
    BY <1>6, <2>2 DEF Over
<1>9. QED
  BY <1>7, <1>8

(* Holding is the recursion it is defined by.                              *)
HoldingStep(e, f) ==
    CASE e.type = "none"    -> Rows
      [] e.type = "compare" -> {r \in Rows : IF e.op = "=" THEN r[e.column] = e.value ELSE r[e.column] # e.value}
      [] e.type = "both"    -> IF e.op = "and" THEN f[e.left] \cap f[e.right]
                               ELSE f[e.left] \cup f[e.right]
      [] e.type = "not"     -> Rows \ f[e.arg]
      [] e.type = "match"   -> {r \in Rows : r[e.column] = e.value}

(* Holding obeys its equation.                                             *)
LEMMA HoldingIs == \A e \in Clauses : Holding[e] = HoldingStep(e, Holding)
<1> DEFINE S == SUBSET Rows
           g == [e \in Clauses |-> [f \in Over(S) |-> HoldingStep(e, f)]]
           s == Rows
<1>1. s \in S
  OBVIOUS
<1>2. Recursion(S, g)
  <2>1. g \in [Clauses -> [Over(S) -> S]]
    <3>1. ASSUME NEW e \in Clauses, NEW f \in Over(S) PROVE HoldingStep(e, f) \in S
      <4>1. e.type = "both" => f[e.left] \in S /\ f[e.right] \in S
        BY ClausesAssumption DEF Over
      <4>2. e.type = "not" => f[e.arg] \in S
        BY ClausesAssumption DEF Over
      <4>3. QED
        BY <4>1, <4>2, ClausesAssumption DEF HoldingStep
    <3>2. QED
      BY <3>1
  <2>2. ASSUME NEW e \in Clauses, NEW f \in Over(S), NEW h \in Over(S), Agree(e, f, h)
        PROVE  g[e][f] = g[e][h]
    <3>1. e.type = "both" => f[e.left] = h[e.left] /\ f[e.right] = h[e.right]
      BY <2>2, ClausesAssumption DEF Agree
    <3>2. e.type = "not" => f[e.arg] = h[e.arg]
      BY <2>2, ClausesAssumption DEF Agree
    <3>3. HoldingStep(e, f) = HoldingStep(e, h)
      BY <3>1, <3>2, ClausesAssumption DEF HoldingStep
    <3>4. QED
      BY <3>3
  <2>3. QED
    BY <2>1, <2>2 DEF Recursion
<1> HIDE DEF g, s
<1>3. PICK w \in Over(S) : \A e \in Clauses : w[e] = g[e][w]
  <2> HIDE DEF S
  <2>1. QED
    BY <1>1, <1>2, ClauseRecursion
<1>4. \A e \in Clauses : w[e] = HoldingStep(e, w)
  BY <1>3 DEF g
<1>5. w = [e \in Clauses |-> HoldingStep(e, w)]
  <2>1. w = [e \in Clauses |-> w[e]]
    BY DEF Over
  <2>2. QED
    BY <1>4, <2>1
<1>6. Holding = [e \in Clauses |-> HoldingStep(e, Holding)]
  BY <1>5 DEF Holding, HoldingStep
<1>7. QED
  BY <1>6

(* The rows a simple clause wants.                                         *)
LEMMA SimpleHolding ==
    ASSUME NEW e \in Clauses
    PROVE  /\ e.type = "none" => Holding[e] = Rows
           /\ e.type = "compare" /\ e.op = "=" => Holding[e] = {r \in Rows : r[e.column] = e.value}
<1>1. Holding[e] = HoldingStep(e, Holding)
  BY HoldingIs
<1>2. QED
  BY <1>1 DEF HoldingStep

-----------------------------------------------------------------------------
(* Visits.                                                                 *)

Spoken == {"select", "insert", "update", "delete"}

(* The kinds of statement the visitor remembers; none before the first.    *)
Words == Spoken \cup {""}

(* The operators it remembers.                                             *)
Ops == STRING \cup {""}

(* What a ParsedQuery can hold.                                            *)
Queries ==
    [statement : Words, columns : Seq(STRING), values : Seq(STRING), inWhere : BOOLEAN,
     whereColumns : Seq(STRING), whereValues : Seq(STRING), whereOp : Ops]

(* All nodes but the last of a statement, whose visit is LeaveFunc.        *)
AllNodes == Nodes \cup [node : {"statement"}, is : Spoken]

(* The visit of a node, entered or left.                                   *)
Visited(q, x) == IF x.node = "leaveBinary" THEN Leave(q) ELSE Enter(q, x)

(* What each visit changes, by the node visited.                           *)
LEMMA VisitedCases ==
    ASSUME NEW q \in Queries, NEW x \in AllNodes
    PROVE  /\ x.node = "statement" => Visited(q, x) = [q EXCEPT !.statement = x.is]
           /\ x.node = "binary" => Visited(q, x) = [q EXCEPT !.inWhere = TRUE, !.whereOp = x.is]
           /\ x.node = "column" /\ q.inWhere => Visited(q, x) = [q EXCEPT !.whereColumns = Append(@, x.is)]
           /\ x.node = "column" /\ ~ q.inWhere => Visited(q, x) = [q EXCEPT !.columns = Append(@, x.is)]
           /\ x.node = "value" /\ q.inWhere => Visited(q, x) = [q EXCEPT !.whereValues = Append(@, x.is)]
           /\ x.node = "value" /\ ~ q.inWhere => Visited(q, x) = [q EXCEPT !.values = Append(@, x.is)]
           /\ x.node = "leaveBinary" => Visited(q, x) = [q EXCEPT !.inWhere = FALSE]
<1>1. CASE x.node = "leaveBinary"
  BY <1>1 DEF Visited, Leave
<1>2. CASE x.node = "statement"
  BY <1>2 DEF Visited, Enter
<1>3. CASE x.node = "binary"
  BY <1>3 DEF Visited, Enter
<1>4. CASE x.node = "column" /\ q.inWhere
  BY <1>4 DEF Visited, Enter
<1>5. CASE x.node = "column" /\ ~ q.inWhere
  BY <1>5 DEF Visited, Enter
<1>6. CASE x.node = "value" /\ q.inWhere
  BY <1>6 DEF Visited, Enter
<1>7. CASE x.node = "value" /\ ~ q.inWhere
  BY <1>7 DEF Visited, Enter
<1>8. QED
  BY <1>1, <1>2, <1>3, <1>4, <1>5, <1>6, <1>7

(* A visit keeps the type of what is collected.                            *)
LEMMA VisitedType ==
    ASSUME NEW q \in Queries, NEW x \in AllNodes
    PROVE  Visited(q, x) \in Queries
<1>1. /\ q.columns \in Seq(STRING) /\ q.values \in Seq(STRING)
      /\ q.whereColumns \in Seq(STRING) /\ q.whereValues \in Seq(STRING)
      /\ q.inWhere \in BOOLEAN /\ x.node \in Kinds \cup {"statement"}
      /\ x.node = "statement" => x.is \in Words
      /\ x.node # "statement" => x.is \in STRING /\ x.is \in Ops
  <2>1. /\ q.columns \in Seq(STRING) /\ q.values \in Seq(STRING)
        /\ q.whereColumns \in Seq(STRING) /\ q.whereValues \in Seq(STRING)
        /\ q.inWhere \in BOOLEAN
    BY DEF Queries
  <2>2. QED
    BY <2>1 DEF AllNodes, Nodes, Kinds, Words, Ops
<1>2. x.node # "statement" =>
      /\ Append(q.columns, x.is) \in Seq(STRING) /\ Append(q.values, x.is) \in Seq(STRING)
      /\ Append(q.whereColumns, x.is) \in Seq(STRING) /\ Append(q.whereValues, x.is) \in Seq(STRING)
  BY <1>1
<1>3. CASE x.node = "statement"
  <2>1. Visited(q, x) = [q EXCEPT !.statement = x.is]
    BY <1>3, VisitedCases
  <2>2. x.is \in Words
    BY <1>1, <1>2, <1>3
  <2>3. QED
    BY <1>1, <2>1, <2>2 DEF Queries
<1>4. CASE x.node = "binary"
  <2>1. Visited(q, x) = [q EXCEPT !.inWhere = TRUE, !.whereOp = x.is]
    BY <1>4, VisitedCases
  <2>2. x.is \in Ops
    BY <1>1, <1>2, <1>4
  <2>3. QED
    BY <1>1, <2>1, <2>2 DEF Queries
<1>5. CASE x.node = "column" /\ q.inWhere
  <2>1. Visited(q, x) = [q EXCEPT !.whereColumns = Append(@, x.is)]
    BY <1>5, VisitedCases
  <2>2. Append(q.whereColumns, x.is) \in Seq(STRING)
    BY <1>1, <1>2, <1>5
  <2>3. QED
    BY <1>1, <2>1, <2>2 DEF Queries
<1>6. CASE x.node = "column" /\ ~ q.inWhere
  <2>1. Visited(q, x) = [q EXCEPT !.columns = Append(@, x.is)]
    BY <1>6, VisitedCases
  <2>2. Append(q.columns, x.is) \in Seq(STRING)
    BY <1>1, <1>2, <1>6
  <2>3. QED
    BY <1>1, <2>1, <2>2 DEF Queries
<1>7. CASE x.node = "value" /\ q.inWhere
  <2>1. Visited(q, x) = [q EXCEPT !.whereValues = Append(@, x.is)]
    BY <1>7, VisitedCases
  <2>2. Append(q.whereValues, x.is) \in Seq(STRING)
    BY <1>1, <1>2, <1>7
  <2>3. QED
    BY <1>1, <2>1, <2>2 DEF Queries
<1>8. CASE x.node = "value" /\ ~ q.inWhere
  <2>1. Visited(q, x) = [q EXCEPT !.values = Append(@, x.is)]
    BY <1>8, VisitedCases
  <2>2. Append(q.values, x.is) \in Seq(STRING)
    BY <1>1, <1>2, <1>8
  <2>3. QED
    BY <1>1, <2>1, <2>2 DEF Queries
<1>9. CASE x.node = "leaveBinary"
  <2>1. Visited(q, x) = [q EXCEPT !.inWhere = FALSE]
    BY <1>9, VisitedCases
  <2>2. QED
    BY <1>1, <2>1 DEF Queries
<1>10. QED
  BY <1>1, <1>3, <1>4, <1>5, <1>6, <1>7, <1>8, <1>9 DEF Kinds

(* The visitor that has q makes it r with the nodes ns.                    *)
Run(f, q, ns, r) ==
    /\ f \in [0 .. Len(ns) -> Queries]
    /\ f[0] = q /\ f[Len(ns)] = r
    /\ \A i \in 1 .. Len(ns) : f[i] = Visited(f[i - 1], ns[i])

(* A visit of all of ns leads from q to r.                                 *)
Leads(q, ns, r) == \E f : Run(f, q, ns, r)

(* No nodes lead nowhere else.                                             *)
LEMMA LeadsEmpty ==
    ASSUME NEW q \in Queries, NEW r
    PROVE  Leads(q, <<>>, r) <=> r = q
<1>1. ASSUME r = q PROVE Leads(q, <<>>, r)
  <2> DEFINE f == [i \in 0 .. 0 |-> q]
  <2>1. Run(f, q, <<>>, r)
    BY <1>1 DEF Run
  <2>2. QED
    BY <2>1 DEF Leads
<1>2. ASSUME Leads(q, <<>>, r) PROVE r = q
  BY <1>2 DEF Leads, Run
<1>3. QED
  BY <1>1, <1>2

(* One node leads to its visit.                                            *)
LEMMA LeadsOne ==
    ASSUME NEW q \in Queries, NEW x \in AllNodes
    PROVE  Leads(q, <<x>>, Visited(q, x))
<1> DEFINE f == [i \in 0 .. 1 |-> IF i = 0 THEN q ELSE Visited(q, x)]
<1>1. Visited(q, x) \in Queries
  BY VisitedType
<1>2. Len(<<x>>) = 1 /\ <<x>>[1] = x
  OBVIOUS
<1>3. f \in [0 .. 1 -> Queries] /\ f[0] = q /\ f[1] = Visited(q, x)
  BY <1>1
<1> HIDE DEF f
<1>4. Run(f, q, <<x>>, Visited(q, x))
  BY <1>2, <1>3 DEF Run
<1>5. QED
  BY <1>4 DEF Leads

(* Two visits one after the other are a visit of the joined sequence.      *)
LEMMA LeadsJoined ==
    ASSUME NEW q, NEW ns \in Seq(AllNodes), NEW r, NEW ms \in Seq(AllNodes), NEW t,
           Leads(q, ns, r), Leads(r, ms, t)
    PROVE  Leads(q, ns \o ms, t)
<1>1. PICK f : Run(f, q, ns, r)
  BY DEF Leads
<1>2. PICK g : Run(g, r, ms, t)
  BY DEF Leads
<1> DEFINE n == Len(ns)
           m == Len(ms)
           all == ns \o ms
           h == [i \in 0 .. n + m |-> IF i <= n THEN f[i] ELSE g[i - n]]
<1>3. /\ n \in Nat /\ m \in Nat /\ Len(all) = n + m
      /\ \A i \in 1 .. n : all[i] = ns[i]
      /\ \A i \in n + 1 .. n + m : all[i] = ms[i - n]
  OBVIOUS
<1>4. /\ f \in [0 .. n -> Queries] /\ f[0] = q /\ f[n] = r
      /\ \A i \in 1 .. n : f[i] = Visited(f[i - 1], ns[i])
  BY <1>1 DEF Run
<1>5. /\ g \in [0 .. m -> Queries] /\ g[0] = r /\ g[m] = t
      /\ \A i \in 1 .. m : g[i] = Visited(g[i - 1], ms[i])
  BY <1>2 DEF Run
<1> HIDE DEF n, m, all
<1>6. h \in [0 .. n + m -> Queries] /\ h[0] = q
  BY <1>3, <1>4, <1>5
<1>7. h[n + m] = t
  <2>1. CASE m = 0
    BY <1>3, <1>4, <1>5, <2>1
  <2>2. CASE m # 0
    <3>1. n + m \in 0 .. n + m /\ ~ n + m <= n /\ (n + m) - n = m
      BY <1>3, <2>2
    <3>2. h[n + m] = g[(n + m) - n]
      BY <3>1
    <3>3. QED
      BY <1>5, <3>1, <3>2
  <2>3. QED
    BY <2>1, <2>2
<1>8. ASSUME NEW i \in 1 .. n + m PROVE h[i] = Visited(h[i - 1], all[i])
  <2>1. CASE i <= n
    BY <1>3, <1>4, <2>1
  <2>2. CASE ~ i <= n
    <3>1. /\ i - n \in 1 .. m /\ i \in n + 1 .. n + m /\ i \in 0 .. n + m /\ i - 1 \in 0 .. n + m
          /\ (i - n) - 1 = (i - 1) - n
      BY <1>3, <2>2
    <3>2. h[i] = g[i - n] /\ all[i] = ms[i - n]
      BY <1>3, <2>2, <3>1
    <3>3. h[i - 1] = g[(i - n) - 1]
      <4>1. CASE i - 1 <= n
        <5>1. i - 1 = n /\ (i - n) - 1 = 0
          BY <1>3, <2>2, <4>1
        <5>2. QED
          BY <1>4, <1>5, <3>1, <4>1, <5>1
      <4>2. CASE ~ i - 1 <= n
        BY <3>1, <4>2
      <4>3. QED
        BY <4>1, <4>2
    <3>4. g[i - n] = Visited(g[(i - n) - 1], ms[i - n])
      BY <1>5, <3>1
    <3>5. QED
      BY <3>2, <3>3, <3>4
  <2>3. QED
    BY <2>1, <2>2
<1> HIDE DEF h
<1>9. Run(h, q, all, t)
  BY <1>3, <1>6, <1>7, <1>8 DEF Run
<1>10. QED
  BY <1>9 DEF Leads, all

(* The first of the nodes is visited, and the rest leads on.               *)
LEMMA LeadsOn ==
    ASSUME NEW q, NEW ns \in Seq(AllNodes), NEW r, ns # <<>>, Leads(q, ns, r)
    PROVE  q \in Queries /\ Leads(Visited(q, Head(ns)), Tail(ns), r)
<1>1. PICK f : Run(f, q, ns, r)
  BY DEF Leads
<1> DEFINE n == Len(ns)
           h == [i \in 0 .. n - 1 |-> f[i + 1]]
<1>2. /\ n \in Nat \ {0} /\ Head(ns) = ns[1] /\ Len(Tail(ns)) = n - 1
      /\ \A i \in 1 .. n - 1 : Tail(ns)[i] = ns[i + 1]
  OBVIOUS
<1>3. /\ f \in [0 .. n -> Queries] /\ f[0] = q /\ f[n] = r
      /\ \A i \in 1 .. n : f[i] = Visited(f[i - 1], ns[i])
  BY <1>1 DEF Run
<1> HIDE DEF n
<1>4. h \in [0 .. n - 1 -> Queries] /\ h[0] = Visited(q, Head(ns)) /\ h[n - 1] = r
  BY <1>2, <1>3
<1>5. ASSUME NEW i \in 1 .. n - 1 PROVE h[i] = Visited(h[i - 1], Tail(ns)[i])
  <2>1. i \in 0 .. n - 1 /\ i - 1 \in 0 .. n - 1 /\ i + 1 \in 1 .. n /\ (i - 1) + 1 = i /\ (i + 1) - 1 = i
    BY <1>2
  <2>2. h[i] = f[i + 1] /\ h[i - 1] = f[i]
    BY <2>1
  <2>3. f[i + 1] = Visited(f[i], ns[i + 1])
    BY <1>3, <2>1
  <2>4. QED
    BY <1>2, <2>2, <2>3
<1> HIDE DEF h
<1>6. Run(h, Visited(q, Head(ns)), Tail(ns), r)
  BY <1>2, <1>4, <1>5 DEF Run
<1>7. QED
  BY <1>2, <1>3, <1>6 DEF Leads

(* A visitor within a binary operation leaves it before it is done.        *)
LEMMA LeavesWhere ==
    ASSUME NEW q, NEW ns \in Seq(AllNodes), NEW r, Leads(q, ns, r), q.inWhere, ~ r.inWhere
    PROVE  \E i \in DOMAIN ns : ns[i].node = "leaveBinary"
<1>1. SUFFICES ASSUME \A i \in 1 .. Len(ns) : ns[i].node # "leaveBinary" PROVE FALSE
  OBVIOUS
<1>2. PICK f : Run(f, q, ns, r)
  BY DEF Leads
<1> DEFINE n == Len(ns)
           T == {i \in Nat : i <= n => f[i].inWhere}
<1>3. /\ n \in Nat /\ f \in [0 .. n -> Queries] /\ f[0] = q /\ f[n] = r
      /\ \A i \in 1 .. n : f[i] = Visited(f[i - 1], ns[i])
  BY <1>2 DEF Run
<1>4. 0 \in T
  BY <1>3
<1>5. ASSUME NEW i \in Nat, i \in T PROVE i + 1 \in T
  <2>1. SUFFICES ASSUME i + 1 <= n PROVE f[i + 1].inWhere
    OBVIOUS
  <2>2. i + 1 \in 1 .. n /\ (i + 1) - 1 = i /\ i \in 0 .. n /\ f[i].inWhere
    BY <1>3, <1>5, <2>1
  <2>3. f[i + 1] = Visited(f[i], ns[i + 1]) /\ f[i] \in Queries /\ ns[i + 1] \in AllNodes
        /\ ns[i + 1].node # "leaveBinary"
    <3>1. ns[i + 1] \in AllNodes
      BY <2>2
    <3>2. QED
      BY <1>1, <1>3, <2>2, <3>1
  <2> DEFINE a == f[i]
             x == ns[i + 1]
  <2> HIDE DEF a, x, n, T
  <2>4. a \in Queries /\ x \in AllNodes /\ x.node # "leaveBinary" /\ a.inWhere
    BY <2>2, <2>3 DEF a, x
  <2>5. Visited(a, x).inWhere
    <3>1. x.node \in Kinds \cup {"statement"}
      BY <2>4 DEF AllNodes, Nodes
    <3>2. x.node \in {"binary", "statement", "column", "value"}
      BY <2>4, <3>1 DEF Kinds
    <3>3. /\ x.node = "statement" => Visited(a, x) = [a EXCEPT !.statement = x.is]
          /\ x.node = "binary" => Visited(a, x) = [a EXCEPT !.inWhere = TRUE, !.whereOp = x.is]
          /\ x.node = "column" => Visited(a, x) = [a EXCEPT !.whereColumns = Append(@, x.is)]
          /\ x.node = "value" => Visited(a, x) = [a EXCEPT !.whereValues = Append(@, x.is)]
      BY <2>4, VisitedCases
    <3>4. QED
      BY <2>4, <3>2, <3>3 DEF Queries
  <2>6. QED
    BY <2>3, <2>5 DEF a, x
<1>6. Nat \subseteq T
  <2> HIDE DEF T
  <2>1. QED
    BY <1>4, <1>5, Induction
<1>7. QED
  BY <1>3, <1>6

(* A longer beginning of a sequence, joined to another one.                *)
LEMMA SliceGrows ==
    ASSUME NEW S, NEW a \in Seq(S), NEW q \in Seq(S), NEW i \in 1 .. Len(q)
    PROVE  /\ q[i] \in S
           /\ a \o SubSeq(q, 1, i - 1) \in Seq(S)
           /\ a \o SubSeq(q, 1, i) \in Seq(S)
           /\ a \o SubSeq(q, 1, i) = Append(a \o SubSeq(q, 1, i - 1), q[i])
<1>1. /\ Len(q) \in Nat /\ i \in Nat /\ i <= Len(q) /\ q[i] \in S
      /\ i \in 0 .. Len(q) /\ i - 1 \in 0 .. Len(q)
  OBVIOUS
<1> DEFINE u == SubSeq(q, 1, i - 1)
           v == SubSeq(q, 1, i)
<1>2. u \in Seq(S) /\ v \in Seq(S)
  BY <1>1, Slice
<1>3. /\ Len(u) = i - 1 /\ \A j \in 1 .. i - 1 : u[j] = q[j]
      /\ Len(v) = i /\ \A j \in 1 .. i : v[j] = q[j]
  BY <1>1, SubSeqProperties
<1> HIDE DEF u, v
<1>4. v = Append(u, q[i])
  BY <1>1, <1>2, <1>3
<1>5. a \o v = Append(a \o u, q[i])
  BY <1>1, <1>2, <1>4, ConcatAppend
<1>6. QED
  BY <1>1, <1>2, <1>5 DEF u, v

(* The same of all sequences of strings, by a name.                        *)
Longer(a, q, i) == a \o SubSeq(q, 1, i) = Append(a \o SubSeq(q, 1, i - 1), q[i])

(* The first i elements added to a are the first i - 1 of them and one     *)
(* more.                                                                   *)
LEMMA SlicesGrow == \A a, q \in Seq(STRING) : \A i \in 1 .. Len(q) : Longer(a, q, i)
<1>1. SUFFICES ASSUME NEW a \in Seq(STRING), NEW q \in Seq(STRING), NEW i \in 1 .. Len(q)
               PROVE  Longer(a, q, i)
  OBVIOUS
<1>2. a \o SubSeq(q, 1, i) = Append(a \o SubSeq(q, 1, i - 1), q[i])
  BY SliceGrows
<1>3. QED
  BY <1>2 DEF Longer

(* The empty prefix and the whole of a sequence, appended.                 *)
LEMMA EmptySlice ==
    ASSUME NEW S, NEW a \in Seq(S), NEW q \in Seq(S)
    PROVE  a \o SubSeq(q, 1, 0) = a /\ a \o SubSeq(q, 1, Len(q)) = a \o q
<1>1. SubSeq(q, 1, 0) = <<>> /\ SubSeq(q, 1, Len(q)) = q
  OBVIOUS
<1>2. a \o <<>> = a
  OBVIOUS
<1>3. QED
  BY <1>1, <1>2

(* The fields of a node.                                                   *)
LEMMA NodeIs == \A k, x : Node(k, x).node = k /\ Node(k, x).is = x
BY DEF Node

(* Nodes that carry a string are nodes of a statement.                     *)
LEMMA NodeAll ==
    \A x \in STRING :
        /\ Node("binary", x) \in AllNodes
        /\ Node("column", x) \in AllNodes /\ Node("value", x) \in AllNodes
        /\ Node("leaveBinary", x) \in AllNodes
        /\ Node("column", x) \in Nodes /\ Node("value", x) \in Nodes
BY DEF Node, AllNodes, Nodes, Kinds

(* Outside a WHERE clause a column or a value goes to the first two lists. *)
LEMMA PartVisited ==
    \A a \in Queries, x \in AllNodes :
        ~ a.inWhere =>
            /\ x.node = "column" => Visited(a, x) = [a EXCEPT !.columns = Append(a.columns, x.is)]
            /\ x.node = "value" => Visited(a, x) = [a EXCEPT !.values = Append(a.values, x.is)]
<1>1. SUFFICES ASSUME NEW a \in Queries, NEW x \in AllNodes, ~ a.inWhere
      PROVE  /\ x.node = "column" => Visited(a, x) = [a EXCEPT !.columns = Append(a.columns, x.is)]
             /\ x.node = "value" => Visited(a, x) = [a EXCEPT !.values = Append(a.values, x.is)]
  BY Zenon
<1>2. QED
  BY <1>1, VisitedCases

(* The first node of a statement says its kind.                            *)
LEMMA KindVisited ==
    \A a \in Queries, x \in AllNodes :
        x.node = "statement" => Visited(a, x) = [a EXCEPT !.statement = x.is]
BY DEF Visited, Enter

(* The columns of a statement are appended to the list, in order.          *)
LEMMA ColumnsVisited ==
    ASSUME NEW q \in Queries, ~ q.inWhere, NEW cols \in Seq(STRING)
    PROVE  /\ ColumnNodes(cols) \in Seq(Nodes)
           /\ Leads(q, ColumnNodes(cols), [q EXCEPT !.columns = @ \o cols])
<1> DEFINE n == Len(cols)
           ns == ColumnNodes(cols)
           r == [q EXCEPT !.columns = @ \o cols]
           f == [i \in 0 .. n |-> [q EXCEPT !.columns = @ \o SubSeq(cols, 1, i)]]
<1>1. n \in Nat /\ DOMAIN cols = 1 .. n /\ q.columns \in Seq(STRING)
  BY DEF Queries
<1>2. ASSUME NEW i \in 1 .. n
      PROVE  ns[i] = Node("column", cols[i]) /\ ns[i] \in AllNodes /\ ns[i] \in Nodes
  <2>1. ns[i] = Node("column", cols[i])
    BY <1>1 DEF ColumnNodes
  <2>2. cols[i] \in STRING
    BY <1>1
  <2>3. QED
    BY <2>1, <2>2, NodeAll
<1>3. ns \in Seq(Nodes) /\ Len(ns) = n
  BY <1>1, <1>2 DEF ColumnNodes
<1>4. ASSUME NEW i \in 0 .. n PROVE [q EXCEPT !.columns = @ \o SubSeq(cols, 1, i)] \in Queries
  <2>1. SubSeq(cols, 1, i) \in Seq(STRING)
    BY <1>1, Slice
  <2>2. q.columns \o SubSeq(cols, 1, i) \in Seq(STRING)
    BY <1>1, <2>1
  <2>3. QED
    BY <2>2 DEF Queries
<1>5. f \in [0 .. n -> Queries]
  BY <1>4
<1>6. f[0] = q /\ f[n] = r
  <2>1. q.columns \o SubSeq(cols, 1, 0) = q.columns /\ q.columns \o SubSeq(cols, 1, n) = q.columns \o cols
    BY <1>1, EmptySlice
  <2>2. f[n] = [q EXCEPT !.columns = @ \o SubSeq(cols, 1, n)] /\ f[0] = [q EXCEPT !.columns = @ \o SubSeq(cols, 1, 0)]
    BY <1>1
  <2>3. [q EXCEPT !.columns = q.columns] = q
    BY DEF Queries
  <2>4. QED
    BY <2>1, <2>2, <2>3
<1>7. ASSUME NEW i \in 1 .. n PROVE f[i] = Visited(f[i - 1], ns[i])
  <2>1. i \in 0 .. n /\ i - 1 \in 0 .. n
    BY <1>1
  <2> DEFINE a == [q EXCEPT !.columns = @ \o SubSeq(cols, 1, i - 1)]
             u == q.columns \o SubSeq(cols, 1, i - 1)
             v == q.columns \o SubSeq(cols, 1, i)
  <2>2. v = Append(u, cols[i])
    BY <1>1, SliceGrows
  <2>3. a \in Queries /\ a.columns = u /\ ~ a.inWhere
    BY <1>4, <2>1 DEF Queries
  <2>4. f[i - 1] = a /\ f[i] = [q EXCEPT !.columns = v]
    BY <2>1
  <2>5. a = [q EXCEPT !.columns = u]
    OBVIOUS
  <2> HIDE DEF f, a, u, v, ns, n
  <2>6. Visited(a, ns[i]) = [a EXCEPT !.columns = Append(@, cols[i])]
    <3>1. ns[i] \in AllNodes /\ ns[i].node = "column" /\ ns[i].is = cols[i]
      BY <1>2, NodeIs
    <3> DEFINE x == ns[i]
    <3>2. x \in AllNodes /\ x.node = "column" /\ x.is = cols[i]
      BY <3>1
    <3> HIDE DEF x
    <3>3. Visited(a, x) = [a EXCEPT !.columns = Append(a.columns, x.is)]
      BY <2>3, <3>2, PartVisited
    <3>4. QED
      BY <3>2, <3>3 DEF x
  <2>7. Visited(a, ns[i]) = [q EXCEPT !.columns = v]
    BY <2>2, <2>3, <2>5, <2>6 DEF Queries
  <2>8. QED
    BY <2>4, <2>7
<1> HIDE DEF f, n, ns, r
<1>8. Run(f, q, ns, r)
  BY <1>3, <1>5, <1>6, <1>7 DEF Run
<1>9. QED
  BY <1>3, <1>8 DEF Leads, ns, r

(* So are its values.                                                      *)
LEMMA ValuesVisited ==
    ASSUME NEW q \in Queries, ~ q.inWhere, NEW vals \in Seq(STRING)
    PROVE  /\ ValueNodes(vals) \in Seq(Nodes)
           /\ Leads(q, ValueNodes(vals), [q EXCEPT !.values = @ \o vals])
<1> DEFINE n == Len(vals)
           ns == ValueNodes(vals)
           r == [q EXCEPT !.values = @ \o vals]
           f == [i \in 0 .. n |-> [q EXCEPT !.values = @ \o SubSeq(vals, 1, i)]]
<1>1. n \in Nat /\ DOMAIN vals = 1 .. n /\ q.values \in Seq(STRING)
  BY DEF Queries
<1>2. ASSUME NEW i \in 1 .. n
      PROVE  ns[i] = Node("value", vals[i]) /\ ns[i] \in AllNodes /\ ns[i] \in Nodes
  <2>1. ns[i] = Node("value", vals[i])
    BY <1>1 DEF ValueNodes
  <2>2. vals[i] \in STRING
    BY <1>1
  <2>3. QED
    BY <2>1, <2>2, NodeAll
<1>3. ns \in Seq(Nodes) /\ Len(ns) = n
  BY <1>1, <1>2 DEF ValueNodes
<1>4. ASSUME NEW i \in 0 .. n PROVE [q EXCEPT !.values = @ \o SubSeq(vals, 1, i)] \in Queries
  <2>1. SubSeq(vals, 1, i) \in Seq(STRING)
    BY <1>1, Slice
  <2>2. q.values \o SubSeq(vals, 1, i) \in Seq(STRING)
    BY <1>1, <2>1
  <2>3. QED
    BY <2>2 DEF Queries
<1>5. f \in [0 .. n -> Queries]
  BY <1>4
<1>6. f[0] = q /\ f[n] = r
  <2>1. q.values \o SubSeq(vals, 1, 0) = q.values /\ q.values \o SubSeq(vals, 1, n) = q.values \o vals
    BY <1>1, EmptySlice
  <2>2. f[n] = [q EXCEPT !.values = @ \o SubSeq(vals, 1, n)] /\ f[0] = [q EXCEPT !.values = @ \o SubSeq(vals, 1, 0)]
    BY <1>1
  <2>3. [q EXCEPT !.values = q.values] = q
    BY DEF Queries
  <2>4. QED
    BY <2>1, <2>2, <2>3
<1>7. ASSUME NEW i \in 1 .. n PROVE f[i] = Visited(f[i - 1], ns[i])
  <2>1. i \in 0 .. n /\ i - 1 \in 0 .. n
    BY <1>1
  <2> DEFINE a == [q EXCEPT !.values = @ \o SubSeq(vals, 1, i - 1)]
             u == q.values \o SubSeq(vals, 1, i - 1)
             v == q.values \o SubSeq(vals, 1, i)
  <2>2. v = Append(u, vals[i])
    BY <1>1, SliceGrows
  <2>3. a \in Queries /\ a.values = u /\ ~ a.inWhere
    BY <1>4, <2>1 DEF Queries
  <2>4. f[i - 1] = a /\ f[i] = [q EXCEPT !.values = v]
    BY <2>1
  <2>5. a = [q EXCEPT !.values = u]
    OBVIOUS
  <2> HIDE DEF f, a, u, v, ns, n
  <2>6. Visited(a, ns[i]) = [a EXCEPT !.values = Append(@, vals[i])]
    <3>1. ns[i] \in AllNodes /\ ns[i].node = "value" /\ ns[i].is = vals[i]
      BY <1>2, NodeIs
    <3> DEFINE x == ns[i]
    <3>2. x \in AllNodes /\ x.node = "value" /\ x.is = vals[i]
      BY <3>1
    <3> HIDE DEF x
    <3>3. Visited(a, x) = [a EXCEPT !.values = Append(a.values, x.is)]
      BY <2>3, <3>2, PartVisited
    <3>4. QED
      BY <3>2, <3>3 DEF x
  <2>7. Visited(a, ns[i]) = [q EXCEPT !.values = v]
    BY <2>2, <2>3, <2>5, <2>6 DEF Queries
  <2>8. QED
    BY <2>4, <2>7
<1> HIDE DEF f, n, ns, r
<1>8. Run(f, q, ns, r)
  BY <1>3, <1>5, <1>6, <1>7 DEF Run
<1>9. QED
  BY <1>3, <1>8 DEF Leads, ns, r

(* Columns and values in turn.                                             *)
LEMMA AssignmentsVisited ==
    ASSUME NEW q \in Queries, ~ q.inWhere, NEW st, st.columns \in Seq(STRING),
           st.values \in Seq(STRING), Len(st.values) = Len(st.columns)
    PROVE  /\ AssignmentNodes(st) \in Seq(Nodes)
           /\ Leads(q, AssignmentNodes(st),
                    [q EXCEPT !.columns = @ \o st.columns, !.values = @ \o st.values])
<1> DEFINE cols == st.columns
           vals == st.values
           m == Len(cols)
           n == 2 * m
           ns == AssignmentNodes(st)
           C(i) == q.columns \o SubSeq(cols, 1, i)
           V(i) == q.values \o SubSeq(vals, 1, i)
           Q(i, j) == [q EXCEPT !.columns = C(i), !.values = V(j)]
           f == [i \in 0 .. n |-> Q((i + 1) \div 2, i \div 2)]
<1>1. /\ m \in Nat /\ n \in Nat /\ DOMAIN cols = 1 .. m /\ DOMAIN vals = 1 .. m
      /\ cols \in Seq(STRING) /\ vals \in Seq(STRING) /\ Len(vals) = m
  OBVIOUS
<1>2. q.columns \in Seq(STRING) /\ q.values \in Seq(STRING)
  BY DEF Queries
<1>3. \A i \in 1 .. m : cols[i] \in STRING /\ vals[i] \in STRING
  BY <1>1
<1>4. \A i \in 0 .. m : C(i) \in Seq(STRING) /\ V(i) \in Seq(STRING)
  <2>1. SUFFICES ASSUME NEW i \in 0 .. m PROVE C(i) \in Seq(STRING) /\ V(i) \in Seq(STRING)
    OBVIOUS
  <2>2. SubSeq(cols, 1, i) \in Seq(STRING) /\ SubSeq(vals, 1, i) \in Seq(STRING)
    BY <1>1, Slice
  <2>3. QED
    BY <1>2, <2>2
<1>5. \A i \in 1 .. m : C(i) = Append(C(i - 1), cols[i]) /\ V(i) = Append(V(i - 1), vals[i])
  <2>1. SUFFICES ASSUME NEW i \in 1 .. m
                 PROVE  C(i) = Append(C(i - 1), cols[i]) /\ V(i) = Append(V(i - 1), vals[i])
    OBVIOUS
  <2>2. i \in 1 .. Len(cols) /\ i \in 1 .. Len(vals)
    BY <1>1
  <2> HIDE DEF cols, vals, m, n
  <2>3. Longer(q.columns, cols, i) /\ Longer(q.values, vals, i)
    BY <1>1, <1>2, <2>2, SlicesGrow
  <2>4. QED
    BY <2>3 DEF Longer
<1>6. /\ C(0) = q.columns /\ C(m) = q.columns \o cols
      /\ V(0) = q.values /\ V(m) = q.values \o vals
  <2>1. C(0) = q.columns /\ C(m) = q.columns \o cols
    BY <1>1, <1>2, EmptySlice
  <2>2. V(0) = q.values /\ V(Len(vals)) = q.values \o vals
    <3> HIDE DEF vals
    <3>1. QED
      BY <1>1, <1>2, EmptySlice
  <2>3. QED
    BY <1>1, <2>1, <2>2
<1>7. \A i, j \in 0 .. m : Q(i, j) \in Queries
  <2> HIDE DEF C, V, m
  <2>1. QED
    BY <1>4 DEF Queries
<1>8. \A i \in 1 .. n :
         ns[i] = IF i % 2 = 1 THEN Node("column", cols[(i + 1) \div 2]) ELSE Node("value", vals[i \div 2])
  BY DEF AssignmentNodes
<1>9. ns \in Seq(Nodes) /\ ns \in Seq(AllNodes) /\ Len(ns) = n
  <2>1. ASSUME NEW i \in 1 .. n
        PROVE  (IF i % 2 = 1 THEN Node("column", cols[(i + 1) \div 2]) ELSE Node("value", vals[i \div 2]))
                  \in AllNodes \cap Nodes
    <3> HIDE DEF cols, vals, m
    <3>1. (i % 2 = 1 => (i + 1) \div 2 \in 1 .. m) /\ (i % 2 # 1 => i \div 2 \in 1 .. m)
      BY <1>1
    <3>2. CASE i % 2 = 1
      BY <1>3, <3>1, <3>2, NodeAll
    <3>3. CASE i % 2 # 1
      BY <1>3, <3>1, <3>3, NodeAll
    <3>4. QED
      BY <3>2, <3>3
  <2>2. ns = [i \in 1 .. n |-> IF i % 2 = 1 THEN Node("column", cols[(i + 1) \div 2])
                               ELSE Node("value", vals[i \div 2])]
    BY DEF AssignmentNodes
  <2> HIDE DEF ns, n, cols, vals
  <2>3. ns \in [1 .. n -> AllNodes] /\ ns \in [1 .. n -> Nodes]
    BY <2>1, <2>2
  <2>4. QED
    BY <1>1, <2>3
<1>10. f \in [0 .. n -> Queries]
  <2> HIDE DEF Q
  <2>1. \A i \in 0 .. n : (i + 1) \div 2 \in 0 .. m /\ i \div 2 \in 0 .. m
    BY <1>1
  <2>2. QED
    BY <1>7, <2>1
<1>11. f[0] = q /\ f[n] = [q EXCEPT !.columns = @ \o cols, !.values = @ \o vals]
  <2>1. /\ (0 + 1) \div 2 = 0 /\ 0 \div 2 = 0 /\ (n + 1) \div 2 = m /\ n \div 2 = m
        /\ 0 \in 0 .. n /\ n \in 0 .. n
    <3> HIDE DEF m
    <3>1. m \in Nat
      BY <1>1
    <3>2. (2 * m + 1) \div 2 = m /\ (2 * m) \div 2 = m
      BY <3>1
    <3>3. (0 + 1) \div 2 = 0 /\ 0 \div 2 = 0
      OBVIOUS
    <3>4. 0 \in 0 .. n /\ n \in 0 .. n
      BY <3>1
    <3>5. QED
      BY <3>2, <3>3, <3>4
  <2>2. f[0] = Q(0, 0) /\ f[n] = Q(m, m)
    <3> HIDE DEF Q, n, m
    <3>1. QED
      BY <2>1
  <2>3. Q(0, 0) = q
    <3>1. Q(0, 0) = [q EXCEPT !.columns = q.columns, !.values = q.values]
      BY <1>6
    <3>2. [q EXCEPT !.columns = q.columns, !.values = q.values] = q
      BY DEF Queries
    <3>3. QED
      BY <3>1, <3>2
  <2>4. Q(m, m) = [q EXCEPT !.columns = @ \o cols, !.values = @ \o vals]
    <3> HIDE DEF C, V, cols, vals, m
    <3>1. QED
      BY <1>6
  <2>5. QED
    BY <2>2, <2>3, <2>4
<1>12. ASSUME NEW i \in 1 .. m, NEW j \in 0 .. m, NEW x \in AllNodes, x = Node("column", cols[i])
       PROVE  Visited(Q(i - 1, j), x) = Q(i, j)
  <2>1. i - 1 \in 0 .. m
    BY <1>1
  <2> DEFINE a == Q(i - 1, j)
  <2>2. a \in Queries
    BY <1>7, <2>1
  <2> HIDE DEF C, V, cols, m
  <2>3. a.columns = C(i - 1) /\ ~ a.inWhere
    BY DEF Queries
  <2>4. x.node = "column" /\ x.is = cols[i]
    BY <1>12, NodeIs
  <2>5. Visited(a, x) = [a EXCEPT !.columns = Append(@, cols[i])]
    <3> HIDE DEF a
    <3>1. Visited(a, x) = [a EXCEPT !.columns = Append(a.columns, x.is)]
      BY <2>2, <2>3, <2>4, PartVisited
    <3>2. QED
      BY <2>4, <3>1
  <2>6. Append(C(i - 1), cols[i]) = C(i)
    BY <1>5
  <2>7. [a EXCEPT !.columns = C(i)] = Q(i, j)
    BY DEF Queries
  <2>8. QED
    BY <2>3, <2>5, <2>6, <2>7
<1>13. ASSUME NEW i \in 0 .. m, NEW j \in 1 .. m, NEW x \in AllNodes, x = Node("value", vals[j])
       PROVE  Visited(Q(i, j - 1), x) = Q(i, j)
  <2>1. j - 1 \in 0 .. m
    BY <1>1
  <2> DEFINE a == Q(i, j - 1)
  <2>2. a \in Queries
    BY <1>7, <2>1
  <2> HIDE DEF C, V, vals, m
  <2>3. a.values = V(j - 1) /\ ~ a.inWhere
    BY DEF Queries
  <2>4. x.node = "value" /\ x.is = vals[j]
    BY <1>13, NodeIs
  <2>5. Visited(a, x) = [a EXCEPT !.values = Append(@, vals[j])]
    <3> HIDE DEF a
    <3>1. Visited(a, x) = [a EXCEPT !.values = Append(a.values, x.is)]
      BY <2>2, <2>3, <2>4, PartVisited
    <3>2. QED
      BY <2>4, <3>1
  <2>6. Append(V(j - 1), vals[j]) = V(j)
    BY <1>5
  <2>7. [a EXCEPT !.values = V(j)] = Q(i, j)
    BY DEF Queries
  <2>8. QED
    BY <2>3, <2>5, <2>6, <2>7
<1>14. ASSUME NEW i \in 1 .. n PROVE f[i] = Visited(f[i - 1], ns[i])
  <2>1. i \in 0 .. n /\ i - 1 \in 0 .. n /\ ns[i] \in AllNodes
    <3>1. ns[i] \in AllNodes
      <4> HIDE DEF ns, n
      <4>1. QED
        BY <1>9
    <3>2. QED
      BY <1>1, <3>1
  <2> HIDE DEF Q, ns, cols, vals, m
  <2>2. CASE i % 2 = 1
    <3> DEFINE k == (i + 1) \div 2
    <3>1. k \in 1 .. m /\ i \div 2 = k - 1 /\ ((i - 1) + 1) \div 2 = k - 1 /\ (i - 1) \div 2 = k - 1
          /\ k - 1 \in 0 .. m
      BY <1>1, <2>2
    <3>2. ns[i] = Node("column", cols[k])
      BY <1>8, <2>2
    <3> HIDE DEF k
    <3>3. f[i] = Q(k, k - 1) /\ f[i - 1] = Q(k - 1, k - 1)
      BY <2>1, <3>1 DEF k
    <3> HIDE DEF f
    <3>4. QED
      BY <1>12, <2>1, <3>1, <3>2, <3>3
  <2>3. CASE i % 2 # 1
    <3> DEFINE k == i \div 2
    <3>1. k \in 1 .. m /\ (i + 1) \div 2 = k /\ ((i - 1) + 1) \div 2 = k /\ (i - 1) \div 2 = k - 1
          /\ k \in 0 .. m
      BY <1>1, <2>3
    <3>2. ns[i] = Node("value", vals[k])
      BY <1>8, <2>3
    <3> HIDE DEF k
    <3>3. f[i] = Q(k, k) /\ f[i - 1] = Q(k, k - 1)
      BY <2>1, <3>1 DEF k
    <3> HIDE DEF f
    <3>4. QED
      BY <1>13, <2>1, <3>1, <3>2, <3>3
  <2>4. QED
    BY <2>2, <2>3
<1> DEFINE r == [q EXCEPT !.columns = @ \o cols, !.values = @ \o vals]
<1>15. Run(f, q, ns, r)
  <2> HIDE DEF f, n, ns, cols, vals
  <2>1. QED
    BY <1>9, <1>10, <1>11, <1>14 DEF Run
<1>16. QED
  BY <1>9, <1>15 DEF Leads

(* The elements of a sequence one longer.                                  *)
LEMMA AppendParts ==
    ASSUME NEW S, NEW t \in Seq(S), NEW c \in S
    PROVE  /\ Append(t, c) \in Seq(S) /\ Len(Append(t, c)) = Len(t) + 1
           /\ Append(t, c)[Len(t) + 1] = c
           /\ \A i \in 1 .. Len(t) : Append(t, c)[i] = t[i]
OBVIOUS

(* Tuples of two and of four elements.                                     *)
LEMMA PairJoined ==
    ASSUME NEW S, NEW a \in S, NEW b \in S
    PROVE  <<a>> \o <<b>> = <<a, b>>
<1> DEFINE s == <<a>> \o <<b>>
<1>1. s \in Seq(S) /\ Len(s) = 2 /\ s[1] = a /\ s[2] = b
  OBVIOUS
<1> HIDE DEF s
<1>2. s = <<a, b>>
  BY <1>1
<1>3. QED
  BY <1>2 DEF s

(* Four elements joined one at a time.                                     *)
LEMMA FourJoined ==
    ASSUME NEW S, NEW a \in S, NEW b \in S, NEW c \in S, NEW d \in S
    PROVE  ((<<a>> \o <<b>>) \o <<c>>) \o <<d>> = <<a, b, c, d>>
<1> DEFINE t == <<a, b>>
           u == t \o <<c>>
           s == u \o <<d>>
<1>1. t \in Seq(S) /\ Len(t) = 2 /\ t[1] = a /\ t[2] = b
  OBVIOUS
<1> HIDE DEF t
<1>2. u \in Seq(S) /\ Len(u) = 3 /\ u[1] = a /\ u[2] = b /\ u[3] = c
  <2>1. u = Append(t, c)
    BY <1>1, AppendedOne
  <2> HIDE DEF u
  <2>2. QED
    <3>1. /\ u \in Seq(S) /\ Len(u) = Len(t) + 1 /\ u[Len(t) + 1] = c
          /\ \A i \in 1 .. Len(t) : u[i] = t[i]
      <4>1. t \in Seq(S)
        BY <1>1
      <4>2. /\ Append(t, c) \in Seq(S) /\ Len(Append(t, c)) = Len(t) + 1
            /\ Append(t, c)[Len(t) + 1] = c
            /\ \A i \in 1 .. Len(t) : Append(t, c)[i] = t[i]
        BY <4>1, AppendParts
      <4>3. QED
        BY <2>1, <4>2
    <3>2. QED
      BY <1>1, <3>1
<1> HIDE DEF u
<1>3. s \in Seq(S) /\ Len(s) = 4 /\ s[1] = a /\ s[2] = b /\ s[3] = c /\ s[4] = d
  <2>1. s = Append(u, d)
    BY <1>2, AppendedOne
  <2> HIDE DEF s
  <2>2. QED
    <3>1. /\ s \in Seq(S) /\ Len(s) = Len(u) + 1 /\ s[Len(u) + 1] = d
          /\ \A i \in 1 .. Len(u) : s[i] = u[i]
      <4>1. u \in Seq(S)
        BY <1>2
      <4>2. /\ Append(u, d) \in Seq(S) /\ Len(Append(u, d)) = Len(u) + 1
            /\ Append(u, d)[Len(u) + 1] = d
            /\ \A i \in 1 .. Len(u) : Append(u, d)[i] = u[i]
        BY <4>1, AppendParts
      <4>3. QED
        BY <2>1, <4>2
    <3>2. QED
      BY <1>2, <3>1
<1> HIDE DEF s
<1>4. s = <<a, b, c, d>>
  BY <1>3
<1>5. <<a>> \o <<b>> = t
  BY PairJoined DEF t
<1>6. QED
  BY <1>4, <1>5 DEF s, u

(* In a WHERE clause they go to the lists of the clause.                   *)
LEMMA WherePartVisited ==
    \A a \in Queries, x \in AllNodes :
        a.inWhere =>
            /\ x.node = "column" => Visited(a, x) = [a EXCEPT !.whereColumns = Append(a.whereColumns, x.is)]
            /\ x.node = "value" => Visited(a, x) = [a EXCEPT !.whereValues = Append(a.whereValues, x.is)]
<1>1. SUFFICES ASSUME NEW a \in Queries, NEW x \in AllNodes, a.inWhere
      PROVE  /\ x.node = "column" => Visited(a, x) = [a EXCEPT !.whereColumns = Append(a.whereColumns, x.is)]
             /\ x.node = "value" => Visited(a, x) = [a EXCEPT !.whereValues = Append(a.whereValues, x.is)]
  BY Zenon
<1>2. QED
  BY <1>1, VisitedCases

(* A visit goes on with one more node.                                     *)
LEMMA LeadsMore ==
    ASSUME NEW q, NEW ns \in Seq(AllNodes), NEW r \in Queries, NEW x \in AllNodes, Leads(q, ns, r)
    PROVE  ns \o <<x>> \in Seq(AllNodes) /\ Leads(q, ns \o <<x>>, Visited(r, x))
<1>1. <<x>> \in Seq(AllNodes) /\ ns \o <<x>> \in Seq(AllNodes)
  OBVIOUS
<1>2. Leads(r, <<x>>, Visited(r, x))
  BY LeadsOne
<1>3. QED
  BY <1>1, <1>2, LeadsJoined

(* The visit of four nodes.                                                *)
LEMMA LeadsFour ==
    ASSUME NEW q \in Queries, NEW a \in AllNodes, NEW b \in AllNodes, NEW c \in AllNodes, NEW d \in AllNodes
    PROVE  Leads(q, <<a, b, c, d>>, Visited(Visited(Visited(Visited(q, a), b), c), d))
<1> DEFINE q1 == Visited(q, a)
           q2 == Visited(q1, b)
           q3 == Visited(q2, c)
<1>1. q1 \in Queries /\ q2 \in Queries /\ q3 \in Queries
  BY VisitedType
<1> HIDE DEF q1, q2, q3
<1>2. <<a>> \in Seq(AllNodes) /\ Leads(q, <<a>>, q1)
  BY LeadsOne DEF q1
<1>3. <<a>> \o <<b>> \in Seq(AllNodes) /\ Leads(q, <<a>> \o <<b>>, q2)
  BY <1>1, <1>2, LeadsMore DEF q2
<1>4. (<<a>> \o <<b>>) \o <<c>> \in Seq(AllNodes) /\ Leads(q, (<<a>> \o <<b>>) \o <<c>>, q3)
  BY <1>1, <1>3, LeadsMore DEF q3
<1>5. Leads(q, ((<<a>> \o <<b>>) \o <<c>>) \o <<d>>, Visited(q3, d))
  BY <1>1, <1>4, LeadsMore
<1>6. ((<<a>> \o <<b>>) \o <<c>>) \o <<d>> = <<a, b, c, d>>
  BY FourJoined
<1>7. QED
  BY <1>5, <1>6 DEF q1, q2, q3

(* The visit of two nodes.                                                 *)
LEMMA LeadsTwo ==
    ASSUME NEW q \in Queries, NEW a \in AllNodes, NEW b \in AllNodes
    PROVE  Leads(q, <<a, b>>, Visited(Visited(q, a), b))
<1>1. Visited(q, a) \in Queries
  BY VisitedType
<1>2. <<a>> \in Seq(AllNodes) /\ Leads(q, <<a>>, Visited(q, a))
  BY LeadsOne
<1>3. Leads(q, <<a>> \o <<b>>, Visited(Visited(q, a), b))
  BY <1>1, <1>2, LeadsMore
<1>4. <<a>> \o <<b>> = <<a, b>>
  BY PairJoined
<1>5. QED
  BY <1>3, <1>4

-----------------------------------------------------------------------------
(* What no clause takes from a query.                                      *)

Grows(q, r) ==
    /\ r \in Queries /\ r.statement = q.statement
    /\ ToSet(q.columns) \subseteq ToSet(r.columns)

(* Outside a WHERE clause the visit leads outside again.                   *)
Keeps(q, r) == Grows(q, r) /\ (~ q.inWhere => ~ r.inWhere)

(* A visit drops nothing from the first two lists.                         *)
LEMMA VisitGrows ==
    ASSUME NEW q \in Queries, NEW x \in AllNodes, x.node # "statement"
    PROVE  /\ Grows(q, Visited(q, x))
           /\ x.node \in {"column", "value"} => Keeps(q, Visited(q, x))
           /\ x.node = "leaveBinary" => ~ Visited(q, x).inWhere
<1> DEFINE r == Visited(q, x)
<1>1. r \in Queries
  BY VisitedType
<1>2. x.node \in {"binary", "column", "value", "leaveBinary"} /\ x.is \in STRING
  BY DEF AllNodes, Nodes, Kinds
<1>3. ToSet(q.columns) \subseteq ToSet(Append(q.columns, x.is))
  <2>1. q.columns \in Seq(STRING)
    BY DEF Queries
  <2>2. QED
    BY <1>2, <2>1 DEF ToSet
<1>4. CASE x.node = "binary"
  <2>1. r = [q EXCEPT !.inWhere = TRUE, !.whereOp = x.is]
    BY <1>4, VisitedCases
  <2> HIDE DEF r
  <2>2. r.statement = q.statement /\ r.columns = q.columns
    BY <2>1 DEF Queries
  <2>3. QED
    BY <1>1, <1>4, <2>2 DEF Grows, r
<1>5. CASE x.node = "column" /\ q.inWhere
  <2>1. r = [q EXCEPT !.whereColumns = Append(@, x.is)]
    BY <1>5, VisitedCases
  <2> HIDE DEF r
  <2>2. r.statement = q.statement /\ r.columns = q.columns
    BY <2>1 DEF Queries
  <2>3. QED
    BY <1>1, <1>5, <2>2 DEF Grows, Keeps, r
<1>6. CASE x.node = "column" /\ ~ q.inWhere
  <2>1. r = [q EXCEPT !.columns = Append(@, x.is)]
    BY <1>6, VisitedCases
  <2> HIDE DEF r
  <2>2. r.statement = q.statement /\ r.columns = Append(q.columns, x.is) /\ ~ r.inWhere
    BY <1>6, <2>1 DEF Queries
  <2>3. QED
    BY <1>1, <1>3, <1>6, <2>2 DEF Grows, Keeps, r
<1>7. CASE x.node = "value" /\ q.inWhere
  <2>1. r = [q EXCEPT !.whereValues = Append(@, x.is)]
    BY <1>7, VisitedCases
  <2> HIDE DEF r
  <2>2. r.statement = q.statement /\ r.columns = q.columns
    BY <2>1 DEF Queries
  <2>3. QED
    BY <1>1, <1>7, <2>2 DEF Grows, Keeps, r
<1>8. CASE x.node = "value" /\ ~ q.inWhere
  <2>1. r = [q EXCEPT !.values = Append(@, x.is)]
    BY <1>8, VisitedCases
  <2> HIDE DEF r
  <2>2. r.statement = q.statement /\ r.columns = q.columns /\ ~ r.inWhere
    BY <1>8, <2>1 DEF Queries
  <2>3. QED
    BY <1>1, <1>8, <2>2 DEF Grows, Keeps, r
<1>9. CASE x.node = "leaveBinary"
  <2>1. r = [q EXCEPT !.inWhere = FALSE]
    BY <1>9, VisitedCases
  <2> HIDE DEF r
  <2>2. r.statement = q.statement /\ r.columns = q.columns /\ ~ r.inWhere
    BY <2>1 DEF Queries
  <2>3. QED
    BY <1>1, <1>9, <2>2 DEF Grows, r
<1>10. QED
  BY <1>2, <1>4, <1>5, <1>6, <1>7, <1>8, <1>9

(* Nor do two.                                                             *)
LEMMA GrowsTwice ==
    ASSUME NEW a, NEW b, NEW c, Grows(a, b), Grows(b, c)
    PROVE  Grows(a, c)
BY DEF Grows

(* The parts of a clause.                                                  *)
LEMMA NodesOfClause ==
    ASSUME NEW e \in Clauses
    PROVE  /\ e.type \in {"compare", "both"} =>
                 Node("binary", e.op) \in AllNodes /\ Node("leaveBinary", e.op) \in AllNodes
           /\ e.type \in {"compare", "match"} =>
                 Node("column", e.column) \in AllNodes /\ Node("value", e.value) \in AllNodes
<1>1. e.type \in {"compare", "both"} => e.op \in STRING
  BY ClausesAssumption
<1>2. e.type \in {"compare", "match"} => e.column \in STRING /\ e.value \in STRING
  BY ClausesAssumption
<1>3. QED
  BY <1>1, <1>2, NodeAll

(* A clause is made of nodes of a statement.                               *)
LEMMA WalkType == \A e \in Clauses : Walk[e] \in Seq(AllNodes)
<1>1. ASSUME NEW ns \in Seq(Nodes) PROVE ns \in Seq(AllNodes)
  <2>1. Nodes \subseteq AllNodes
    BY DEF Nodes, AllNodes
  <2>2. QED
    BY <2>1
<1>2. QED
  BY <1>1, WalkIs DEF Over

(* Whatever the clause, its visit drops nothing and ends outside of it.    *)
LEMMA WalkLeads ==
    \A e \in Clauses : \A q \in Queries : \E r : Leads(q, Walk[e], r) /\ Keeps(q, r)
<1> DEFINE P == {e \in Clauses : \A q \in Queries : \E r : Leads(q, Walk[e], r) /\ Keeps(q, r)}
<1>1. ASSUME NEW e \in Clauses, \A d \in Clauses : Nesting[d] < Nesting[e] => d \in P
      PROVE  e \in P
  <2>0. Walk[e] = WalkStep(e, Walk)
    BY WalkIs
  <2>1. SUFFICES ASSUME NEW q \in Queries PROVE \E r : Leads(q, Walk[e], r) /\ Keeps(q, r)
    OBVIOUS
  <2>2. CASE e.type = "none"
    <3>1. Walk[e] = <<>>
      BY <2>0, <2>2 DEF WalkStep
    <3>2. Leads(q, <<>>, q) /\ Keeps(q, q)
      BY LeadsEmpty DEF Keeps, Grows
    <3>3. QED
      BY <3>1, <3>2
  <2>3. CASE e.type = "compare"
    <3> DEFINE a == Node("binary", e.op)
               b == Node("column", e.column)
               c == Node("value", e.value)
               d == Node("leaveBinary", e.op)
    <3>1. Walk[e] = <<a, b, c, d>>
      BY <2>0, <2>3 DEF WalkStep
    <3>2. a \in AllNodes /\ b \in AllNodes /\ c \in AllNodes /\ d \in AllNodes
      BY <2>3, NodesOfClause
    <3>3. a.node = "binary" /\ b.node = "column" /\ c.node = "value" /\ d.node = "leaveBinary"
      BY NodeIs
    <3> HIDE DEF a, b, c, d
    <3> DEFINE q1 == Visited(q, a)
               q2 == Visited(q1, b)
               q3 == Visited(q2, c)
               q4 == Visited(q3, d)
    <3>4. Leads(q, <<a, b, c, d>>, q4)
      BY <3>2, LeadsFour
    <3>5. q1 \in Queries /\ Grows(q, q1)
      BY <3>2, <3>3, VisitGrows, VisitedType
    <3> HIDE DEF q1
    <3>6. q2 \in Queries /\ Grows(q1, q2)
      BY <3>2, <3>3, <3>5, VisitGrows, VisitedType
    <3> HIDE DEF q2
    <3>7. q3 \in Queries /\ Grows(q2, q3)
      BY <3>2, <3>3, <3>6, VisitGrows, VisitedType
    <3> HIDE DEF q3
    <3>8. Grows(q3, q4) /\ ~ q4.inWhere
      BY <3>2, <3>3, <3>7, VisitGrows
    <3> HIDE DEF q4
    <3>9. Keeps(q, q4)
      BY <3>5, <3>6, <3>7, <3>8, GrowsTwice DEF Keeps
    <3>10. QED
      BY <3>1, <3>4, <3>9
  <2>4. CASE e.type = "match"
    <3> DEFINE b == Node("column", e.column)
               c == Node("value", e.value)
    <3>1. Walk[e] = <<b, c>>
      BY <2>0, <2>4 DEF WalkStep
    <3>2. b \in AllNodes /\ c \in AllNodes
      BY <2>4, NodesOfClause
    <3>3. b.node = "column" /\ c.node = "value"
      BY NodeIs
    <3> HIDE DEF b, c
    <3> DEFINE q1 == Visited(q, b)
               q2 == Visited(q1, c)
    <3>4. Leads(q, <<b, c>>, q2)
      BY <3>2, LeadsTwo
    <3>5. q1 \in Queries /\ Keeps(q, q1)
      BY <3>2, <3>3, VisitGrows, VisitedType
    <3> HIDE DEF q1
    <3>6. Keeps(q1, q2)
      BY <3>2, <3>3, <3>5, VisitGrows
    <3> HIDE DEF q2
    <3>7. Keeps(q, q2)
      BY <3>5, <3>6, GrowsTwice DEF Keeps
    <3>8. QED
      BY <3>1, <3>4, <3>7
  <2>5. CASE e.type = "not"
    <3>1. Walk[e] = Walk[e.arg]
      BY <2>0, <2>5 DEF WalkStep
    <3>2. e.arg \in P
      BY <1>1, <2>5, ClausesAssumption
    <3>3. QED
      BY <3>1, <3>2
  <2>6. CASE e.type = "both"
    <3> DEFINE a == Node("binary", e.op)
               d == Node("leaveBinary", e.op)
               L == Walk[e.left]
               R == Walk[e.right]
    <3>1. Walk[e] = <<a>> \o L \o R \o <<d>>
      BY <2>0, <2>6 DEF WalkStep
    <3>2. a \in AllNodes /\ d \in AllNodes
      BY <2>6, NodesOfClause
    <3>3. a.node = "binary" /\ d.node = "leaveBinary"
      BY NodeIs
    <3>4. e.left \in P /\ e.right \in P /\ e.left \in Clauses /\ e.right \in Clauses
      BY <1>1, <2>6, ClausesAssumption
    <3>5. L \in Seq(AllNodes) /\ R \in Seq(AllNodes)
      BY <3>4, WalkType
    <3> HIDE DEF a, d
    <3> DEFINE q1 == Visited(q, a)
    <3>6. q1 \in Queries /\ Grows(q, q1) /\ Leads(q, <<a>>, q1) /\ <<a>> \in Seq(AllNodes)
      BY <3>2, <3>3, VisitGrows, VisitedType, LeadsOne
    <3> HIDE DEF q1
    <3>7. PICK q2 : Leads(q1, L, q2) /\ Keeps(q1, q2)
      BY <3>4, <3>6
    <3>8. q2 \in Queries
      BY <3>7 DEF Keeps, Grows
    <3>9. PICK q3 : Leads(q2, R, q3) /\ Keeps(q2, q3)
      BY <3>4, <3>8
    <3>10. q3 \in Queries
      BY <3>9 DEF Keeps, Grows
    <3> HIDE DEF L, R, P
    <3>11. <<a>> \o L \in Seq(AllNodes) /\ Leads(q, <<a>> \o L, q2)
      <4>1. <<a>> \o L \in Seq(AllNodes)
        BY <3>5, <3>6
      <4>2. QED
        BY <3>5, <3>6, <3>7, <4>1, LeadsJoined
    <3>12. <<a>> \o L \o R \in Seq(AllNodes) /\ Leads(q, <<a>> \o L \o R, q3)
      <4>1. <<a>> \o L \o R \in Seq(AllNodes)
        BY <3>5, <3>11
      <4>2. QED
        BY <3>5, <3>9, <3>11, <4>1, LeadsJoined
    <3> DEFINE q4 == Visited(q3, d)
    <3>13. Leads(q, <<a>> \o L \o R \o <<d>>, q4)
      BY <3>2, <3>10, <3>12, LeadsMore
    <3>14. Grows(q3, q4) /\ ~ q4.inWhere
      BY <3>2, <3>3, <3>10, VisitGrows
    <3> HIDE DEF q4
    <3>15. Keeps(q, q4)
      BY <3>6, <3>7, <3>9, <3>14, GrowsTwice DEF Keeps
    <3>16. QED
      BY <3>1, <3>13, <3>15
  <2>7. QED
    BY <2>2, <2>3, <2>4, <2>5, <2>6, ClausesAssumption
<1>2. Clauses \subseteq P
  <2> HIDE DEF P
  <2>1. QED
    BY <1>1, ClauseInduction
<1>3. QED
  BY <1>2

(* A simple clause does what it says.                                      *)
Searched(q, e) ==
    IF e.type = "none" THEN q
    ELSE [q EXCEPT !.whereOp = e.op, !.whereColumns = Append(@, e.column),
                   !.whereValues = Append(@, e.value)]

(* The visit of a clause of at most one comparison collects just that.     *)
LEMMA SimpleWalk ==
    ASSUME NEW e \in Clauses, e.type \in {"none", "compare"}, NEW q \in Queries, ~ q.inWhere
    PROVE  /\ Searched(q, e) \in Queries /\ ~ Searched(q, e).inWhere
           /\ Leads(q, Walk[e], Searched(q, e))
<1>0. Walk[e] = WalkStep(e, Walk)
  BY WalkIs
<1>1. CASE e.type = "none"
  <2>1. Walk[e] = <<>>
    BY <1>0, <1>1 DEF WalkStep
  <2>2. QED
    BY <1>1, <2>1, LeadsEmpty DEF Searched
<1>2. CASE e.type = "compare"
  <2> DEFINE a == Node("binary", e.op)
             b == Node("column", e.column)
             c == Node("value", e.value)
             d == Node("leaveBinary", e.op)
  <2>1. Walk[e] = <<a, b, c, d>>
    BY <1>0, <1>2 DEF WalkStep
  <2>2. a \in AllNodes /\ b \in AllNodes /\ c \in AllNodes /\ d \in AllNodes
    BY <1>2, NodesOfClause
  <2>3. /\ a.node = "binary" /\ b.node = "column" /\ c.node = "value" /\ d.node = "leaveBinary"
        /\ a.is = e.op /\ b.is = e.column /\ c.is = e.value
    BY NodeIs
  <2>4. e.type # "none"
    BY <1>2
  <2> HIDE DEF a, b, c, d
  <2> DEFINE q1 == Visited(q, a)
             q2 == Visited(q1, b)
             q3 == Visited(q2, c)
             q4 == Visited(q3, d)
  <2>5. Leads(q, <<a, b, c, d>>, q4)
    BY <2>2, LeadsFour
  <2>6. q1 = [q EXCEPT !.inWhere = TRUE, !.whereOp = e.op] /\ q1 \in Queries
    <3>1. q1 = [q EXCEPT !.inWhere = TRUE, !.whereOp = a.is]
      BY <2>2, <2>3, VisitedCases
    <3>2. q1 \in Queries
      BY <2>2, VisitedType
    <3> HIDE DEF q1
    <3>3. QED
      BY <2>3, <3>1, <3>2
  <2> HIDE DEF q1
  <2>7. q1.inWhere
    BY <2>6 DEF Queries
  <2>8. q2 = [q1 EXCEPT !.whereColumns = Append(@, e.column)] /\ q2 \in Queries
    <3>1. q2 = [q1 EXCEPT !.whereColumns = Append(q1.whereColumns, b.is)]
      BY <2>2, <2>3, <2>6, <2>7, WherePartVisited
    <3>2. q2 \in Queries
      BY <2>2, <2>6, VisitedType
    <3>3. QED
      BY <2>3, <3>1, <3>2
  <2> HIDE DEF q2
  <2>9. q2.inWhere
    BY <2>6, <2>7, <2>8 DEF Queries
  <2>10. q3 = [q2 EXCEPT !.whereValues = Append(@, e.value)] /\ q3 \in Queries
    <3>1. q3 = [q2 EXCEPT !.whereValues = Append(q2.whereValues, c.is)]
      BY <2>2, <2>3, <2>8, <2>9, WherePartVisited
    <3>2. q3 \in Queries
      BY <2>2, <2>8, VisitedType
    <3>3. QED
      BY <2>3, <3>1, <3>2
  <2> HIDE DEF q3
  <2>11. q4 = [q3 EXCEPT !.inWhere = FALSE] /\ q4 \in Queries
    BY <2>2, <2>3, <2>10, VisitedCases, VisitedType
  <2> HIDE DEF q4
  <2>12. q.inWhere = FALSE
    <3>1. q.inWhere \in BOOLEAN
      BY DEF Queries
    <3>2. QED
      BY <3>1
  <2>13. q4 = [q EXCEPT !.whereOp = e.op, !.whereColumns = Append(@, e.column),
                        !.whereValues = Append(@, e.value)]
    <3>1. q1.whereColumns = q.whereColumns /\ q2.whereValues = q.whereValues
      BY <2>6, <2>8 DEF Queries
    <3> DEFINE C == Append(q.whereColumns, e.column)
               V == Append(q.whereValues, e.value)
    <3>2. q2 = [q1 EXCEPT !.whereColumns = C] /\ q3 = [q2 EXCEPT !.whereValues = V]
      BY <2>8, <2>10, <3>1
    <3> HIDE DEF C, V
    <3>3. q4 = [q EXCEPT !.whereOp = e.op, !.whereColumns = C, !.whereValues = V]
      BY <2>6, <2>11, <2>12, <3>2 DEF Queries
    <3>4. QED
      BY <3>3 DEF C, V
  <2>14. ~ q4.inWhere
    BY <2>10, <2>11 DEF Queries
  <2>15. q4 = Searched(q, e)
    BY <2>4, <2>13 DEF Searched
  <2>16. QED
    BY <2>1, <2>5, <2>11, <2>14, <2>15
<1>3. QED
  BY <1>1, <1>2

-----------------------------------------------------------------------------
(* The values of a statement.                                              *)

(* The rows of an INSERT joined one by one.                                *)
Flattens(f, S, rows) ==
    /\ f \in [0 .. Len(rows) -> Seq(S)]
    /\ f[0] = <<>>
    /\ \A i \in 1 .. Len(rows) : f[i] = f[i - 1] \o rows[i]
    /\ FlattenSeq(rows) = f[Len(rows)]

(* FlattenSeq joins them so.                                               *)
LEMMA FlattenRecursion ==
    ASSUME NEW S, NEW rows \in Seq(Seq(S))
    PROVE  \E f : Flattens(f, S, rows)
<1> DEFINE n == Len(rows)
           V == Seq(S)
           b == <<>>
           g == [i \in Nat |-> [v \in V |-> IF i \in 1 .. n THEN v \o rows[i] ELSE v]]
           Body(h) == [i \in 1 .. Len(rows) |-> IF i = 1 THEN rows[i] ELSE h[i - 1] \o rows[i]]
<1>1. n \in Nat /\ b \in V /\ \A i \in 1 .. n : rows[i] \in V
  OBVIOUS
<1>2. \A v, r \in V : v \o r \in V
  OBVIOUS
<1>3. \A r \in V : b \o r = r
  OBVIOUS
<1> HIDE DEF V, b
<1>4. g \in Steps(V)
  BY <1>1, <1>2 DEF Steps
<1>5. PICK f : Iterates(f, V, b, g, n)
  <2> HIDE DEF g, n
  <2>1. QED
    BY <1>1, <1>4, IterationOf, Zenon
<1>6. /\ f \in [0 .. n -> V] /\ f[0] = b
      /\ \A i \in 1 .. n : f[i - 1] \in V /\ f[i] = f[i - 1] \o rows[i]
  <2>1. f \in [0 .. n -> V] /\ f[0] = b /\ \A i \in 1 .. n : f[i] = g[i][f[i - 1]]
    BY <1>5 DEF Iterates
  <2>2. ASSUME NEW i \in 1 .. n PROVE f[i - 1] \in V /\ g[i][f[i - 1]] = f[i - 1] \o rows[i]
    <3>1. i - 1 \in 0 .. n /\ i \in Nat
      BY <1>1
    <3>2. f[i - 1] \in V
      BY <2>1, <3>1, Zenon
    <3>3. QED
      BY <3>1, <3>2
  <2> HIDE DEF g
  <2>3. QED
    BY <2>1, <2>2
<1> HIDE DEF g
<1>7. 1 \in 1 .. n => f[1] = rows[1]
  <2>1. SUFFICES ASSUME 1 \in 1 .. n PROVE f[1] = rows[1]
    BY Zenon
  <2>2. f[1 - 1] = b /\ rows[1] \in V
    BY <1>1, <1>6, <2>1
  <2>3. f[1] = f[1 - 1] \o rows[1]
    BY <1>6, <2>1
  <2> HIDE DEF n
  <2>4. QED
    BY <1>3, <2>2, <2>3
<1>8. CASE n = 0
  <2>1. FlattenSeq(rows) = rows
    BY <1>8 DEF FlattenSeq
  <2>2. rows = <<>>
    BY <1>8
  <2>3. QED
    BY <1>6, <1>8, <2>1, <2>2 DEF Flattens, V, b
<1>9. CASE n # 0
  <2> DEFINE e == [i \in 1 .. n |-> f[i]]
             F == CHOOSE h : h = Body(h)
  <2>1. e = Body(e)
    <3>1. \A i \in 1 .. n : e[i] = f[i]
      OBVIOUS
    <3>2. \A i \in 1 .. n : f[i] = IF i = 1 THEN rows[i] ELSE e[i - 1] \o rows[i]
      <4>1. SUFFICES ASSUME NEW i \in 1 .. n
                     PROVE  f[i] = IF i = 1 THEN rows[i] ELSE e[i - 1] \o rows[i]
        OBVIOUS
      <4>2. CASE i = 1
        BY <1>7, <4>2
      <4>3. CASE i # 1
        <5>1. i - 1 \in 1 .. n
          BY <1>1, <4>3
        <5>2. e[i - 1] = f[i - 1]
          BY <5>1
        <5>3. QED
          BY <1>6, <4>3, <5>2
      <4>4. QED
        BY <4>2, <4>3
    <3> HIDE DEF e
    <3>3. QED
      BY <3>2 DEF e
  <2>2. F = Body(F)
    <3> HIDE DEF Body, e
    <3>1. QED
      BY <2>1
  <2>3. FlattenSeq(rows) = F[n]
    BY <1>9 DEF FlattenSeq
  <2>4. \A i \in 1 .. n : F[i] = IF i = 1 THEN rows[i] ELSE F[i - 1] \o rows[i]
    BY <2>2
  <2> HIDE DEF F, e
  <2> DEFINE H == [i \in 0 .. n |-> IF i = 0 THEN b ELSE F[i]]
  <2>5. Alike(f, H, n)
    <3>1. f[0] = H[0]
      BY <1>1, <1>6
    <3>2. ASSUME NEW i \in 1 .. n, f[i - 1] = H[i - 1] PROVE f[i] = H[i]
      <4>1. H[i] = F[i] /\ i \in Nat /\ i # 0
        BY <1>1
      <4>2. CASE i = 1
        <5>1. F[1] = rows[1] /\ f[1] = rows[1]
          BY <1>7, <2>4, <4>2
        <5>2. QED
          BY <4>1, <4>2, <5>1
      <4>3. CASE i # 1
        <5>1. H[i - 1] = F[i - 1]
          BY <1>1, <4>1, <4>3
        <5>2. F[i] = F[i - 1] \o rows[i] /\ f[i] = f[i - 1] \o rows[i]
          BY <1>6, <2>4, <4>3, Zenon
        <5> HIDE DEF H
        <5>3. QED
          BY <3>2, <4>1, <5>1, <5>2, Zenon
      <4>4. QED
        BY <4>2, <4>3
    <3> HIDE DEF H
    <3>3. QED
      BY <3>1, <3>2 DEF Alike
  <2>6. f[n] = H[n] /\ H[n] = F[n]
    <3>1. n \in 0 .. n
      BY <1>1
    <3>2. H[n] = F[n]
      BY <1>1, <1>9
    <3> HIDE DEF H
    <3>3. QED
      BY <1>1, <2>5, <3>1, <3>2, IterationUnique
  <2>7. QED
    BY <1>6, <2>3, <2>6 DEF Flattens, V, b
<1>10. QED
  BY <1>8, <1>9

(* They are values.                                                        *)
LEMMA ValuesType ==
    \A st \in Statements : Values(st) \in Seq(STRING)
<1>1. SUFFICES ASSUME NEW st \in Statements PROVE Values(st) \in Seq(STRING)
  OBVIOUS
<1>2. CASE st.kind = "insert"
  <2> DEFINE rows == st.rows
  <2>1. rows \in Seq(Seq(STRING)) /\ Values(st) = FlattenSeq(rows)
    BY <1>2, StatementsAssumption DEF Values
  <2> HIDE DEF rows
  <2>2. PICK f : Flattens(f, STRING, rows)
    BY <2>1, FlattenRecursion
  <2>3. Len(rows) \in 0 .. Len(rows)
    BY <2>1
  <2>4. QED
    BY <2>1, <2>2, <2>3 DEF Flattens
<1>3. CASE st.kind # "insert"
  BY <1>3, StatementsAssumption DEF Values
<1>4. QED
  BY <1>2, <1>3

(* A value of a joined sequence is one of the left half or of the right.   *)
LEMMA Halves ==
    \A S : \A a, b \in Seq(S) :
        /\ Len(a \o b) = Len(a) + Len(b)
        /\ \A i \in 1 .. Len(a) : (a \o b)[i] = a[i]
        /\ \A i \in 1 .. Len(b) : (a \o b)[Len(a) + i] = b[i]
OBVIOUS

(* Rows of one length join to a table: the values of the first k rows.     *)
Tabled(v, rows, w, k) ==
    /\ Len(v) = k * w
    /\ \A i \in 1 .. k : \A j \in 1 .. w : v[(i - 1) * w + j] = rows[i][j]

(* One row more.                                                           *)
LEMMA TabledNext ==
    ASSUME NEW S, NEW rows \in Seq(Seq(S)), NEW w \in {1, 2}, NEW k \in Nat, k + 1 \in 1 .. Len(rows),
           Len(rows[k + 1]) = w, NEW v \in Seq(S), Tabled(v, rows, w, k)
    PROVE  Tabled(v \o rows[k + 1], rows, w, k + 1)
<1> DEFINE r == rows[k + 1]
           u == v \o r
<1>1. r \in Seq(S) /\ Len(r) = w
  OBVIOUS
<1>2. /\ Len(v) = k * w
      /\ \A i \in 1 .. k : \A j \in 1 .. w : v[(i - 1) * w + j] = rows[i][j]
  BY DEF Tabled
<1>3. /\ Len(u) = k * w + w
      /\ \A i \in 1 .. k * w : u[i] = v[i]
      /\ \A i \in 1 .. w : u[k * w + i] = r[i]
  <2> HIDE DEF r
  <2>1. /\ Len(v \o r) = Len(v) + Len(r)
        /\ \A i \in 1 .. Len(v) : (v \o r)[i] = v[i]
        /\ \A i \in 1 .. Len(r) : (v \o r)[Len(v) + i] = r[i]
    BY <1>1, Halves
  <2>2. QED
    BY <1>1, <1>2, <2>1
<1> HIDE DEF u
<1>4. \A i \in 1 .. k : \A j \in 1 .. w : (i - 1) * w + j \in 1 .. k * w
  <2>1. CASE w = 1
    BY <2>1
  <2>2. CASE w = 2
    BY <2>2
  <2>3. QED
    BY <2>1, <2>2
<1>5. k * w + w = (k + 1) * w
  <2>1. CASE w = 1
    BY <2>1
  <2>2. CASE w = 2
    BY <2>2
  <2>3. QED
    BY <2>1, <2>2
<1>6. ASSUME NEW i \in 1 .. k + 1, NEW j \in 1 .. w
      PROVE  u[(i - 1) * w + j] = rows[i][j]
  <2>1. CASE i = k + 1
    <3>1. i - 1 = k
      BY <2>1
    <3>2. QED
      BY <1>3, <2>1, <3>1
  <2>2. CASE i # k + 1
    <3>1. i \in 1 .. k
      BY <2>2
    <3>2. QED
      BY <1>2, <1>3, <1>4, <3>1
  <2>3. QED
    BY <2>1, <2>2
<1>7. QED
  BY <1>3, <1>5, <1>6 DEF Tabled, u

(* All rows.                                                               *)
LEMMA RowsTabled ==
    ASSUME NEW S, NEW rows \in Seq(Seq(S)), NEW w \in {1, 2},
           \A i \in DOMAIN rows : Len(rows[i]) = w
    PROVE  Tabled(FlattenSeq(rows), rows, w, Len(rows))
<1> DEFINE n == Len(rows)
<1>1. n \in Nat /\ \A i \in 1 .. n : Len(rows[i]) = w /\ rows[i] \in Seq(S)
  OBVIOUS
<1>2. PICK f : Flattens(f, S, rows)
  BY FlattenRecursion
<1>3. /\ f \in [0 .. n -> Seq(S)] /\ f[0] = <<>> /\ FlattenSeq(rows) = f[n]
      /\ \A i \in 1 .. n : f[i] = f[i - 1] \o rows[i]
  BY <1>2 DEF Flattens
<1> DEFINE T == {k \in Nat : k <= n => Tabled(f[k], rows, w, k)}
<1>4. 0 \in T
  <2>1. Len(<<>>) = 0 /\ 0 = 0 * w /\ 1 .. 0 = {}
    OBVIOUS
  <2>2. QED
    BY <1>3, <2>1 DEF Tabled
<1>5. ASSUME NEW k \in Nat, k \in T PROVE k + 1 \in T
  <2>1. SUFFICES ASSUME k + 1 <= n PROVE Tabled(f[k + 1], rows, w, k + 1)
    OBVIOUS
  <2>2. /\ k + 1 \in 1 .. n /\ k \in 0 .. n /\ Tabled(f[k], rows, w, k) /\ (k + 1) - 1 = k
    BY <1>1, <1>5, <2>1
  <2>3. f[k] \in Seq(S) /\ f[k + 1] = f[k] \o rows[k + 1]
    BY <1>3, <2>2
  <2>4. Tabled(f[k] \o rows[k + 1], rows, w, k + 1)
    BY <1>1, <2>2, <2>3, TabledNext
  <2>5. QED
    BY <2>3, <2>4
<1>6. Nat \subseteq T
  <2> HIDE DEF T
  <2>1. QED
    BY <1>4, <1>5, Induction
<1>7. n \in T
  BY <1>1, <1>6
<1>8. QED
  BY <1>1, <1>3, <1>7

-----------------------------------------------------------------------------
(* What is collected in the end.                                           *)

Simple(st) == st.where.type \in {"none", "compare"}

(* After a statement's own node only its kind is known.                    *)
Said(st) == [EmptyQuery EXCEPT !.statement = st.kind]

(* The columns and the values added.                                       *)
Written(q, st) == [q EXCEPT !.columns = @ \o st.columns, !.values = @ \o Values(st)]

(* What a statement with a simple clause should leave.                     *)
Expected(st) ==
    Searched([EmptyQuery EXCEPT !.statement = st.kind, !.columns = st.columns, !.values = Values(st)],
             st.where)

(* What a visit of a whole statement leaves: for a simple clause exactly   *)
(* that, for any other at least the columns it names.                      *)
Final(st, r) ==
    /\ r \in Queries /\ r.statement = st.kind /\ ~ r.inWhere
    /\ ToSet(st.columns) \subseteq ToSet(r.columns)
    /\ Simple(st) => r = Expected(st)

(* The nodes of one statement say nothing of another kind.                 *)
StatementNodes(st) == {x \in AllNodes : x.node = "statement" => x.is = st.kind}

(* The nodes of its parts do so.                                           *)
LEMMA NodesAreNodes ==
    \A ns \in Seq(Nodes) : ns \in Seq(AllNodes) /\ \A st : ns \in Seq(StatementNodes(st))
<1>1. Nodes \subseteq AllNodes /\ \A st : Nodes \subseteq StatementNodes(st)
  BY DEF Nodes, AllNodes, StatementNodes, Kinds
<1>2. QED
  BY <1>1

(* The right half of a joined sequence.                                    *)
LEMMA ConcatRight ==
    ASSUME NEW S, NEW a \in Seq(S), NEW b \in Seq(S), NEW i \in 1 .. Len(b)
    PROVE  Len(a) + i \in DOMAIN (a \o b) /\ (a \o b)[Len(a) + i] = b[i]
OBVIOUS

(* The type and the fields of Said.                                        *)
LEMMA SaidIs ==
    ASSUME NEW st, st.kind \in Spoken
    PROVE  /\ EmptyQuery \in Queries /\ Said(st) \in Queries /\ ~ Said(st).inWhere
           /\ Said(st).columns = <<>> /\ Said(st).values = <<>> /\ Said(st).statement = st.kind
<1>2. <<>> \in Seq(STRING)
  OBVIOUS
<1>3. EmptyQuery \in Queries
  BY <1>2 DEF EmptyQuery, Queries, Words, Ops
<1>4. QED
  BY <1>2, <1>3 DEF EmptyQuery, Queries, Said, Words

(* The type and the fields of Written.                                     *)
LEMMA WrittenIs ==
    ASSUME NEW q \in Queries, ~ q.inWhere, NEW st \in Statements
    PROVE  /\ Written(q, st) \in Queries /\ ~ Written(q, st).inWhere
           /\ Written(q, st).statement = q.statement
           /\ ToSet(st.columns) \subseteq ToSet(Written(q, st).columns)
<1>1. /\ q.columns \in Seq(STRING) /\ q.values \in Seq(STRING)
      /\ st.columns \in Seq(STRING) /\ Values(st) \in Seq(STRING)
  BY StatementsAssumption, ValuesType DEF Queries
<1> DEFINE c == q.columns \o st.columns
           v == q.values \o Values(st)
<1>2. c \in Seq(STRING) /\ v \in Seq(STRING)
  BY <1>1
<1>3. ToSet(st.columns) \subseteq ToSet(c)
  <2>1. SUFFICES ASSUME NEW i \in DOMAIN st.columns PROVE st.columns[i] \in ToSet(c)
    BY DEF ToSet
  <2>2. Len(q.columns) + i \in DOMAIN c /\ c[Len(q.columns) + i] = st.columns[i]
    <3>1. i \in 1 .. Len(st.columns) /\ Len(q.columns) \in Nat /\ Len(st.columns) \in Nat
      BY <1>1
    <3> DEFINE a == q.columns
               b == st.columns
    <3>2. a \in Seq(STRING) /\ b \in Seq(STRING) /\ i \in 1 .. Len(b)
      BY <1>1, <3>1
    <3> HIDE DEF a, b
    <3>3. Len(a) + i \in DOMAIN (a \o b) /\ (a \o b)[Len(a) + i] = b[i]
      BY <3>2, ConcatRight
    <3>4. QED
      BY <3>3 DEF a, b
  <2> HIDE DEF c
  <2>3. QED
    BY <2>2 DEF ToSet
<1> HIDE DEF c, v
<1>4. Written(q, st) = [q EXCEPT !.columns = c, !.values = v]
  BY DEF Written, c, v
<1>5. /\ Written(q, st) \in Queries /\ ~ Written(q, st).inWhere
      /\ Written(q, st).statement = q.statement /\ Written(q, st).columns = c
  BY <1>2, <1>4 DEF Queries
<1>6. QED
  BY <1>3, <1>5

(* The clause may be visited after the columns and values or before: both  *)
(* leave what is expected.                                                 *)
LEMMA ExpectedIs ==
    ASSUME NEW st \in Statements, st.kind \in Spoken, Simple(st)
    PROVE  /\ Expected(st) = Searched(Written(Said(st), st), st.where)
           /\ Expected(st) = Written(Searched(Said(st), st.where), st)
<1>1. /\ <<>> \o st.columns = st.columns /\ <<>> \o Values(st) = Values(st)
  BY StatementsAssumption, ValuesType
<1>2. Written(Said(st), st)
        = [EmptyQuery EXCEPT !.statement = st.kind, !.columns = st.columns, !.values = Values(st)]
  BY <1>1 DEF Written, Said, EmptyQuery
<1>3. Expected(st) = Searched(Written(Said(st), st), st.where)
  BY <1>2 DEF Expected
<1>4. Searched(Written(Said(st), st), st.where) = Written(Searched(Said(st), st.where), st)
  <2>1. CASE st.where.type = "none"
    BY <2>1 DEF Searched
  <2>2. CASE st.where.type # "none"
    <3> DEFINE a == Said(st)
               C == a.columns \o st.columns
               V == a.values \o Values(st)
               K == Append(a.whereColumns, st.where.column)
               W == Append(a.whereValues, st.where.value)
               b == [a EXCEPT !.columns = C, !.values = V]
               c == [a EXCEPT !.whereOp = st.where.op, !.whereColumns = K, !.whereValues = W]
    <3>1. a \in Queries
      BY SaidIs
    <3>2. Written(a, st) = b /\ Searched(a, st.where) = c
      BY <2>2 DEF Written, Searched
    <3> HIDE DEF a
    <3>3. /\ b.whereColumns = a.whereColumns /\ b.whereValues = a.whereValues
          /\ c.columns = a.columns /\ c.values = a.values
      BY <3>1 DEF Queries
    <3> HIDE DEF b, c
    <3>4. /\ Searched(b, st.where) =
                [b EXCEPT !.whereOp = st.where.op, !.whereColumns = K, !.whereValues = W]
          /\ Written(c, st) = [c EXCEPT !.columns = C, !.values = V]
      BY <2>2, <3>3 DEF Written, Searched
    <3> HIDE DEF C, V, K, W
    <3>5. [b EXCEPT !.whereOp = st.where.op, !.whereColumns = K, !.whereValues = W]
            = [c EXCEPT !.columns = C, !.values = V]
      BY <3>1 DEF Queries, b, c
    <3>6. QED
      BY <3>2, <3>4, <3>5 DEF a
  <2>3. QED
    BY <2>1, <2>2
<1>5. QED
  BY <1>3, <1>4

(* A part that writes columns and values, before or after the clause.      *)
LEMMA BodyLeads ==
    ASSUME NEW st \in Statements, st.kind \in Spoken, NEW D \in Seq(AllNodes),
           \A q \in Queries : ~ q.inWhere => Leads(q, D, Written(q, st)),
           NEW b \in {Walk[st.where] \o D, D \o Walk[st.where]}
    PROVE  \E r : Leads(Said(st), b, r) /\ Final(st, r)
<1> DEFINE q == Said(st)
           w == Walk[st.where]
<1>1. q \in Queries /\ ~ q.inWhere /\ q.statement = st.kind
  BY SaidIs
<1>2. st.where \in Clauses /\ w \in Seq(AllNodes)
  <2>1. st.where \in Clauses
    BY StatementsAssumption
  <2>2. QED
    BY <2>1, WalkType
<1>3. \A a \in Queries : ~ a.inWhere =>
         \E r : /\ Leads(a, w, r) /\ Keeps(a, r)
                /\ Simple(st) => r = Searched(a, st.where)
  <2>1. SUFFICES ASSUME NEW a \in Queries, ~ a.inWhere
                 PROVE  \E r : /\ Leads(a, w, r) /\ Keeps(a, r)
                               /\ Simple(st) => r = Searched(a, st.where)
    BY Zenon
  <2>2. CASE Simple(st)
    <3> DEFINE r == Searched(a, st.where)
    <3>1. r \in Queries /\ ~ r.inWhere /\ Leads(a, w, r)
      BY <1>2, <2>1, <2>2, SimpleWalk DEF Simple
    <3>2. r.statement = a.statement /\ r.columns = a.columns
      BY DEF Searched, Queries
    <3> HIDE DEF r
    <3>3. Keeps(a, r)
      BY <3>1, <3>2 DEF Keeps, Grows
    <3>4. QED
      BY <3>1, <3>3 DEF r
  <2>3. CASE ~ Simple(st)
    BY <1>2, <2>1, <2>3, WalkLeads
  <2>4. QED
    BY <2>2, <2>3
<1> HIDE DEF q, w
<1>4. CASE b = w \o D
  <2>1. PICK a : /\ Leads(q, w, a) /\ Keeps(q, a)
                 /\ Simple(st) => a = Searched(q, st.where)
    BY <1>1, <1>3
  <2>2. a \in Queries /\ ~ a.inWhere /\ a.statement = st.kind
    BY <1>1, <2>1 DEF Keeps, Grows
  <2> DEFINE r == Written(a, st)
  <2>3. Leads(a, D, r)
    BY <2>2
  <2>4. Leads(q, b, r)
    <3> HIDE DEF r
    <3>1. QED
      BY <1>2, <1>4, <2>1, <2>3, LeadsJoined
  <2>5. Simple(st) => r = Expected(st)
    BY <2>1, ExpectedIs DEF q
  <2>6. Final(st, r)
    BY <2>2, <2>5, WrittenIs DEF Final
  <2> HIDE DEF r
  <2>7. QED
    BY <2>4, <2>6 DEF q
<1>5. CASE b = D \o w
  <2> DEFINE a == Written(q, st)
  <2>1. /\ a \in Queries /\ ~ a.inWhere /\ a.statement = st.kind
        /\ ToSet(st.columns) \subseteq ToSet(a.columns)
    BY <1>1, WrittenIs
  <2>2. Leads(q, D, a)
    BY <1>1
  <2>3. PICK r : /\ Leads(a, w, r) /\ Keeps(a, r)
                 /\ Simple(st) => r = Searched(a, st.where)
    BY <1>3, <2>1
  <2>4. Simple(st) => r = Expected(st)
    BY <2>3, ExpectedIs DEF q
  <2> HIDE DEF a
  <2>5. Leads(q, b, r)
    BY <1>2, <1>5, <2>2, <2>3, LeadsJoined
  <2>6. Final(st, r)
    BY <2>1, <2>3, <2>4 DEF Final, Keeps, Grows
  <2>7. QED
    BY <2>5, <2>6 DEF q
<1>6. QED
  BY <1>4, <1>5 DEF w

(* Statements in which no node is handled.                                 *)
Silent == {"other", "broken", "empty"}

(* The node whose leaving is LeaveFunc.                                    *)
Ending(st) == Node("leaveStatement", st.kind)

(* Every statement is silent or spoken, and silent ones have no nodes.     *)
LEMMA SilentVisits ==
    ASSUME NEW st \in Statements
    PROVE  /\ st.kind \in Silent \cup Spoken
           /\ st.kind \in Silent => Visits(st) = {<<>>}
BY StatementsAssumption DEF Visits, Silent, Spoken

(* The visit of the columns and then of the values.                        *)
LEMMA ColumnsThenValues ==
    ASSUME NEW q \in Queries, ~ q.inWhere, NEW st \in Statements
    PROVE  Leads(q, ColumnNodes(st.columns) \o ValueNodes(Values(st)), Written(q, st))
<1> DEFINE C == ColumnNodes(st.columns)
           V == ValueNodes(Values(st))
           a == [q EXCEPT !.columns = @ \o st.columns]
<1>1. st.columns \in Seq(STRING) /\ Values(st) \in Seq(STRING)
  BY StatementsAssumption, ValuesType
<1>2. C \in Seq(Nodes) /\ Leads(q, C, a)
  BY <1>1, ColumnsVisited
<1>3. a \in Queries /\ ~ a.inWhere /\ a.values = q.values
  <2>1. q.columns \o st.columns \in Seq(STRING)
    BY <1>1 DEF Queries
  <2>2. QED
    BY <2>1 DEF Queries
<1>4. Written(q, st) = [a EXCEPT !.values = a.values \o Values(st)]
  BY <1>3 DEF Written, Queries
<1> HIDE DEF a, C
<1>5. V \in Seq(Nodes) /\ Leads(a, V, [a EXCEPT !.values = @ \o Values(st)])
  BY <1>1, <1>3, ValuesVisited
<1> HIDE DEF V
<1>6. C \in Seq(AllNodes) /\ V \in Seq(AllNodes)
  BY <1>2, <1>5, NodesAreNodes
<1>7. Leads(q, C \o V, [a EXCEPT !.values = @ \o Values(st)])
  BY <1>2, <1>5, <1>6, LeadsJoined
<1>8. QED
  BY <1>4, <1>7 DEF C, V

(* The nodes that write, and what surrounds the clause.                    *)
LEMMA BodyOfVisit ==
    ASSUME NEW st \in Statements, st.kind \in Spoken, NEW v \in Visits(st)
    PROVE  \E b, r : /\ b \in Seq(Nodes)
                     /\ v = <<Node("statement", st.kind)>> \o b \o <<Ending(st)>>
                     /\ Leads(Said(st), b, r) /\ Final(st, r)
<1> DEFINE w == Walk[st.where]
           C == ColumnNodes(st.columns)
           V == ValueNodes(Values(st))
           A == AssignmentNodes(st)
<1>1. st.where \in Clauses /\ st.columns \in Seq(STRING) /\ Values(st) \in Seq(STRING)
  BY StatementsAssumption, ValuesType
<1>2. w \in Seq(Nodes)
  BY <1>1, WalkIs DEF Over
<1>3. Said(st) \in Queries /\ ~ Said(st).inWhere
  BY SaidIs
<1>4. C \in Seq(Nodes) /\ V \in Seq(Nodes)
  BY <1>1, <1>3, ColumnsVisited, ValuesVisited
<1>5. st.kind = "update" =>
         /\ A \in Seq(Nodes)
         /\ \A q \in Queries : ~ q.inWhere => Leads(q, A, Written(q, st))
  <2>1. SUFFICES ASSUME st.kind = "update"
                 PROVE  /\ A \in Seq(Nodes)
                        /\ \A q \in Queries : ~ q.inWhere => Leads(q, A, Written(q, st))
    BY Zenon
  <2>2. Values(st) = st.values /\ Len(st.values) = Len(st.columns)
    BY <2>1, StatementsAssumption DEF Values
  <2>3. ASSUME NEW q \in Queries, ~ q.inWhere
        PROVE  A \in Seq(Nodes) /\ Leads(q, A, Written(q, st))
    BY <1>1, <2>2, <2>3, AssignmentsVisited DEF Written
  <2>4. QED
    BY <1>3, <2>3
<1>6. PICK b : /\ v = <<Node("statement", st.kind)>> \o b \o <<Ending(st)>>
               /\ \/ st.kind = "update" /\ b \in {w \o A, A \o w}
                  \/ b \in {C \o V \o w, w \o C \o V}
  BY DEF Visits, Ending, Spoken
<1> HIDE DEF w, C, V, A
<1>7. CASE st.kind = "update" /\ b \in {w \o A, A \o w}
  <2>0. A \in Seq(Nodes)
    BY <1>5, <1>7
  <2>1. A \in Seq(AllNodes) /\ b \in Seq(Nodes)
    <3>1. w \o A \in Seq(Nodes) /\ A \o w \in Seq(Nodes)
      BY <1>2, <2>0
    <3>2. A \in Seq(AllNodes)
      BY <2>0, NodesAreNodes
    <3>3. QED
      BY <1>7, <3>1, <3>2
  <2>2. \E r : Leads(Said(st), b, r) /\ Final(st, r)
    BY <1>5, <1>7, <2>1, BodyLeads DEF w
  <2>3. QED
    BY <1>6, <2>1, <2>2
<1>8. CASE b \in {C \o V \o w, w \o C \o V}
  <2> DEFINE D == C \o V
  <2>1. D \in Seq(Nodes) /\ b \in Seq(Nodes)
    <3>1. C \o V \in Seq(Nodes) /\ w \o C \in Seq(Nodes)
      BY <1>2, <1>4
    <3>2. C \o V \o w \in Seq(Nodes) /\ w \o C \o V \in Seq(Nodes)
      BY <1>2, <1>4, <3>1
    <3>3. QED
      BY <1>8, <3>1, <3>2
  <2>2. \A q \in Queries : ~ q.inWhere => Leads(q, D, Written(q, st))
    BY ColumnsThenValues DEF C, V
  <2>3. b \in {w \o D, D \o w}
    <3>1. Grouped(w, C, V)
      BY <1>2, <1>4, ConcatGrouped
    <3>2. QED
      BY <1>8, <3>1 DEF Grouped
  <2> HIDE DEF D
  <2>4. D \in Seq(AllNodes)
    BY <2>1, NodesAreNodes
  <2>5. \E r : Leads(Said(st), b, r) /\ Final(st, r)
    BY <2>2, <2>3, <2>4, BodyLeads DEF w
  <2>6. QED
    BY <1>6, <2>1, <2>5
<1>9. QED
  BY <1>6, <1>7, <1>8

(* Every order of visit that the parser may choose leads to a final        *)
(* collection.                                                             *)
LEMMA VisitsLead ==
    ASSUME NEW st \in Statements, st.kind \in Spoken, NEW v \in Visits(st)
    PROVE  \E ns, r : /\ ns \in Seq(StatementNodes(st)) /\ v = ns \o <<Ending(st)>>
                      /\ Leads(EmptyQuery, ns, r) /\ Final(st, r)
<1>1. PICK b, r : /\ b \in Seq(Nodes)
                  /\ v = <<Node("statement", st.kind)>> \o b \o <<Ending(st)>>
                  /\ Leads(Said(st), b, r) /\ Final(st, r)
  BY BodyOfVisit
<1> DEFINE x == Node("statement", st.kind)
<1>2. x \in StatementNodes(st) /\ x \in AllNodes /\ x.node = "statement" /\ x.is = st.kind
  BY DEF Node, AllNodes, StatementNodes
<1>3. EmptyQuery \in Queries
  BY SaidIs
<1>4. <<x>> \in Seq(StatementNodes(st)) /\ <<x>> \in Seq(AllNodes)
  BY <1>2
<1>5. Visited(EmptyQuery, x) = Said(st)
  <2> HIDE DEF x
  <2>1. QED
    BY <1>2, <1>3, KindVisited DEF Said
<1>6. Leads(EmptyQuery, <<x>>, Said(st))
  <2> HIDE DEF x
  <2>1. QED
    BY <1>2, <1>3, <1>5, LeadsOne
<1> HIDE DEF x
<1>7. b \in Seq(AllNodes) /\ b \in Seq(StatementNodes(st))
  BY <1>1, NodesAreNodes
<1>8. <<x>> \o b \in Seq(StatementNodes(st))
  BY <1>4, <1>7
<1>9. Leads(EmptyQuery, <<x>> \o b, r)
  BY <1>1, <1>4, <1>6, <1>7, LeadsJoined
<1>10. QED
  BY <1>1, <1>8, <1>9 DEF x

-----------------------------------------------------------------------------
(* The invariant.                                                          *)

(* The visitor is on its way to r, with ns and the end of the statement to *)
(* visit.                                                                  *)
Visiting(ns, r) ==
    /\ ns \in Seq(StatementNodes(stmt)) /\ nodes = ns \o <<Ending(stmt)>>
    /\ Leads(p, ns, r) /\ Final(stmt, r)

(* Where the visit stands: not begun for lack of nodes; under way to a     *)
(* final collection, with LeaveFunc to come; or done, with its result.     *)
Stage ==
    \/ stmt.kind \in Silent /\ nodes = <<>> /\ outcome = Pending /\ p = EmptyQuery
    \/ /\ stmt.kind \in Spoken /\ outcome = Pending /\ p.statement \in {"", stmt.kind}
       /\ \E ns, r : Visiting(ns, r)
    \/ /\ stmt.kind \in Spoken /\ nodes = <<>>
       /\ outcome = LeaveFunc(p) /\ Final(stmt, p)

(* What the handler says once the text is parsed.                          *)
Answer == IF err = "nil" THEN [is |-> "result", whose |-> res] ELSE [is |-> "error", whose |-> err]

(* What the handler's two variables, which outlive a statement, may hold.  *)
Handler ==
    /\ outcome = Pending => {res, err} \subseteq {"nil", "earlier"}
    /\ outcome # Pending => /\ res = "own" /\ err \in {"nil", "earlier", "own"}
                            /\ err = "own" <=> outcome.status = "error"
                            /\ err = "earlier" => stmt.kind = "select"
    /\ \/ reply = NotYet
       \/ Parsed /\ nodes = <<>> /\ reply = Answer
       \/ ~ Parsed /\ reply = [is |-> IF stmt.kind = "empty" THEN "panic" ELSE "error", whose |-> "own"]

(* The inductive invariant.                                                *)
Inv == stmt \in Statements /\ Stage /\ Handler

(* LeaveFunc ends in success or in an error.                               *)
LEMMA LeaveStatus ==
    ASSUME NEW q, q.statement \in Spoken
    PROVE  LeaveFunc(q).status \in {"ok", "error"}
<1>1. Failed.status = "error"
  BY DEF Failed
<1>2. columnsToConfig(q).status \in {"ok", "error"}
  BY <1>1 DEF columnsToConfig
<1>3. update(q).status \in {"ok", "error"}
  BY <1>1 DEF update
<1>4. delete(q).status \in {"ok", "error"}
  BY <1>1 DEF delete
<1>5. selectResultset(q).status \in {"ok", "error"}
  BY DEF selectResultset
<1>6. QED
  BY <1>1, <1>2, <1>3, <1>4, <1>5 DEF LeaveFunc, Spoken

(* It holds at first.                                                      *)
LEMMA InvInit == Init => Inv
<1>1. SUFFICES ASSUME Init PROVE Inv
  OBVIOUS
<1>2. stmt \in Statements /\ nodes \in Visits(stmt) /\ p = EmptyQuery /\ outcome = Pending
  BY <1>1 DEF Init
<1>3. Stage
  <2>1. CASE stmt.kind \in Silent
    <3>1. Visits(stmt) = {<<>>}
      BY <1>2, <2>1, SilentVisits
    <3>2. nodes = <<>>
      BY <1>2, <3>1
    <3>3. QED
      BY <1>2, <2>1, <3>2 DEF Stage
  <2>2. CASE stmt.kind \in Spoken
    <3>1. \E ns, r : Visiting(ns, r)
      BY <1>2, <2>2, VisitsLead DEF Visiting
    <3>2. p.statement = ""
      BY <1>2 DEF EmptyQuery
    <3>3. QED
      BY <1>2, <2>2, <3>1, <3>2 DEF Stage
  <2>3. QED
    BY <1>2, <2>1, <2>2, SilentVisits
<1>4. Handler
  <2>1. {res, err} \subseteq {"nil", "earlier"} /\ reply = NotYet
    BY <1>1 DEF Init
  <2>2. QED
    BY <1>2, <2>1 DEF Handler
<1>5. QED
  BY <1>2, <1>3, <1>4 DEF Inv

(* The first and the remaining nodes of what is still to visit.            *)
LEMMA LastNode ==
    ASSUME NEW st, NEW ns \in Seq(StatementNodes(st))
    PROVE  LET all == ns \o <<Ending(st)>> IN
           /\ all # <<>>
           /\ ns = <<>> => Head(all) = Ending(st) /\ Tail(all) = <<>>
           /\ ns # <<>> => /\ Head(all) = Head(ns) /\ Head(ns) \in StatementNodes(st)
                           /\ Tail(all) = Tail(ns) \o <<Ending(st)>>
                           /\ Tail(ns) \in Seq(StatementNodes(st))
<1> DEFINE S == StatementNodes(st) \cup {Ending(st)}
           x == Ending(st)
<1>1. ns \in Seq(S) /\ x \in S /\ <<x>> \in Seq(S)
  OBVIOUS
<1> HIDE DEF x, S
<1>2. ns \o <<x>> # <<>>
  BY <1>1
<1>3. CASE ns = <<>>
  <2>1. ns \o <<x>> = <<x>>
    BY <1>1, <1>3
  <2>2. Head(<<x>>) = x /\ Tail(<<x>>) = <<>>
    OBVIOUS
  <2>3. QED
    BY <1>2, <1>3, <2>1, <2>2 DEF x
<1>4. CASE ns # <<>>
  <2>1. Head(ns \o <<x>>) = Head(ns) /\ Tail(ns \o <<x>>) = Tail(ns) \o <<x>>
    BY <1>1, <1>4, FirstJoined
  <2>2. Head(ns) \in StatementNodes(st) /\ Tail(ns) \in Seq(StatementNodes(st))
    BY <1>4
  <2>3. QED
    BY <1>2, <1>4, <2>1, <2>2 DEF x
<1>5. QED
  BY <1>3, <1>4

(* Only the last node is of the last kind.                                 *)
LEMMA KindsOfNodes ==
    ASSUME NEW st
    PROVE  /\ \A x \in StatementNodes(st) : x \in AllNodes /\ x.node \notin {"leaveStatement"}
           /\ Ending(st).node = "leaveStatement"
<1>1. \A x \in Nodes : x.node \in Kinds
  BY DEF Nodes
<1>2. ASSUME NEW x \in AllNodes PROVE x.node # "leaveStatement"
  <2>1. CASE x \in Nodes
    BY <1>1, <2>1 DEF Kinds
  <2>2. CASE x \notin Nodes
    BY <2>2 DEF AllNodes
  <2>3. QED
    BY <2>1, <2>2
<1>3. \A x \in StatementNodes(st) : x \in AllNodes
  BY DEF StatementNodes
<1>4. Ending(st).node = "leaveStatement"
  BY NodeIs DEF Ending
<1>5. QED
  BY <1>2, <1>3, <1>4

(* A node is visited on the way.                                           *)
LEMMA OneVisit ==
    ASSUME Inv, nodes # <<>>, Head(nodes).node # "leaveStatement",
           p' = Visited(p, Head(nodes)), nodes' = Tail(nodes),
           UNCHANGED <<stmt, outcome, handlerVars>>
    PROVE  Inv'
<1>1. /\ stmt \in Statements /\ stmt.kind \in Spoken /\ outcome = Pending
      /\ p.statement \in {"", stmt.kind} /\ Handler
  BY DEF Inv, Stage
<1>2. PICK ns, r : Visiting(ns, r)
  BY DEF Inv, Stage
<1>3. ns \in Seq(StatementNodes(stmt)) /\ nodes = ns \o <<Ending(stmt)>> /\ Leads(p, ns, r) /\ Final(stmt, r)
  BY <1>2 DEF Visiting
<1>4. ns # <<>>
  BY <1>3, LastNode, KindsOfNodes
<1> DEFINE x == Head(ns)
<1>5. /\ Head(nodes) = x /\ x \in StatementNodes(stmt)
      /\ nodes' = Tail(ns) \o <<Ending(stmt)>> /\ Tail(ns) \in Seq(StatementNodes(stmt))
  BY <1>3, <1>4, LastNode
<1>6. \A ms \in Seq(StatementNodes(stmt)) : ms \in Seq(AllNodes)
  <2>1. StatementNodes(stmt) \subseteq AllNodes
    BY KindsOfNodes
  <2>2. QED
    BY <2>1
<1>7. p \in Queries /\ Leads(p', Tail(ns), r)
  <2>1. ns \in Seq(AllNodes)
    BY <1>3, <1>6
  <2>2. QED
    BY <1>3, <1>4, <1>5, <2>1, LeadsOn
<1> HIDE DEF x
<1>8. x \in AllNodes /\ (x.node = "statement" => x.is = stmt.kind)
  BY <1>5 DEF StatementNodes
<1>9. p'.statement \in {"", stmt.kind}
  <2>1. CASE x.node = "statement"
    <3>1. p' = [p EXCEPT !.statement = x.is]
      BY <1>5, <1>7, <1>8, <2>1, VisitedCases
    <3>2. QED
      BY <1>7, <1>8, <2>1, <3>1 DEF Queries
  <2>2. CASE x.node # "statement"
    BY <1>1, <1>5, <1>7, <1>8, <2>2, VisitGrows DEF Grows
  <2>3. QED
    BY <2>1, <2>2
<1>10. Visiting(Tail(ns), r)'
  BY <1>3, <1>5, <1>7 DEF Visiting
<1>11. Stage'
  BY <1>1, <1>9, <1>10 DEF Stage
<1>12. Handler'
  <2>1. outcome = Pending /\ {res, err} \subseteq {"nil", "earlier"} /\ Parsed
    BY <1>1 DEF Handler, Parsed, Spoken
  <2>2. reply = NotYet
    BY <1>1, <2>1 DEF Handler
  <2>3. QED
    BY <2>1, <2>2 DEF Handler, handlerVars
<1>13. QED
  BY <1>1, <1>11, <1>12 DEF Inv

(* Every step keeps it.                                                    *)
LEMMA InvNext == Inv /\ [Next]_vars => Inv'
<1>1. SUFFICES ASSUME Inv, [Next]_vars PROVE Inv'
  OBVIOUS
<1>2. CASE EnterNode
  <2>1. /\ nodes # <<>> /\ Head(nodes).node \notin {"leaveBinary", "leaveStatement"}
        /\ p' = Enter(p, Head(nodes)) /\ nodes' = Tail(nodes)
        /\ UNCHANGED <<stmt, outcome, handlerVars>>
    BY <1>2 DEF EnterNode
  <2>2. p' = Visited(p, Head(nodes))
    BY <2>1 DEF Visited
  <2>3. QED
    BY <1>1, <2>1, <2>2, OneVisit
<1>3. CASE LeaveBinary
  <2>1. /\ nodes # <<>> /\ Head(nodes).node = "leaveBinary"
        /\ p' = Leave(p) /\ nodes' = Tail(nodes)
        /\ UNCHANGED <<stmt, outcome, handlerVars>>
    BY <1>3 DEF LeaveBinary
  <2>2. p' = Visited(p, Head(nodes))
    BY <2>1 DEF Visited
  <2>3. QED
    BY <1>1, <2>1, <2>2, OneVisit
<1>4. CASE LeaveStatement
  <2>1. /\ nodes # <<>> /\ Head(nodes).node = "leaveStatement"
        /\ outcome' = LeaveFunc(p) /\ nodes' = Tail(nodes) /\ res' = "own"
        /\ err' = ErrorAfter(p.statement, outcome'.status = "ok")
        /\ UNCHANGED <<stmt, p, reply>>
    BY <1>4 DEF LeaveStatement
  <2>2. /\ stmt \in Statements /\ stmt.kind \in Spoken /\ outcome = Pending /\ Handler
    BY <1>1, <2>1 DEF Inv, Stage
  <2>3. PICK ns, r : Visiting(ns, r)
    BY <1>1, <2>1 DEF Inv, Stage
  <2>4. ns \in Seq(StatementNodes(stmt)) /\ nodes = ns \o <<Ending(stmt)>> /\ Leads(p, ns, r) /\ Final(stmt, r)
    BY <2>3 DEF Visiting
  <2>5. ns = <<>>
    <3>1. SUFFICES ASSUME ns # <<>> PROVE FALSE
      OBVIOUS
    <3>2. Head(nodes) \in StatementNodes(stmt)
      BY <2>4, <3>1, LastNode
    <3>3. QED
      BY <2>1, <3>2, KindsOfNodes
  <2>6. nodes' = <<>>
    BY <2>1, <2>4, <2>5, LastNode
  <2>7. p = r
    <3>1. Leads(p, <<>>, r)
      BY <2>4, <2>5
    <3>2. QED
      BY <3>1 DEF Leads, Run
  <2>8. Stage'
    BY <2>1, <2>2, <2>4, <2>6, <2>7 DEF Stage, Final
  <2>9. outcome'.status \in {"ok", "error"} /\ p.statement = stmt.kind
    <3>1. p.statement = stmt.kind
      BY <2>4, <2>7 DEF Final
    <3>2. QED
      BY <2>1, <2>2, <3>1, LeaveStatus
  <2>10. Handler'
    <3>1. {res, err} \subseteq {"nil", "earlier"} /\ Parsed
      BY <2>2 DEF Handler, Parsed, Spoken
    <3>2. reply = NotYet
      BY <2>1, <2>2, <3>1 DEF Handler
    <3>3. outcome' # Pending
      BY <2>9 DEF Pending
    <3>4. err' \in {"nil", "earlier", "own"} /\ (err' = "own" <=> outcome'.status = "error")
          /\ (err' = "earlier" => stmt.kind = "select")
      BY <2>1, <2>9, <3>1 DEF ErrorAfter
    <3>5. QED
      BY <2>1, <3>2, <3>3, <3>4 DEF Handler
  <2>11. QED
    BY <2>1, <2>2, <2>8, <2>10 DEF Inv
<1>5. CASE HandleQuery
  <2>1. /\ nodes = <<>> /\ Parsed /\ reply' = Answer
        /\ UNCHANGED <<stmt, nodes, p, outcome, res, err>>
    BY <1>5 DEF HandleQuery, Answer
  <2>2. Stage'
    BY <1>1, <2>1 DEF Inv, Stage, Visiting
  <2>3. Answer' = Answer /\ Parsed'
    BY <2>1 DEF Answer, Parsed
  <2>4. Handler'
    BY <1>1, <2>1, <2>3 DEF Inv, Handler
  <2>5. QED
    BY <1>1, <2>1, <2>2, <2>4 DEF Inv
<1>6. CASE ParseFails
  <2>1. /\ ~ Parsed /\ reply' = [is |-> IF stmt.kind = "empty" THEN "panic" ELSE "error", whose |-> "own"]
        /\ UNCHANGED <<stmt, nodes, p, outcome, res, err>>
    BY <1>6 DEF ParseFails
  <2>2. Stage'
    BY <1>1, <2>1 DEF Inv, Stage, Visiting
  <2>3. Parsed' = Parsed
    BY <2>1 DEF Parsed
  <2>4. Handler'
    BY <1>1, <2>1, <2>3 DEF Inv, Handler
  <2>5. QED
    BY <1>1, <2>1, <2>2, <2>4 DEF Inv
<1>7. CASE UNCHANGED vars
  <2>1. UNCHANGED <<stmt, nodes, p, outcome, res, err, reply>>
    BY <1>7 DEF vars, handlerVars
  <2>2. Stage'
    BY <1>1, <2>1 DEF Inv, Stage, Visiting
  <2>3. Handler'
    BY <1>1, <2>1 DEF Inv, Handler, Answer, Parsed
  <2>4. QED
    BY <1>1, <2>1, <2>2, <2>3 DEF Inv
<1>8. QED
  BY <1>1, <1>2, <1>3, <1>4, <1>5, <1>6, <1>7 DEF Next

(* The visit and the handler stay where they may be: what is collected is  *)
(* on the way to what the statement says, or LeaveFunc was given just that *)
(* (sqlparse.go:54-107, confighandler.go:18-64).                           *)
THEOREM Invariance == Spec => []Inv
BY InvInit, InvNext, PTL DEF Spec

(* The fields of what is expected.                                         *)
LEMMA ExpectedFields ==
    ASSUME NEW st, st.where.type \in {"none", "compare"}
    PROVE  /\ Expected(st).statement = st.kind
           /\ Expected(st).columns = st.columns /\ Expected(st).values = Values(st)
           /\ st.where.type = "none" => Expected(st).whereColumns = <<>>
           /\ st.where.type = "compare" => /\ Expected(st).whereColumns = <<st.where.column>>
                                           /\ Expected(st).whereValues = <<st.where.value>>
                                           /\ Expected(st).whereOp = st.where.op
<1>1. CASE st.where.type = "none"
  BY <1>1 DEF Expected, Searched, EmptyQuery
<1>2. CASE st.where.type = "compare"
  <2>1. \A x : Append(<<>>, x) = <<x>>
    BY FirstAppended
  <2>2. QED
    BY <1>2, <2>1 DEF Expected, Searched, EmptyQuery
<1>3. QED
  BY <1>1, <1>2

(* A visit starts from a collection.                                       *)
LEMMA LeadsFrom ==
    ASSUME NEW q, NEW ns \in Seq(AllNodes), NEW r, Leads(q, ns, r)
    PROVE  q \in Queries
<1>1. PICK f : Run(f, q, ns, r)
  BY DEF Leads
<1>2. Len(ns) \in Nat /\ f \in [0 .. Len(ns) -> Queries] /\ f[0] = q
  BY <1>1 DEF Run
<1>3. 0 \in 0 .. Len(ns)
  BY <1>2
<1>4. QED
  BY <1>2, <1>3

(* What is collected is typed, and a clause that was entered will be left. *)
LEMMA QueryInv ==
    ASSUME Inv
    PROVE  /\ p \in Queries /\ p.statement \in {"", stmt.kind}
           /\ p.inWhere => \E i \in DOMAIN nodes : nodes[i].node = "leaveBinary"
<1>1. CASE stmt.kind \in Silent /\ nodes = <<>> /\ outcome = Pending /\ p = EmptyQuery
  <2>1. EmptyQuery \in Queries
    <3>1. <<>> \in Seq(STRING)
      OBVIOUS
    <3>2. QED
      BY <3>1 DEF EmptyQuery, Queries, Words, Ops
  <2>2. QED
    BY <1>1, <2>1 DEF EmptyQuery
<1>2. CASE p.statement \in {"", stmt.kind} /\ \E ns, r : Visiting(ns, r)
  <2>1. PICK ns, r : Visiting(ns, r)
    BY <1>2
  <2>2. /\ ns \in Seq(StatementNodes(stmt)) /\ nodes = ns \o <<Ending(stmt)>>
        /\ Leads(p, ns, r) /\ Final(stmt, r)
    BY <2>1 DEF Visiting
  <2>3. ns \in Seq(AllNodes)
    <3>1. StatementNodes(stmt) \subseteq AllNodes
      BY KindsOfNodes
    <3>2. QED
      BY <2>2, <3>1
  <2>4. p \in Queries
    BY <2>2, <2>3, LeadsFrom
  <2>5. ASSUME p.inWhere PROVE \E i \in DOMAIN nodes : nodes[i].node = "leaveBinary"
    <3>1. PICK i \in DOMAIN ns : ns[i].node = "leaveBinary"
      BY <2>2, <2>3, <2>5, LeavesWhere DEF Final
    <3> DEFINE S == StatementNodes(stmt) \cup {Ending(stmt)}
    <3>2. ns \in Seq(S) /\ <<Ending(stmt)>> \in Seq(S)
      BY <2>2
    <3> HIDE DEF S
    <3>3. i \in 1 .. Len(ns) /\ DOMAIN nodes = 1 .. Len(ns) + 1 /\ Len(ns) \in Nat
      BY <2>2, <3>2
    <3>4. nodes[i] = ns[i]
      BY <2>2, <3>2, <3>3, Halves
    <3>5. QED
      BY <3>1, <3>3, <3>4
  <2>6. QED
    BY <1>2, <2>4, <2>5
<1>3. CASE nodes = <<>> /\ Final(stmt, p)
  BY <1>3 DEF Final
<1>4. QED
  BY <1>1, <1>2, <1>3 DEF Inv, Stage

(* After its end a statement was collected in full.                        *)
LEMMA FinishedIs ==
    ASSUME Inv, Finished
    PROVE  /\ stmt \in Statements /\ stmt.kind \in Spoken /\ nodes = <<>>
           /\ outcome = LeaveFunc(p) /\ Final(stmt, p)
<1>1. outcome # Pending
  BY DEF Finished, Pending
<1>2. QED
  BY <1>1 DEF Inv, Stage

(* The outcome is pending until the last node.                             *)
LEMMA PendingIs ==
    ASSUME Inv
    PROVE  /\ outcome.status \in {"pending", "ok", "error"}
           /\ outcome.status = "pending" <=> nodes # <<>> \/ Visits(stmt) = {<<>>}
           /\ outcome.status = "pending" <=> outcome = Pending
<1>1. Pending.status = "pending"
  BY DEF Pending
<1>2. stmt \in Statements
  BY DEF Inv
<1>3. CASE stmt.kind \in Silent /\ nodes = <<>> /\ outcome = Pending /\ p = EmptyQuery
  BY <1>1, <1>2, <1>3, SilentVisits
<1>4. CASE outcome = Pending /\ \E ns, r : Visiting(ns, r)
  <2>1. nodes # <<>>
    BY <1>4, LastNode DEF Visiting
  <2>2. QED
    BY <1>1, <1>4, <2>1
<1>5. CASE stmt.kind \in Spoken /\ nodes = <<>> /\ outcome = LeaveFunc(p) /\ Final(stmt, p)
  <2>1. outcome.status \in {"ok", "error"}
    BY <1>5, LeaveStatus DEF Final
  <2>2. Visits(stmt) # {<<>>}
    <3>1. SUFFICES ASSUME <<>> \in Visits(stmt) PROVE FALSE
      OBVIOUS
    <3>2. PICK ns, r : ns \in Seq(StatementNodes(stmt)) /\ <<>> = ns \o <<Ending(stmt)>>
      BY <1>2, <1>5, <3>1, VisitsLead
    <3>3. QED
      BY <3>2, LastNode
  <2>3. QED
    BY <1>1, <1>5, <2>1, <2>2
<1>6. QED
  BY <1>3, <1>4, <1>5 DEF Inv, Stage

(* A statement is answered after its last node, and the lists hold no more *)
(* than its nodes (ParsedQuery.Query, sqlparse.go:109-133).                *)
THEOREM StatementsAreTyped == Spec => []TypeOK
<1>1. ASSUME Inv PROVE TypeOK
  <2>1. /\ outcome.status \in {"pending", "ok", "error"}
        /\ outcome.status = "pending" <=> nodes # <<>> \/ Visits(stmt) = {<<>>}
    BY <1>1, PendingIs
  <2>2. {res, err} \subseteq {"nil", "earlier", "own"}
    BY <1>1 DEF Inv, Handler
  <2>3. reply \in [is : {"pending", "result", "error", "panic"}, whose : {"nobody", "nil", "earlier", "own"}]
    BY <1>1, <2>2 DEF Inv, Handler, NotYet, Answer
  <2>4. /\ p \in Queries /\ p.statement \in {"", stmt.kind}
        /\ p.inWhere => \E i \in DOMAIN nodes : nodes[i].node = "leaveBinary"
    BY <1>1, QueryInv
  <2>5. /\ p.inWhere \in BOOLEAN
        /\ \A f \in {"columns", "values", "whereColumns", "whereValues"} : p[f] \in Seq(STRING)
    BY <2>4 DEF Queries
  <2>6. stmt \in Statements
    BY <1>1 DEF Inv
  <2>7. QED
    BY <2>1, <2>2, <2>3, <2>4, <2>5, <2>6 DEF TypeOK
<1>2. QED
  BY <1>1, Invariance, PTL

(* An administrator is told that a change was made exactly when it was,    *)
(* and never gets rows of a SELECT that failed, whatever the session did   *)
(* before (confighandler.go:18-64).                                        *)
THEOREM AnswersStayTrue == Spec => []AnswersAreTrue
<1>1. ASSUME Inv PROVE AnswersAreTrue
  <2>1. SUFFICES ASSUME reply # NotYet
                 PROVE  /\ reply.whose = "own" => (reply.is = "result" <=> outcome.status = "ok")
                        /\ stmt.kind \in {"insert", "update", "delete"} => reply.whose = "own"
                        /\ stmt.kind = "select" /\ reply.is = "result" => reply.whose = "own"
                        /\ stmt.kind = "other" => reply.whose # "own"
                        /\ reply.is = "panic" <=> stmt.kind = "empty"
    BY DEF AnswersAreTrue
  <2>2. Handler /\ outcome.status \in {"pending", "ok", "error"}
        /\ (outcome.status = "pending" <=> outcome = Pending) /\ stmt \in Statements
    BY <1>1, PendingIs DEF Inv
  <2>3. outcome = Pending /\ nodes = <<>> => stmt.kind \in Silent
    <3>1. ASSUME NEW ns, NEW r, Visiting(ns, r) PROVE nodes # <<>>
      BY <3>1, LastNode DEF Visiting
    <3>2. stmt.kind \in Spoken /\ outcome = LeaveFunc(p) /\ Final(stmt, p) => outcome # Pending
      BY LeaveStatus DEF Final, Pending
    <3>3. QED
      BY <1>1, <3>1, <3>2 DEF Inv, Stage
  <2>4. outcome # Pending => stmt.kind \in Spoken
    BY <1>1 DEF Inv, Stage
  <2>5. CASE ~ Parsed
    <3>1. reply = [is |-> IF stmt.kind = "empty" THEN "panic" ELSE "error", whose |-> "own"]
      BY <2>1, <2>2, <2>5 DEF Handler
    <3>2. stmt.kind \in {"broken", "empty"} /\ outcome = Pending
      BY <2>4, <2>5 DEF Parsed, Spoken
    <3>3. QED
      BY <2>2, <3>1, <3>2
  <2>6. CASE Parsed
    <3>1. reply = Answer /\ nodes = <<>>
      BY <2>1, <2>2, <2>6 DEF Handler
    <3>2. CASE outcome = Pending
      <4>1. stmt.kind = "other" /\ {res, err} \subseteq {"nil", "earlier"}
        BY <2>2, <2>3, <2>6, <3>1, <3>2 DEF Parsed, Silent, Handler
      <4>2. QED
        BY <3>1, <4>1 DEF Answer
    <3>3. CASE outcome # Pending
      <4>1. /\ stmt.kind \in Spoken /\ res = "own" /\ err \in {"nil", "earlier", "own"}
            /\ err = "own" <=> outcome.status = "error"
            /\ err = "earlier" => stmt.kind = "select"
            /\ outcome.status \in {"ok", "error"}
        BY <2>2, <2>4, <3>3 DEF Handler
      <4>2. QED
        BY <3>1, <4>1 DEF Answer, Spoken
    <3>4. QED
      BY <3>2, <3>3
  <2>7. QED
    BY <2>5, <2>6
<1>2. QED
  BY <1>1, Invariance, PTL

(* The columns of a statement, all columns if it names none.               *)
LEMMA ColumnsOrIs ==
    ASSUME NEW q, q.columns \in Seq(STRING)
    PROVE  /\ ColumnsOr(q) \in Seq(STRING \cup Known) /\ Len(ColumnsOr(q)) \in Nat \ {0}
           /\ ToSet(q.columns) \subseteq ToSet(ColumnsOr(q))
           /\ q.columns # <<>> => ColumnsOr(q) = q.columns
<1>1. CASE q.columns = <<>>
  <2>1. ColumnsOr(q) = <<"user", "password">>
    BY <1>1 DEF ColumnsOr
  <2>2. ToSet(q.columns) = {}
    BY <1>1 DEF ToSet
  <2>3. "user" \in STRING \cup Known /\ "password" \in STRING \cup Known
    BY DEF Known
  <2>4. QED
    BY <1>1, <2>1, <2>2, <2>3
<1>2. CASE q.columns # <<>>
  <2>1. ColumnsOr(q) = q.columns
    BY <1>2 DEF ColumnsOr
  <2>2. q.columns \in Seq(STRING \cup Known) /\ Len(q.columns) \in Nat \ {0}
    BY <1>2
  <2>3. QED
    BY <1>2, <2>1, <2>2
<1>3. QED
  BY <1>1, <1>2

(* An INSERT without values leaves no remainder.                           *)
LEMMA NoRemainder == \A w \in Nat \ {0} : 0 % w = 0
OBVIOUS

(* A comparison other than equality, an unknown column to write, or values *)
(* whose number is no multiple of that of the columns: all are refused     *)
(* before any row is touched (sqlparse.go:147, 155, 170, 178, 196).        *)
THEOREM UnclearStatementsStayRefused == Spec => []UnclearStatementsAreRefused
<1>1. ASSUME Inv PROVE UnclearStatementsAreRefused
  <2>1. SUFFICES ASSUME Finished
                 PROVE  /\ stmt.kind # "insert" /\ stmt.where.type = "compare" /\ stmt.where.op # "="
                           => outcome.status = "error"
                        /\ stmt.kind \in {"insert", "update"} /\ Values(stmt) # <<>> /\ ~ ToSet(stmt.columns) \subseteq Known
                           => outcome.status = "error"
                        /\ stmt.kind = "insert" /\ Len(Values(stmt)) % Len(ColumnsOr(stmt)) # 0
                           => outcome.status = "error"
    BY DEF UnclearStatementsAreRefused
  <2>2. /\ stmt \in Statements /\ stmt.kind \in Spoken /\ outcome = LeaveFunc(p) /\ Final(stmt, p)
    BY <1>1, <2>1, FinishedIs
  <2>3. /\ p \in Queries /\ p.statement = stmt.kind /\ ToSet(stmt.columns) \subseteq ToSet(p.columns)
        /\ stmt.where.type \in {"none", "compare"} => p = Expected(stmt)
    BY <2>2 DEF Final, Simple
  <2>4. p.columns \in Seq(STRING) /\ stmt.columns \in Seq(STRING) /\ Values(stmt) \in Seq(STRING)
    BY <2>2, <2>3, StatementsAssumption, ValuesType DEF Queries
  <2>5. Failed.status = "error"
    BY DEF Failed
  <2>6. ASSUME stmt.kind # "insert", stmt.where.type = "compare", stmt.where.op # "="
        PROVE  outcome.status = "error"
    <3>1. p.whereColumns = <<stmt.where.column>> /\ p.whereOp = stmt.where.op
      BY <2>3, <2>6, ExpectedFields
    <3>2. ~ Supported(p)
      BY <2>6, <3>1 DEF Supported
    <3>3. QED
      BY <2>2, <2>3, <2>5, <2>6, <3>2 DEF LeaveFunc
  <2>7. stmt.kind = "insert" =>
           p.columns = stmt.columns /\ p.values = Values(stmt) /\ ColumnsOr(p) = ColumnsOr(stmt)
    <3>1. SUFFICES ASSUME stmt.kind = "insert"
                   PROVE  p.columns = stmt.columns /\ p.values = Values(stmt) /\ ColumnsOr(p) = ColumnsOr(stmt)
      BY Zenon
    <3>2. stmt.where.type = "none"
      BY <2>2, <3>1, StatementsAssumption
    <3>3. p.columns = stmt.columns /\ p.values = Values(stmt)
      BY <2>3, <3>2, ExpectedFields
    <3>4. QED
      BY <3>3 DEF ColumnsOr
  <2>8. ~ ToSet(stmt.columns) \subseteq Known => ~ ToSet(ColumnsOr(p)) \subseteq Known
    BY <2>3, <2>4, ColumnsOrIs
  <2>9. ASSUME stmt.kind = "update", ~ ToSet(stmt.columns) \subseteq Known
        PROVE  outcome.status = "error"
    <3>1. update(p) = Failed
      BY <2>8, <2>9 DEF update
    <3>2. QED
      BY <2>2, <2>3, <2>5, <2>9, <3>1 DEF LeaveFunc
  <2>10. stmt.kind = "insert" => outcome = columnsToConfig(p)
    BY <2>2, <2>3 DEF LeaveFunc
  <2>11. ASSUME stmt.kind = "insert", Values(stmt) # <<>>, ~ ToSet(stmt.columns) \subseteq Known
         PROVE  outcome.status = "error"
    <3>1. columnsToConfig(p) = Failed
      BY <2>7, <2>8, <2>11 DEF columnsToConfig
    <3>2. QED
      BY <2>5, <2>10, <2>11, <3>1
  <2>12. ASSUME stmt.kind = "insert", Len(Values(stmt)) % Len(ColumnsOr(stmt)) # 0
         PROVE  outcome.status = "error"
    <3>1. Values(stmt) # <<>>
      <4>1. Len(ColumnsOr(stmt)) \in Nat \ {0}
        BY <2>4, ColumnsOrIs
      <4>2. 0 % Len(ColumnsOr(stmt)) = 0
        BY <4>1, NoRemainder
      <4>3. QED
        BY <2>12, <4>2
    <3>2. columnsToConfig(p) = Failed
      BY <2>7, <2>12, <3>1 DEF columnsToConfig
    <3>3. QED
      BY <2>5, <2>10, <2>12, <3>2
  <2>13. QED
    BY <2>6, <2>9, <2>11, <2>12
<1>2. QED
  BY <1>1, Invariance, PTL

-----------------------------------------------------------------------------
(* Columns and rows.                                                       *)

Distinct(cols) ==
    /\ ToSet(cols) \subseteq Known
    /\ Len(cols) \in {1, 2}
    /\ \A i, j \in 1 .. Len(cols) : cols[i] = cols[j] => i = j

(* There are two known columns.                                            *)
LEMMA TwoKnown == IsFiniteSet(Known) /\ Cardinality(Known) = 2
<1>1. IsFiniteSet({"user"}) /\ Cardinality({"user"}) = 1
  BY FS_Singleton
<1>2. "password" \notin {"user"}
  OBVIOUS
<1>3. IsFiniteSet({"user"} \cup {"password"}) /\ Cardinality({"user"} \cup {"password"}) = 2
  BY <1>1, <1>2, FS_AddElement
<1>4. Known = {"user"} \cup {"password"}
  BY DEF Known
<1>5. QED
  BY <1>3, <1>4

(* As many different columns as columns: each is named once.               *)
LEMMA EachOnce ==
    ASSUME NEW S, NEW cols \in Seq(S), ToSet(cols) \subseteq Known,
           Cardinality(ToSet(cols)) = Len(cols), cols # <<>>
    PROVE  Distinct(cols)
<1>1. /\ Len(cols) \in Nat \ {0} /\ DOMAIN cols = 1 .. Len(cols)
  OBVIOUS
<1>2. Cardinality(ToSet(cols)) <= 2
  BY TwoKnown, FS_Subset
<1>3. Len(cols) \in {1, 2}
  BY <1>1, <1>2
<1>4. ASSUME NEW i \in 1 .. Len(cols), NEW j \in 1 .. Len(cols), cols[i] = cols[j], i # j
      PROVE  FALSE
  <2>1. Len(cols) = 2 /\ 1 .. Len(cols) = {1, 2}
    BY <1>3, <1>4
  <2>2. cols[1] = cols[2]
    BY <1>4, <2>1
  <2>3. ToSet(cols) = {cols[1]}
    BY <1>1, <2>1, <2>2 DEF ToSet
  <2>4. Cardinality(ToSet(cols)) = 1
    BY <2>3, FS_Singleton
  <2>5. QED
    BY <2>1, <2>4
<1>5. QED
  BY <1>3, <1>4 DEF Distinct

(* Which is so of the two by default.                                      *)
LEMMA BothColumns == Distinct(<<"user", "password">>)
<1> DEFINE c == <<"user", "password">>
<1>1. Len(c) = 2 /\ c[1] = "user" /\ c[2] = "password" /\ DOMAIN c = {1, 2} /\ 1 .. 2 = {1, 2}
  OBVIOUS
<1>2. "user" # "password"
  OBVIOUS
<1> HIDE DEF c
<1>3. ToSet(c) \subseteq Known
  BY <1>1 DEF ToSet, Known
<1>4. \A i, j \in {1, 2} : c[i] = c[j] => i = j
  BY <1>1, <1>2
<1>5. Distinct(c)
  BY <1>1, <1>3, <1>4 DEF Distinct
<1>6. QED
  BY <1>5 DEF c

(* The place of a column that is named.                                    *)
LEMMA PlaceOf ==
    ASSUME NEW S, NEW cols \in Seq(S), Distinct(cols), NEW k \in ToSet(cols)
    PROVE  \E m \in 1 .. Len(cols) :
              /\ cols[m] = k
              /\ (CHOOSE i \in DOMAIN cols : cols[i] = k) = m
              /\ {i \in DOMAIN cols : cols[i] = k} = {m}
<1>1. DOMAIN cols = 1 .. Len(cols)
  OBVIOUS
<1>2. PICK m \in 1 .. Len(cols) : cols[m] = k
  BY <1>1 DEF ToSet
<1>3. \A i \in 1 .. Len(cols) : cols[i] = k => i = m
  BY <1>2 DEF Distinct
<1>4. {i \in DOMAIN cols : cols[i] = k} = {m}
  BY <1>1, <1>2, <1>3
<1>5. (CHOOSE i \in DOMAIN cols : cols[i] = k) = m
  BY <1>1, <1>2, <1>3
<1>6. QED
  BY <1>2, <1>4, <1>5

(* The greatest number of a set of one.                                    *)
LEMMA GreatestOfOne == \A m \in Nat : (CHOOSE i \in {m} : \A j \in {m} : j <= i) = m
OBVIOUS

(* Where a column is named.                                                *)
Place(cols, k) == CHOOSE i \in DOMAIN cols : cols[i] = k

(* The row with the named columns set.                                     *)
Filled(r, cols, vals) ==
    [k \in Known |-> IF k \in ToSet(cols) THEN vals[Place(cols, k)] ELSE r[k]]

(* Where each column is named once, the last that names it is the one.     *)
LEMMA AssignedFills ==
    ASSUME NEW S, NEW cols \in Seq(S), Distinct(cols), NEW r, NEW vals
    PROVE  Assigned(r, cols, vals) = Filled(r, cols, vals)
<1> DEFINE A(k) == LET at == {i \in DOMAIN cols : cols[i] = k}
                   IN  IF at = {} THEN r[k] ELSE vals[CHOOSE i \in at : \A j \in at : j <= i]
           B(k) == IF k \in ToSet(cols)
                   THEN vals[CHOOSE i \in DOMAIN cols : cols[i] = k] ELSE r[k]
<1>1. ASSUME NEW k \in Known PROVE A(k) = B(k)
  <2>1. CASE k \in ToSet(cols)
    <3>1. PICK m \in 1 .. Len(cols) : /\ (CHOOSE i \in DOMAIN cols : cols[i] = k) = m
                                      /\ {i \in DOMAIN cols : cols[i] = k} = {m}
      BY <2>1, PlaceOf
    <3>2. m \in Nat
      OBVIOUS
    <3>3. (CHOOSE i \in {m} : \A j \in {m} : j <= i) = m
      BY <3>2, GreatestOfOne
    <3>4. A(k) = vals[m]
      BY <3>1, <3>3
    <3>5. B(k) = vals[m]
      BY <2>1, <3>1
    <3>6. QED
      BY <3>4, <3>5
  <2>2. CASE k \notin ToSet(cols)
    <3>1. {i \in DOMAIN cols : cols[i] = k} = {}
      BY <2>2 DEF ToSet
    <3>2. QED
      BY <2>2, <3>1
  <2>3. QED
    BY <2>1, <2>2
<1>2. Assigned(r, cols, vals) = [k \in Known |-> A(k)]
  BY DEF Assigned
<1> HIDE DEF A
<1>3. [k \in Known |-> A(k)] = [k \in Known |-> B(k)]
  BY <1>1
<1>4. QED
  BY <1>2, <1>3 DEF Filled, Place

(* The same, as one formula.                                               *)
LEMMA AssignedIs ==
    \A S : \A cols \in Seq(S) : Distinct(cols) =>
        \A r, vals : Assigned(r, cols, vals) = Filled(r, cols, vals)
BY AssignedFills

(* One row of the values of an INSERT.                                     *)
LEMMA RowOfValues ==
    ASSUME NEW S, NEW vals \in Seq(S), NEW w \in {1, 2}, NEW i \in 1 .. Len(vals) \div w, NEW m \in 1 .. w
    PROVE  SubSeq(vals, (i - 1) * w + 1, i * w)[m] = vals[(i - 1) * w + m]
<1>1. Len(vals) \in Nat /\ DOMAIN vals = 1 .. Len(vals) /\ \A j \in 1 .. Len(vals) : vals[j] \in S
  OBVIOUS
<1>2. CASE w = 1
  <2>1. /\ i \in Int /\ (i - 1) * w + 1 = i /\ i * w = i /\ m = 1 /\ i \in 1 .. Len(vals)
    BY <1>1, <1>2
  <2>2. \A j \in i .. i : vals[j] \in S
    BY <1>1, <2>1
  <2>3. 1 \in 1 .. i - i + 1 /\ i + 1 - 1 = i
    BY <2>1
  <2>4. SubSeq(vals, i, i)[1] = vals[i + 1 - 1]
    BY <2>1, <2>2, <2>3, SubSeqProperties
  <2>5. QED
    BY <2>1, <2>3, <2>4
<1>3. CASE w = 2
  <2> DEFINE a == 2 * i - 1
             b == 2 * i
  <2>1. /\ i \in Int /\ (i - 1) * w + 1 = a /\ i * w = b /\ (i - 1) * w + m = a + m - 1
        /\ a \in 1 .. Len(vals) /\ b \in 1 .. Len(vals) /\ a \in Int /\ b \in Int /\ b = a + 1 /\ m \in 1 .. b - a + 1
    BY <1>1, <1>3
  <2> HIDE DEF a, b
  <2>2. \A j \in a .. b : vals[j] \in S
    BY <1>1, <2>1
  <2>3. SubSeq(vals, a, b)[m] = vals[a + m - 1]
    BY <2>1, <2>2, SubSeqProperties
  <2>4. QED
    BY <2>1, <2>3
<1>4. QED
  BY <1>2, <1>3

(* Rows that come out even need no rounding up.                            *)
LEMMA RowsOfValues ==
    ASSUME NEW n \in Nat, NEW w \in {1, 2}, n % w = 0
    PROVE  (n + w - 1) \div w = n \div w
<1>1. CASE w = 1
  BY <1>1
<1>2. CASE w = 2
  BY <1>2
<1>3. QED
  BY <1>1, <1>2

(* The choice of a plain clause.                                           *)
LEMMA ChoiceIs ==
    ASSUME NEW st \in Statements, Plain(st), NEW q, q = Expected(st)
    PROVE  Supported(q) /\ Choice(q) = Wanted(st)
<1>1. st.where \in Clauses
  BY StatementsAssumption
<1>2. CASE st.where.type = "none"
  <2>1. q.whereColumns = <<>>
    BY <1>2, ExpectedFields
  <2>2. Holding[st.where] = Rows
    BY <1>1, <1>2, SimpleHolding
  <2>3. Selected(Table, Rows) = Table
    BY TableAssumption, SelectedAll
  <2>4. QED
    BY <2>1, <2>2, <2>3 DEF Supported, Choice, Wanted
<1>3. CASE st.where.type = "compare"
  <2> DEFINE c == st.where.column
             v == st.where.value
             R == {r \in Rows : r[c] = v}
  <2>1. c \in Known /\ st.where.op = "="
    BY <1>3 DEF Plain
  <2>2. q.whereColumns = <<c>> /\ q.whereValues = <<v>> /\ q.whereOp = "="
    BY <1>3, <2>1, ExpectedFields
  <2>3. Holding[st.where] = R
    BY <1>1, <1>3, <2>1, SimpleHolding
  <2>4. <<c>> # <<>> /\ DOMAIN <<c>> = {1} /\ <<c>>[1] = c /\ getString(<<v>>, 1) = v
    BY DEF getString
  <2>5. {i \in DOMAIN <<c>> : <<c>>[i] \in Known} = {1}
    BY <2>1, <2>4
  <2>6. (CHOOSE i \in {1} : \A j \in {1} : j <= i) = 1
    BY GreatestOfOne
  <2> HIDE DEF c, v
  <2>7. Choice(q) = Selected(Table, R)
    <3>1. {i \in DOMAIN q.whereColumns : q.whereColumns[i] \in Known} = {1} /\ q.whereColumns # <<>>
      BY <2>2, <2>4, <2>5
    <3>2. Choice(q) = Selected(Table, {r \in Rows : r[q.whereColumns[1]] = getString(q.whereValues, 1)})
      <4> DEFINE F(i) == Selected(Table, {r \in Rows : r[q.whereColumns[i]] = getString(q.whereValues, i)})
                 at == {i \in DOMAIN q.whereColumns : q.whereColumns[i] \in Known}
      <4>1. Choice(q) = IF q.whereColumns = <<>> THEN Table
                        ELSE IF at = {} THEN <<>> ELSE F(CHOOSE i \in at : \A j \in at : j <= i)
        BY DEF Choice
      <4> HIDE DEF F, at
      <4>2. at = {1}
        BY <3>1 DEF at
      <4>3. Choice(q) = F(1)
        BY <2>6, <3>1, <4>1, <4>2
      <4>4. QED
        BY <4>3 DEF F
    <3>3. QED
      BY <2>2, <2>4, <3>2
  <2>8. QED
    BY <2>2, <2>3, <2>7 DEF Supported, Wanted
<1>4. QED
  BY <1>2, <1>3 DEF Plain

(* The columns of a plain statement, or both.                              *)
LEMMA PlainColumns ==
    ASSUME NEW st \in Statements, Plain(st), NEW q, q = Expected(st)
    PROVE  /\ q.columns = st.columns /\ q.values = Values(st) /\ q.statement = st.kind
           /\ ColumnsOr(q) = ColumnsOr(st)
           /\ ColumnsOr(q) \in Seq(STRING \cup Known) /\ Distinct(ColumnsOr(q))
           /\ st.columns \in Seq(STRING) /\ Values(st) \in Seq(STRING)
<1>1. st.columns \in Seq(STRING) /\ Values(st) \in Seq(STRING)
  BY StatementsAssumption, ValuesType
<1>2. q.columns = st.columns /\ q.values = Values(st) /\ q.statement = st.kind
  BY ExpectedFields DEF Plain
<1>3. ColumnsOr(q) = ColumnsOr(st)
  BY <1>2 DEF ColumnsOr
<1>4. ColumnsOr(q) \in Seq(STRING \cup Known)
  BY <1>1, <1>2, ColumnsOrIs
<1>5. Distinct(ColumnsOr(q))
  <2>1. CASE st.columns = <<>>
    BY <1>2, <2>1, BothColumns DEF ColumnsOr
  <2>2. CASE st.columns # <<>>
    <3>1. Distinct(st.columns)
      BY <1>1, <2>2, EachOnce DEF Plain
    <3>2. QED
      BY <1>2, <2>2, <3>1 DEF ColumnsOr
  <2>3. QED
    BY <2>1, <2>2
<1>6. QED
  BY <1>1, <1>2, <1>3, <1>4, <1>5

(* So many rows of so many values are divided by their length.             *)
LEMMA Multiple ==
    ASSUME NEW w \in {1, 2}, NEW m \in Nat, NEW n, n = m * w
    PROVE  n % w = 0 /\ n \div w = m
<1>1. CASE w = 1
  BY <1>1
<1>2. CASE w = 2
  BY <1>2
<1>3. QED
  BY <1>1, <1>2

(* A plain INSERT yields the rows it says.                                 *)
LEMMA PlainInsert ==
    ASSUME NEW st \in Statements, Plain(st), st.kind = "insert", NEW q, q = Expected(st)
    PROVE  columnsToConfig(q).status = "ok" /\ columnsToConfig(q).rows = InsertMeans(st)
<1> DEFINE cols == ColumnsOr(q)
           w == Len(cols)
           n == Len(q.values)
           rows == st.rows
           at(k) == Place(cols, k)
<1>1. /\ q.values = Values(st) /\ ColumnsOr(st) = cols /\ cols \in Seq(STRING \cup Known)
      /\ Distinct(cols) /\ q.values \in Seq(STRING)
  BY PlainColumns
<1>0. /\ Tabled(q.values, rows, w, Len(rows)) /\ rows \in Seq(Seq(STRING))
  <2>1. w \in {1, 2} /\ rows \in Seq(Seq(STRING)) /\ q.values = FlattenSeq(rows)
    BY <1>1, StatementsAssumption DEF Distinct, Values
  <2>2. \A i \in DOMAIN rows : Len(rows[i]) = w
    BY <1>1 DEF Plain
  <2> HIDE DEF rows, w
  <2>3. Tabled(FlattenSeq(rows), rows, w, Len(rows))
    BY <2>1, <2>2, RowsTabled
  <2>4. QED
    BY <2>1, <2>3
<1>2. n \in Nat /\ w \in {1, 2} /\ n % w = 0 /\ n \div w = Len(rows) /\ ToSet(cols) \subseteq Known
  <2>1. w \in {1, 2} /\ ToSet(cols) \subseteq Known
    BY <1>1 DEF Distinct
  <2>2. n \in Nat
    BY <1>1
  <2>3. n % w = 0 /\ n \div w = Len(rows)
    <3>1. n = Len(rows) * w
      BY <1>0 DEF Tabled
    <3>2. Len(rows) \in Nat
      BY <1>0
    <3> HIDE DEF n, w, rows
    <3>3. QED
      BY <2>1, <3>1, <3>2, Multiple
  <2>4. QED
    BY <2>1, <2>2, <2>3
<1>3. /\ columnsToConfig(q).status = "ok"
      /\ columnsToConfig(q).rows = [i \in 1 .. Chunks(q) |-> Assigned(Blank, cols, Chunk(q, i))]
  BY <1>2 DEF columnsToConfig
<1> HIDE DEF cols
<1>4. Chunks(q) = n \div w
  <2>1. Chunks(q) = (n + w - 1) \div w
    BY DEF Chunks, cols
  <2> HIDE DEF n, w
  <2>2. QED
    BY <1>2, <2>1, RowsOfValues
<1>5. ASSUME NEW i \in 1 .. n \div w
      PROVE  Assigned(Blank, cols, Chunk(q, i))
               = [k \in Known |-> IF k \in ToSet(cols) THEN q.values[(i - 1) * w + at(k)] ELSE ""]
  <2>1. Assigned(Blank, cols, Chunk(q, i))
          = [k \in Known |-> IF k \in ToSet(cols) THEN Chunk(q, i)[at(k)] ELSE Blank[k]]
    <3>1. Assigned(Blank, cols, Chunk(q, i)) = Filled(Blank, cols, Chunk(q, i))
      BY <1>1, AssignedIs
    <3>2. QED
      BY <3>1 DEF Filled
  <2>2. Chunk(q, i) = SubSeq(q.values, (i - 1) * w + 1, i * w)
    BY DEF Chunk, cols
  <2>3. ASSUME NEW k \in ToSet(cols) PROVE Chunk(q, i)[at(k)] = q.values[(i - 1) * w + at(k)]
    <3>1. at(k) \in 1 .. w
      BY <1>1, PlaceOf DEF Place
    <3> HIDE DEF at, w, n
    <3>2. SubSeq(q.values, (i - 1) * w + 1, i * w)[at(k)] = q.values[(i - 1) * w + at(k)]
      BY <1>1, <1>2, <3>1, RowOfValues DEF n
    <3>3. QED
      BY <2>2, <3>2
  <2>4. \A k \in Known : Blank[k] = ""
    <3>1. Blank["user"] = "" /\ Blank["password"] = ""
      BY DEF Blank
    <3>2. QED
      BY <3>1 DEF Known
  <2> HIDE DEF at, w, n
  <2>5. QED
    BY <2>1, <2>3, <2>4
<1>6. InsertMeans(st) =
         [i \in 1 .. n \div w |->
             [k \in Known |-> IF k \in ToSet(cols) THEN q.values[(i - 1) * w + at(k)] ELSE ""]]
  <2> HIDE DEF cols
  <2>1. \A k : Named(st, k) = at(k)
    BY <1>1 DEF Named, Place
  <2>2. \A k \in ToSet(cols) : at(k) \in 1 .. w
    BY <1>1, PlaceOf DEF Place
  <2> HIDE DEF at, w, n
  <2>3. ASSUME NEW i \in 1 .. n \div w, NEW k \in ToSet(cols)
        PROVE  rows[i][at(k)] = q.values[(i - 1) * w + at(k)]
    BY <1>0, <1>2, <2>2 DEF Tabled
  <2> DEFINE M(i) == [k \in Known |-> IF k \in ToSet(cols) THEN rows[i][at(k)] ELSE ""]
             V(i) == [k \in Known |-> IF k \in ToSet(cols) THEN q.values[(i - 1) * w + at(k)] ELSE ""]
  <2>4. InsertMeans(st) = [i \in DOMAIN rows |-> M(i)]
    BY <1>1, <2>1 DEF InsertMeans
  <2>5. DOMAIN rows = 1 .. n \div w
    BY <1>0, <1>2
  <2>6. \A i \in 1 .. n \div w : M(i) = V(i)
    BY <2>3
  <2> HIDE DEF rows, M, V
  <2>7. InsertMeans(st) = [i \in 1 .. n \div w |-> V(i)]
    BY <2>4, <2>5, <2>6
  <2>8. QED
    BY <2>7 DEF V, n, w
<1> DEFINE R(i) == [k \in Known |-> IF k \in ToSet(cols) THEN q.values[(i - 1) * w + at(k)] ELSE ""]
           A(i) == Assigned(Blank, cols, Chunk(q, i))
<1>7. /\ \A i \in 1 .. n \div w : A(i) = R(i)
      /\ columnsToConfig(q).rows = [i \in 1 .. n \div w |-> A(i)]
      /\ InsertMeans(st) = [i \in 1 .. n \div w |-> R(i)]
  BY <1>3, <1>4, <1>5, <1>6, Zenon
<1> HIDE DEF n, w, A, R
<1>8. QED
  BY <1>3, <1>7

(* A plain UPDATE changes the rows it chooses as it says, and fails if it  *)
(* chooses none.                                                           *)
LEMMA PlainUpdate ==
    ASSUME NEW st \in Statements, Plain(st), st.kind = "update", NEW q, q = Expected(st)
    PROVE  /\ Wanted(st) = <<>> => update(q) = Failed
           /\ Wanted(st) # <<>> => update(q).status = "ok" /\ update(q).rows = UpdateMeans(st)
<1> DEFINE cols == ColumnsOr(q)
           at(k) == Place(cols, k)
<1>1. /\ q.values = st.values /\ ColumnsOr(st) = cols /\ cols \in Seq(STRING \cup Known)
      /\ Distinct(cols) /\ q.columns = st.columns
  <2>1. Values(st) = st.values
    BY DEF Values
  <2>2. QED
    BY <2>1, PlainColumns
<1>2. Choice(q) = Wanted(st)
  BY ChoiceIs
<1>3. cols = st.columns /\ Len(q.values) = Len(cols) /\ Len(cols) \in Nat
  BY <1>1 DEF Plain, ColumnsOr
<1>4. ToSet(cols) \subseteq Known
  BY <1>1 DEF Distinct
<1> HIDE DEF cols, at
<1>5. \A r : Assigned(r, cols, q.values)
               = [k \in Known |-> IF k \in ToSet(cols) THEN q.values[at(k)] ELSE r[k]]
  <2>1. \A r : Assigned(r, cols, q.values) = Filled(r, cols, q.values)
    BY <1>1, AssignedIs
  <2>2. QED
    BY <2>1 DEF at, Filled
<1>6. UpdateMeans(st) = [i \in DOMAIN Choice(q) |-> Assigned(Choice(q)[i], cols, q.values)]
  <2>1. \A k : Named(st, k) = at(k)
    BY <1>1 DEF Named, at, Place
  <2>2. QED
    BY <1>1, <1>2, <1>3, <1>5, <2>1 DEF UpdateMeans
<1>7. Wanted(st) = <<>> => update(q) = Failed
  BY <1>2 DEF update
<1>8. ASSUME Wanted(st) # <<>> PROVE update(q).status = "ok" /\ update(q).rows = UpdateMeans(st)
  <2>1. update(q) = [status |-> "ok", chosen |-> Choice(q),
                     rows |-> [i \in DOMAIN Choice(q) |-> Assigned(Choice(q)[i], cols, q.values)]]
    BY <1>2, <1>3, <1>4, <1>8 DEF update, cols
  <2>2. QED
    BY <1>6, <2>1
<1>9. QED
  BY <1>7, <1>8

(* A plain SELECT shows the columns it names of the rows it chooses.       *)
LEMMA PlainSelect ==
    ASSUME NEW st \in Statements, Plain(st), st.kind = "select", NEW q, q = Expected(st)
    PROVE  selectResultset(q).status = "ok" /\ selectResultset(q).rows = SelectMeans(st)
<1> DEFINE cols == ColumnsOr(q)
<1>1. ColumnsOr(st) = cols /\ cols \in Seq(STRING \cup Known) /\ Distinct(cols)
  BY PlainColumns
<1>2. Choice(q) = Wanted(st)
  BY ChoiceIs
<1> HIDE DEF cols
<1>3. cols \in Seq(Known)
  <2>1. \A i \in 1 .. Len(cols) : cols[i] \in Known
    BY <1>1 DEF Distinct, ToSet
  <2>2. QED
    BY <1>1, <2>1
<1>4. Selected(cols, Known) = cols
  BY <1>3, SelectedAll
<1>5. selectResultset(q).status = "ok" /\
      selectResultset(q).rows = [i \in DOMAIN Choice(q) |-> [j \in DOMAIN cols |-> Choice(q)[i][cols[j]]]]
  BY <1>4 DEF selectResultset, cols
<1>6. QED
  BY <1>1, <1>2, <1>5 DEF SelectMeans

(* A plain DELETE leaves the rows it does not choose.                      *)
LEMMA PlainDelete ==
    ASSUME NEW st \in Statements, Plain(st), st.kind = "delete", NEW q, q = Expected(st)
    PROVE  /\ Wanted(st) = <<>> => delete(q) = Failed
           /\ Wanted(st) # <<>> =>
                 /\ delete(q).status = "ok"
                 /\ ByName(st) \/ NoTwins => delete(q).rows = Selected(Table, Rows \ Holding[st.where])
<1> DEFINE H == Holding[st.where]
           W == Wanted(st)
           G == {r \in Rows : r.user \notin {W[i].user : i \in DOMAIN W}}
<1>1. Choice(q) = W
  BY ChoiceIs
<1>2. st.where \in Clauses
  BY StatementsAssumption
<1>3. \A x : (\E i \in 1 .. Len(W) : W[i] = x) <=> x \in H /\ \E i \in 1 .. Len(Table) : Table[i] = x
  BY TableAssumption, SelectedElements DEF Wanted
<1>4. W \in Seq(Rows)
  <2>1. Selected(Table, H) \in Seq(Rows \cap H)
    BY TableAssumption, SelectedType
  <2>2. QED
    BY <2>1 DEF Wanted
<1>5. H = Rows \/ (st.where.type = "compare" /\ H = {r \in Rows : r[st.where.column] = st.where.value})
  BY <1>2, SimpleHolding DEF Plain
<1> HIDE DEF H, W
<1>6. ASSUME ByName(st) \/ NoTwins, NEW i \in 1 .. Len(Table)
      PROVE  Table[i] \in G <=> Table[i] \in Rows \ H
  <2>1. Table[i] \in Rows /\ DOMAIN Table = 1 .. Len(Table) /\ DOMAIN W = 1 .. Len(W)
    BY <1>4, TableAssumption
  <2>2. ASSUME Table[i] \in H PROVE Table[i] \notin G
    <3>1. PICK j \in 1 .. Len(W) : W[j] = Table[i]
      BY <1>3, <2>2
    <3>2. QED
      BY <2>1, <3>1
  <2>3. ASSUME Table[i] \notin G PROVE Table[i] \in H
    <3>1. PICK j \in 1 .. Len(W) : W[j].user = Table[i].user
      BY <2>1, <2>3
    <3>2. PICK m \in 1 .. Len(Table) : Table[m] = W[j]
      BY <1>3, <3>1
    <3>3. W[j] \in H /\ Table[m].user = Table[i].user
      BY <1>3, <3>1, <3>2
    <3>4. CASE NoTwins
      BY <2>1, <3>2, <3>3, <3>4 DEF NoTwins
    <3>5. CASE ByName(st) /\ st.where.type = "compare"
      <4>1. st.where.column = "user"
        BY <3>5 DEF ByName
      <4>2. \A r \in Rows : r["user"] = r.user
        OBVIOUS
      <4>3. H = Rows \/ H = {r \in Rows : r.user = st.where.value}
        BY <1>5, <4>1, <4>2
      <4>4. QED
        BY <2>1, <3>2, <3>3, <4>3
    <3>6. CASE st.where.type # "compare"
      BY <1>5, <2>1, <3>6
    <3>7. QED
      BY <1>6, <3>4, <3>5, <3>6
  <2>4. QED
    BY <2>1, <2>2, <2>3
<1>7. ASSUME ByName(st) \/ NoTwins PROVE Selected(Table, G) = Selected(Table, Rows \ H)
  <2> HIDE DEF G
  <2>1. \A i \in 1 .. Len(Table) : Table[i] \in G <=> Table[i] \in Rows \ H
    BY <1>6, <1>7
  <2>2. QED
    BY <2>1, TableAssumption, SelectedSame
<1>8. W = <<>> => delete(q) = Failed
  BY <1>1 DEF delete
<1>9. ASSUME W # <<>> PROVE delete(q).status = "ok" /\ delete(q).rows = Selected(Table, G)
  BY <1>1, <1>9 DEF delete
<1> HIDE DEF G
<1>10. QED
  BY <1>7, <1>8, <1>9 DEF H, W

(* The flat lists of ParsedQuery lose nothing of a plain statement, in     *)
(* whatever order its columns are named and its parts are visited: it      *)
(* inserts, changes, deletes and shows what it says (sqlparse.go:54-107,   *)
(* 137-245).                                                               *)
THEOREM PlainStatementsStayObeyed == Spec => []PlainStatementsAreObeyed
<1>1. ASSUME Inv PROVE PlainStatementsAreObeyed
  <2>1. SUFFICES ASSUME Finished, Plain(stmt)
                 PROVE  /\ outcome.status =
                             IF stmt.kind \in {"update", "delete"} /\ Wanted(stmt) = <<>> THEN "error" ELSE "ok"
                        /\ outcome.status = "ok" =>
                             CASE stmt.kind = "insert" -> outcome.rows = InsertMeans(stmt)
                               [] stmt.kind = "select" -> outcome.rows = SelectMeans(stmt)
                               [] stmt.kind = "update" -> outcome.rows = UpdateMeans(stmt)
                               [] stmt.kind = "delete" ->
                                     ByName(stmt) \/ NoTwins =>
                                        outcome.rows = Selected(Table, Rows \ Holding[stmt.where])
    BY DEF PlainStatementsAreObeyed
  <2>2. /\ stmt \in Statements /\ stmt.kind \in Spoken /\ outcome = LeaveFunc(p) /\ Final(stmt, p)
    BY <1>1, <2>1, FinishedIs
  <2>3. p = Expected(stmt) /\ p.statement = stmt.kind
    BY <2>1, <2>2 DEF Final, Simple, Plain
  <2>4. Supported(p)
    BY <2>1, <2>2, <2>3, ChoiceIs
  <2>5. Failed.status = "error"
    BY DEF Failed
  <2>6. CASE stmt.kind = "insert"
    <3>1. outcome = columnsToConfig(p)
      BY <2>2, <2>3, <2>6 DEF LeaveFunc
    <3>2. outcome.status = "ok" /\ outcome.rows = InsertMeans(stmt)
      BY <2>1, <2>2, <2>3, <2>6, <3>1, PlainInsert
    <3>3. QED
      BY <2>6, <3>2
  <2>7. CASE stmt.kind = "select"
    <3>1. outcome = selectResultset(p)
      BY <2>2, <2>3, <2>4, <2>7 DEF LeaveFunc
    <3>2. outcome.status = "ok" /\ outcome.rows = SelectMeans(stmt)
      BY <2>1, <2>2, <2>3, <2>7, <3>1, PlainSelect
    <3>3. QED
      BY <2>7, <3>2
  <2>8. CASE stmt.kind = "update"
    <3>1. outcome = update(p)
      BY <2>2, <2>3, <2>4, <2>8 DEF LeaveFunc
    <3>2. /\ Wanted(stmt) = <<>> => outcome = Failed
          /\ Wanted(stmt) # <<>> => outcome.status = "ok" /\ outcome.rows = UpdateMeans(stmt)
      BY <2>1, <2>2, <2>3, <2>8, <3>1, PlainUpdate
    <3>3. QED
      BY <2>5, <2>8, <3>2
  <2>9. CASE stmt.kind = "delete"
    <3>1. outcome = delete(p)
      BY <2>2, <2>3, <2>4, <2>9 DEF LeaveFunc
    <3>2. /\ Wanted(stmt) = <<>> => outcome = Failed
          /\ Wanted(stmt) # <<>> =>
                /\ outcome.status = "ok"
                /\ ByName(stmt) \/ NoTwins =>
                      outcome.rows = Selected(Table, Rows \ Holding[stmt.where])
      BY <2>1, <2>2, <2>3, <2>9, <3>1, PlainDelete
    <3>3. QED
      BY <2>5, <2>9, <3>2
  <2>10. QED
    BY <2>2, <2>6, <2>7, <2>8, <2>9 DEF Spoken
<1>2. QED
  BY <1>1, Invariance, PTL
===============================================================================
