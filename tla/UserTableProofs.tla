---------------------------- MODULE UserTableProofs ----------------------------
(***************************************************************************)
(* Proof that the store, used by one caller at a time, implements          *)
(* UserTable.                                                              *)
(*                                                                         *)
(* First the operators: what the loops of select, insert, update and       *)
(* delete make of the rows is what UserTable says of them.  Then the       *)
(* steps: OwnTable is what relates the caller's Config to the table, Mapped*)
(* reads the refinement mapping for the one caller there is, and each      *)
(* action of the store is a step of the table or none.                     *)
(***************************************************************************)
EXTENDS ConfigStoreProofs, FiniteSetTheorems

-----------------------------------------------------------------------------
(* What is selected, counted.                                              *)

(* As many elements are selected as there are places that have them, and   *)
(* the others are left.                                                    *)
LEMMA SelectedCount ==
    ASSUME NEW S, NEW T
    PROVE  \A q \in Seq(S) :
              LET at == {i \in 1 .. Len(q) : q[i] \in T}
              IN  /\ IsFiniteSet(at) /\ Len(Selected(q, T)) = Cardinality(at)
                  /\ Len(Selected(q, S \ T)) = Len(q) - Cardinality(at)
<1> DEFINE Hits(q) == {i \in 1 .. Len(q) : q[i] \in T}
           Good(q) == /\ IsFiniteSet(Hits(q)) /\ Len(Selected(q, T)) = Cardinality(Hits(q))
                      /\ Len(Selected(q, S \ T)) = Len(q) - Cardinality(Hits(q))
           P == {q \in Seq(S) : Good(q)}
<1>1. <<>> \in P
  <2>1. Hits(<<>>) = {}
    OBVIOUS
  <2>2. IsFiniteSet({}) /\ Cardinality({}) = 0
    BY FS_EmptySet
  <2>3. QED
    BY <2>1, <2>2, SelectedEmpty
<1>2. ASSUME NEW q \in Seq(S), NEW x \in S, q \in P
      PROVE  Append(q, x) \in P
  <2> DEFINE r == Append(q, x)
             k == Len(q)
             a == Hits(q)
             s == Selected(q, T)
             t == Selected(q, S \ T)
  <2>1. /\ r \in Seq(S) /\ Len(r) = k + 1 /\ k \in Nat
        /\ \A i \in 1 .. k : r[i] = q[i]
        /\ r[k + 1] = x
    OBVIOUS
  <2>2. IsFiniteSet(a) /\ Len(s) = Cardinality(a) /\ Len(t) = k - Cardinality(a)
    BY <1>2
  <2>3. s \in Seq(S) /\ t \in Seq(S)
    <3>1. s \in Seq(S \cap T) /\ t \in Seq(S \cap (S \ T))
      BY SelectedType
    <3> HIDE DEF s, t
    <3>2. QED
      BY <3>1
  <2>4. /\ Selected(r, T) = IF x \in T THEN Append(s, x) ELSE s
        /\ Selected(r, S \ T) = IF x \in S \ T THEN Append(t, x) ELSE t
    BY SelectedAppend
  <2>5. k + 1 \notin a /\ Cardinality(a) \in Nat
    BY <2>1, <2>2, FS_CardinalityType
  <2>6. CASE x \in T
    <3>1. Hits(r) = a \cup {k + 1}
      <4> HIDE DEF r, k
      <4>1. Hits(r) = {i \in 1 .. k + 1 : r[i] \in T} /\ a = {i \in 1 .. k : q[i] \in T}
        BY <2>1 DEF k
      <4> HIDE DEF Hits, a
      <4>2. QED
        BY <2>1, <2>6, <4>1
    <3>2. IsFiniteSet(a \cup {k + 1}) /\ Cardinality(a \cup {k + 1}) = Cardinality(a) + 1
      BY <2>2, <2>5, FS_AddElement
    <3>3. Len(Append(s, x)) = Len(s) + 1
      <4> HIDE DEF s
      <4>1. QED
        BY <2>3
    <3>4. Good(r)
      <4> HIDE DEF Hits, a, r, s, t, k
      <4>1. QED
        BY <2>1, <2>2, <2>4, <2>5, <2>6, <3>1, <3>2, <3>3
    <3>5. QED
      BY <2>1, <3>4
  <2>7. CASE x \notin T
    <3>1. Hits(r) = a
      <4> HIDE DEF r, k
      <4>1. Hits(r) = {i \in 1 .. k + 1 : r[i] \in T} /\ a = {i \in 1 .. k : q[i] \in T}
        BY <2>1 DEF k
      <4> HIDE DEF Hits, a
      <4>2. QED
        BY <2>1, <2>7, <4>1
    <3>3. Len(Append(t, x)) = Len(t) + 1
      <4> HIDE DEF t
      <4>1. QED
        BY <2>3
    <3>4. Good(r)
      <4> HIDE DEF Hits, a, r, s, t, k
      <4>1. QED
        BY <2>1, <2>2, <2>4, <2>5, <2>7, <3>1, <3>3
    <3>5. QED
      BY <2>1, <3>4
  <2>8. QED
    BY <2>6, <2>7
<1>3. Seq(S) \subseteq P
  <2> HIDE DEF P
  <2>1. QED
    BY <1>1, <1>2, SeqInduction
<1>4. QED
  BY <1>3

-----------------------------------------------------------------------------
(* What the statements do to the rows.                                     *)

(* The places of q that hold rows st is about.                             *)
ChosenAt(st, q) == {i \in 1 .. Len(q) : q[i] \in Meant(st)}

(* Those are the rows that UserTable says it chooses.                      *)
LEMMA ChosenAre ==
    ASSUME NEW st, NEW q \in Seq(Owned)
    PROVE  /\ Promised!ChosenIn(st, q) = ChosenAt(st, q)
           /\ \A i \in 1 .. Len(q) : q[i] \in Meant(st) <=> Promised!Chosen(st, q[i])
           /\ Len(q) \in Nat /\ DOMAIN q = 1 .. Len(q)
           /\ \A i \in 1 .. Len(q) : q[i] \in Owned /\ q[i] \in Rows
<1>1. Len(q) \in Nat /\ DOMAIN q = 1 .. Len(q) /\ \A i \in 1 .. Len(q) : q[i] \in Owned
  OBVIOUS
<1>2. \A i \in 1 .. Len(q) : q[i] \in Rows
  BY <1>1, OwnedTypes
<1>3. \A i \in 1 .. Len(q) : q[i] \in Meant(st) <=> Promised!Chosen(st, q[i])
  BY <1>2 DEF Meant, Promised!Chosen
<1>4. QED
  BY <1>1, <1>2, <1>3 DEF ChosenAt, Promised!ChosenIn

(* UserTable selects as the store does.                                    *)
LEMMA SameSelection == \A q, T : Promised!Selected(q, T) = Selected(q, T)
BY DEF Promised!Selected, Selected

(* A SELECT shows the rows it chooses, in their order.                     *)
LEMMA QueryRows ==
    ASSUME NEW st, NEW q \in Seq(Owned)
    PROVE  whereColumnsToConfig(st, q) = Promised!RowsAt(q, Promised!ChosenIn(st, q))
<1> DEFINE T == Meant(st)
           R == {q[i] : i \in ChosenAt(st, q)}
<1>1. \A i \in 1 .. Len(q) : q[i] \in T <=> q[i] \in R
  BY DEF ChosenAt
<1> HIDE DEF T, R
<1>2. Selected(q, T) = Selected(q, R)
  BY <1>1, SelectedSame
<1>3. Promised!RowsAt(q, ChosenAt(st, q)) = Selected(q, R)
  BY SameSelection DEF Promised!RowsAt, R
<1>4. whereColumnsToConfig(st, q) = Selected(q, T)
  BY DEF whereColumnsToConfig, T, Meant
<1>5. Promised!ChosenIn(st, q) = ChosenAt(st, q)
  BY ChosenAre
<1>6. QED
  BY <1>2, <1>3, <1>4, <1>5

(* An UPDATE counts the rows it chooses.                                   *)
LEMMA ChosenCount ==
    ASSUME NEW st, NEW q \in Seq(Owned)
    PROVE  /\ Len(whereColumnsToConfig(st, q)) = Cardinality(Promised!ChosenIn(st, q))
           /\ whereColumnsToConfig(st, q) # <<>> => Promised!ChosenIn(st, q) # {}
           /\ whereColumnsToConfig(st, q) \in Seq(Owned)
<1> DEFINE w == whereColumnsToConfig(st, q)
           a == ChosenAt(st, q)
<1>1. Promised!ChosenIn(st, q) = a
  BY ChosenAre
<1>2. w = Selected(q, Meant(st))
  BY DEF whereColumnsToConfig, Meant
<1>3. Len(w) = Cardinality(a)
  BY <1>2, SelectedCount DEF ChosenAt
<1>4. w \in Seq(Owned)
  BY DeletedType DEF whereColumnsToConfig
<1> HIDE DEF w, a
<1>5. a = {} => Cardinality(a) = 0
  BY FS_EmptySet
<1>6. w # <<>> => Len(w) # 0
  BY <1>4
<1>7. QED
  BY <1>1, <1>3, <1>4, <1>5, <1>6 DEF w

(* A DELETE takes the rows it chooses, and no others.                      *)
LEMMA DeletedRows ==
    ASSUME NEW st, NEW q \in Seq(Owned)
    PROVE  LET deleted == UsersIn(whereColumnsToConfig(st, q))
               res     == Selected(q, {s \in Rows : s.user \notin deleted})
           IN  /\ deleted # {} => Promised!ChosenIn(st, q) # {}
               /\ res = Promised!Remaining(st, q)
               /\ Len(q) - Len(res) = Cardinality(Promised!ChosenIn(st, q))
<1> DEFINE w == whereColumnsToConfig(st, q)
           deleted == UsersIn(w)
           T == {s \in Rows : s.user \notin deleted}
           M == Meant(st)
           a == ChosenAt(st, q)
           R == {q[i] : i \in DOMAIN q \ a}
           r == Selected(q, T)
<1>1. w = Selected(q, M) /\ w \in Seq(Owned) /\ w \in Seq(Owned \cap M)
  BY DeletedType, SelectedType DEF whereColumnsToConfig, Meant
<1>2. Promised!ChosenIn(st, q) = a /\ Len(q) \in Nat /\ DOMAIN q = 1 .. Len(q)
      /\ \A i \in 1 .. Len(q) : q[i] \in Owned /\ q[i] \in Rows
  BY ChosenAre
<1>3. \A x : Occurs(w, x) <=> x \in M /\ Occurs(q, x)
  <2> HIDE DEF M, w
  <2>1. \A x : Occurs(Selected(q, M), x) <=> x \in M /\ Occurs(q, x)
    BY SelectedOccur, Zenon
  <2>2. QED
    BY <1>1, <2>1
<1>4. ASSUME NEW i \in 1 .. Len(q) PROVE q[i].user \in deleted <=> q[i] \in M
  <2>1. ASSUME q[i] \in M PROVE q[i].user \in deleted
    <3>1. Occurs(w, q[i])
      BY <1>3, <2>1 DEF Occurs
    <3>2. PICK j \in 1 .. Len(w) : w[j] = q[i]
      BY <3>1 DEF Occurs
    <3> HIDE DEF w
    <3>3. j \in DOMAIN w
      BY <1>1
    <3>4. QED
      BY <3>2, <3>3 DEF UsersIn
  <2>2. ASSUME q[i].user \in deleted PROVE q[i] \in M
    <3> HIDE DEF w
    <3>1. PICK j \in DOMAIN w : w[j].user = q[i].user
      BY <2>2 DEF UsersIn
    <3>2. w[j] \in M
      BY <1>1
    <3>3. QED
      BY <1>2, <3>1, <3>2 DEF Meant
  <2>3. QED
    BY <2>1, <2>2
<1>5. \A i \in 1 .. Len(q) : q[i] \in T <=> q[i] \notin M
  BY <1>2, <1>4
<1>6. \A i \in 1 .. Len(q) : q[i] \in R <=> q[i] \notin M
  BY <1>2 DEF ChosenAt
<1>7. \A i \in 1 .. Len(q) : q[i] \in Owned \ M <=> q[i] \notin M
  BY <1>2
<1>8. r = Promised!Remaining(st, q)
  <2>1. \A i \in 1 .. Len(q) : q[i] \in T <=> q[i] \in R
    BY <1>5, <1>6
  <2> HIDE DEF T, R
  <2>2. Selected(q, T) = Selected(q, R)
    BY <2>1, SelectedSame
  <2>3. Promised!RowsAt(q, DOMAIN q \ a) = Selected(q, R)
    BY SameSelection DEF Promised!RowsAt, R
  <2>4. Promised!Remaining(st, q) = Promised!RowsAt(q, DOMAIN q \ Promised!ChosenIn(st, q))
    BY DEF Promised!Remaining
  <2>5. QED
    BY <1>2, <2>2, <2>3, <2>4
<1>9. Len(q) - Len(r) = Cardinality(a)
  <2>1. \A i \in 1 .. Len(q) : q[i] \in T <=> q[i] \in Owned \ M
    BY <1>5, <1>7
  <2>2. Len(Selected(q, Owned \ M)) = Len(q) - Cardinality(a)
    BY SelectedCount DEF ChosenAt
  <2>3. IsFiniteSet(a)
    BY SelectedCount DEF ChosenAt
  <2> DEFINE D == Owned \ M
  <2> HIDE DEF T, D, a
  <2>4. Selected(q, T) = Selected(q, D)
    BY <2>1, SelectedSame DEF D
  <2>5. Cardinality(a) \in Nat
    BY <2>3, FS_CardinalityType
  <2>6. QED
    BY <1>2, <2>2, <2>4, <2>5 DEF D
<1>10. deleted # {} => a # {}
  <2>1. w # <<>> => Promised!ChosenIn(st, q) # {}
    BY ChosenCount
  <2> HIDE DEF w
  <2>2. deleted # {} => w # <<>>
    BY DEF UsersIn
  <2>3. QED
    BY <1>2, <2>1, <2>2
<1>11. QED
  BY <1>2, <1>8, <1>9, <1>10

(* Where every name is in one row, the index has its place.                *)
LEMMA OnePlace ==
    ASSUME NEW q \in Seq(Owned), Promised!HasNoTwins(q), NEW p \in 1 .. Len(q)
    PROVE  q[p].user \in DOMAIN IndexOf(q) /\ IndexOf(q)[q[p].user] = p
<1>1. DOMAIN q = 1 .. Len(q)
  OBVIOUS
<1>2. q[p].user \in UsersIn(q)
  BY <1>1 DEF UsersIn
<1> DEFINE r == IndexOf(q)[q[p].user]
<1>3. DOMAIN IndexOf(q) = UsersIn(q) /\ r \in 1 .. Len(q) /\ q[r].user = q[p].user
  BY <1>2, IndexType
<1> HIDE DEF r
<1>4. r = p
  BY <1>1, <1>3 DEF Promised!HasNoTwins
<1>5. QED
  BY <1>2, <1>3, <1>4 DEF r

(* An UPDATE that comes to its end has changed each row that it chose, and *)
(* no other.                                                               *)
LEMMA UpdatedRows ==
    ASSUME NEW c, op[c] \in Statements, op[c].kind = "update", conf[c] \in Seq(Owned),
           serverIndex = IndexOf(conf[c]),
           whereColumnsToConfig(op[c], conf[c]) # <<>>,
           Promised!HasNoTwins(conf[c])
    PROVE  UpdateLoop(c).rows = Promised!Updated(op[c], conf[c])
<1> DEFINE st == op[c]
           q == conf[c]
           m == Len(q)
           chosen == whereColumnsToConfig(st, q)
           n0 == Len(chosen)
           E == {"ok", "error"}
           Done(i, j) == Promised!Chosen(st, q[j]) /\ i > 0 /\ (st.where = None => j <= i)
           After(i) == [j \in 1 .. m |-> IF Done(i, j) THEN Promised!With(q[j], st) ELSE q[j]]
<1>1. Stays(m, E)
  <2>1. \A u \in DOMAIN serverIndex : serverIndex[u] \in 1 .. m
    BY IndexType
  <2>2. m \in Nat
    OBVIOUS
  <2>3. QED
    BY <2>1, <2>2 DEF Stays
<1>2. PICK f : /\ f[0] = [rows |-> q, end |-> "ok"]
               /\ \A i \in 1 .. n0 : f[i] = UpdateRow(st, chosen, i, f[i - 1])
               /\ UpdateLoop(c) = f[n0]
  BY <1>1, UpdateLoopRecursion
<1>3. /\ chosen \in Seq(Owned \cap Meant(st)) /\ (st.where = None => chosen = q)
      /\ n0 \in Nat /\ n0 # 0
  <2>1. chosen \in Seq(Owned \cap Meant(st)) /\ (st.where = None => chosen = q) /\ chosen # <<>>
    BY ChosenType
  <2> HIDE DEF chosen
  <2>2. n0 \in Nat /\ n0 # 0
    BY <2>1
  <2>3. QED
    BY <2>1, <2>2
<1>4. /\ q \in Seq(Owned) /\ serverIndex = IndexOf(q) /\ Promised!HasNoTwins(q)
      /\ m \in Nat /\ DOMAIN q = 1 .. m
      /\ \A j \in 1 .. m : q[j] \in Meant(st) <=> Promised!Chosen(st, q[j])
  BY ChosenAre
(* The row a turn is about is one place of the rows.                       *)
<1>5. ASSUME NEW i \in 1 .. n0
      PROVE  \E p \in 1 .. m : /\ Promised!Chosen(st, q[p])
                               /\ st.where = None => p = i
                               /\ st.where # None => chosen[i] = q[p]
  <2>1. CASE st.where = None
    <3>1. i \in 1 .. m
      BY <1>3, <2>1
    <3>2. Promised!Chosen(st, q[i])
      BY <2>1 DEF Promised!Chosen
    <3>3. QED
      BY <2>1, <3>1, <3>2
  <2>2. CASE st.where # None
    <3> DEFINE M == Meant(st)
    <3>1. chosen = Selected(q, M)
      BY DEF whereColumnsToConfig, Meant
    <3> HIDE DEF M
    <3>2. \A x : Occurs(Selected(q, M), x) <=> x \in M /\ Occurs(q, x)
      BY <1>4, SelectedOccur, Zenon
    <3> HIDE DEF q, chosen
    <3>3. Occurs(chosen, chosen[i])
      BY DEF Occurs
    <3>4. chosen[i] \in M /\ Occurs(q, chosen[i])
      BY <3>1, <3>2, <3>3
    <3>5. PICK p \in 1 .. m : q[p] = chosen[i]
      BY <3>4 DEF Occurs
    <3>6. Promised!Chosen(st, q[p])
      BY <1>4, <3>4, <3>5 DEF M
    <3>7. QED
      BY <2>2, <3>5, <3>6
  <2>3. QED
    BY <2>1, <2>2
<1> HIDE DEF q, chosen, m, n0
<1>6. ASSUME NEW i \in 1 .. n0, f[i - 1] = [rows |-> After(i - 1), end |-> "ok"]
      PROVE  f[i] = [rows |-> After(i), end |-> "ok"]
  <2>1. PICK p \in 1 .. m : /\ Promised!Chosen(st, q[p])
                            /\ st.where = None => p = i
                            /\ st.where # None => chosen[i] = q[p]
    BY <1>5
  <2> DEFINE before == After(i - 1)
             u == IF st.where = None THEN before[i] ELSE chosen[i]
  <2>2. u = q[p]
    <3>1. CASE st.where = None
      <4>1. p = i /\ before[i] = IF Done(i - 1, i) THEN Promised!With(q[i], st) ELSE q[i]
        BY <2>1, <3>1
      <4>2. ~ Done(i - 1, i)
        BY <3>1, <1>3
      <4>3. QED
        BY <3>1, <4>1, <4>2
    <3>2. CASE st.where # None
      BY <2>1, <3>2
    <3>3. QED
      BY <3>1, <3>2
  <2>3. u.user \in DOMAIN serverIndex /\ serverIndex[u.user] = p
    BY <1>4, <2>2, OnePlace DEF m
  <2>4. Len(before) = m
    BY <1>4
  <2>5. stored(st, before[p], u) = Promised!With(q[p], st)
    <3> HIDE DEF before, u
    <3>1. \A r : stored(st, r, u) = Promised!With(u, st)
      BY DEF stored, updateColumns, Promised!With
    <3>2. QED
      BY <2>2, <3>1
  <2>6. f[i] = [rows |-> [before EXCEPT ![p] = Promised!With(q[p], st)], end |-> "ok"]
    <3> DEFINE acc == [rows |-> before, end |-> "ok"]
    <3>1. f[i] = UpdateRow(st, chosen, i, acc)
      BY <1>2, <1>6
    <3> HIDE DEF before
    <3>2. UpdateRow(st, chosen, i, acc) =
             IF acc.end # "ok" THEN acc
             ELSE IF u.user \notin DOMAIN serverIndex THEN [acc EXCEPT !.end = "error"]
             ELSE IF serverIndex[u.user] > Len(acc.rows) THEN [acc EXCEPT !.end = "panic"]
             ELSE [acc EXCEPT !.rows[serverIndex[u.user]] = stored(st, @, u)]
      BY DEF UpdateRow
    <3>3. acc.end = "ok" /\ acc.rows = before /\ ~ (p > Len(before))
      BY <2>1, <2>4, <1>4
    <3> HIDE DEF u
    <3>4. UpdateRow(st, chosen, i, acc) = [acc EXCEPT !.rows[p] = stored(st, @, u)]
      BY <2>3, <3>2, <3>3
    <3>5. [acc EXCEPT !.rows[p] = stored(st, @, u)]
             = [rows |-> [before EXCEPT ![p] = stored(st, before[p], u)], end |-> "ok"]
      OBVIOUS
    <3>6. QED
      BY <2>5, <3>1, <3>4, <3>5
  <2>7. [before EXCEPT ![p] = Promised!With(q[p], st)] = After(i)
    <3>1. ASSUME NEW j \in 1 .. m, j # p PROVE Done(i, j) <=> Done(i - 1, j)
      <4>1. CASE st.where = None
        BY <2>1, <3>1, <4>1, <1>3
      <4>2. CASE st.where # None
        <5>1. ~ Promised!Chosen(st, q[j])
          BY <1>4, <2>1, <3>1, <4>2 DEF Promised!Chosen, Promised!HasNoTwins
        <5>2. QED
          BY <5>1
      <4>3. QED
        BY <4>1, <4>2
    <3>2. Done(i, p)
      BY <2>1, <1>3
    <3> HIDE DEF Done
    <3>3. before = [j \in 1 .. m |-> IF Done(i - 1, j) THEN Promised!With(q[j], st) ELSE q[j]]
      OBVIOUS
    <3>4. QED
      BY <3>1, <3>2
  <2>8. QED
    BY <2>6, <2>7
<1>7. \A i \in 0 .. n0 : f[i] = [rows |-> After(i), end |-> "ok"]
  <2> DEFINE T == {i \in Nat : i <= n0 => f[i] = [rows |-> After(i), end |-> "ok"]}
  <2>1. 0 \in T
    <3>1. After(0) = q
      <4>1. q = [j \in 1 .. m |-> q[j]]
        BY <1>4 DEF m
      <4>2. After(0) = [j \in 1 .. m |-> q[j]]
        OBVIOUS
      <4>3. QED
        BY <4>1, <4>2
    <3> HIDE DEF After
    <3>2. QED
      BY <1>2, <3>1
  <2>2. ASSUME NEW k \in Nat, k \in T PROVE k + 1 \in T
    <3> HIDE DEF After
    <3>1. CASE k + 1 <= n0
      <4>1. k + 1 \in 1 .. n0 /\ (k + 1) - 1 = k /\ k <= n0
        BY <1>3, <3>1
      <4>2. f[k] = [rows |-> After(k), end |-> "ok"]
        BY <2>2, <4>1
      <4>3. f[k + 1] = [rows |-> After(k + 1), end |-> "ok"]
        BY <1>6, <4>1, <4>2
      <4>4. QED
        BY <4>3
    <3>2. CASE ~ (k + 1 <= n0)
      BY <3>2
    <3>3. QED
      BY <3>1, <3>2
  <2>3. Nat \subseteq T
    <3> HIDE DEF T
    <3>1. QED
      BY <2>1, <2>2, Induction
  <2>4. QED
    BY <1>3, <2>3
<1>8. UpdateLoop(c).rows = After(n0)
  <2> HIDE DEF After
  <2>1. f[n0] = [rows |-> After(n0), end |-> "ok"]
    BY <1>3, <1>7
  <2>2. QED
    BY <1>2, <2>1
<1>9. After(n0) = Promised!Updated(st, q)
  <2>1. ASSUME NEW j \in 1 .. m PROVE Done(n0, j) <=> Promised!Chosen(st, q[j])
    <3>1. st.where = None => j <= n0
      BY <1>3, <1>4 DEF n0, m
    <3>2. QED
      BY <1>3, <3>1
  <2> HIDE DEF Done
  <2>2. QED
    BY <1>4, <2>1 DEF Promised!Updated
<1>10. QED
  BY <1>8, <1>9 DEF q

(* An INSERT that its loop takes as a whole adds new names only.           *)
LEMMA InsertedRows ==
    ASSUME NEW c, op[c] \in Statements, op[c].kind = "insert", conf[c] \in Seq(Owned),
           serverIndex = IndexOf(conf[c]), Refused(c) = {}
    PROVE  Promised!CanInsert(op[c], conf[c])
<1> DEFINE q == conf[c]
           r == op[c].rows
<1>1. r \in Seq(Owned) /\ DOMAIN r = 1 .. Len(r) /\ Len(r) \in Nat
  BY InsertedOwned
<1>2. DOMAIN serverIndex = UsersIn(q)
  BY IndexType
<1>3. \A i \in DOMAIN r : r[i].user \notin UsersIn(q)
  BY <1>2 DEF Refused
<1>4. \A i \in DOMAIN r : \A j \in 1 .. i - 1 : r[j].user # r[i].user
  BY DEF Refused
<1> HIDE DEF q, r
<1>5. Promised!UsersOf(r) \cap Promised!UsersOf(q) = {}
  BY <1>3 DEF Promised!UsersOf, UsersIn
<1>6. Promised!HasNoTwins(r)
  <2>1. ASSUME NEW i \in 1 .. Len(r), NEW j \in 1 .. Len(r), r[i].user = r[j].user PROVE i = j
    <3>1. ~ (j < i) /\ ~ (i < j)
      <4>1. j < i => j \in 1 .. i - 1
        BY <1>1
      <4>2. i < j => i \in 1 .. j - 1
        BY <1>1
      <4>3. QED
        BY <1>1, <1>4, <2>1, <4>1, <4>2
    <3>2. QED
      BY <1>1, <3>1
  <2>2. QED
    BY <1>1, <2>1 DEF Promised!HasNoTwins
<1>7. QED
  BY <1>5, <1>6 DEF Promised!CanInsert, q, r

(* The account of a login name is the first that matches it.               *)
LEMMA LoginRows ==
    ASSUME NEW c, conf[c] \in Seq(Owned)
    PROVE  /\ Matching(c) = {} => Promised!Account(op[c], conf[c]) = {}
           /\ Matching(c) # {} => FirstMatch(c) \in Promised!Account(op[c], conf[c])
<1> DEFINE q == conf[c]
           m == {i \in DOMAIN q : op[c].name \in Matches[q[i].user]}
<1>1. Matching(c) = m
  BY DEF Matching
<1>2. Promised!Account(op[c], q) = {q[i] : i \in {j \in m : \A k \in m : j <= k}}
  BY DEF Promised!Account
<1>3. m \subseteq Nat
  BY DEF Matching
<1> HIDE DEF m, q
<1>4. ASSUME m # {} PROVE Min(m) \in m /\ \A k \in m : Min(m) <= k
  <2>1. \E x \in m : \A y \in m : x <= y
    BY <1>3, <1>4, LeastNumber
  <2>2. QED
    BY <2>1 DEF Min
<1>5. QED
  BY <1>1, <1>2, <1>4 DEF FirstMatch, q

(* Nobody's password is one that cannot be decrypted.                      *)
LEMMA NothingGarbled ==
    ASSUME ~ mixed, NEW r \in Owned
    PROVE  ~ NoText(r)
<1>1. MayHave(r)
  BY DEF Owned
<1>2. Garbled # InitialPassword /\ Garbled # None
  BY TableAssumption
<1>3. MayShare(Garbled, {})
  <2>1. ASSUME NEW st \in Statements, st.kind = "insert", NEW i \in DOMAIN st.rows
        PROVE  st.rows[i].pw # Garbled
    BY <2>1, StatementsAssumption
  <2>2. ASSUME NEW st \in Statements, st.kind = "update" PROVE st.pw # Garbled
    BY <1>2, <2>2, StatementsAssumption
  <2>3. QED
    BY <1>2, <2>1, <2>2 DEF MayShare
<1>4. QED
  BY <1>1, <1>3 DEF MayHave, NoText

-----------------------------------------------------------------------------
(* One caller's table.                                                     *)

(* The rows of the table when c is the only caller.                        *)
Now(c) ==
    IF pc[c] = "encode" THEN conf[c]
    ELSE IF file.state = "whole" THEN file.rows ELSE DefaultRows

(* What its call goes by.                                                  *)
View(c) == IF sight[c] = "blind" THEN DefaultRows ELSE Now(c)

(* What the statement st makes of the rows t.                              *)
Effect(st, t, t2, k) ==
    \/ /\ st.kind = "insert" /\ Promised!CanInsert(st, t)
       /\ t2 = Promised!Inserted(st, t) /\ k = Len(st.rows)
    \/ /\ st.kind = "update"
       /\ Promised!ChosenIn(st, t) # {} /\ k = Cardinality(Promised!ChosenIn(st, t))
       /\ Promised!HasNoTwins(t) => t2 = Promised!Updated(st, t)
       /\ Len(t2) = Len(t)
    \/ /\ st.kind = "delete"
       /\ Promised!ChosenIn(st, t) # {} /\ k = Cardinality(Promised!ChosenIn(st, t))
       /\ t2 = Promised!Remaining(st, t)

(* The caller goes by the table, and is about to write what its statement  *)
(* makes of it.                                                            *)
OwnTable(c) ==
    /\ pc[c] \in {"reading", "reindex", "loaded", "locked"} => conf[c] = View(c)
    /\ pc[c] = "locked" /\ op[c].kind = "update" => whereColumnsToConfig(op[c], conf[c]) # <<>>
    /\ pc[c] = "put" => Effect(op[c], View(c), conf[c], n[c])
    /\ pc[c] = "encode" => file = [state |-> "empty", rows |-> <<>>]

(* Nobody writes the file while the caller reads it.                       *)
OwnSight(c) ==
    /\ SightOK /\ ~ mixed
    /\ pc[c] \in {"open", "reading"} => sight[c] = "clear"

AloneOK(c) == StoreOK(Statements) /\ OwnIndex(c) /\ OwnTable(c) /\ OwnSight(c)

(* The step, as the specification of the table sees it.                    *)
Mapped(c) ==
    /\ Table = Now(c) /\ Caller = c
    /\ Table' = Now(c)'
    /\ Promised!Seen = View(c)

(* The refinement mapping, for the one caller there is.                    *)
LEMMA SeenAlone ==
    ASSUME NEW c, Clients = {c}
    PROVE  Mapped(c)
<1>1. Caller = c
  BY DEF Caller
<1>2. Table = Now(c)
  BY DEF Table, Writer, Now
<1>3. Table' = Now(c)'
  BY DEF Table, Writer, Now
<1>4. Promised!Seen = View(c)
  BY <1>1, <1>2 DEF Promised!Seen, Promised!DefaultTable, Promised!Row, View, DefaultRows, Encrypted
<1>5. QED
  BY <1>1, <1>2, <1>3, <1>4 DEF Mapped

(* What the mapping makes of the rows the caller has changed.              *)
Changed(c) == IF pc[c] = "encode" THEN n[c] ELSE None

PromisedStep == Promised!Next \/ UNCHANGED Promised!vars

(* UserTable counts as the store does.                                     *)
LEMMA SameCount == \A S : Promised!Cardinality(S) = Cardinality(S)
BY DEF Promised!Cardinality, Cardinality

(* The steps of the table, in the caller's terms.                          *)
LEMMA SeenStep ==
    ASSUME NEW c, Mapped(c)
    PROVE  /\ (op'[c] = op[c] /\ sight'[c] = sight[c] /\ Now(c)' = Now(c) /\ Changed(c)' = Changed(c)
                 /\ answer'[c] = answer[c] => UNCHANGED Promised!vars)
           /\ (op[c] = None /\ op'[c] \in Statements /\ Now(c)' = Now(c)
                 /\ Changed(c)' = Changed(c) /\ answer'[c] = answer[c] /\ sight'[c] = sight[c]
              => Promised!Call)
           /\ (op[c] # None /\ Changed(c) = None /\ Changed(c)' = None /\ op'[c] = None
                 /\ Now(c)' = Now(c)
                 /\ op[c].kind \in {"insert", "update", "delete"}
                 /\ sight'[c] = "clear" /\ answer'[c] = Answer("error", 0, <<>>) => Promised!Refuse)
           /\ (Changed(c) # None /\ Changed(c)' = None /\ op'[c] = None /\ Now(c)' = Now(c)
                 /\ sight'[c] = "clear" /\ answer'[c] = Answer("ok", Changed(c), <<>>) => Promised!Acknowledge)
           /\ (Changed(c) # None /\ Changed(c)' = None /\ op'[c] = None
                 /\ Now(c)' = DefaultRows
                 /\ sight'[c] = "clear" /\ answer'[c] = Answer("error", 0, <<>>) => Promised!CutShort)
           /\ (Changed(c)' = None /\ op'[c] = None
                 /\ Now(c)' = (IF Changed(c) # None THEN DefaultRows ELSE Now(c))
                 /\ sight'[c] = "clear" /\ answer'[c] = Answer("none", 0, <<>>) => Promised!Killed)
           /\ (op[c] # None /\ Changed(c) = None /\ op'[c] = op[c] /\ answer'[c] = answer[c]
                 /\ Changed(c)' # None /\ sight'[c] = sight[c]
                 /\ Effect(op[c], View(c), Now(c)', Changed(c)') => Promised!Change)
           /\ (op[c] # None /\ Changed(c) = None /\ Changed(c)' = None /\ Now(c)' = Now(c)
                 /\ op'[c] = op[c] /\ answer'[c] = answer[c] /\ sight'[c] = "blind"
              => Promised!CannotOpen)
<1> USE DEF Mapped, Changed
<1>1. op'[c] = op[c] /\ sight'[c] = sight[c] /\ Now(c)' = Now(c) /\ Changed(c)' = Changed(c)
         /\ answer'[c] = answer[c] => UNCHANGED Promised!vars
  BY DEF Promised!vars
<1>2. op[c] = None /\ op'[c] \in Statements /\ Now(c)' = Now(c)
         /\ Changed(c)' = Changed(c) /\ answer'[c] = answer[c] /\ sight'[c] = sight[c]
              => Promised!Call
  BY DEF Promised!Call
<1>3. op[c] # None /\ Changed(c) = None /\ Changed(c)' = None /\ op'[c] = None
         /\ Now(c)' = Now(c)
         /\ op[c].kind \in {"insert", "update", "delete"}
         /\ sight'[c] = "clear" /\ answer'[c] = Answer("error", 0, <<>>) => Promised!Refuse
  BY DEF Promised!Refuse, Promised!Refusal, Answer
<1>4. Changed(c) # None /\ Changed(c)' = None /\ op'[c] = None /\ Now(c)' = Now(c)
         /\ sight'[c] = "clear" /\ answer'[c] = Answer("ok", Changed(c), <<>>) => Promised!Acknowledge
  BY DEF Promised!Acknowledge, Promised!Done, Answer
<1>5. Changed(c) # None /\ Changed(c)' = None /\ op'[c] = None
         /\ Now(c)' = DefaultRows
         /\ sight'[c] = "clear" /\ answer'[c] = Answer("error", 0, <<>>) => Promised!CutShort
  BY DEF Promised!CutShort, Promised!Refusal, Answer, Promised!DefaultTable, Promised!Row,
         DefaultRows, Encrypted
<1>6. Changed(c)' = None /\ op'[c] = None
         /\ Now(c)' = (IF Changed(c) # None THEN DefaultRows ELSE Now(c))
         /\ sight'[c] = "clear" /\ answer'[c] = Answer("none", 0, <<>>) => Promised!Killed
  BY DEF Promised!Killed, Promised!NoAnswer, Answer, Promised!DefaultTable, Promised!Row,
         DefaultRows, Encrypted
<1>7. op[c] # None /\ Changed(c) = None /\ op'[c] = op[c] /\ answer'[c] = answer[c]
         /\ Changed(c)' # None /\ sight'[c] = sight[c]
         /\ Effect(op[c], View(c), Now(c)', Changed(c)') => Promised!Change
  <2>1. SUFFICES ASSUME op[c] # None, Changed(c) = None, op'[c] = op[c], answer'[c] = answer[c],
                        Changed(c)' # None, sight'[c] = sight[c],
                        Effect(op[c], View(c), Now(c)', Changed(c)')
                 PROVE  Promised!Change
    OBVIOUS
  <2> DEFINE st == op[c]
  <2>2. Promised!Insert(st) \/ Promised!Update(st) \/ Promised!Delete(st)
    <3>1. CASE /\ st.kind = "insert" /\ Promised!CanInsert(st, View(c))
               /\ Now(c)' = Promised!Inserted(st, View(c)) /\ Changed(c)' = Len(st.rows)
      <4>1. Promised!Insert(st)
        BY <3>1 DEF Promised!Insert
      <4>2. QED
        BY <4>1
    <3>2. CASE /\ st.kind = "update" /\ Promised!ChosenIn(st, View(c)) # {}
               /\ Changed(c)' = Cardinality(Promised!ChosenIn(st, View(c)))
               /\ Promised!HasNoTwins(View(c)) => Now(c)' = Promised!Updated(st, View(c))
               /\ Len(Now(c)') = Len(View(c))
      <4>1. Promised!Update(st)
        BY <3>2, SameCount DEF Promised!Update
      <4>2. QED
        BY <4>1
    <3>3. CASE /\ st.kind = "delete" /\ Promised!ChosenIn(st, View(c)) # {}
               /\ Changed(c)' = Cardinality(Promised!ChosenIn(st, View(c)))
               /\ Now(c)' = Promised!Remaining(st, View(c))
      <4>1. Promised!Delete(st)
        BY <3>3, SameCount DEF Promised!Delete
      <4>2. QED
        BY <4>1
    <3>4. QED
      BY <2>1, <3>1, <3>2, <3>3 DEF Effect
  <2>3. QED
    BY <2>1, <2>2 DEF Promised!Change
<1>8. op[c] # None /\ Changed(c) = None /\ Changed(c)' = None /\ Now(c)' = Now(c)
         /\ op'[c] = op[c] /\ answer'[c] = answer[c] /\ sight'[c] = "blind"
      => Promised!CannotOpen
  BY DEF Promised!CannotOpen
<1>9. QED
  BY <1>1, <1>2, <1>3, <1>4, <1>5, <1>6, <1>7, <1>8

(* The call ends with the answer a, and the table is as it was.            *)
AnswersWith(c, a) ==
    /\ op[c] # None /\ Changed(c) = None
    /\ op'[c] = None /\ Changed(c)' = None
    /\ Now(c)' = Now(c) /\ answer'[c] = a /\ sight'[c] = "clear"

(* The query among those steps.                                            *)
LEMMA SeenQuery ==
    ASSUME NEW c, Mapped(c), NEW a, AnswersWith(c, a)
    PROVE  /\ /\ op[c].kind = "select"
              /\ a = Answer("ok", 0, Promised!RowsAt(View(c), Promised!ChosenIn(op[c], View(c))))
              => Promised!Query
           /\ /\ op[c].kind = "login"
              /\ \/ \E r \in Promised!Account(op[c], View(c)) :
                       a = Answer("ok", 0, <<[r EXCEPT !.enc = @ - 1]>>)
                 \/ Promised!Account(op[c], View(c)) = {} /\ a = Answer("error", 0, <<>>)
              => Promised!Query
<1> USE DEF Mapped, Changed, AnswersWith
<1>1. /\ op[c].kind = "select"
      /\ a = Answer("ok", 0, Promised!RowsAt(View(c), Promised!ChosenIn(op[c], View(c))))
      => Promised!Query
  BY DEF Promised!Query, Promised!Rows, Answer
<1>2. ASSUME op[c].kind = "login", NEW r \in Promised!Account(op[c], View(c)),
             a = Answer("ok", 0, <<[r EXCEPT !.enc = @ - 1]>>)
      PROVE  Promised!Query
  <2> DEFINE s == [r EXCEPT !.enc = @ - 1]
  <2>1. a = Promised!Rows(<<s>>)
    BY <1>2 DEF Promised!Rows, Answer
  <2> HIDE DEF s
  <2>2. \E t \in Promised!Account(op[c], Promised!Seen) :
           answer'[c] = Promised!Rows(<<[t EXCEPT !.enc = @ - 1]>>)
    BY <2>1 DEF s
  <2>3. QED
    BY <1>2, <2>2 DEF Promised!Query
<1>3. op[c].kind = "login" /\ Promised!Account(op[c], View(c)) = {} /\ a = Answer("error", 0, <<>>)
      => Promised!Query
  BY DEF Promised!Query, Promised!Refusal, Answer
<1>4. QED
  BY <1>1, <1>2, <1>3

(* The table after a step.                                                 *)
LEMMA NowNext ==
    ASSUME NEW c
    PROVE  Now(c)' = IF pc'[c] = "encode" THEN conf'[c]
                     ELSE IF file'.state = "whole" THEN file'.rows ELSE DefaultRows
BY DEF Now, DefaultRows, Encrypted

(* What is seen of it then.                                                *)
LEMMA ViewNext ==
    ASSUME NEW c
    PROVE  View(c)' = IF sight'[c] = "blind" THEN DefaultRows ELSE Now(c)'
BY DEF View, DefaultRows, Encrypted

(* A caller in a call has a statement and knows what it has seen.          *)
LEMMA AloneTypes ==
    ASSUME NEW c \in Clients, AloneOK(c)
    PROVE  /\ conf[c] \in Seq(Owned) /\ Len(conf[c]) \in Nat /\ n[c] \in Nat /\ n[c] # None
           /\ pc[c] # "idle" => op[c] \in Statements /\ op[c] # None
           /\ pc[c] = "idle" <=> op[c] = None
           /\ CallsOK(Statements)
           /\ ~ mixed /\ sight[c] # "torn" /\ sight \in [Clients -> {"clear", "blind", "torn"}]
           /\ pc[c] \in {"idle", "open", "reading"} => sight[c] = "clear"
<1>1. CallsOK(Statements) /\ None \notin Statements /\ None \notin Nat
  BY TableAssumption DEF AloneOK, StoreOK
<1>2. /\ conf[c] \in Seq(Owned) /\ Len(conf[c]) \in Nat /\ n[c] \in Nat
      /\ pc[c] # "idle" => op[c] \in Statements
  BY <1>1, CallTypes, StatementsAskable
<1>3. pc[c] = "idle" <=> op[c] = None
  BY <1>1 DEF CallsOK
<1>4. /\ ~ mixed /\ sight[c] # "torn" /\ sight \in [Clients -> {"clear", "blind", "torn"}]
      /\ pc[c] \in {"idle", "open", "reading"} => sight[c] = "clear"
  BY DEF AloneOK, OwnSight, SightOK
<1>5. QED
  BY <1>1, <1>2, <1>3, <1>4

(* The control of a step that stays in the call ...                        *)
LEMMA AloneGoes ==
    ASSUME NEW c \in Clients, CallsOK(Statements), NEW from, NEW to, Goto(c, from, to)
    PROVE  pc[c] = from /\ pc'[c] = to
BY DEF Goto, CallsOK

(* ... and of one that ends it.                                            *)
LEMMA AloneEnds ==
    ASSUME NEW c \in Clients, CallsOK(Statements), NEW from, NEW a, Ends(c, from, a)
    PROVE  /\ pc[c] = from /\ pc'[c] = "idle" /\ op'[c] = None /\ answer'[c] = a
           /\ OwnTable(c)'
<1>1. pc[c] = from /\ pc'[c] = "idle" /\ op'[c] = None
  BY DEF Ends, Goto, CallsOK
<1>2. answer'[c] = a
  BY DEF Ends, CallsOK
<1>3. OwnTable(c)'
  BY <1>1 DEF OwnTable
<1>4. QED
  BY <1>1, <1>2, <1>3

(* A step that the table does not see.                                     *)
LEMMA Silent ==
    ASSUME NEW c \in Clients, Mapped(c), CallsOK(Statements), NEW from, NEW to, Goto(c, from, to),
           from # "encode", to # "encode", UNCHANGED <<op, answer, file, sight>>
    PROVE  UNCHANGED Promised!vars /\ View(c)' = View(c)
<1>1. pc[c] # "encode" /\ pc'[c] # "encode"
  BY AloneGoes
<1>2. Now(c)' = Now(c)
  BY <1>1, NowNext DEF Now
<1>3. Changed(c)' = Changed(c)
  BY <1>1 DEF Changed
<1>4. View(c)' = View(c)
  BY <1>2, ViewNext DEF View
<1>5. QED
  BY <1>2, <1>3, <1>4, SeenStep

(* One that ends a call and leaves the table alone.                        *)
LEMMA Ended ==
    ASSUME NEW c \in Clients, AloneOK(c), NEW from, NEW a, Returns(c, from, a),
           from \notin {"encode", "idle"}, UNCHANGED file
    PROVE  AnswersWith(c, a) /\ OwnTable(c)' /\ pc[c] = from
<1>1. CallsOK(Statements) /\ Ends(c, from, a)
  BY AloneTypes DEF Returns
<1>2. /\ pc[c] = from /\ pc'[c] = "idle" /\ op'[c] = None /\ answer'[c] = a
      /\ OwnTable(c)'
  BY <1>1, AloneEnds
<1>3. op[c] # None
  BY <1>2, AloneTypes
<1>4. Now(c)' = Now(c)
  BY <1>2, NowNext DEF Now
<1>5. sight'[c] = "clear"
  BY AloneTypes DEF Returns
<1>6. QED
  BY <1>2, <1>3, <1>4, <1>5 DEF AnswersWith, Changed

(* What each action is shown to do.                                        *)
KeepsPromise(c) == OwnTable(c)' /\ PromisedStep

(* The actions, in the order of a call: it begins ...                      *)
LEMMA CallAlone ==
    ASSUME NEW c \in Clients, Mapped(c), AloneOK(c), NEW st \in Statements, Call(c, st)
    PROVE  KeepsPromise(c)
<1>1. CallsOK(Statements)
  BY AloneTypes
<1>2. pc[c] = "idle" /\ pc'[c] = "open"
  BY <1>1, AloneGoes DEF Call
<1>3. op[c] = None /\ op'[c] = st
  BY <1>1, <1>2, AloneTypes DEF Call, CallsOK
<1>4. Now(c)' = Now(c) /\ Changed(c)' = Changed(c) /\ answer' = answer /\ sight' = sight
  BY <1>2, NowNext DEF Call, Now, Changed, readVars
<1>5. Promised!Call
  BY <1>3, <1>4, SeenStep
<1>6. OwnTable(c)'
  BY <1>2 DEF OwnTable
<1>7. QED
  BY <1>5, <1>6 DEF KeepsPromise, PromisedStep, Promised!Next

(* ... reads the file, and has the table before it ...                     *)
LEMMA ReadFileAlone ==
    ASSUME NEW c \in Clients, Mapped(c), AloneOK(c), ReadFile(c)
    PROVE  KeepsPromise(c)
<1> DEFINE to == IF file.state = "absent" THEN "loaded" ELSE "reindex"
<1>1. CallsOK(Statements) /\ Goto(c, "open", to) /\ UNCHANGED <<op, answer, file, sight>>
  BY AloneTypes DEF ReadFile, readVars
<1>2. pc[c] = "open" /\ pc'[c] = to /\ to \in {"loaded", "reindex"}
  BY <1>1, AloneGoes
<1> HIDE DEF to
<1>3. UNCHANGED Promised!vars /\ View(c)' = View(c)
  BY <1>1, <1>2, Silent
<1>4. conf'[c] = IF file.state = "whole" THEN file.rows ELSE conf[c]
  BY <1>1 DEF ReadFile, CallsOK
<1>5. conf[c] = DefaultRows
  BY <1>2 DEF AloneOK, OwnIndex
<1>6. conf'[c] = View(c)
  BY <1>2, <1>4, <1>5, AloneTypes DEF Now, View
<1>7. OwnTable(c)'
  <2>1. pc'[c] \in {"loaded", "reindex"} /\ conf'[c] = View(c)'
    BY <1>2, <1>3, <1>6
  <2>2. QED
    BY <2>1 DEF OwnTable
<1>8. QED
  BY <1>3, <1>7 DEF KeepsPromise, PromisedStep

(* ... or cannot open it and has the default,                              *)
LEMMA OpenFailsAlone ==
    ASSUME NEW c \in Clients, Mapped(c), AloneOK(c), OpenFails(c)
    PROVE  KeepsPromise(c)
<1>1. CallsOK(Statements) /\ Goto(c, "open", "loaded") /\ UNCHANGED <<op, answer, file, conf>>
  BY AloneTypes DEF OpenFails
<1>2. pc[c] = "open" /\ pc'[c] = "loaded"
  BY <1>1, AloneGoes
<1>3. sight'[c] = "blind" /\ op[c] # None
  BY <1>2, AloneTypes DEF OpenFails
<1>4. Now(c)' = Now(c) /\ Changed(c) = None /\ Changed(c)' = None
  BY <1>1, <1>2, NowNext DEF Now, Changed
<1>5. Promised!CannotOpen
  BY <1>1, <1>3, <1>4, SeenStep
<1>6. conf'[c] = View(c)'
  BY <1>1, <1>2, <1>3, ViewNext DEF AloneOK, OwnIndex
<1>7. OwnTable(c)'
  BY <1>2, <1>6 DEF OwnTable
<1>8. QED
  BY <1>5, <1>7 DEF KeepsPromise, PromisedStep, Promised!Next

(* or reads it in two parts, with nobody to write it in between ...        *)
LEMMA ReadPartsAlone ==
    ASSUME NEW c \in Clients, Mapped(c), AloneOK(c),
           ReadPart(c) \/ ReadRest(c) \/ ReadTorn(c) \/ ReadBroken(c)
    PROVE  KeepsPromise(c)
<1>1. CallsOK(Statements) /\ sight[c] # "torn"
  BY AloneTypes
<1>2. CASE ReadPart(c)
  <2>1. Goto(c, "open", "reading") /\ UNCHANGED <<op, answer, file, sight>>
    BY <1>2 DEF ReadPart, readVars
  <2>2. pc[c] = "open" /\ pc'[c] = "reading" /\ sight[c] = "clear"
    BY <1>1, <2>1, AloneGoes, AloneTypes
  <2>3. UNCHANGED Promised!vars /\ View(c)' = View(c)
    BY <1>1, <2>1, Silent
  <2>4. conf'[c] = file.rows /\ file.state = "whole"
    BY <1>1, <1>2 DEF ReadPart, CallsOK
  <2>5. conf'[c] = View(c)'
    BY <2>2, <2>3, <2>4 DEF View, Now
  <2>6. OwnTable(c)'
    BY <2>2, <2>5 DEF OwnTable
  <2>7. QED
    BY <2>3, <2>6 DEF KeepsPromise, PromisedStep
<1>3. CASE ReadRest(c)
  <2>1. Goto(c, "reading", "reindex") /\ UNCHANGED <<op, answer, file, conf, sight>>
    BY <1>3 DEF ReadRest, readVars
  <2>2. pc[c] = "reading" /\ pc'[c] = "reindex"
    BY <1>1, <2>1, AloneGoes
  <2>3. UNCHANGED Promised!vars /\ View(c)' = View(c)
    BY <1>1, <2>1, Silent
  <2>4. conf'[c] = View(c)'
    BY <2>1, <2>2, <2>3 DEF AloneOK, OwnTable
  <2>5. OwnTable(c)'
    BY <2>2, <2>4 DEF OwnTable
  <2>6. QED
    BY <2>3, <2>5 DEF KeepsPromise, PromisedStep
<1>4. QED
  BY <1>1, <1>2, <1>3 DEF ReadTorn, ReadBroken

(* ... makes the index again ...                                           *)
LEMMA ReindexAlone ==
    ASSUME NEW c \in Clients, Mapped(c), AloneOK(c), Reindex(c)
    PROVE  KeepsPromise(c)
<1>1. CallsOK(Statements) /\ Goto(c, "reindex", "loaded")
      /\ UNCHANGED <<op, answer, file, conf, sight>>
  BY AloneTypes DEF Reindex, readVars
<1>2. pc[c] = "reindex" /\ pc'[c] = "loaded"
  BY <1>1, AloneGoes
<1>3. UNCHANGED Promised!vars /\ View(c)' = View(c)
  BY <1>1, Silent
<1>4. conf'[c] = View(c)'
  BY <1>1, <1>2, <1>3 DEF AloneOK, OwnTable
<1>5. OwnTable(c)'
  BY <1>2, <1>4 DEF OwnTable
<1>6. QED
  BY <1>3, <1>5 DEF KeepsPromise, PromisedStep

(* ... and takes mu, if it is to insert or to update.                      *)
LEMMA LockAlone ==
    ASSUME NEW c \in Clients, Mapped(c), AloneOK(c), Lock(c)
    PROVE  KeepsPromise(c)
<1>1. CallsOK(Statements) /\ Goto(c, "loaded", "locked")
      /\ UNCHANGED <<op, answer, file, conf, sight>>
  BY AloneTypes DEF Lock, readVars
<1>2. pc[c] = "loaded" /\ pc'[c] = "locked"
  BY <1>1, AloneGoes
<1>3. UNCHANGED Promised!vars /\ View(c)' = View(c)
  BY <1>1, Silent
<1>4. conf'[c] = View(c)'
  BY <1>1, <1>2, <1>3 DEF AloneOK, OwnTable
<1>5. op[c].kind = "update" => whereColumnsToConfig(op[c], conf[c]) # <<>>
  BY DEF Lock
<1>6. op'[c].kind = "update" => whereColumnsToConfig(op'[c], conf'[c]) # <<>>
  BY <1>1, <1>5
<1>7. OwnTable(c)'
  BY <1>2, <1>4, <1>6 DEF OwnTable, whereColumnsToConfig
<1>8. QED
  BY <1>3, <1>7 DEF KeepsPromise, PromisedStep

(* A query is answered from the table.                                     *)
LEMMA QueryAlone ==
    ASSUME NEW c \in Clients, Mapped(c), AloneOK(c), Select(c) \/ GetPassword(c)
    PROVE  KeepsPromise(c)
<1>1. /\ pc[c] = "loaded" /\ UNCHANGED file
  BY DEF Select, GetPassword
<1>2. conf[c] = View(c) /\ conf[c] \in Seq(Owned) /\ CallsOK(Statements)
  BY <1>1, AloneTypes DEF AloneOK, OwnTable
<1>3. CASE Select(c)
  <2> DEFINE a == Answer("ok", 0, whereColumnsToConfig(op[c], conf[c]))
  <2>1. Returns(c, "loaded", a) /\ op[c].kind = "select"
    BY <1>3 DEF Select
  <2>2. a = Answer("ok", 0, Promised!RowsAt(View(c), Promised!ChosenIn(op[c], View(c))))
    BY <1>2, QueryRows
  <2> HIDE DEF a
  <2>3. AnswersWith(c, a) /\ OwnTable(c)'
    BY <1>1, <2>1, Ended
  <2>4. Promised!Query
    BY <2>1, <2>2, <2>3, SeenQuery
  <2>5. QED
    BY <2>3, <2>4 DEF KeepsPromise, PromisedStep, Promised!Next
<1>4. CASE GetPassword(c) /\ Matching(c) = {}
  <2> DEFINE a == Answer("error", 0, <<>>)
  <2>1. Returns(c, "loaded", a) /\ op[c].kind = "login"
    BY <1>2, <1>4 DEF GetPassword, Fails
  <2>2. Promised!Account(op[c], View(c)) = {}
    BY <1>2, <1>4, LoginRows
  <2>3. a = Answer("error", 0, <<>>)
    OBVIOUS
  <2> HIDE DEF a
  <2>4. AnswersWith(c, a) /\ OwnTable(c)'
    BY <1>1, <2>1, Ended
  <2>5. Promised!Query
    BY <2>1, <2>2, <2>3, <2>4, SeenQuery
  <2>6. QED
    BY <2>4, <2>5 DEF KeepsPromise, PromisedStep, Promised!Next
<1>5. CASE GetPassword(c) /\ Matching(c) # {}
  <2> DEFINE r == FirstMatch(c)
             a == Answer("ok", 0, <<[r EXCEPT !.enc = @ - 1]>>)
  <2>0. ~ NoText(r)
    <3>1. Matching(c) \subseteq 1 .. Len(conf[c]) /\ Matching(c) \subseteq Nat
      BY <1>2 DEF Matching
    <3>2. r \in Owned
      BY <1>2, <1>5, <3>1, Smallest DEF FirstMatch
    <3>3. QED
      BY <3>2, NothingGarbled, AloneTypes
  <2>1. Returns(c, "loaded", a) /\ op[c].kind = "login"
    BY <1>5, <2>0 DEF GetPassword
  <2>2. r \in Promised!Account(op[c], View(c))
    BY <1>2, <1>5, LoginRows
  <2> HIDE DEF r
  <2>3. \E t \in Promised!Account(op[c], View(c)) : a = Answer("ok", 0, <<[t EXCEPT !.enc = @ - 1]>>)
    BY <2>2
  <2> HIDE DEF a
  <2>4. AnswersWith(c, a) /\ OwnTable(c)'
    BY <1>1, <2>1, Ended
  <2>5. Promised!Query
    BY <2>1, <2>3, <2>4, SeenQuery
  <2>6. QED
    BY <2>4, <2>5 DEF KeepsPromise, PromisedStep, Promised!Next
<1>6. QED
  BY <1>3, <1>4, <1>5

(* A statement that fails before the file is touched.                      *)
LEMMA RefusedAlone ==
    ASSUME NEW c \in Clients, Mapped(c), AloneOK(c),
           NothingChosen(c) \/ InsertFails(c) \/ UpdateFails(c) \/ EncryptFails(c)
    PROVE  KeepsPromise(c)
<1> DEFINE a == Answer("error", 0, <<>>)
<1>1. PICK from \in {"loaded", "locked"} : Returns(c, from, a)
  BY DEF NothingChosen, InsertFails, UpdateFails, EncryptFails, Fails
<1>2. op[c].kind \in {"insert", "update", "delete"} /\ UNCHANGED file
  BY DEF NothingChosen, InsertFails, UpdateFails, EncryptFails
<1>3. a = Answer("error", 0, <<>>)
  OBVIOUS
<1> HIDE DEF a
<1>4. AnswersWith(c, a) /\ OwnTable(c)'
  BY <1>1, <1>2, Ended
<1>5. Promised!Refuse
  BY <1>2, <1>3, <1>4, SeenStep DEF AnswersWith
<1>6. QED
  BY <1>4, <1>5 DEF KeepsPromise, PromisedStep, Promised!Next

(* A change that is made, to the caller's Config first.                    *)
LEMMA ReadyAlone ==
    ASSUME NEW c \in Clients, Mapped(c), AloneOK(c), NEW from \in {"loaded", "locked"},
           Goto(c, from, "put"), UNCHANGED <<op, answer, file, sight>>,
           Effect(op[c], View(c), conf'[c], n'[c])
    PROVE  KeepsPromise(c)
<1>1. CallsOK(Statements)
  BY AloneTypes
<1>2. UNCHANGED Promised!vars /\ View(c)' = View(c)
  BY <1>1, Silent
<1>3. pc'[c] = "put"
  BY <1>1, AloneGoes
<1>4. Effect(op'[c], View(c)', conf'[c], n'[c])
  BY <1>2
<1>5. OwnTable(c)'
  BY <1>3, <1>4 DEF OwnTable
<1>6. QED
  BY <1>2, <1>5 DEF KeepsPromise, PromisedStep

(* The changes that are made: an INSERT ...                                *)
LEMMA InsertAlone ==
    ASSUME NEW c \in Clients, Mapped(c), AloneOK(c), Insert(c)
    PROVE  KeepsPromise(c)
<1>1. CallsOK(Statements) /\ Goto(c, "locked", "put") /\ UNCHANGED <<op, answer, file, sight>>
      /\ op[c].kind = "insert" /\ Refused(c) = {}
  BY AloneTypes DEF Insert, readVars
<1>2. pc[c] = "locked"
  BY <1>1, AloneGoes
<1>3. conf[c] = View(c) /\ serverIndex = IndexOf(conf[c]) /\ conf[c] \in Seq(Owned)
      /\ op[c] \in Statements
  BY <1>2, AloneTypes DEF AloneOK, OwnTable, OwnIndex
<1>4. Appended(c) = op[c].rows
  BY <1>1, <1>3, AppendedType
<1>5. conf'[c] = conf[c] \o op[c].rows /\ n'[c] = Len(op[c].rows)
  BY <1>1, <1>4 DEF Insert, CallsOK
<1>6. Promised!CanInsert(op[c], conf[c])
  BY <1>1, <1>3, InsertedRows
<1>7. Effect(op[c], View(c), conf'[c], n'[c])
  BY <1>1, <1>3, <1>5, <1>6 DEF Effect, Promised!Inserted
<1>8. QED
  BY <1>1, <1>7, ReadyAlone

(* ... an UPDATE ...                                                       *)
LEMMA UpdateAlone ==
    ASSUME NEW c \in Clients, Mapped(c), AloneOK(c), Update(c)
    PROVE  KeepsPromise(c)
<1>1. CallsOK(Statements) /\ Goto(c, "locked", "put") /\ UNCHANGED <<op, answer, file, sight>>
      /\ op[c].kind = "update"
  BY AloneTypes DEF Update, readVars
<1>2. pc[c] = "locked"
  BY <1>1, AloneGoes
<1>3. conf[c] = View(c) /\ serverIndex = IndexOf(conf[c]) /\ conf[c] \in Seq(Owned)
      /\ op[c] \in Statements /\ Len(conf[c]) \in Nat
      /\ whereColumnsToConfig(op[c], conf[c]) # <<>>
  BY <1>1, <1>2, AloneTypes DEF AloneOK, OwnTable, OwnIndex
<1>4. conf'[c] = UpdateLoop(c).rows /\ n'[c] = Len(whereColumnsToConfig(op[c], conf[c]))
  BY <1>1 DEF Update, CallsOK
<1>5. Len(UpdateLoop(c).rows) = Len(conf[c])
  <2> DEFINE E == {"ok", "error"}
  <2>1. Stays(Len(conf[c]), E)
    <3>1. \A u \in DOMAIN serverIndex : serverIndex[u] \in 1 .. Len(conf[c])
      BY <1>3, IndexType
    <3>2. QED
      BY <1>3, <3>1 DEF Stays
  <2>2. UpdateLoop(c) \in Outcomes(Len(conf[c]), E)
    BY <1>1, <1>3, <2>1, UpdateLoopType
  <2>3. QED
    BY <2>2 DEF Outcomes, Tables
<1>6. Promised!HasNoTwins(conf[c]) => UpdateLoop(c).rows = Promised!Updated(op[c], conf[c])
  BY <1>1, <1>3, UpdatedRows
<1>7. /\ Promised!ChosenIn(op[c], conf[c]) # {}
      /\ n'[c] = Cardinality(Promised!ChosenIn(op[c], conf[c]))
  BY <1>3, <1>4, ChosenCount
<1>8. Effect(op[c], View(c), conf'[c], n'[c])
  BY <1>1, <1>3, <1>4, <1>5, <1>6, <1>7 DEF Effect
<1>9. QED
  BY <1>1, <1>8, ReadyAlone

(* ... and a DELETE.                                                       *)
LEMMA DeleteAlone ==
    ASSUME NEW c \in Clients, Mapped(c), AloneOK(c), Delete(c)
    PROVE  KeepsPromise(c)
<1> DEFINE deleted == UsersIn(whereColumnsToConfig(op[c], conf[c]))
           res     == Selected(conf[c], {s \in Rows : s.user \notin deleted})
<1>1. CallsOK(Statements) /\ Goto(c, "loaded", "put") /\ UNCHANGED <<op, answer, file, sight>>
      /\ op[c].kind = "delete"
  BY AloneTypes DEF Delete, readVars
<1>2. pc[c] = "loaded"
  BY <1>1, AloneGoes
<1>3. conf[c] = View(c) /\ conf[c] \in Seq(Owned)
  BY <1>2, AloneTypes DEF AloneOK, OwnTable
<1>4. deleted # {} /\ conf'[c] = res /\ n'[c] = Len(conf[c]) - Len(res)
  BY <1>1 DEF Delete, CallsOK
<1>5. /\ Promised!ChosenIn(op[c], conf[c]) # {}
      /\ res = Promised!Remaining(op[c], conf[c])
      /\ Len(conf[c]) - Len(res) = Cardinality(Promised!ChosenIn(op[c], conf[c]))
  BY <1>3, <1>4, DeletedRows
<1> HIDE DEF deleted, res
<1>6. Effect(op[c], View(c), conf'[c], n'[c])
  BY <1>1, <1>3, <1>4, <1>5 DEF Effect
<1>7. QED
  BY <1>1, <1>6, ReadyAlone

(* The file is truncated: the change is durable now.                       *)
LEMMA CreateAlone ==
    ASSUME NEW c \in Clients, Mapped(c), AloneOK(c), Create(c)
    PROVE  KeepsPromise(c)
<1>1. CallsOK(Statements) /\ Goto(c, "put", "encode") /\ UNCHANGED <<op, conf, n, answer>>
      /\ file' = [state |-> "empty", rows |-> <<>>]
  BY AloneTypes DEF Create
<1>2. pc[c] = "put" /\ pc'[c] = "encode"
  BY <1>1, AloneGoes
<1>3. Effect(op[c], View(c), conf[c], n[c]) /\ op[c] # None /\ n[c] # None
  BY <1>2, AloneTypes DEF AloneOK, OwnTable
<1>4. Now(c)' = conf[c] /\ Changed(c) = None /\ Changed(c)' = n[c]
  BY <1>1, <1>2, NowNext DEF Changed
<1>5. Effect(op[c], View(c), Now(c)', Changed(c)')
  BY <1>3, <1>4
<1>6. sight'[c] = sight[c]
  BY <1>2 DEF Create, Torn
<1>7. Promised!Change
  BY <1>1, <1>3, <1>4, <1>5, <1>6, SeenStep
<1>8. OwnTable(c)'
  BY <1>1, <1>2 DEF OwnTable
<1>9. QED
  BY <1>7, <1>8 DEF KeepsPromise, PromisedStep, Promised!Next

(* The file cannot be created: nothing has happened.                       *)
LEMMA CreateFailsAlone ==
    ASSUME NEW c \in Clients, Mapped(c), AloneOK(c), CreateFails(c)
    PROVE  KeepsPromise(c)
<1> DEFINE a == Answer("error", 0, <<>>)
<1>1. CallsOK(Statements) /\ Returns(c, "put", a) /\ UNCHANGED file
  BY AloneTypes DEF CreateFails, Fails
<1>2. a = Answer("error", 0, <<>>)
  OBVIOUS
<1> HIDE DEF a
<1>3. AnswersWith(c, a) /\ OwnTable(c)' /\ pc[c] = "put"
  BY <1>1, Ended
<1>4. op[c].kind \in {"insert", "update", "delete"}
  BY <1>3 DEF AloneOK, OwnTable, Effect
<1>5. Promised!Refuse
  BY <1>2, <1>3, <1>4, SeenStep DEF AnswersWith
<1>6. QED
  BY <1>3, <1>5 DEF KeepsPromise, PromisedStep, Promised!Next

(* The file is written, or the write fails.                                *)
LEMMA EncodeAlone ==
    ASSUME NEW c \in Clients, Mapped(c), AloneOK(c), Encode(c) \/ EncodeFails(c)
    PROVE  KeepsPromise(c)
<1>1. PICK a : /\ Ends(c, "encode", a)
               /\ \/ Encode(c) /\ a = Answer("ok", n[c], <<>>)
                  \/ EncodeFails(c) /\ a = Answer("error", 0, <<>>)
  BY DEF Encode, EncodeFails
<1>2. CallsOK(Statements)
  BY AloneTypes
<1>3. pc[c] = "encode" /\ pc'[c] = "idle" /\ op'[c] = None /\ answer'[c] = a /\ OwnTable(c)'
  BY <1>1, <1>2, AloneEnds
<1>4. n[c] # None /\ Changed(c) = n[c] /\ Changed(c)' = None /\ Now(c) = conf[c]
  BY <1>3, AloneTypes DEF Changed, Now
<1>5. sight'[c] = "clear"
  BY <1>1, AloneTypes DEF Encode, EncodeFails, Torn
<1>6. CASE Encode(c) /\ a = Answer("ok", n[c], <<>>)
  <2>1. file'.state = "whole" /\ file'.rows = conf[c]
    BY <1>6 DEF Encode
  <2>2. Now(c)' = Now(c)
    BY <1>3, <1>4, <2>1, NowNext
  <2>3. Promised!Acknowledge
    BY <1>3, <1>4, <1>5, <1>6, <2>2, SeenStep
  <2>4. QED
    BY <1>3, <2>3 DEF KeepsPromise, PromisedStep, Promised!Next
<1>7. CASE EncodeFails(c) /\ a = Answer("error", 0, <<>>)
  <2>1. file' = [state |-> "empty", rows |-> <<>>]
    BY <1>3, <1>7 DEF EncodeFails, AloneOK, OwnTable
  <2>2. Now(c)' = DefaultRows
    BY <1>3, <2>1, NowNext
  <2>3. Promised!CutShort
    BY <1>3, <1>4, <1>5, <1>7, <2>2, SeenStep
  <2>4. QED
    BY <1>3, <2>3 DEF KeepsPromise, PromisedStep, Promised!Next
<1>8. QED
  BY <1>1, <1>6, <1>7

(* The process is killed and started again.                                *)
LEMMA RestartAlone ==
    ASSUME NEW c \in Clients, Mapped(c), AloneOK(c), Restart
    PROVE  KeepsPromise(c)
<1>1. /\ pc'[c] = "idle" /\ op'[c] = None /\ answer'[c] = Answer("none", 0, <<>>) /\ file' = file
      /\ sight'[c] = "clear"
  BY DEF Restart
<1>2. Changed(c)' = None
  BY <1>1 DEF Changed
<1>3. Now(c)' = IF file.state = "whole" THEN file.rows ELSE DefaultRows
  BY <1>1, NowNext
<1>4. Now(c)' = IF Changed(c) # None THEN DefaultRows ELSE Now(c)
  <2>1. CASE pc[c] = "encode"
    <3>1. Changed(c) # None /\ file.state = "empty"
      BY <2>1, AloneTypes DEF Changed, AloneOK, OwnTable
    <3>2. QED
      BY <1>3, <3>1
  <2>2. CASE pc[c] # "encode"
    BY <1>3, <2>2 DEF Changed, Now
  <2>3. QED
    BY <2>1, <2>2
<1>5. Promised!Killed
  BY <1>1, <1>2, <1>4, SeenStep
<1>6. OwnTable(c)'
  BY <1>1 DEF OwnTable
<1>7. QED
  BY <1>5, <1>6 DEF KeepsPromise, PromisedStep, Promised!Next

(* Nothing happens.                                                        *)
LEMMA NothingAlone ==
    ASSUME NEW c \in Clients, Mapped(c), AloneOK(c), UNCHANGED vars
    PROVE  KeepsPromise(c)
<1>1. UNCHANGED <<pc, op, conf, n, answer, file, sight>>
  BY DEF vars, clientVars, readVars
<1>2. Now(c)' = Now(c) /\ Changed(c)' = Changed(c)
  BY <1>1, NowNext DEF Now, Changed
<1>3. View(c)' = View(c)
  BY <1>1, <1>2, ViewNext DEF View
<1>4. UNCHANGED Promised!vars
  BY <1>1, <1>2, SeenStep
<1>5. Effect(op[c], View(c), conf[c], n[c]) => Effect(op'[c], View(c)', conf'[c], n'[c])
  BY <1>1, <1>3
<1>6. OwnTable(c)'
  BY <1>1, <1>3, <1>5 DEF AloneOK, OwnTable, whereColumnsToConfig
<1>7. QED
  BY <1>4, <1>6 DEF KeepsPromise, PromisedStep

(* Nobody writes the file while the one caller reads it.                   *)
LEMMA OwnSightStep ==
    ASSUME NEW c \in Clients, AloneOK(c), AloneMoves(c)
    PROVE  OwnSight(c)'
<1>1. CallsOK(Statements) /\ ~ mixed /\ sight[c] # "torn"
      /\ (pc[c] \in {"idle", "open", "reading"} => sight[c] = "clear")
  BY AloneTypes
<1>2. SightOK'
  <2>1. Moves(Statements)
    BY DEF AloneMoves, Moves, Work
  <2>2. QED
    BY <1>1, <2>1, SightStep DEF AloneOK, OwnSight
<1>3. ASSUME mixed' = mixed, pc'[c] \notin {"open", "reading"} PROVE OwnSight(c)'
  BY <1>1, <1>2, <1>3 DEF OwnSight, SightOK
<1>4. ASSUME UNCHANGED readVars, pc[c] \in {"idle", "open", "reading"} PROVE OwnSight(c)'
  BY <1>1, <1>2, <1>4 DEF OwnSight, SightOK, readVars
<1>5. ASSUME NEW from, NEW to \in {"reindex", "loaded", "locked", "put", "encode"},
             Goto(c, from, to), mixed' = mixed
      PROVE  OwnSight(c)'
  BY <1>1, <1>3, <1>5, AloneGoes
<1>6. ASSUME NEW from, \E a : Ends(c, from, a) \/ Returns(c, from, a) PROVE OwnSight(c)'
  <2>1. PICK a : Ends(c, from, a)
    BY <1>6 DEF Returns
  <2>2. pc'[c] = "idle" /\ mixed' = mixed
    BY <1>1, <2>1, AloneEnds DEF Ends
  <2>3. QED
    BY <1>3, <2>2
<1>7. ASSUME NEW st \in Statements, Call(c, st) PROVE OwnSight(c)'
  BY <1>1, <1>4, <1>7, AloneGoes DEF Call
<1>8. ASSUME GetConfig(c) PROVE OwnSight(c)'
  <2>1. CASE ReadFile(c)
    BY <1>5, <2>1 DEF ReadFile, readVars
  <2>2. CASE OpenFails(c) \/ ReadRest(c) \/ Reindex(c)
    BY <1>5, <2>2 DEF OpenFails, ReadRest, Reindex, readVars
  <2>3. CASE ReadPart(c)
    BY <1>1, <1>4, <2>3, AloneGoes DEF ReadPart
  <2>4. QED
    BY <1>1, <1>8, <2>1, <2>2, <2>3 DEF GetConfig, ReadTorn, ReadBroken
<1>9. ASSUME Delete(c) \/ Lock(c) \/ Insert(c) \/ Update(c) \/ Create(c) PROVE OwnSight(c)'
  BY <1>5, <1>9 DEF Delete, Lock, Insert, Update, Create, readVars
<1>10. ASSUME \/ Select(c) \/ GetPassword(c) \/ NothingChosen(c)
              \/ InsertFails(c) \/ UpdateFails(c) \/ EncryptFails(c) \/ CreateFails(c)
       PROVE  OwnSight(c)'
  BY <1>6, <1>10
     DEF Select, GetPassword, NothingChosen, InsertFails, UpdateFails, EncryptFails, CreateFails, Fails
<1>11. ASSUME Encode(c) \/ EncodeFails(c) PROVE OwnSight(c)'
  BY <1>6, <1>11 DEF Encode, EncodeFails
<1>12. CASE Restart
  BY <1>3, <1>12 DEF Restart
<1>13. CASE UNCHANGED vars
  BY <1>1, <1>2, <1>13 DEF vars, clientVars, readVars, AloneOK, OwnSight
<1>14. QED
  BY <1>7, <1>8, <1>9, <1>10, <1>11, <1>12, <1>13 DEF AloneMoves, Advance, PutConfig

(* Every step keeps the invariant and is a step of the table or none.      *)
LEMMA TableStep ==
    ASSUME NEW c \in Clients, Clients = {c}, AloneOK(c), AloneMoves(c)
    PROVE  AloneOK(c)' /\ PromisedStep
<1>1. Mapped(c)
  BY SeenAlone
<1>2. ASSUME Advance(c) PROVE KeepsPromise(c)
  BY <1>1, <1>2, ReadFileAlone, OpenFailsAlone, ReadPartsAlone, ReindexAlone, LockAlone, QueryAlone, RefusedAlone, InsertAlone,
     UpdateAlone, DeleteAlone, CreateAlone, CreateFailsAlone, EncodeAlone
     DEF Advance, GetConfig, PutConfig
<1>3. KeepsPromise(c)
  BY <1>1, <1>2, CallAlone, RestartAlone, NothingAlone DEF AloneMoves
<1>4. Moves(Statements)
  BY DEF AloneMoves, Moves, Work
<1>5. StoreOK(Statements)' /\ OwnIndex(c)' /\ OwnSight(c)'
  BY <1>4, StoreStep, OwnIndexStep, OwnSightStep, StatementsAskable DEF AloneOK
<1>6. QED
  BY <1>3, <1>5 DEF AloneOK, KeepsPromise

(* The store starts as the table does.                                     *)
LEMMA TableStarts ==
    ASSUME NEW c \in Clients, Clients = {c}, Init
    PROVE  AloneOK(c) /\ Promised!Init
<1>1. /\ pc[c] = "idle" /\ op[c] = None /\ answer[c] = Answer("none", 0, <<>>) /\ file = Absent
      /\ sight[c] = "clear" /\ ~ mixed /\ SightOK
  BY DEF Init, Idle, SightOK
<1>2. Table = DefaultRows /\ Caller = c
  <2>1. Now(c) = DefaultRows
    BY <1>1 DEF Now, Absent
  <2>2. QED
    BY <2>1, SeenAlone DEF Mapped
<1>3. Promised!Init
  BY <1>1, <1>2 DEF Promised!Init, Promised!DefaultTable, Promised!Row, Promised!NoAnswer,
     DefaultRows, Encrypted, Answer
<1>4. AloneOK(c)
  <2>1. StoreOK(Statements)
    BY StoreStarts, AbsentOK DEF Init
  <2>2. QED
    BY <1>1, <2>1 DEF AloneOK, OwnIndex, OwnTable, OwnSight
<1>5. QED
  BY <1>3, <1>4

(* Used by one caller at a time, the file, the index and the loops of      *)
(* insert, update and delete are a table on which statements are atomic and *)
(* exact, also across failing writes, kills and restarts: a statement is   *)
(* refused and changes nothing or takes effect as a whole, and a write     *)
(* that is cut short leaves the default configuration.  When the file that *)
(* is there cannot be opened, a statement goes by the default configuration*)
(* and a change replaces the table by what it makes of that                *)
(* (serverconfig.go:84-246).                                               *)
THEOREM StoreImplementsUserTable ==
    ASSUME NEW CONSTANT client, Clients = {client}
    PROVE  AloneSpec => ImplementsUserTable
<1>0. client \in Clients
  OBVIOUS
<1>1. Init => AloneOK(client) /\ Promised!Init
  BY <1>0, TableStarts
<1>2. AloneOK(client) /\ [AloneNext]_vars => AloneOK(client)' /\ PromisedStep
  <2>1. [AloneNext]_vars => AloneMoves(client)
    BY DEF AloneNext, AloneAdvance, GetConfig, Advance, AloneMoves
  <2>2. QED
    BY <1>0, <2>1, TableStep
<1>3. AloneOK(client) /\ [AloneNext]_vars => AloneOK(client)' /\ [Promised!Next]_(Promised!vars)
  BY <1>2 DEF PromisedStep
<1>4. QED
  BY <1>1, <1>3, PTL DEF AloneSpec, ImplementsUserTable, Promised!Spec
=============================================================================
