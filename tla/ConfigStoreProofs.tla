--------------------------- MODULE ConfigStoreProofs ---------------------------
(***************************************************************************)
(* Proofs about the user table, for any callers, rows and statements.      *)
(*                                                                         *)
(* The inductive invariant StoreOK types every row with Owned: a row of    *)
(* the file, of a caller's Config or of an answer joins a name and a       *)
(* password that MayHave allows, until a call puts two texts of the file   *)
(* together; Owned grows to all rows then.  It holds for any set of calls  *)
(* that are statements or logins, so that it serves the store alone and    *)
(* below the sessions.  SightOK says how the calls have read the file.     *)
(* WholeOK adds what a caller is about to write, OwnIndex what a caller    *)
(* that works alone finds in the index.                                    *)
(***************************************************************************)
EXTENDS ConfigStoreProperties, SequenceLemmas

-----------------------------------------------------------------------------
(* Rows.                                                                   *)

(* The rows that may be stored, and those that may be shown.               *)
Owned == {r \in Rows : mixed \/ MayHave(r)}

ShownOwned == {r \in Shown : mixed \/ MayHave(r)}

(* They are rows, and what may be stored may be shown.                     *)
LEMMA OwnedTypes ==
    /\ Owned \subseteq Rows
    /\ \A q \in Seq(Owned) : q \in Seq(Rows)
    /\ \A r \in Owned : r \in ShownOwned
<1>1. Owned \subseteq Rows /\ Rows \subseteq Shown
  BY DEF Owned, Rows, Shown
<1>2. \A q \in Seq(Owned) : q \in Seq(Rows)
  BY <1>1
<1>3. QED
  BY <1>1, <1>2 DEF Owned, ShownOwned

(* What may be stored or shown still may after a step.                     *)
LEMMA OwnedWidens ==
    ASSUME mixed => mixed'
    PROVE  /\ Owned \subseteq Owned' /\ ShownOwned \subseteq ShownOwned'
           /\ \A q \in Seq(Owned) : q \in Seq(Owned)'
           /\ \A q \in Seq(ShownOwned) : q \in Seq(ShownOwned)'
<1>1. Owned \subseteq Owned' /\ ShownOwned \subseteq ShownOwned'
  <2>1. \A r \in Rows : MayHave(r) = MayHave(r)'
    BY DEF MayHave, MayShare, Becomes
  <2>2. \A r \in Shown : MayHave(r) = MayHave(r)'
    BY DEF MayHave, MayShare, Becomes
  <2>3. QED
    BY <2>1, <2>2 DEF Owned, ShownOwned, Rows, Shown
<1>2. QED
  BY <1>1

(* The default configuration has the initial administrator's account.      *)
LEMMA DefaultOwned == DefaultRows \in Seq(Owned)
<1>1. Encrypted(Admin, InitialPassword) \in Rows
  BY TableAssumption DEF Encrypted, Rows
<1>2. MayHave(Encrypted(Admin, InitialPassword))
  BY DEF MayHave, MayShare, Encrypted
<1>3. QED
  BY <1>1, <1>2 DEF Owned, DefaultRows

(* What an administrator inserts is his.                                   *)
LEMMA InsertedOwned ==
    ASSUME NEW st \in Statements, st.kind = "insert"
    PROVE  st.rows \in Seq(Owned)
<1>1. st.rows \in Seq(Rows)
  BY StatementsAssumption
<1>2. \A i \in DOMAIN st.rows : st.rows[i] \in Rows
  BY <1>1
<1>3. \A i \in DOMAIN st.rows : MayHave(st.rows[i])
  BY DEF MayHave, MayShare
<1>4. \A i \in DOMAIN st.rows : st.rows[i] \in Owned
  BY <1>2, <1>3 DEF Owned
<1> DEFINE q == st.rows
<1>5. q \in Seq(Rows) /\ \A i \in DOMAIN q : q[i] \in Owned
  BY <1>1, <1>4
<1> HIDE DEF q
<1>6. q \in Seq(Owned)
  <2>1. q = [i \in 1 .. Len(q) |-> q[i]] /\ Len(q) \in Nat /\ DOMAIN q = 1 .. Len(q)
    BY <1>5
  <2>2. QED
    BY <1>5, <2>1
<1>7. QED
  BY <1>6 DEF q

(* updateColumns gives a row to the name that SET or the row itself has.   *)
LEMMA UpdatedOwned ==
    ASSUME NEW st \in Statements, st.kind = "update",
           NEW r \in Owned, st.where \in {None, r.user}, NEW old
    PROVE  stored(st, old, r) \in Owned
<1> DEFINE s == stored(st, old, r)
<1>1. /\ st.where \in Users \cup {None} /\ st.user \in Users \cup {None}
      /\ st.pw \in Passwords \cup {None}
  BY StatementsAssumption
<1>2. r \in Rows /\ r.user \in Users /\ r.pw \in Passwords /\ r.enc \in Nat \ {0}
      /\ (mixed \/ MayHave(r))
  BY DEF Owned, Rows
<1>3. /\ s.user = IF st.user = None THEN r.user ELSE st.user
      /\ s.pw = IF st.pw = None THEN r.pw ELSE st.pw
  BY DEF stored, updateColumns
<1>4. s \in Rows
  <2>1. (IF st.pw = None THEN r.enc + 1 ELSE 1) \in Nat \ {0}
    BY <1>2
  <2>2. QED
    BY <1>1, <1>2, <2>1 DEF stored, updateColumns, Rows
<1> HIDE DEF s
<1>5. ASSUME ~ mixed, NEW names \in SUBSET Users, MayShare(s.pw, names)
      PROVE  s.user \in names
  <2>1. CASE st.pw = None
    <3>1. r.user \in names
      BY <1>2, <1>3, <1>5, <2>1 DEF MayHave
    <3>2. CASE st.user = None
      BY <1>3, <3>1, <3>2
    <3>3. CASE st.user # None
      BY <1>3, <1>5, <2>1, <3>1, <3>3 DEF MayShare
    <3>4. QED
      BY <3>2, <3>3
  <2>2. CASE st.pw # None
    <3>1. s.pw = st.pw /\ s.user \in Users
      BY <1>1, <1>2, <1>3, <2>2
    <3>2. Becomes(st, s.user)
      BY <1>3 DEF Becomes
    <3>3. QED
      BY <1>5, <3>1, <3>2 DEF MayShare
  <2>3. QED
    BY <2>1, <2>2
<1>6. QED
  BY <1>2, <1>4, <1>5 DEF Owned, MayHave, s

(* The rows that st is about, and what they are taken from.                *)
Meant(st) == {r \in Rows : st.where \in {None, r.user}}

Tables(k) == {q \in Seq(Owned) : Len(q) = k}

Outcomes(k, E) == [rows : Tables(k), end : E]

Stays(k, E) ==
    /\ {"ok", "error"} \subseteq E
    /\ \A u \in DOMAIN serverIndex : serverIndex[u] \in Nat \ {0}
    /\ \A u \in DOMAIN serverIndex : serverIndex[u] > k => "panic" \in E

(* A turn of the loop of update stores only rows that may be stored, and   *)
(* comes to a position beyond the rows only if the index has one.          *)
LEMMA RowUpdated ==
    ASSUME NEW st \in Statements, st.kind = "update",
           NEW chosen \in Seq(Owned \cap Meant(st)), NEW i \in 1 .. Len(chosen),
           NEW k \in Nat, st.where = None => Len(chosen) = k,
           NEW E, Stays(k, E), NEW acc \in Outcomes(k, E)
    PROVE  UpdateRow(st, chosen, i, acc) \in Outcomes(k, E)
<1> DEFINE u == IF st.where = None THEN acc.rows[i] ELSE chosen[i]
           p == serverIndex[u.user]
<1>1. acc.rows \in Seq(Owned) /\ Len(acc.rows) = k /\ acc.end \in E
      /\ acc = [rows |-> acc.rows, end |-> acc.end]
  BY DEF Outcomes, Tables
<1>2. u \in Owned /\ st.where \in {None, u.user}
  <2>1. CASE st.where = None
    <3>1. i \in 1 .. Len(acc.rows)
      BY <1>1, <2>1
    <3>2. acc.rows[i] \in Owned
      BY <1>1, <3>1
    <3>3. QED
      BY <2>1, <3>2
  <2>2. CASE st.where # None
    <3>1. chosen[i] \in Owned \cap Meant(st)
      OBVIOUS
    <3>2. QED
      BY <2>2, <3>1 DEF Meant
  <2>3. QED
    BY <2>1, <2>2
<1>3. UpdateRow(st, chosen, i, acc) =
         IF acc.end # "ok" THEN acc
         ELSE IF u.user \notin DOMAIN serverIndex THEN [acc EXCEPT !.end = "error"]
         ELSE IF p > Len(acc.rows) THEN [acc EXCEPT !.end = "panic"]
         ELSE [acc EXCEPT !.rows[p] = stored(st, @, u)]
  BY DEF UpdateRow
<1> HIDE DEF u
<1>4. CASE acc.end # "ok"
  BY <1>3, <1>4
<1>5. CASE acc.end = "ok" /\ u.user \notin DOMAIN serverIndex
  <2>1. "error" \in E
    BY DEF Stays
  <2>2. [acc EXCEPT !.end = "error"] \in Outcomes(k, E)
    BY <2>1 DEF Outcomes
  <2>3. QED
    BY <1>3, <1>5, <2>2
<1>6. CASE acc.end = "ok" /\ u.user \in DOMAIN serverIndex /\ p > Len(acc.rows)
  <2>1. "panic" \in E
    BY <1>1, <1>6 DEF Stays
  <2>2. [acc EXCEPT !.end = "panic"] \in Outcomes(k, E)
    BY <2>1 DEF Outcomes
  <2>3. QED
    BY <1>3, <1>6, <2>2
<1>7. CASE acc.end = "ok" /\ u.user \in DOMAIN serverIndex /\ ~ (p > Len(acc.rows))
  <2>1. p \in 1 .. Len(acc.rows)
    <3>1. p \in Nat \ {0}
      BY <1>7 DEF Stays
    <3>2. QED
      BY <1>1, <1>7, <3>1
  <2>2. stored(st, acc.rows[p], u) \in Owned
    BY <1>2, UpdatedOwned
  <2> DEFINE s == stored(st, acc.rows[p], u)
             q == [acc.rows EXCEPT ![p] = s]
  <2>3. [acc EXCEPT !.rows[p] = stored(st, @, u)] = [acc EXCEPT !.rows = q]
    OBVIOUS
  <2> HIDE DEF p, s
  <2>4. q \in Seq(Owned) /\ Len(q) = Len(acc.rows)
    <3>1. s \in Owned
      BY <2>2 DEF s
    <3>2. QED
      BY <1>1, <2>1, <3>1
  <2> HIDE DEF q
  <2>5. [acc EXCEPT !.rows = q] \in Outcomes(k, E)
    BY <1>1, <2>4 DEF Outcomes, Tables
  <2>6. QED
    BY <1>3, <1>7, <2>3, <2>5 DEF p
<1>8. QED
  BY <1>4, <1>5, <1>6, <1>7

(* What whereColumnsToConfig chooses.                                      *)
LEMMA ChosenType ==
    ASSUME NEW st, NEW q \in Seq(Owned)
    PROVE  /\ whereColumnsToConfig(st, q) \in Seq(Owned \cap Meant(st))
           /\ st.where = None => whereColumnsToConfig(st, q) = q
<1>1. whereColumnsToConfig(st, q) \in Seq(Owned \cap Meant(st))
  BY SelectedType DEF whereColumnsToConfig, Meant
<1>2. ASSUME st.where = None PROVE whereColumnsToConfig(st, q) = q
  <2>1. Owned \subseteq {r \in Rows : st.where \in {None, r.user}}
    BY <1>2, OwnedTypes
  <2>2. QED
    BY <2>1, SelectedAll DEF whereColumnsToConfig
<1>3. QED
  BY <1>1, <1>2

(* The loop of update is a recursive function of its turns ...             *)
LEMMA UpdateLoopRecursion ==
    ASSUME NEW c, op[c] \in Statements, op[c].kind = "update",
           conf[c] \in Seq(Owned), NEW E, Stays(Len(conf[c]), E)
    PROVE  LET chosen == whereColumnsToConfig(op[c], conf[c])
           IN  \E f \in [0 .. Len(chosen) -> Outcomes(Len(conf[c]), E)] :
                  /\ f[0] = [rows |-> conf[c], end |-> "ok"]
                  /\ \A i \in 1 .. Len(chosen) : f[i] = UpdateRow(op[c], chosen, i, f[i - 1])
                  /\ UpdateLoop(c) = f[Len(chosen)]
<1> DEFINE st == op[c]
           q == conf[c]
           k == Len(q)
           chosen == whereColumnsToConfig(st, q)
           n0 == Len(chosen)
           b == [rows |-> q, end |-> "ok"]
           V == Outcomes(k, E)
           Turn(i, v) == UpdateRow(st, chosen, i, v)
           g == [i \in Nat |-> [v \in V |-> IF i \in 1 .. n0 THEN Turn(i, v) ELSE v]]
           Body(f) == [i \in 0 .. n0 |-> IF i = 0 THEN b ELSE Turn(i, f[i - 1])]
<1>0. st \in Statements /\ st.kind = "update" /\ q \in Seq(Owned) /\ Stays(k, E) /\ k \in Nat
  OBVIOUS
<1> HIDE DEF st, q
<1>1. chosen \in Seq(Owned \cap Meant(st)) /\ (st.where = None => Len(chosen) = k)
  BY <1>0, ChosenType
<1> HIDE DEF k, chosen
<1>2. b \in V /\ n0 \in Nat
  BY <1>0, <1>1 DEF Outcomes, Tables, Stays, k
<1> HIDE DEF b, n0
<1>3. ASSUME NEW i \in 1 .. n0, NEW v \in V
      PROVE  Turn(i, v) \in V
  BY <1>0, <1>1, <1>3, RowUpdated DEF n0
<1> HIDE DEF Turn, V
<1>4. g \in Steps(V)
  BY <1>3 DEF Steps
<1> HIDE DEF g
<1>5. PICK f : Iterates(f, V, b, g, n0)
  BY <1>2, <1>4, IterationOf, Zenon
<1>6. f \in [0 .. n0 -> V] /\ f[0] = b /\ \A i \in 1 .. n0 : f[i] = Turn(i, f[i - 1])
  <2>1. ASSUME NEW i \in 1 .. n0 PROVE f[i] = Turn(i, f[i - 1])
    <3>1. i - 1 \in 0 .. n0 /\ i \in Nat
      BY <1>2
    <3>2. f[i - 1] \in V /\ f[i] = g[i][f[i - 1]]
      BY <1>5, <3>1 DEF Iterates
    <3>3. QED
      BY <3>1, <3>2 DEF g
  <2>2. QED
    BY <1>5, <2>1 DEF Iterates
<1>7. f = Body(f)
  <2>1. \A i \in 0 .. n0 : i = 0 \/ i \in 1 .. n0
    BY <1>2
  <2>2. \A i \in 0 .. n0 : f[i] = IF i = 0 THEN b ELSE Turn(i, f[i - 1])
    BY <1>2, <1>6, <2>1
  <2>3. f = [i \in 0 .. n0 |-> f[i]]
    BY <1>6
  <2>4. QED
    BY <2>2, <2>3
<1> DEFINE F == CHOOSE h : h = Body(h)
<1>8. F = Body(F)
  <2> HIDE DEF Body
  <2>1. QED
    BY <1>7
<1>9. UpdateLoop(c) = F[n0]
  BY DEF UpdateLoop, n0, chosen, b, Turn, st, q
<1> HIDE DEF F
<1>10. F[n0] = f[n0]
  <2>1. \A i \in 0 .. n0 : F[i] = IF i = 0 THEN b ELSE Turn(i, F[i - 1])
    BY <1>8
  <2> HIDE DEF Body
  <2>2. F[0] = f[0]
    BY <1>2, <1>6, <2>1
  <2>3. ASSUME NEW i \in 1 .. n0, F[i - 1] = f[i - 1] PROVE F[i] = f[i]
    <3>1. F[i] = Turn(i, F[i - 1])
      BY <1>2, <2>1
    <3>2. QED
      BY <1>6, <2>3, <3>1
  <2>4. \A i \in 0 .. n0 : F[i] = f[i]
    <3>1. Alike(F, f, n0)
      BY <2>2, <2>3 DEF Alike
    <3>2. QED
      BY <1>2, <3>1, IterationUnique
  <2>5. QED
    BY <1>2, <2>4
<1>11. UpdateLoop(c) = f[n0]
  BY <1>9, <1>10
<1>12. QED
  BY <1>6, <1>11 DEF V, k, q, st, b, Turn, n0, chosen

(* ... and ends as its turns do.                                           *)
LEMMA UpdateLoopType ==
    ASSUME NEW c, op[c] \in Statements, op[c].kind = "update",
           conf[c] \in Seq(Owned), NEW E, Stays(Len(conf[c]), E)
    PROVE  UpdateLoop(c) \in Outcomes(Len(conf[c]), E)
<1> DEFINE chosen == whereColumnsToConfig(op[c], conf[c])
           n0 == Len(chosen)
           V == Outcomes(Len(conf[c]), E)
<1>1. PICK f \in [0 .. n0 -> V] : UpdateLoop(c) = f[n0]
  BY UpdateLoopRecursion
<1>2. n0 \in Nat
  <2>1. chosen \in Seq(Owned \cap Meant(op[c]))
    BY ChosenType
  <2> HIDE DEF chosen
  <2>2. QED
    BY <2>1
<1> HIDE DEF n0, V
<1>3. UpdateLoop(c) \in V
  BY <1>1, <1>2
<1>4. QED
  BY <1>3 DEF V

(* Max and Min of a set of positions.                                      *)
LEMMA Greatest ==
    ASSUME NEW k \in Nat, NEW S \in SUBSET (1 .. k), S # {}
    PROVE  Max(S) \in S /\ \A y \in S : Max(S) >= y
<1> DEFINE T == {i \in Nat : \E x \in S : i = k - x}
<1>1. T \subseteq Nat /\ T # {}
  <2>1. \A x \in S : k - x \in Nat
    OBVIOUS
  <2>2. PICK x \in S : TRUE
    OBVIOUS
  <2>3. k - x \in T
    BY <2>1
  <2>4. QED
    BY <2>3
<1>2. PICK i \in T : \A j \in T : i <= j
  BY <1>1, LeastNumber
<1>3. PICK x \in S : i = k - x
  BY <1>2
<1>4. \A y \in S : x >= y
  <2>1. ASSUME NEW y \in S PROVE x >= y
    <3>1. k - y \in T
      OBVIOUS
    <3>2. i <= k - y
      BY <1>2, <3>1
    <3>3. QED
      BY <1>3, <3>2
  <2>2. QED
    BY <2>1
<1>5. QED
  BY <1>3, <1>4 DEF Max

(* The least element of a set of natural numbers is one of them.           *)
LEMMA Smallest ==
    ASSUME NEW S, S \subseteq Nat, S # {}
    PROVE  Min(S) \in S
<1>1. \E x \in S : \A y \in S : x <= y
  BY LeastNumber
<1>2. QED
  BY <1>1 DEF Min

(* Names are Users.                                                        *)
LEMMA UsersOf == \A q \in Seq(Owned) : UsersIn(q) \subseteq Users
<1>1. \A r \in Owned : r.user \in Users
  BY DEF Owned, Rows
<1>2. QED
  BY <1>1 DEF UsersIn

(* The positions in the index are positions of rows.                       *)
LEMMA IndexType ==
    ASSUME NEW q \in Seq(Owned)
    PROVE  /\ DOMAIN IndexOf(q) = UsersIn(q)
           /\ \A u \in UsersIn(q) : IndexOf(q)[u] \in 1 .. Len(q) /\ q[IndexOf(q)[u]].user = u
<1>1. DOMAIN IndexOf(q) = UsersIn(q)
  BY DEF IndexOf
<1>2. ASSUME NEW u \in UsersIn(q)
      PROVE  IndexOf(q)[u] \in 1 .. Len(q) /\ q[IndexOf(q)[u]].user = u
  <2> DEFINE S == {i \in DOMAIN q : q[i].user = u}
             k == Len(q)
  <2>1. S \in SUBSET (1 .. k) /\ S # {} /\ k \in Nat
    BY DEF UsersIn
  <2>2. \A i \in S : i \in 1 .. k /\ q[i].user = u
    OBVIOUS
  <2>3. IndexOf(q)[u] = Max(S)
    BY DEF IndexOf
  <2> HIDE DEF S, k
  <2>4. Max(S) \in S
    BY <2>1, Greatest
  <2>5. QED
    BY <2>2, <2>3, <2>4 DEF k
<1>3. QED
  BY <1>1, <1>2

IndexOK(f) ==
    /\ DOMAIN f \subseteq Users
    /\ \A u \in DOMAIN f : f[u] \in Nat \ {0}

(* makeIndex makes an index.                                               *)
LEMMA NewIndexOK ==
    ASSUME NEW q \in Seq(Owned)
    PROVE  IndexOK(IndexOf(q))
BY IndexType, UsersOf DEF IndexOK

(* An INSERT whose loop ran into a row it refuses has the earlier ones.    *)
LEMMA AppendedType ==
    ASSUME NEW c, op[c] \in Statements, op[c].kind = "insert"
    PROVE  /\ Appended(c) \in Seq(Owned)
           /\ Refused(c) = {} => Appended(c) = op[c].rows
<1> DEFINE q == op[c].rows
<1>1. q \in Seq(Owned) /\ Len(q) \in Nat
  BY InsertedOwned
<1>2. Refused(c) \subseteq 1 .. Len(q)
  BY <1>1 DEF Refused
<1>3. CASE Refused(c) = {}
  <2>1. Appended(c) = SubSeq(q, 1, Len(q))
    BY <1>3 DEF Appended
  <2>2. SubSeq(q, 1, Len(q)) = q
    <3> HIDE DEF q
    <3>1. QED
      BY <1>1, SubSeqFull, Zenon
  <2>3. QED
    BY <1>1, <2>1, <2>2
<1>4. CASE Refused(c) # {}
  <2>1. Refused(c) \subseteq Nat
    BY <1>1, <1>2
  <2>2. Min(Refused(c)) \in 1 .. Len(q)
    BY <1>2, <1>4, <2>1, Smallest
  <2>3. Appended(c) = SubSeq(q, 1, Min(Refused(c)) - 1)
    BY <1>4 DEF Appended
  <2> DEFINE k == Min(Refused(c)) - 1
  <2>4. k \in 0 .. Len(q)
    BY <1>1, <2>2
  <2> HIDE DEF k, q
  <2>5. SubSeq(q, 1, k) \in Seq(Owned)
    BY <1>1, <2>4, Slice
  <2>6. QED
    BY <1>4, <2>3, <2>5 DEF k
<1>5. QED
  BY <1>3, <1>4

(* The loop of insert keeps it one.                                        *)
LEMMA IndexedOK ==
    ASSUME NEW c, op[c] \in Statements, op[c].kind = "insert",
           conf[c] \in Seq(Owned), IndexOK(serverIndex)
    PROVE  IndexOK(Indexed(c))
<1> DEFINE a == Appended(c)
           m == Len(conf[c])
<1>1. a \in Seq(Owned) /\ m \in Nat
  BY AppendedType
<1>2. Indexed(c) = [u \in DOMAIN serverIndex \cup UsersIn(a) |->
                       IF u \in UsersIn(a) THEN m + IndexOf(a)[u] ELSE serverIndex[u]]
  BY DEF Indexed
<1> HIDE DEF a, m
<1>3. UsersIn(a) \subseteq Users
  BY <1>1, UsersOf
<1>4. ASSUME NEW u \in UsersIn(a)
      PROVE  m + IndexOf(a)[u] \in Nat \ {0}
  <2>1. IndexOf(a)[u] \in 1 .. Len(a) /\ Len(a) \in Nat
    BY <1>1, IndexType
  <2>2. QED
    BY <1>1, <2>1
<1>5. QED
  BY <1>2, <1>3, <1>4 DEF IndexOK

-----------------------------------------------------------------------------
(* The store, whoever calls it.                                            *)

Places  == {"idle", "open", "reading", "reindex", "loaded", "locked", "put", "encode"}
Results == [status : {"none", "ok", "error"}, n : Nat, rows : Seq(ShownOwned)]
Files   == [state : {"absent", "empty", "whole"}, rows : Seq(Owned)]

(* The calls that are made are statements and logins.                      *)
Askable(A) == \A st \in A : st \in Statements \/ st.kind = "login"

FileOK == file \in Files /\ (file.state # "whole" => file.rows = <<>>)

CallsOK(A) ==
    /\ mode \in {"running", "crashed"}
    /\ calls \in 0 .. MaxCalls
    /\ pc \in [Clients -> Places]
    /\ op \in [Clients -> A \cup {None}]
    /\ conf \in [Clients -> Seq(Owned)]
    /\ n \in [Clients -> Nat]
    /\ answer \in [Clients -> Results]
    /\ \A c \in Clients :
          /\ pc[c] # "idle" => op[c] \in A
          /\ pc[c] = "idle" => op[c] = None /\ conf[c] = <<>> /\ n[c] = 0

StoreOK(A) == FileOK /\ IndexOK(serverIndex) /\ CallsOK(A)

(* Answers are results.                                                    *)
LEMMA ResultTypes ==
    /\ \A s \in {"ok", "error"}, k \in Nat, q \in Seq(ShownOwned) : Answer(s, k, q) \in Results
    /\ \A s \in {"none", "ok", "error"}, k \in Nat : Answer(s, k, <<>>) \in Results
<1>1. <<>> \in Seq(ShownOwned)
  OBVIOUS
<1>2. QED
  BY <1>1 DEF Answer, Results

(* What is stored, shown and on file may still be after a step.            *)
LEMMA StoreWidens ==
    ASSUME mixed => mixed'
    PROVE  /\ \A f \in [Clients -> Seq(Owned)] : f \in [Clients -> Seq(Owned)]'
           /\ \A r \in Results : r \in Results'
           /\ \A f \in [Clients -> Results] : f \in [Clients -> Results]'
           /\ \A f \in Files : f \in Files'
<1>1. \A q \in Seq(Owned) : q \in Seq(Owned)'
  BY OwnedWidens
<1>2. \A q \in Seq(ShownOwned) : q \in Seq(ShownOwned)'
  BY OwnedWidens
<1>3. \A r \in Results : r \in Results'
  BY <1>2 DEF Results
<1>4. \A f \in Files : f \in Files'
  BY <1>1 DEF Files
<1>5. QED
  BY <1>1, <1>3, <1>4

(* A call goes on.                                                         *)
LEMMA GoesOn ==
    ASSUME NEW A, CallsOK(A), mixed => mixed', NEW c \in Clients,
           NEW from \in Places \ {"idle"}, NEW to \in Places \ {"idle"}, Goto(c, from, to),
           NEW q, q \in Seq(Owned) \/ q \in Seq(Owned)', conf' = [conf EXCEPT ![c] = q],
           NEW k \in Nat, n' = [n EXCEPT ![c] = k],
           UNCHANGED <<mode, calls, op, answer>>
    PROVE  CallsOK(A)'
<1>1. pc' = [pc EXCEPT ![c] = to] /\ pc[c] = from
  BY DEF Goto
<1>2. pc' \in [Clients -> Places] /\ conf' \in [Clients -> Seq(Owned)]' /\ n' \in [Clients -> Nat]
  <2>1. q \in Seq(Owned)'
    BY OwnedWidens
  <2>2. conf \in [Clients -> Seq(Owned)]'
    BY StoreWidens DEF CallsOK
  <2>3. conf' \in [Clients -> Seq(Owned)]'
    BY <2>1, <2>2
  <2>4. QED
    BY <1>1, <2>3 DEF CallsOK
<1>3. \A d \in Clients :
         /\ pc'[d] # "idle" => op'[d] \in A
         /\ pc'[d] = "idle" => op'[d] = None /\ conf'[d] = <<>> /\ n'[d] = 0
  BY <1>1 DEF CallsOK
<1>4. answer' \in [Clients -> Results]'
  BY StoreWidens DEF CallsOK
<1>5. QED
  BY <1>2, <1>3, <1>4 DEF CallsOK

(* A call ends.                                                            *)
LEMMA CallEnds ==
    ASSUME NEW A, CallsOK(A), NEW c \in Clients, NEW from, NEW a \in Results, Ends(c, from, a)
    PROVE  CallsOK(A)' /\ mixed' = mixed
<1>1. /\ pc' = [pc EXCEPT ![c] = "idle"] /\ answer' = [answer EXCEPT ![c] = a]
      /\ op' = [op EXCEPT ![c] = None] /\ conf' = [conf EXCEPT ![c] = <<>>]
      /\ n' = [n EXCEPT ![c] = 0] /\ UNCHANGED <<mode, calls, mixed>>
  BY DEF Ends, Goto
<1>2. /\ pc' \in [Clients -> Places] /\ conf' \in [Clients -> Seq(Owned)] /\ n' \in [Clients -> Nat]
      /\ op' \in [Clients -> A \cup {None}] /\ answer' \in [Clients -> Results]
  <2>1. <<>> \in Seq(Owned) /\ "idle" \in Places /\ 0 \in Nat
    BY DEF Places
  <2>2. QED
    BY <1>1, <2>1 DEF CallsOK
<1>3. \A d \in Clients :
         /\ pc'[d] # "idle" => op'[d] \in A
         /\ pc'[d] = "idle" => op'[d] = None /\ conf'[d] = <<>> /\ n'[d] = 0
  <2>1. ASSUME NEW d \in Clients, d = c
        PROVE  pc'[d] = "idle" /\ op'[d] = None /\ conf'[d] = <<>> /\ n'[d] = 0
    BY <1>1, <2>1 DEF CallsOK
  <2>2. ASSUME NEW d \in Clients, d # c
        PROVE  pc'[d] = pc[d] /\ op'[d] = op[d] /\ conf'[d] = conf[d] /\ n'[d] = n[d]
    BY <1>1, <2>2 DEF CallsOK
  <2>3. QED
    BY <2>1, <2>2 DEF CallsOK
<1>4. conf' \in [Clients -> Seq(Owned)]' /\ answer' \in [Clients -> Results]'
  BY <1>1, <1>2, StoreWidens
<1>5. QED
  BY <1>1, <1>2, <1>3, <1>4 DEF CallsOK

(* A call that ends with an error leaves the calls well-formed.            *)
LEMMA FailsOK ==
    ASSUME NEW A, CallsOK(A), NEW c \in Clients, NEW from, Fails(c, from)
    PROVE  CallsOK(A)' /\ mixed' = mixed
<1>1. Answer("error", 0, <<>>) \in Results
  BY ResultTypes
<1> DEFINE a == Answer("error", 0, <<>>)
<1>2. Ends(c, from, a)
  BY DEF Fails, Returns
<1> HIDE DEF a
<1>3. a \in Results
  BY <1>1 DEF a
<1>4. QED
  BY <1>2, <1>3, CallEnds

(* What the caller of one call has.                                        *)
LEMMA CallTypes ==
    ASSUME NEW A, Askable(A), CallsOK(A), NEW c \in Clients
    PROVE  /\ conf[c] \in Seq(Owned) /\ Len(conf[c]) \in Nat /\ n[c] \in Nat
           /\ conf = [conf EXCEPT ![c] = conf[c]] /\ n = [n EXCEPT ![c] = n[c]]
           /\ pc[c] # "idle" => op[c] \in A /\ (op[c].kind # "login" => op[c] \in Statements)
<1>1. conf \in [Clients -> Seq(Owned)] /\ n \in [Clients -> Nat]
  BY DEF CallsOK
<1>2. conf[c] \in Seq(Owned)
  BY <1>1
<1>3. Len(conf[c]) \in Nat
  BY <1>2
<1>4. conf = [conf EXCEPT ![c] = conf[c]] /\ n = [n EXCEPT ![c] = n[c]]
  BY <1>1
<1>5. n[c] \in Nat
  BY <1>1
<1>6. pc[c] # "idle" => op[c] \in A
  BY DEF CallsOK
<1>7. pc[c] # "idle" => (op[c].kind # "login" => op[c] \in Statements)
  BY <1>6 DEF Askable
<1>8. QED
  BY <1>2, <1>3, <1>4, <1>5, <1>6, <1>7

(* The file stays one.                                                     *)
LEMMA FileStays ==
    ASSUME FileOK, UNCHANGED file, mixed => mixed'
    PROVE  FileOK'
<1>1. file \in Files'
  BY StoreWidens DEF FileOK
<1>2. QED
  BY <1>1 DEF FileOK

(* A caller that goes on and leaves file and index alone ...               *)
LEMMA StoreGoesOn ==
    ASSUME NEW A, StoreOK(A), CallsOK(A)', UNCHANGED <<file, serverIndex>>, mixed => mixed'
    PROVE  StoreOK(A)'
BY FileStays DEF StoreOK, IndexOK

(* ... and one that ends its call with a result.                           *)
LEMMA StoreAnswers ==
    ASSUME NEW A, StoreOK(A), NEW c \in Clients, NEW from, NEW a \in Results,
           Returns(c, from, a) \/ Fails(c, from), UNCHANGED <<file, serverIndex>>
    PROVE  StoreOK(A)'
<1>1. CASE Returns(c, from, a)
  <2>1. CallsOK(A)' /\ mixed' = mixed
    BY <1>1, CallEnds DEF StoreOK, Returns
  <2>2. QED
    BY <2>1, StoreGoesOn
<1>2. CASE Fails(c, from)
  <2>1. CallsOK(A)' /\ mixed' = mixed
    BY <1>2, FailsOK DEF StoreOK
  <2>2. QED
    BY <2>1, StoreGoesOn
<1>3. QED
  BY <1>1, <1>2

(* Each action keeps the invariant.  A call begins.                        *)
LEMMA CallOK ==
    ASSUME NEW A, StoreOK(A), NEW c \in Clients, NEW st \in A, Call(c, st)
    PROVE  StoreOK(A)'
<1>1. /\ pc' = [pc EXCEPT ![c] = "open"] /\ calls' = calls + 1 /\ calls < MaxCalls
      /\ op' = [op EXCEPT ![c] = st] /\ conf' = [conf EXCEPT ![c] = DefaultRows]
      /\ serverIndex' = IndexOf(DefaultRows) /\ UNCHANGED <<mode, file, n, answer, mixed>>
  BY DEF Call, Goto, readVars
<1>2. FileOK'
  BY <1>1, FileStays DEF StoreOK
<1>3. IndexOK(serverIndex)'
  BY <1>1, DefaultOwned, NewIndexOK DEF IndexOK
<1>4. CallsOK(A)'
  <2>1. CallsOK(A) /\ MaxCalls \in Nat
    BY TableAssumption DEF StoreOK
  <2>2. /\ pc' \in [Clients -> Places] /\ conf' \in [Clients -> Seq(Owned)]
        /\ op' \in [Clients -> A \cup {None}] /\ calls' \in 0 .. MaxCalls
    BY <1>1, <2>1, DefaultOwned DEF CallsOK, Places
  <2>3. \A d \in Clients :
           /\ pc'[d] # "idle" => op'[d] \in A
           /\ pc'[d] = "idle" => op'[d] = None /\ conf'[d] = <<>> /\ n'[d] = 0
    <3>1. ASSUME NEW d \in Clients, d = c PROVE pc'[d] = "open" /\ op'[d] = st
      BY <1>1, <2>1, <3>1 DEF CallsOK
    <3>2. ASSUME NEW d \in Clients, d # c
          PROVE  pc'[d] = pc[d] /\ op'[d] = op[d] /\ conf'[d] = conf[d] /\ n'[d] = n[d]
      BY <1>1, <2>1, <3>2 DEF CallsOK
    <3>3. QED
      BY <2>1, <3>1, <3>2 DEF CallsOK
  <2>4. conf' \in [Clients -> Seq(Owned)]' /\ answer' \in [Clients -> Results]'
    BY <1>1, <2>1, <2>2, StoreWidens DEF CallsOK
  <2>5. QED
    BY <1>1, <2>1, <2>2, <2>3, <2>4 DEF CallsOK
<1>5. QED
  BY <1>2, <1>3, <1>4 DEF StoreOK

(* A step that only moves the caller on.                                   *)
LEMMA OnlyGoes ==
    ASSUME NEW A, Askable(A), CallsOK(A), NEW c \in Clients,
           NEW from \in Places \ {"idle"}, NEW to \in Places \ {"idle"}, Goto(c, from, to),
           UNCHANGED <<mode, calls, op, conf, n, answer, mixed>>
    PROVE  CallsOK(A)'
<1>1. conf[c] \in Seq(Owned) /\ n[c] \in Nat
  BY CallTypes
<1>2. conf' = [conf EXCEPT ![c] = conf[c]] /\ n' = [n EXCEPT ![c] = n[c]]
  BY CallTypes
<1> DEFINE q == conf[c]
           k == n[c]
<1> HIDE DEF q, k
<1>3. q \in Seq(Owned) /\ conf' = [conf EXCEPT ![c] = q] /\ k \in Nat /\ n' = [n EXCEPT ![c] = k]
  BY <1>1, <1>2 DEF q, k
<1>4. QED
  BY <1>3, GoesOn

(* A caller takes its Config from what it reads: q.                        *)
LEMMA Takes ==
    ASSUME NEW A, Askable(A), StoreOK(A), mixed => mixed', NEW c \in Clients,
           NEW from \in Places \ {"idle"}, NEW to \in Places \ {"idle"}, Goto(c, from, to),
           NEW q, q \in Seq(Owned) \/ q \in Seq(Owned)', conf' = [conf EXCEPT ![c] = q],
           UNCHANGED <<mode, file, serverIndex, calls, op, n, answer>>
    PROVE  StoreOK(A)'
<1> DEFINE k == n[c]
<1>1. CallsOK(A) /\ k \in Nat /\ n' = [n EXCEPT ![c] = k]
  BY CallTypes DEF StoreOK
<1> HIDE DEF k
<1>2. CallsOK(A)'
  BY <1>1, GoesOn
<1>3. QED
  BY <1>2, StoreGoesOn

(* GetConfig: the file is read in one go,                                  *)
LEMMA ReadFileOK ==
    ASSUME NEW A, Askable(A), StoreOK(A), NEW c \in Clients, ReadFile(c)
    PROVE  StoreOK(A)'
<1> DEFINE to == IF file.state = "absent" THEN "loaded" ELSE "reindex"
           q == IF file.state = "whole" THEN file.rows ELSE conf[c]
<1>1. /\ Goto(c, "open", to) /\ conf' = [conf EXCEPT ![c] = q]
      /\ UNCHANGED <<mode, file, serverIndex, calls, op, n, answer, mixed>>
  BY DEF ReadFile, readVars
<1>2. q \in Seq(Owned)
  BY CallTypes DEF StoreOK, FileOK, Files
<1>3. to \in Places \ {"idle"} /\ "open" \in Places \ {"idle"}
  BY DEF Places
<1> HIDE DEF to, q
<1>4. QED
  BY <1>1, <1>2, <1>3, Takes

(* or not at all,                                                          *)
LEMMA OpenFailsOK ==
    ASSUME NEW A, Askable(A), StoreOK(A), NEW c \in Clients, OpenFails(c) \/ ReadRest(c)
    PROVE  StoreOK(A)'
<1>1. /\ Goto(c, "open", "loaded") \/ Goto(c, "reading", "reindex")
      /\ UNCHANGED <<mode, file, serverIndex, calls, op, conf, n, answer, mixed>>
  BY DEF OpenFails, ReadRest, readVars
<1>2. {"open", "loaded", "reading", "reindex"} \subseteq Places \ {"idle"}
  BY DEF Places
<1>3. CallsOK(A)'
  BY <1>1, <1>2, OnlyGoes DEF StoreOK
<1>4. QED
  BY <1>1, <1>3, StoreGoesOn

(* or begun,                                                               *)
LEMMA ReadPartOK ==
    ASSUME NEW A, Askable(A), StoreOK(A), NEW c \in Clients, ReadPart(c)
    PROVE  StoreOK(A)'
<1> DEFINE q == file.rows
<1>1. /\ Goto(c, "open", "reading") /\ conf' = [conf EXCEPT ![c] = q]
      /\ UNCHANGED <<mode, file, serverIndex, calls, op, n, answer, mixed>>
  BY DEF ReadPart, readVars
<1>2. q \in Seq(Owned)
  BY DEF StoreOK, FileOK, Files
<1>3. "open" \in Places \ {"idle"} /\ "reading" \in Places \ {"idle"}
  BY DEF Places
<1> HIDE DEF q
<1>4. QED
  BY <1>1, <1>2, <1>3, Takes

(* and ended with the default,                                             *)
LEMMA ReadBrokenOK ==
    ASSUME NEW A, Askable(A), StoreOK(A), NEW c \in Clients, ReadBroken(c)
    PROVE  StoreOK(A)'
<1>1. /\ Goto(c, "reading", "reindex") /\ conf' = [conf EXCEPT ![c] = DefaultRows]
      /\ UNCHANGED <<mode, file, serverIndex, calls, op, n, answer, mixed>>
  BY DEF ReadBroken
<1>2. "reading" \in Places \ {"idle"} /\ "reindex" \in Places \ {"idle"}
  BY DEF Places
<1>3. QED
  BY <1>1, <1>2, DefaultOwned, Takes

Glued(H, M, t) == {h \o m \o t : h \in H, m \in M}

Pieces(q, H, M, t) == \E h \in H, m \in M : q = h \o m \o t

(* What is glued has its parts.                                            *)
LEMMA GluedParts == \A H, M, t : \A q \in Glued(H, M, t) : Pieces(q, H, M, t)
BY DEF Glued, Pieces

(* The rows of a text put together of two are rows.                        *)
LEMMA SplicedRows ==
    ASSUME NEW a \in Seq(Rows), NEW b \in Seq(Rows), NEW q \in Splices(a, b)
    PROVE  q \in Seq(Rows)
<1> DEFINE Heads(i) == {SubSeq(a, 1, i), Unreadable(SubSeq(a, 1, i))}
           Mids(i, j) == {<<>>} \cup {<<r>> : r \in IF i < Len(a) THEN Joined(a[i + 1], b[j]) ELSE {}}
           At(i, j) == Glued(Heads(i), Mids(i, j), SubSeq(b, j + 1, Len(b)))
<1>1. Splices(a, b) = UNION {At(i, j) : i \in 0 .. Len(a), j \in DOMAIN b}
  BY DEF Splices, Glued
<1> HIDE DEF At
<1>2. PICK i \in 0 .. Len(a), j \in DOMAIN b : q \in At(i, j)
  BY <1>1
<1> HIDE DEF Heads, Mids
<1>3. PICK h \in Heads(i), m \in Mids(i, j) : q = h \o m \o SubSeq(b, j + 1, Len(b))
  <2>1. q \in Glued(Heads(i), Mids(i, j), SubSeq(b, j + 1, Len(b)))
    BY <1>2 DEF At
  <2>2. Pieces(q, Heads(i), Mids(i, j), SubSeq(b, j + 1, Len(b)))
    BY <2>1, GluedParts, Zenon
  <2>3. QED
    BY <2>2 DEF Pieces
<1>4. \A u \in Users : Encrypted(u, Garbled) \in Rows
  BY TableAssumption DEF Encrypted, Rows
<1>5. h \in Seq(Rows)
  <2> DEFINE p == SubSeq(a, 1, i)
  <2>1. p \in Seq(Rows)
    BY Slice
  <2> HIDE DEF p
  <2>2. DOMAIN p = 1 .. Len(p) /\ Len(p) \in Nat /\ \A x \in 1 .. Len(p) : p[x].user \in Users
    <3>1. \A r \in Rows : r.user \in Users
      BY DEF Rows
    <3>2. QED
      BY <2>1, <3>1
  <2>3. Unreadable(p) \in Seq(Rows)
    BY <1>4, <2>2 DEF Unreadable
  <2>4. h = p \/ h = Unreadable(p)
    BY DEF p, Heads
  <2>5. QED
    BY <2>1, <2>3, <2>4
<1>6. m \in Seq(Rows)
  <2>1. CASE m = <<>>
    BY <2>1
  <2>2. ASSUME i < Len(a), NEW r \in Joined(a[i + 1], b[j]), m = <<r>>
        PROVE  m \in Seq(Rows)
    <3>1. a[i + 1] \in Rows /\ b[j] \in Rows
      BY <2>2
    <3>2. PICK u \in {a[i + 1].user, b[j].user}, p \in {b[j], Encrypted(b[j].user, Garbled)} :
            r = [user |-> u, pw |-> p.pw, enc |-> p.enc]
      BY <2>2 DEF Joined
    <3>3. u \in Users /\ p \in Rows
      BY <1>4, <3>1 DEF Rows
    <3>4. r \in Rows
      BY <3>2, <3>3 DEF Rows
    <3>5. QED
      BY <2>2, <3>4
  <2>3. QED
    BY <2>1, <2>2 DEF Mids
<1>7. SubSeq(b, j + 1, Len(b)) \in Seq(Rows)
  <2>1. j \in 0 .. Len(b)
    OBVIOUS
  <2>2. QED
    BY <2>1, Slice
<1>8. QED
  BY <1>3, <1>5, <1>6, <1>7

(* or with what two texts make.                                            *)
LEMMA ReadTornOK ==
    ASSUME NEW A, Askable(A), StoreOK(A), NEW c \in Clients, ReadTorn(c)
    PROVE  StoreOK(A)'
<1>1. PICK q \in Splices(conf[c], file.rows) : conf' = [conf EXCEPT ![c] = q]
  BY DEF ReadTorn
<1>2. /\ Goto(c, "reading", "reindex") /\ mixed'
      /\ UNCHANGED <<mode, file, serverIndex, calls, op, n, answer>>
  BY DEF ReadTorn
<1>3. conf[c] \in Seq(Rows) /\ file.rows \in Seq(Rows)
  BY CallTypes, OwnedTypes DEF StoreOK, FileOK, Files
<1>4. q \in Seq(Owned)'
  <2>1. q \in Seq(Rows)
    BY <1>3, SplicedRows
  <2>2. Rows \subseteq Owned'
    BY <1>2 DEF Owned
  <2>3. QED
    BY <2>1, <2>2
<1>5. "reading" \in Places \ {"idle"} /\ "reindex" \in Places \ {"idle"}
  BY DEF Places
<1>6. QED
  BY <1>1, <1>2, <1>4, <1>5, Takes

(* An index computed again from the rows the caller has read keeps the     *)
(* invariant.                                                              *)
LEMMA ReindexOK ==
    ASSUME NEW A, Askable(A), StoreOK(A), NEW c \in Clients, Reindex(c)
    PROVE  StoreOK(A)'
<1>1. /\ Goto(c, "reindex", "loaded") /\ serverIndex' = IndexOf(conf[c])
      /\ UNCHANGED <<mode, file, calls, op, conf, n, answer, mixed>>
  BY DEF Reindex, readVars
<1>2. CallsOK(A) /\ "reindex" \in Places \ {"idle"} /\ "loaded" \in Places \ {"idle"}
  BY DEF StoreOK, Places
<1>3. CallsOK(A)'
  BY <1>1, <1>2, OnlyGoes
<1>4. IndexOK(serverIndex)'
  BY <1>1, <1>2, CallTypes, NewIndexOK DEF IndexOK
<1>5. FileOK'
  BY <1>1, FileStays DEF StoreOK
<1>6. QED
  BY <1>3, <1>4, <1>5 DEF StoreOK

(* Every part of GetConfig.                                                *)
LEMMA GetConfigOK ==
    ASSUME NEW A, Askable(A), StoreOK(A), NEW c \in Clients, GetConfig(c)
    PROVE  StoreOK(A)'
BY ReadFileOK, OpenFailsOK, ReadPartOK, ReadBrokenOK, ReadTornOK, ReindexOK DEF GetConfig

(* Queries.                                                                *)
LEMMA SelectOK ==
    ASSUME NEW A, Askable(A), StoreOK(A), NEW c \in Clients, Select(c)
    PROVE  StoreOK(A)'
<1> DEFINE q == whereColumnsToConfig(op[c], conf[c])
           a == Answer("ok", 0, q)
<1>1. Returns(c, "loaded", a) /\ UNCHANGED <<file, serverIndex>>
  BY DEF Select
<1>2. CallsOK(A) /\ conf[c] \in Seq(Owned)
  BY CallTypes DEF StoreOK
<1>3. q \in Seq(ShownOwned)
  <2>1. q \in Seq(Owned \cap Meant(op[c]))
    BY <1>2, SelectedType DEF whereColumnsToConfig, Meant
  <2>2. Owned \cap Meant(op[c]) \subseteq ShownOwned
    BY OwnedTypes
  <2> HIDE DEF q
  <2>3. QED
    BY <2>1, <2>2
<1>4. a \in Results
  BY <1>3, ResultTypes
<1> HIDE DEF a
<1>5. QED
  BY <1>1, <1>4, StoreAnswers

(* A look-up of a password changes neither file nor index.                 *)
LEMMA GetPasswordOK ==
    ASSUME NEW A, Askable(A), StoreOK(A), NEW c \in Clients, GetPassword(c)
    PROVE  StoreOK(A)'
<1> DEFINE r == FirstMatch(c)
           s == [r EXCEPT !.enc = @ - 1]
           a == Answer("ok", 0, <<s>>)
<1>1. /\ Fails(c, "loaded") \/ (Matching(c) # {} /\ Returns(c, "loaded", a))
      /\ UNCHANGED <<file, serverIndex>>
  BY DEF GetPassword
<1>2. CallsOK(A) /\ conf[c] \in Seq(Owned)
  BY CallTypes DEF StoreOK
<1>3. ASSUME Matching(c) # {} PROVE a \in Results
  <2>1. Matching(c) \subseteq 1 .. Len(conf[c]) /\ Matching(c) \subseteq Nat
    BY <1>2 DEF Matching
  <2>2. Min(Matching(c)) \in 1 .. Len(conf[c])
    BY <1>3, <2>1, Smallest
  <2>3. r \in Owned
    BY <1>2, <2>2 DEF FirstMatch
  <2> HIDE DEF r
  <2>4. r \in Rows /\ (mixed \/ MayHave(r))
    BY <2>3 DEF Owned
  <2>5. s \in Shown /\ s.pw = r.pw /\ s.user = r.user
    <3>1. r.enc - 1 \in Nat
      BY <2>4 DEF Rows
    <3>2. QED
      BY <2>4, <3>1 DEF Rows, Shown
  <2> HIDE DEF s
  <2>6. s \in ShownOwned
    BY <2>4, <2>5 DEF ShownOwned, MayHave
  <2>7. <<s>> \in Seq(ShownOwned)
    BY <2>6
  <2>8. QED
    BY <2>7, ResultTypes
<1>4. CASE Fails(c, "loaded")
  <2>1. Answer("error", 0, <<>>) \in Results
    BY ResultTypes
  <2>2. QED
    BY <1>1, <1>4, <2>1, StoreAnswers
<1> HIDE DEF a
<1>5. CASE Matching(c) # {} /\ Returns(c, "loaded", a)
  BY <1>1, <1>3, <1>5, StoreAnswers
<1>6. QED
  BY <1>1, <1>4, <1>5

(* Changes of the caller's Config.                                         *)
LEMMA DeletedType ==
    ASSUME NEW q \in Seq(Owned), NEW T
    PROVE  Selected(q, T) \in Seq(Owned) /\ Len(Selected(q, T)) <= Len(q)
<1> DEFINE P == {p \in Seq(Owned) : Len(Selected(p, T)) <= Len(p)}
<1>1. <<>> \in P
  BY SelectedEmpty
<1>2. ASSUME NEW p \in Seq(Owned), NEW x \in Owned, p \in P
      PROVE  Append(p, x) \in P
  <2>1. Selected(p, T) \in Seq(Owned \cap T)
    BY SelectedType
  <2>2. Selected(Append(p, x), T) = IF x \in T THEN Append(Selected(p, T), x) ELSE Selected(p, T)
    BY SelectedAppend
  <2>3. Len(Selected(p, T)) <= Len(p) /\ Len(Selected(p, T)) \in Nat /\ Len(p) \in Nat
    BY <1>2, <2>1
  <2> DEFINE s == Selected(p, T)
             s2 == Selected(Append(p, x), T)
  <2> HIDE DEF s, s2
  <2>4. CASE x \in T
    <3>1. s2 = Append(s, x) /\ s \in Seq(Owned \cap T)
      BY <2>1, <2>2, <2>4 DEF s, s2
    <3>2. Len(s2) = Len(s) + 1 /\ Len(Append(p, x)) = Len(p) + 1
      BY <3>1
    <3>3. QED
      BY <2>3, <3>2 DEF s, s2
  <2>5. CASE x \notin T
    <3>1. Len(Append(p, x)) = Len(p) + 1 /\ s2 = s
      BY <2>2, <2>5 DEF s, s2
    <3>2. QED
      BY <2>3, <3>1 DEF s, s2
  <2>6. QED
    BY <2>4, <2>5
<1>3. Seq(Owned) \subseteq P
  <2> HIDE DEF P
  <2>1. QED
    BY <1>1, <1>2, SeqInduction
<1>4. Selected(q, T) \in Seq(Owned \cap T)
  BY SelectedType
<1> DEFINE s == Selected(q, T)
<1>5. Len(s) <= Len(q)
  BY <1>3
<1> HIDE DEF s
<1>6. s \in Seq(Owned)
  BY <1>4 DEF s
<1>7. QED
  BY <1>5, <1>6 DEF s

(* Statements.                                                             *)
LEMMA DeleteOK ==
    ASSUME NEW A, Askable(A), StoreOK(A), NEW c \in Clients, Delete(c)
    PROVE  StoreOK(A)'
<1> DEFINE deleted == UsersIn(whereColumnsToConfig(op[c], conf[c]))
           res == Selected(conf[c], {s \in Rows : s.user \notin deleted})
           k == Len(conf[c]) - Len(res)
<1>1. /\ Goto(c, "loaded", "put") /\ conf' = [conf EXCEPT ![c] = res]
      /\ n' = [n EXCEPT ![c] = k] /\ UNCHANGED <<mode, file, serverIndex, calls, op, answer, mixed>>
  BY DEF Delete, readVars
<1>2. CallsOK(A) /\ conf[c] \in Seq(Owned) /\ Len(conf[c]) \in Nat
  BY CallTypes DEF StoreOK
<1>3. res \in Seq(Owned) /\ Len(res) <= Len(conf[c])
  BY <1>2, DeletedType
<1> HIDE DEF res
<1>4. k \in Nat
  <2>1. Len(res) \in Nat
    BY <1>3
  <2>2. QED
    BY <1>2, <1>3, <2>1
<1>5. "loaded" \in Places \ {"idle"} /\ "put" \in Places \ {"idle"}
  BY DEF Places
<1> HIDE DEF k
<1>6. CallsOK(A)'
  BY <1>1, <1>2, <1>3, <1>4, <1>5, GoesOn
<1>7. QED
  BY <1>1, <1>6, StoreGoesOn

(* A statement that fails without a trace in file and index: it chooses no *)
(* row, comes to a name that is not in the index, or cannot be encrypted.  *)
LEMMA StatementFailsOK ==
    ASSUME NEW A, StoreOK(A), NEW c \in Clients,
           NothingChosen(c) \/ UpdateFails(c) \/ EncryptFails(c)
    PROVE  StoreOK(A)'
<1>1. /\ Fails(c, "loaded") \/ Fails(c, "locked")
      /\ UNCHANGED <<file, serverIndex>>
  BY DEF NothingChosen, UpdateFails, EncryptFails
<1>2. Answer("error", 0, <<>>) \in Results
  BY ResultTypes
<1>3. QED
  BY <1>1, <1>2, StoreAnswers

(* Taking the lock keeps the invariant ...                                 *)
LEMMA LockOK ==
    ASSUME NEW A, Askable(A), StoreOK(A), NEW c \in Clients, Lock(c)
    PROVE  StoreOK(A)'
<1>1. /\ Goto(c, "loaded", "locked")
      /\ UNCHANGED <<mode, file, serverIndex, calls, op, conf, n, answer, mixed>>
  BY DEF Lock, readVars
<1>2. "loaded" \in Places \ {"idle"} /\ "locked" \in Places \ {"idle"}
  BY DEF Places
<1>3. CallsOK(A)'
  BY <1>1, <1>2, OnlyGoes DEF StoreOK
<1>4. QED
  BY <1>1, <1>3, StoreGoesOn

(* ... and so do an INSERT that is stored,                                 *)
LEMMA InsertOK ==
    ASSUME NEW A, Askable(A), StoreOK(A), NEW c \in Clients, Insert(c)
    PROVE  StoreOK(A)'
<1> DEFINE a == Appended(c)
           q == conf[c] \o a
           k == Len(a)
<1>1. /\ Goto(c, "locked", "put") /\ conf' = [conf EXCEPT ![c] = q]
      /\ n' = [n EXCEPT ![c] = k] /\ serverIndex' = Indexed(c)
      /\ UNCHANGED <<mode, file, calls, op, answer, mixed>>
      /\ pc[c] = "locked" /\ op[c].kind = "insert"
  BY DEF Insert, Goto, readVars
<1>2. CallsOK(A) /\ conf[c] \in Seq(Owned) /\ op[c] \in Statements
  BY <1>1, CallTypes DEF StoreOK
<1>3. a \in Seq(Owned)
  BY <1>1, <1>2, AppendedType
<1> HIDE DEF a
<1>4. q \in Seq(Owned) /\ k \in Nat
  BY <1>2, <1>3
<1>5. "locked" \in Places \ {"idle"} /\ "put" \in Places \ {"idle"}
  BY DEF Places
<1> HIDE DEF q, k
<1>6. CallsOK(A)'
  BY <1>1, <1>2, <1>4, <1>5, GoesOn
<1>7. IndexOK(serverIndex)'
  BY <1>1, <1>2, IndexedOK DEF StoreOK, IndexOK
<1>8. QED
  BY <1>1, <1>6, <1>7, FileStays DEF StoreOK

(* an INSERT with a row that is refused,                                   *)
LEMMA InsertFailsOK ==
    ASSUME NEW A, Askable(A), StoreOK(A), NEW c \in Clients, InsertFails(c)
    PROVE  StoreOK(A)'
<1>1. /\ pc[c] = "locked" /\ op[c].kind = "insert" /\ serverIndex' = Indexed(c)
      /\ Fails(c, "locked") /\ UNCHANGED file
  BY DEF InsertFails
<1>2. CallsOK(A) /\ conf[c] \in Seq(Owned) /\ op[c] \in Statements
  BY <1>1, CallTypes DEF StoreOK
<1>3. CallsOK(A)' /\ mixed' = mixed
  BY <1>1, <1>2, FailsOK
<1>4. IndexOK(serverIndex)'
  BY <1>1, <1>2, IndexedOK DEF StoreOK, IndexOK
<1>5. QED
  BY <1>1, <1>3, <1>4, FileStays DEF StoreOK

(* and an UPDATE that is stored.                                           *)
LEMMA UpdateOK ==
    ASSUME NEW A, Askable(A), StoreOK(A), NEW c \in Clients, Update(c)
    PROVE  StoreOK(A)'
<1> DEFINE q == UpdateLoop(c).rows
           k == Len(whereColumnsToConfig(op[c], conf[c]))
<1>1. /\ Goto(c, "locked", "put") /\ conf' = [conf EXCEPT ![c] = q]
      /\ n' = [n EXCEPT ![c] = k]
      /\ UNCHANGED <<mode, file, serverIndex, calls, op, answer, mixed>>
      /\ pc[c] = "locked" /\ op[c].kind = "update"
  BY DEF Update, Goto, readVars
<1>2. CallsOK(A) /\ conf[c] \in Seq(Owned) /\ op[c] \in Statements
  BY <1>1, CallTypes DEF StoreOK
<1>3. q \in Seq(Owned)
  <2> DEFINE E == {"ok", "error", "panic"}
  <2>1. Stays(Len(conf[c]), E)
    BY DEF StoreOK, IndexOK, Stays
  <2>2. UpdateLoop(c) \in Outcomes(Len(conf[c]), E)
    BY <1>1, <1>2, <2>1, UpdateLoopType
  <2>3. QED
    BY <2>2 DEF Outcomes, Tables
<1>4. k \in Nat
  <2> DEFINE w == whereColumnsToConfig(op[c], conf[c])
  <2>1. w \in Seq(Owned)
    BY <1>2, DeletedType DEF whereColumnsToConfig
  <2> HIDE DEF w
  <2>2. Len(w) \in Nat
    BY <2>1
  <2>3. QED
    BY <2>2 DEF w
<1>5. "locked" \in Places \ {"idle"} /\ "put" \in Places \ {"idle"}
  BY DEF Places
<1> HIDE DEF q, k
<1>6. CallsOK(A)'
  BY <1>1, <1>2, <1>3, <1>4, <1>5, GoesOn
<1>7. QED
  BY <1>1, <1>6, StoreGoesOn

(* Writing the file.                                                       *)
LEMMA PutConfigOK ==
    ASSUME NEW A, Askable(A), StoreOK(A), NEW c \in Clients, PutConfig(c)
    PROVE  StoreOK(A)'
<1> DEFINE broken == [state |-> "empty", rows |-> <<>>]
           failed == Answer("error", 0, <<>>)
<1>0. broken \in Files /\ broken.rows = <<>> /\ CallsOK(A) /\ failed \in Results
  <2>1. <<>> \in Seq(Owned)
    OBVIOUS
  <2>2. QED
    BY <2>1, ResultTypes DEF Files, StoreOK
<1>1. ASSUME CreateFails(c) PROVE StoreOK(A)'
  <2>1. Fails(c, "put") /\ UNCHANGED <<file, serverIndex>>
    BY <1>1 DEF CreateFails
  <2>2. QED
    BY <2>1, <1>0, StoreAnswers
<1>2. ASSUME Create(c) PROVE StoreOK(A)'
  <2>1. /\ Goto(c, "put", "encode") /\ file' = broken
        /\ UNCHANGED <<mode, serverIndex, calls, op, conf, n, answer, mixed>>
    BY <1>2 DEF Create
  <2>2. "put" \in Places \ {"idle"} /\ "encode" \in Places \ {"idle"}
    BY DEF Places
  <2>3. CallsOK(A)'
    BY <2>1, <2>2, <1>0, OnlyGoes
  <2>4. FileOK'
    BY <2>1, <1>0, StoreWidens DEF FileOK
  <2>5. QED
    BY <2>1, <2>3, <2>4 DEF StoreOK, IndexOK
<1>3. ASSUME Encode(c) PROVE StoreOK(A)'
  <2> DEFINE a == Answer("ok", n[c], <<>>)
             f == [state |-> "whole", rows |-> conf[c]]
  <2>1. Ends(c, "encode", a) /\ file' = f /\ UNCHANGED serverIndex
    BY <1>3 DEF Encode
  <2>2. conf[c] \in Seq(Owned) /\ n[c] \in Nat
    BY <1>0, CallTypes
  <2>3. a \in Results
    BY <2>2, ResultTypes
  <2>4. f \in Files /\ f.state = "whole"
    BY <2>2 DEF Files
  <2> HIDE DEF a, f
  <2>5. CallsOK(A)' /\ mixed' = mixed
    BY <2>1, <2>3, <1>0, CallEnds
  <2>6. FileOK'
    BY <2>1, <2>4, <2>5, StoreWidens DEF FileOK
  <2>7. QED
    BY <2>1, <2>5, <2>6 DEF StoreOK, IndexOK
<1>4. ASSUME EncodeFails(c) PROVE StoreOK(A)'
  <2>1. Ends(c, "encode", failed) /\ (file' = file \/ file' = broken) /\ UNCHANGED serverIndex
    BY <1>4 DEF EncodeFails
  <2> HIDE DEF failed
  <2>2. CallsOK(A)' /\ mixed' = mixed
    BY <2>1, <1>0, CallEnds
  <2>3. FileOK'
    BY <2>1, <2>2, <1>0, StoreWidens DEF StoreOK, FileOK
  <2>4. QED
    BY <2>1, <2>2, <2>3 DEF StoreOK, IndexOK
<1>5. QED
  BY <1>1, <1>2, <1>3, <1>4 DEF PutConfig

(* The process ends, and is started again.                                 *)
LEMMA CrashOK ==
    ASSUME NEW A, StoreOK(A), NEW c \in Clients, DecryptPanics(c) \/ UpdatePanics(c) \/ MapRace(c)
    PROVE  StoreOK(A)'
<1>1. /\ mode' = "crashed"
      /\ UNCHANGED <<file, serverIndex, calls, pc, op, conf, n, answer, mixed>>
  BY DEF DecryptPanics, UpdatePanics, MapRace, clientVars, readVars
<1>2. CallsOK(A)'
  BY <1>1, StoreWidens DEF StoreOK, CallsOK
<1>3. QED
  BY <1>1, <1>2, StoreGoesOn

(* and a restart, which loses the index and every call and keeps the file. *)
LEMMA RestartOK ==
    ASSUME NEW A, StoreOK(A), Restart
    PROVE  StoreOK(A)'
<1> DEFINE a == Answer("none", 0, <<>>)
<1>1. a \in Results /\ <<>> \in Seq(Owned)
  BY ResultTypes
<1>2. /\ mode' = "running" /\ serverIndex' = [u \in {} |-> 0]
      /\ pc' = [c \in Clients |-> "idle"] /\ op' = [c \in Clients |-> None]
      /\ conf' = [c \in Clients |-> <<>>] /\ n' = [c \in Clients |-> 0]
      /\ answer' = [c \in Clients |-> a] /\ UNCHANGED <<file, calls, mixed>>
  BY DEF Restart
<1> HIDE DEF a
<1>3. conf' \in [Clients -> Seq(Owned)]' /\ answer' \in [Clients -> Results]'
  BY <1>1, <1>2, StoreWidens
<1>4. CallsOK(A)'
  <2>1. "idle" \in Places
    BY DEF Places
  <2>2. QED
    BY <1>2, <1>3, <2>1 DEF StoreOK, CallsOK
<1>5. IndexOK(serverIndex)'
  BY <1>2 DEF IndexOK
<1>6. QED
  BY <1>2, <1>4, <1>5, FileStays DEF StoreOK

(* What the store does when the calls are from A.                          *)
Moves(A) ==
    \/ \E c \in Clients : (\E st \in A : Call(c, st)) \/ Work(c)
    \/ Restart
    \/ UNCHANGED vars

(* Every step keeps the invariant.                                         *)
LEMMA StoreStep ==
    ASSUME NEW A, Askable(A), StoreOK(A), Moves(A)
    PROVE  StoreOK(A)'
<1>1. ASSUME NEW c \in Clients, NEW st \in A, Call(c, st) PROVE StoreOK(A)'
  BY <1>1, CallOK
<1>2. ASSUME NEW c \in Clients, Work(c) PROVE StoreOK(A)'
  <2>1. CASE GetConfig(c)
    BY <2>1, GetConfigOK
  <2>2. CASE Select(c) \/ GetPassword(c)
    BY <2>2, SelectOK, GetPasswordOK
  <2>3. CASE Delete(c) \/ NothingChosen(c) \/ Lock(c)
    BY <2>3, DeleteOK, StatementFailsOK, LockOK
  <2>4. CASE Insert(c) \/ InsertFails(c)
    BY <2>4, InsertOK, InsertFailsOK
  <2>5. CASE Update(c) \/ UpdateFails(c) \/ EncryptFails(c)
    BY <2>5, UpdateOK, StatementFailsOK
  <2>6. CASE PutConfig(c)
    BY <2>6, PutConfigOK
  <2>7. CASE DecryptPanics(c) \/ UpdatePanics(c) \/ MapRace(c)
    BY <2>7, CrashOK
  <2>8. QED
    BY <1>2, <2>1, <2>2, <2>3, <2>4, <2>5, <2>6, <2>7 DEF Work, Advance
<1>3. CASE Restart
  BY <1>3, RestartOK
<1>4. CASE UNCHANGED vars
  <2>1. UNCHANGED <<mode, file, serverIndex, calls, pc, op, conf, n, answer, mixed>>
    BY <1>4 DEF vars, clientVars, readVars
  <2>2. CallsOK(A)'
    BY <2>1, StoreWidens DEF StoreOK, CallsOK
  <2>3. QED
    BY <2>1, <2>2, StoreGoesOn
<1>5. QED
  BY <1>1, <1>2, <1>3, <1>4 DEF Moves

(* It holds at the start.                                                  *)
LEMMA StoreStarts ==
    ASSUME NEW A, Idle, FileOK
    PROVE  StoreOK(A)
<1> DEFINE a == Answer("none", 0, <<>>)
<1>1. a \in Results /\ <<>> \in Seq(Owned) /\ 0 \in 0 .. MaxCalls /\ "idle" \in Places
  BY TableAssumption, ResultTypes DEF Places
<1>2. /\ mode = "running" /\ serverIndex = [u \in {} |-> 0] /\ calls = 0
      /\ pc = [c \in Clients |-> "idle"] /\ op = [c \in Clients |-> None]
      /\ conf = [c \in Clients |-> <<>>] /\ n = [c \in Clients |-> 0]
      /\ answer = [c \in Clients |-> a]
  BY DEF Idle
<1> HIDE DEF a
<1>3. CallsOK(A)
  BY <1>1, <1>2 DEF CallsOK
<1>4. IndexOK(serverIndex)
  BY <1>2 DEF IndexOK
<1>5. QED
  BY <1>3, <1>4 DEF StoreOK

(* A file that does not exist holds no row.                                *)
LEMMA AbsentOK == file = Absent => FileOK
<1>1. <<>> \in Seq(Owned)
  OBVIOUS
<1>2. QED
  BY <1>1 DEF Absent, FileOK, Files

(* How the calls have read the file.                                       *)
SightOK ==
    /\ mixed \in BOOLEAN /\ sight \in [Clients -> {"clear", "blind", "torn"}]
    /\ \A c \in Clients :
          /\ pc[c] = "idle" => sight[c] = "clear"
          /\ sight[c] = "torn" => pc[c] = "reading"

(* A call sees something of the file.                                      *)
LEMMA Looks ==
    ASSUME NEW A, CallsOK(A), SightOK, NEW c \in Clients,
           NEW from, NEW to, to # "idle", Goto(c, from, to),
           NEW how \in {"clear", "blind"}, sight' = [sight EXCEPT ![c] = how], mixed' \in BOOLEAN
    PROVE  SightOK'
BY DEF SightOK, Goto, CallsOK

(* A call goes on and has seen the file before.                            *)
LEMMA LooksAway ==
    ASSUME NEW A, CallsOK(A), SightOK, NEW c \in Clients,
           NEW from, NEW to, to # "idle", Goto(c, from, to),
           sight[c] = "torn" => to = "reading", UNCHANGED <<sight, mixed>>
    PROVE  SightOK'
BY DEF SightOK, Goto, CallsOK

(* A call ends.                                                            *)
LEMMA LooksNoMore ==
    ASSUME NEW A, CallsOK(A), SightOK, NEW c \in Clients, NEW from, NEW a, from # "reading",
           Ends(c, from, a), sight' \in {[sight EXCEPT ![c] = "clear"], [Torn EXCEPT ![c] = "clear"]}
    PROVE  SightOK'
<1>1. pc' = [pc EXCEPT ![c] = "idle"] /\ pc[c] = from /\ mixed' = mixed
  BY DEF Ends, Goto
<1>2. QED
  BY <1>1 DEF SightOK, Torn, CallsOK

(* Every step keeps it, whoever calls.                                     *)
LEMMA SightStep ==
    ASSUME NEW A, CallsOK(A), SightOK, Moves(A)
    PROVE  SightOK'
<1> USE DEF readVars
<1>1. ASSUME NEW c \in Clients, NEW st \in A, Call(c, st) PROVE SightOK'
  <2>1. Goto(c, "idle", "open") /\ UNCHANGED <<sight, mixed>> /\ pc[c] = "idle"
    BY <1>1 DEF Call, Goto
  <2>2. sight[c] # "torn"
    BY <2>1 DEF SightOK
  <2>3. QED
    BY <2>1, <2>2, LooksAway
<1>2. ASSUME NEW c \in Clients, Work(c) PROVE SightOK'
  <2>0. ASSUME NEW from, from # "reading", NEW to, to # "idle", Goto(c, from, to),
               UNCHANGED <<sight, mixed>>
        PROVE  SightOK'
    <3>1. sight[c] # "torn"
      BY <2>0 DEF SightOK, Goto
    <3>2. QED
      BY <2>0, <3>1, LooksAway
  <2>1. CASE GetConfig(c)
    <3>1. CASE ReadFile(c)
      <4> DEFINE to == IF file.state = "absent" THEN "loaded" ELSE "reindex"
      <4>1. Goto(c, "open", to) /\ UNCHANGED <<sight, mixed>> /\ to # "idle"
        BY <3>1 DEF ReadFile
      <4> HIDE DEF to
      <4>2. QED
        BY <2>0, <4>1
    <3>2. CASE OpenFails(c)
      BY <3>2, Looks DEF OpenFails, SightOK
    <3>3. CASE ReadPart(c)
      BY <2>0, <3>3 DEF ReadPart
    <3>4. CASE ReadRest(c)
      BY <3>4, LooksAway DEF ReadRest
    <3>5. CASE ReadTorn(c)
      BY <3>5, Looks DEF ReadTorn
    <3>6. CASE ReadBroken(c)
      BY <3>6, Looks DEF ReadBroken, SightOK
    <3>7. CASE Reindex(c)
      BY <2>0, <3>7 DEF Reindex
    <3>8. QED
      BY <2>1, <3>1, <3>2, <3>3, <3>4, <3>5, <3>6, <3>7 DEF GetConfig
  <2>2. ASSUME NEW from \in {"loaded", "locked", "put"}, NEW a, Returns(c, from, a)
        PROVE  SightOK'
    BY <2>2, LooksNoMore DEF Returns
  <2>3. ASSUME NEW from \in {"loaded", "locked", "put"}, Fails(c, from)
        PROVE  SightOK'
    BY <2>2, <2>3 DEF Fails
  <2>4. CASE Select(c) \/ GetPassword(c) \/ NothingChosen(c) \/ InsertFails(c) \/ UpdateFails(c)
             \/ EncryptFails(c) \/ CreateFails(c)
    BY <2>2, <2>3, <2>4
       DEF Select, GetPassword, NothingChosen, InsertFails, UpdateFails, EncryptFails, CreateFails
  <2>5. CASE Delete(c) \/ Lock(c) \/ Insert(c) \/ Update(c)
    BY <2>0, <2>5 DEF Delete, Lock, Insert, Update
  <2>6. CASE Create(c)
    BY <2>6 DEF Create, Goto, Torn, SightOK
  <2>7. CASE Encode(c) \/ EncodeFails(c)
    BY <2>7, LooksNoMore DEF Encode, EncodeFails
  <2>8. CASE DecryptPanics(c) \/ UpdatePanics(c) \/ MapRace(c)
    BY <2>8 DEF DecryptPanics, UpdatePanics, MapRace, clientVars, SightOK
  <2>9. QED
    BY <1>2, <2>1, <2>4, <2>5, <2>6, <2>7, <2>8 DEF Work, Advance, PutConfig
<1>3. CASE Restart
  BY <1>3 DEF Restart, SightOK
<1>4. CASE UNCHANGED vars
  BY <1>4 DEF vars, clientVars, SightOK
<1>5. QED
  BY <1>1, <1>2, <1>3, <1>4 DEF Moves

(* Texts that were put together stay so.                                   *)
LEMMA MixedStays ==
    ASSUME NEW A, Moves(A)
    PROVE  mixed => mixed'
<1> USE DEF readVars
<1>1. ASSUME NEW c, Work(c) PROVE mixed => mixed'
  <2>1. CASE GetConfig(c)
    BY <2>1 DEF GetConfig, ReadFile, OpenFails, ReadPart, ReadRest, ReadTorn, ReadBroken, Reindex
  <2>2. ASSUME NEW from, Fails(c, from) \/ \E a : Returns(c, from, a) \/ Ends(c, from, a)
        PROVE  mixed => mixed'
    BY <2>2 DEF Fails, Returns, Ends
  <2>3. CASE \/ Select(c) \/ GetPassword(c) \/ NothingChosen(c)
             \/ InsertFails(c) \/ UpdateFails(c) \/ EncryptFails(c)
    BY <2>2, <2>3 DEF Select, GetPassword, NothingChosen, InsertFails, UpdateFails, EncryptFails
  <2>4. CASE Delete(c) \/ Lock(c) \/ Insert(c) \/ Update(c)
    BY <2>4 DEF Delete, Lock, Insert, Update
  <2>5. CASE PutConfig(c)
    BY <2>2, <2>5 DEF PutConfig, CreateFails, Create, Encode, EncodeFails
  <2>6. CASE DecryptPanics(c) \/ UpdatePanics(c) \/ MapRace(c)
    BY <2>6 DEF DecryptPanics, UpdatePanics, MapRace
  <2>7. QED
    BY <1>1, <2>1, <2>3, <2>4, <2>5, <2>6 DEF Work, Advance
<1>2. QED
  BY <1>1 DEF Moves, Call, Restart, vars

(* The two imply the properties.                                           *)
LEMMA StoreKeepsPasswords ==
    ASSUME NEW A, StoreOK(A)
    PROVE  PasswordsStayWithTheirUsers
<1> SUFFICES ASSUME ~ mixed
             PROVE  /\ \A i \in DOMAIN file.rows : MayHave(file.rows[i])
                    /\ \A c \in Clients : \A i \in DOMAIN answer[c].rows : MayHave(answer[c].rows[i])
  BY DEF PasswordsStayWithTheirUsers
<1>1. file.rows \in Seq(Owned)
  BY DEF StoreOK, FileOK, Files
<1>2. \A i \in DOMAIN file.rows : MayHave(file.rows[i])
  <2>1. \A i \in DOMAIN file.rows : file.rows[i] \in Owned
    BY <1>1
  <2>2. QED
    BY <2>1 DEF Owned
<1>3. ASSUME NEW c \in Clients, NEW i \in DOMAIN answer[c].rows
      PROVE  MayHave(answer[c].rows[i])
  <2>1. answer[c].rows \in Seq(ShownOwned)
    BY DEF StoreOK, CallsOK, Results
  <2>2. answer[c].rows[i] \in ShownOwned
    BY <2>1
  <2>3. QED
    BY <2>2 DEF ShownOwned
<1>4. QED
  BY <1>2, <1>3

(* The invariant contains the module's types.                              *)
LEMMA StoreTypes == StoreOK(Statements) /\ SightOK => TypeOK
<1> SUFFICES ASSUME StoreOK(Statements), SightOK PROVE TypeOK
  OBVIOUS
<1>1. /\ file \in [state : {"absent", "empty", "whole"}, rows : Seq(Rows)]
      /\ file.state # "whole" => file.rows = <<>>
  BY OwnedTypes DEF StoreOK, FileOK, Files
<1>2. conf \in [Clients -> Seq(Rows)]
  <2>1. conf \in [Clients -> Seq(Owned)]
    BY DEF StoreOK, CallsOK
  <2>2. \A c \in Clients : conf[c] \in Seq(Rows)
    BY <2>1, OwnedTypes
  <2>3. QED
    BY <2>1, <2>2
<1>3. answer \in [Clients -> [status : {"none", "ok", "error"}, n : Nat, rows : Seq(Shown)]]
  <2>1. answer \in [Clients -> Results]
    BY DEF StoreOK, CallsOK
  <2>2. ShownOwned \subseteq Shown
    BY DEF ShownOwned
  <2>3. \A q \in Seq(ShownOwned) : q \in Seq(Shown)
    BY <2>2
  <2>4. Results \subseteq [status : {"none", "ok", "error"}, n : Nat, rows : Seq(Shown)]
    BY <2>3 DEF Results
  <2>5. QED
    BY <2>1, <2>4
<1>4. ASSUME NEW c \in Clients
      PROVE  /\ pc[c] = "idle" <=> op[c] = None
             /\ pc[c] = "idle" => conf[c] = <<>> /\ n[c] = 0 /\ sight[c] = "clear"
             /\ sight[c] = "torn" => pc[c] = "reading"
  <2>1. None \notin Statements
    BY TableAssumption
  <2>2. QED
    BY <2>1 DEF StoreOK, CallsOK, SightOK
<1>5. QED
  BY <1>1, <1>2, <1>3, <1>4 DEF StoreOK, CallsOK, SightOK, IndexOK, TypeOK, Places

(* The steps of the store alone.                                           *)
LEMMA NextMoves == [Next]_vars => Moves(Statements)
BY DEF Next, Moves

(* The statements of the model are such as the administrator can ask.      *)
LEMMA StatementsAskable == Askable(Statements)
BY DEF Askable

(* The invariant of the store alone: however calls overlap, fail, crash    *)
(* and are cut short (serverconfig.go:84-259).                             *)
LEMMA StoreInvariant == Spec => [](StoreOK(Statements) /\ SightOK)
<1>1. Init => StoreOK(Statements) /\ SightOK
  <2>1. Init => SightOK
    BY DEF Init, Idle, SightOK
  <2>2. QED
    BY <2>1, StoreStarts, AbsentOK DEF Init
<1>2. StoreOK(Statements) /\ SightOK /\ [Next]_vars => StoreOK(Statements)' /\ SightOK'
  BY StoreStep, SightStep, NextMoves, StatementsAskable DEF StoreOK
<1>3. QED
  BY <1>1, <1>2, PTL DEF Spec

(* Every variable of the user table keeps its type: no stored password is  *)
(* in plain text, a missing or broken file has no rows, and a client that  *)
(* is in no call keeps nothing of the last one.                            *)
THEOREM TypeCorrect == Spec => []TypeOK
BY StoreInvariant, StoreTypes, PTL

(* No row on file and no answer joins one user's name and another's        *)
(* password, whatever stale index an UPDATE goes by: update writes whole   *)
(* rows that it has chosen itself (serverconfig.go:189-197).  Only a call  *)
(* that has put two texts of config.json together (serverconfig.go:94) can *)
(* be the origin of one that does.                                         *)
THEOREM PasswordsStay == Spec => []PasswordsStayWithTheirUsers
<1>1. StoreOK(Statements) => PasswordsStayWithTheirUsers
  BY StoreKeepsPasswords
<1>2. QED
  BY <1>1, StoreInvariant, PTL

(* What a caller is about to write has what it was asked for.              *)
WholeIn(c) ==
    /\ op[c].kind = "insert" => UsersIn(op[c].rows) \subseteq UsersIn(conf[c])
    /\ op[c].kind = "delete" => whereColumnsToConfig(op[c], conf[c]) = <<>>

WholeOK == \A c \in Clients : pc[c] \in {"put", "encode"} => WholeIn(c)

(* Rows that are appended are there.                                       *)
LEMMA InsertIsWhole ==
    ASSUME NEW a \in Seq(Owned), NEW b \in Seq(Owned)
    PROVE  UsersIn(b) \subseteq UsersIn(a \o b)
<1> DEFINE q == a \o b
<1>1. /\ Len(q) = Len(a) + Len(b) /\ Len(a) \in Nat /\ Len(b) \in Nat /\ DOMAIN q = 1 .. Len(q)
      /\ \A i \in 1 .. Len(b) : q[Len(a) + i] = b[i]
  OBVIOUS
<1> HIDE DEF q
<1>2. ASSUME NEW i \in 1 .. Len(b) PROVE b[i].user \in UsersIn(q)
  <2>1. Len(a) + i \in DOMAIN q /\ q[Len(a) + i] = b[i]
    BY <1>1
  <2>2. QED
    BY <2>1 DEF UsersIn
<1>3. DOMAIN b = 1 .. Len(b)
  OBVIOUS
<1>4. QED
  BY <1>2, <1>3 DEF UsersIn, q

Occurs(q, x) == \E i \in 1 .. Len(q) : q[i] = x

(* What occurs among the selected rows.                                    *)
LEMMA SelectedOccur ==
    \A T : \A q \in Seq(Owned) : \A x : Occurs(Selected(q, T), x) <=> x \in T /\ Occurs(q, x)
BY SelectedElements DEF Occurs

(* No row that a DELETE chooses is left when the rows of all its names go. *)
LEMMA DeleteIsWhole ==
    ASSUME NEW st, NEW q \in Seq(Owned)
    PROVE  LET deleted == UsersIn(whereColumnsToConfig(st, q))
               res     == Selected(q, {s \in Rows : s.user \notin deleted})
           IN  whereColumnsToConfig(st, res) = <<>>
<1> DEFINE M == {r \in Rows : st.where \in {None, r.user}}
           deleted == UsersIn(Selected(q, M))
           T == {s \in Rows : s.user \notin deleted}
           res == Selected(q, T)
           left == Selected(res, M)
<1>1. res \in Seq(Owned) /\ left \in Seq(Owned) /\ Selected(q, M) \in Seq(Owned)
  <2>1. \A p \in Seq(Owned) : \A R : Selected(p, R) \in Seq(Owned)
    BY DeletedType
  <2>2. QED
    BY <2>1
<1>2. \A x : Occurs(left, x) <=> x \in M /\ Occurs(res, x)
  <2> HIDE DEF M, res
  <2>1. QED
    BY <1>1, SelectedOccur, Zenon
<1>3. \A x : Occurs(res, x) <=> x \in T /\ Occurs(q, x)
  <2> HIDE DEF T
  <2>1. QED
    BY SelectedOccur, Zenon
<1>4. \A x : Occurs(Selected(q, M), x) <=> x \in M /\ Occurs(q, x)
  <2> HIDE DEF M
  <2>1. QED
    BY SelectedOccur, Zenon
<1>5. \A x : Occurs(Selected(q, M), x) => x.user \in deleted
  <2> DEFINE p == Selected(q, M)
  <2>1. \A i \in 1 .. Len(p) : i \in DOMAIN p
    BY <1>1
  <2> HIDE DEF p
  <2>2. \A x : Occurs(p, x) => x.user \in UsersIn(p)
    BY <2>1 DEF UsersIn, Occurs
  <2>3. QED
    BY <2>2 DEF p
<1>6. \A x : ~ Occurs(left, x)
  <2>1. \A x \in T : x.user \notin deleted
    OBVIOUS
  <2> HIDE DEF M, T, deleted, res, left
  <2>2. QED
    BY <1>2, <1>3, <1>4, <1>5, <2>1, Zenon
<1> HIDE DEF left
<1>7. left = <<>>
  <2>1. \A i \in 1 .. Len(left) : Occurs(left, left[i])
    BY DEF Occurs
  <2>2. Len(left) = 0
    BY <1>1, <1>6, <2>1
  <2>3. QED
    BY <1>1, <2>2
<1>8. QED
  BY <1>7 DEF left, whereColumnsToConfig

(* The calls of others.                                                    *)
Elsewhere(c) ==
    \A d \in Clients \ {c} :
        /\ pc'[d] = pc[d] /\ op'[d] = op[d]
        /\ conf'[d] = conf[d] /\ answer'[d] = answer[d]

(* The step of a call leaves the calls of others alone.                    *)
LEMMA OthersStay ==
    ASSUME NEW A, CallsOK(A), NEW c \in Clients, (\E st \in A : Call(c, st)) \/ Work(c)
    PROVE  Elsewhere(c)
<1>1. ASSUME NEW from, NEW to, Goto(c, from, to), UNCHANGED <<op, answer>>,
             \E q : conf' = [conf EXCEPT ![c] = q]
      PROVE  Elsewhere(c)
  BY <1>1 DEF Goto, CallsOK, Elsewhere
<1>2. ASSUME NEW from, NEW a, Ends(c, from, a)
      PROVE  Elsewhere(c)
  BY <1>2 DEF Ends, Goto, CallsOK, Elsewhere
<1>3. ASSUME NEW from, NEW to, Goto(c, from, to), UNCHANGED <<op, answer, conf>>
      PROVE  Elsewhere(c)
  BY <1>3 DEF Goto, CallsOK, Elsewhere
<1>4. ASSUME NEW from, Fails(c, from) \/ \E a : Returns(c, from, a)
      PROVE  Elsewhere(c)
  BY <1>4, <1>2 DEF Fails, Returns
<1>5. ASSUME NEW st \in A, Call(c, st) PROVE Elsewhere(c)
  BY <1>5 DEF Call, Goto, CallsOK, Elsewhere
<1>6. ASSUME GetConfig(c) PROVE Elsewhere(c)
  <2>1. ASSUME ReadFile(c) PROVE Elsewhere(c)
    <3> DEFINE q == IF file.state = "whole" THEN file.rows ELSE conf[c]
               to == IF file.state = "absent" THEN "loaded" ELSE "reindex"
    <3>1. Goto(c, "open", to) /\ conf' = [conf EXCEPT ![c] = q] /\ UNCHANGED <<op, answer>>
      BY <2>1 DEF ReadFile
    <3> HIDE DEF q, to
    <3>2. QED
      BY <3>1, <1>1
  <2>2. ASSUME OpenFails(c) \/ ReadRest(c) \/ Reindex(c) PROVE Elsewhere(c)
    BY <2>2, <1>3 DEF OpenFails, ReadRest, Reindex
  <2>3. ASSUME ReadPart(c) \/ ReadTorn(c) \/ ReadBroken(c) PROVE Elsewhere(c)
    BY <2>3, <1>1 DEF ReadPart, ReadTorn, ReadBroken
  <2>4. QED
    BY <1>6, <2>1, <2>2, <2>3 DEF GetConfig
<1>7. ASSUME \/ Select(c) \/ GetPassword(c) \/ NothingChosen(c)
             \/ InsertFails(c) \/ UpdateFails(c) \/ EncryptFails(c)
      PROVE  Elsewhere(c)
  BY <1>7, <1>4 DEF Select, GetPassword, NothingChosen, InsertFails, UpdateFails, EncryptFails
<1>8. ASSUME Delete(c) PROVE Elsewhere(c)
  BY <1>8, <1>1 DEF Delete
<1>9. ASSUME Lock(c) PROVE Elsewhere(c)
  BY <1>9, <1>3 DEF Lock
<1>10. ASSUME Insert(c) PROVE Elsewhere(c)
  <2> DEFINE q == conf[c] \o Appended(c)
  <2>1. Goto(c, "locked", "put") /\ conf' = [conf EXCEPT ![c] = q] /\ UNCHANGED <<op, answer>>
    BY <1>10 DEF Insert
  <2> HIDE DEF q
  <2>2. QED
    BY <2>1, <1>1
<1>11. ASSUME Update(c) PROVE Elsewhere(c)
  BY <1>11, <1>1 DEF Update
<1>12. ASSUME PutConfig(c) PROVE Elsewhere(c)
  <2>1. ASSUME CreateFails(c) \/ EncodeFails(c) \/ Encode(c) PROVE Elsewhere(c)
    BY <2>1, <1>2, <1>4 DEF CreateFails, EncodeFails, Encode
  <2>2. ASSUME Create(c) PROVE Elsewhere(c)
    BY <2>2, <1>3 DEF Create
  <2>3. QED
    BY <1>12, <2>1, <2>2 DEF PutConfig
<1>13. ASSUME DecryptPanics(c) \/ UpdatePanics(c) \/ MapRace(c) PROVE Elsewhere(c)
  BY <1>13 DEF DecryptPanics, UpdatePanics, MapRace, clientVars, Elsewhere
<1>14. QED
  BY <1>5, <1>6, <1>7, <1>8, <1>9, <1>10, <1>11, <1>12, <1>13 DEF Work, Advance

(* The step of a call that changes what WholeIn speaks of.                 *)
LEMMA ToPut ==
    ASSUME NEW A, CallsOK(A), NEW c \in Clients, Work(c), pc'[c] \in {"put", "encode"}
    PROVE  \/ Delete(c) \/ Insert(c) \/ Update(c)
           \/ pc[c] \in {"put", "encode"} /\ op'[c] = op[c] /\ conf'[c] = conf[c]
<1>1. ASSUME NEW from, NEW to \in {"reading", "loaded", "reindex", "locked"}, Goto(c, from, to)
      PROVE  FALSE
  BY <1>1 DEF Goto, CallsOK
<1>2. ASSUME NEW from, NEW a, Ends(c, from, a)
      PROVE  FALSE
  BY <1>2 DEF Ends, Goto, CallsOK
<1>3. ASSUME NEW from, Fails(c, from) \/ \E a : Returns(c, from, a)
      PROVE  FALSE
  BY <1>3, <1>2 DEF Fails, Returns
<1>4. ~ GetConfig(c)
  <2>1. ~ ReadFile(c)
    <3>1. ASSUME ReadFile(c) PROVE Goto(c, "open", "loaded") \/ Goto(c, "open", "reindex")
      BY <3>1 DEF ReadFile
    <3>2. QED
      BY <3>1, <1>1
  <2>2. ~ (OpenFails(c) \/ ReadPart(c) \/ ReadRest(c) \/ ReadTorn(c) \/ ReadBroken(c) \/ Reindex(c))
    BY <1>1 DEF OpenFails, ReadPart, ReadRest, ReadTorn, ReadBroken, Reindex
  <2>3. QED
    BY <2>1, <2>2 DEF GetConfig
<1>5. ~ (\/ Select(c) \/ GetPassword(c) \/ NothingChosen(c)
         \/ InsertFails(c) \/ UpdateFails(c) \/ EncryptFails(c))
  BY <1>3 DEF Select, GetPassword, NothingChosen, InsertFails, UpdateFails, EncryptFails
<1>6. ~ Lock(c)
  BY <1>1 DEF Lock
<1>7. ~ (CreateFails(c) \/ EncodeFails(c) \/ Encode(c))
  BY <1>2, <1>3 DEF CreateFails, EncodeFails, Encode
<1>8. Create(c) => pc[c] \in {"put", "encode"} /\ op'[c] = op[c] /\ conf'[c] = conf[c]
  BY DEF Create, Goto
<1>9. DecryptPanics(c) \/ UpdatePanics(c) \/ MapRace(c) =>
         pc[c] \in {"put", "encode"} /\ op'[c] = op[c] /\ conf'[c] = conf[c]
  BY DEF DecryptPanics, UpdatePanics, MapRace, clientVars
<1>10. QED
  BY <1>4, <1>5, <1>6, <1>7, <1>8, <1>9 DEF Work, Advance, PutConfig

(* After it the Config has what was asked for ...                          *)
LEMMA WholeInStep ==
    ASSUME NEW A, Askable(A), StoreOK(A), WholeOK, NEW c \in Clients, Work(c),
           pc'[c] \in {"put", "encode"}
    PROVE  WholeIn(c)'
<1>1. CallsOK(A) /\ conf[c] \in Seq(Owned) /\ conf \in [Clients -> Seq(Owned)]
  BY CallTypes DEF StoreOK, CallsOK
<1>2. CASE Delete(c)
  <2> DEFINE deleted == UsersIn(whereColumnsToConfig(op[c], conf[c]))
             res == Selected(conf[c], {s \in Rows : s.user \notin deleted})
  <2>1. conf' = [conf EXCEPT ![c] = res] /\ op' = op /\ op[c].kind = "delete"
    BY <1>2 DEF Delete
  <2>2. whereColumnsToConfig(op[c], res) = <<>>
    BY <1>1, DeleteIsWhole
  <2> HIDE DEF res
  <2>3. conf'[c] = res /\ op'[c] = op[c]
    BY <1>1, <2>1
  <2>4. whereColumnsToConfig(op'[c], conf'[c]) = <<>> /\ op'[c].kind # "insert"
    BY <2>1, <2>2, <2>3
  <2>5. QED
    BY <2>4 DEF WholeIn, whereColumnsToConfig
<1>3. CASE Insert(c)
  <2> DEFINE q == conf[c] \o Appended(c)
  <2>1. conf' = [conf EXCEPT ![c] = q] /\ op' = op /\ op[c].kind = "insert" /\ Refused(c) = {}
        /\ pc[c] = "locked"
    BY <1>3 DEF Insert, Goto
  <2>2. op[c] \in Statements
    BY <1>1, <2>1, CallTypes
  <2>3. Appended(c) \in Seq(Owned) /\ Appended(c) = op[c].rows
    BY <2>1, <2>2, AppendedType
  <2>4. UsersIn(op[c].rows) \subseteq UsersIn(q)
    BY <1>1, <2>3, InsertIsWhole
  <2> HIDE DEF q
  <2>5. conf'[c] = q /\ op'[c] = op[c]
    BY <1>1, <2>1
  <2>6. UsersIn(op'[c].rows) \subseteq UsersIn(conf'[c]) /\ op'[c].kind # "delete"
    BY <2>1, <2>4, <2>5
  <2>7. QED
    BY <2>6 DEF WholeIn, UsersIn
<1>4. CASE Update(c)
  <2>1. op' = op /\ op[c].kind = "update"
    BY <1>4 DEF Update
  <2>2. QED
    BY <2>1 DEF WholeIn
<1>5. CASE pc[c] \in {"put", "encode"} /\ op'[c] = op[c] /\ conf'[c] = conf[c]
  <2>1. WholeIn(c)
    BY <1>5 DEF WholeOK
  <2>2. QED
    BY <1>5, <2>1 DEF WholeIn, UsersIn, whereColumnsToConfig
<1>6. QED
  BY <1>1, <1>2, <1>3, <1>4, <1>5, ToPut

(* ... and keeps it until it is written.                                   *)
LEMMA WholeStep ==
    ASSUME NEW A, Askable(A), StoreOK(A), WholeOK, Moves(A)
    PROVE  WholeOK'
<1>0. CallsOK(A)
  BY DEF StoreOK
<1>1. ASSUME NEW d \in Clients, pc'[d] \in {"put", "encode"},
             pc'[d] = pc[d], op'[d] = op[d], conf'[d] = conf[d]
      PROVE  WholeIn(d)'
  <2>1. WholeIn(d)
    BY <1>1 DEF WholeOK
  <2>2. QED
    BY <1>1, <2>1 DEF WholeIn, UsersIn, whereColumnsToConfig
<1>2. ASSUME NEW c \in Clients, NEW st \in A, Call(c, st) PROVE WholeOK'
  <2>1. Elsewhere(c)
    BY <1>0, <1>2, OthersStay
  <2>2. pc'[c] = "open"
    BY <1>0, <1>2 DEF Call, Goto, CallsOK
  <2>3. ASSUME NEW d \in Clients, pc'[d] \in {"put", "encode"} PROVE WholeIn(d)'
    <3>1. d \in Clients \ {c}
      BY <2>2, <2>3
    <3>2. QED
      BY <1>1, <2>1, <2>3, <3>1 DEF Elsewhere
  <2>4. QED
    BY <2>3 DEF WholeOK
<1>3. ASSUME NEW c \in Clients, Work(c) PROVE WholeOK'
  <2>1. Elsewhere(c)
    BY <1>0, <1>3, OthersStay
  <2>2. ASSUME NEW d \in Clients, pc'[d] \in {"put", "encode"} PROVE WholeIn(d)'
    <3>1. CASE d = c
      BY <1>3, <2>2, <3>1, WholeInStep
    <3>2. CASE d # c
      BY <1>1, <2>1, <2>2, <3>2 DEF Elsewhere
    <3>3. QED
      BY <3>1, <3>2
  <2>3. QED
    BY <2>2 DEF WholeOK
<1>4. CASE Restart
  BY <1>4 DEF Restart, WholeOK
<1>5. CASE UNCHANGED vars
  <2>1. pc' = pc /\ op' = op /\ conf' = conf
    BY <1>5 DEF vars, clientVars
  <2>2. QED
    BY <1>1, <2>1 DEF WholeOK
<1>6. QED
  BY <1>2, <1>3, <1>4, <1>5 DEF Moves

(* AcknowledgedChangesAreWhole, of one step.                               *)
Acknowledged(c) ==
    pc[c] = "encode" /\ pc'[c] = "idle" /\ answer'[c].status = "ok" =>
       /\ op[c].kind = "insert" => UsersIn(op[c].rows) \subseteq UsersIn(file'.rows)
       /\ op[c].kind = "delete" => whereColumnsToConfig(op[c], file'.rows) = <<>>

(* Only a caller that has written its Config answers with success.         *)
LEMMA AcknowledgedStep ==
    ASSUME NEW A, StoreOK(A), WholeOK, Moves(A), NEW c \in Clients
    PROVE  Acknowledged(c)
<1> SUFFICES ASSUME pc[c] = "encode", pc'[c] = "idle", answer'[c].status = "ok"
             PROVE  /\ op[c].kind = "insert" => UsersIn(op[c].rows) \subseteq UsersIn(file'.rows)
                    /\ op[c].kind = "delete" => whereColumnsToConfig(op[c], file'.rows) = <<>>
  BY DEF Acknowledged
<1>0. CallsOK(A) /\ answer \in [Clients -> Results]
  BY DEF StoreOK, CallsOK
<1>1. ~ Restart
  BY DEF Restart, Answer
<1>2. ~ UNCHANGED vars
  BY DEF vars, clientVars
<1>3. PICK d \in Clients : (\E st \in A : Call(d, st)) \/ Work(d)
  BY <1>1, <1>2 DEF Moves
<1>4. d = c
  BY <1>0, <1>3, OthersStay DEF Elsewhere
<1>5. ~ \E st \in A : Call(c, st)
  BY DEF Call, Goto
<1>6. Work(c)
  BY <1>3, <1>4, <1>5
<1>7. /\ ~ GetConfig(c)
      /\ ~ (Select(c) \/ GetPassword(c) \/ Delete(c) \/ NothingChosen(c) \/ Lock(c))
  <2>1. ~ (ReadFile(c) \/ OpenFails(c) \/ Reindex(c))
    BY DEF ReadFile, OpenFails, Reindex, Goto
  <2>2. ~ (ReadPart(c) \/ ReadRest(c) \/ ReadTorn(c) \/ ReadBroken(c))
    BY DEF ReadPart, ReadRest, ReadTorn, ReadBroken, Goto
  <2>3. QED
    BY <2>1, <2>2 DEF GetConfig, Select, GetPassword, Delete, NothingChosen, Lock, Goto
<1>8. /\ ~ (Insert(c) \/ InsertFails(c) \/ Update(c) \/ UpdateFails(c) \/ EncryptFails(c))
      /\ ~ (DecryptPanics(c) \/ UpdatePanics(c) \/ MapRace(c))
  BY DEF Insert, InsertFails, Update, UpdateFails, EncryptFails, DecryptPanics, UpdatePanics,
         MapRace, OutOfRange, Goto
<1>9. ~ (CreateFails(c) \/ Create(c))
  BY DEF CreateFails, Create, Fails, Returns, Ends, Goto
<1>10. ~ EncodeFails(c)
  <2>1. ASSUME EncodeFails(c) PROVE FALSE
    <3>1. answer' = [answer EXCEPT ![c] = Answer("error", 0, <<>>)]
      BY <2>1 DEF EncodeFails, Ends
    <3>2. answer'[c] = Answer("error", 0, <<>>)
      BY <1>0, <3>1
    <3>3. answer'[c].status = "error"
      BY <3>2 DEF Answer
    <3>4. QED
      BY <3>3
  <2>2. QED
    BY <2>1
<1>11. Encode(c)
  BY <1>6, <1>7, <1>8, <1>9, <1>10 DEF Work, Advance, PutConfig
<1>12. file'.rows = conf[c]
  BY <1>11 DEF Encode
<1>13. WholeIn(c)
  BY DEF WholeOK
<1>14. QED
  BY <1>12, <1>13 DEF WholeIn

(* An INSERT or DELETE that is answered with success is on file as a       *)
(* whole: PutConfig is called only when the loop of insert took every row  *)
(* (serverconfig.go:126-129), and the answer is given after the file is    *)
(* written.                                                                *)
THEOREM ChangesAreWhole == Spec => AcknowledgedChangesAreWhole
<1> DEFINE Inv == StoreOK(Statements) /\ WholeOK
<1>1. Init => Inv
  <2>1. Init => WholeOK
    BY DEF Init, Idle, WholeOK
  <2>2. QED
    BY <2>1, StoreStarts, AbsentOK DEF Init
<1>2. Inv /\ [Next]_vars => Inv'
  BY StoreStep, WholeStep, NextMoves, StatementsAskable
<1>3. Inv /\ [Next]_vars => \A c \in Clients : Acknowledged(c)
  BY AcknowledgedStep, NextMoves
<1>4. Inv /\ [Next]_vars => [\A c \in Clients : Acknowledged(c)]_vars
  BY <1>3 DEF Acknowledged
<1> HIDE DEF Inv
<1>5. QED
  BY <1>1, <1>2, <1>4, PTL DEF Spec, AcknowledgedChangesAreWhole, Acknowledged

-----------------------------------------------------------------------------
(* One caller.                                                             *)

(* What a caller that works alone finds in the index.                      *)
OwnIndex(c) ==
    /\ pc[c] = "open" => conf[c] = DefaultRows /\ serverIndex = IndexOf(DefaultRows)
    /\ pc[c] \in {"loaded", "locked"} => serverIndex = IndexOf(conf[c])

(* No position is beyond the rows then.                                    *)
LEMMA OwnIndexInRange ==
    ASSUME StoreOK(Statements), NEW c \in Clients, OwnIndex(c)
    PROVE  ~ OutOfRange(c)
<1>1. SUFFICES ASSUME OutOfRange(c) PROVE FALSE
  OBVIOUS
<1>2. pc[c] = "locked" /\ op[c].kind = "update" /\ UpdateLoop(c).end = "panic"
  BY <1>1 DEF OutOfRange
<1>3. conf[c] \in Seq(Owned) /\ op[c] \in Statements /\ serverIndex = IndexOf(conf[c])
  BY <1>2, CallTypes, StatementsAskable DEF StoreOK, OwnIndex
<1> DEFINE E == {"ok", "error"}
<1>4. Stays(Len(conf[c]), E)
  <2>1. \A u \in DOMAIN serverIndex : serverIndex[u] \in 1 .. Len(conf[c])
    BY <1>3, IndexType
  <2>2. Len(conf[c]) \in Nat
    BY <1>3
  <2>3. QED
    BY <2>1, <2>2 DEF Stays
<1>5. UpdateLoop(c) \in Outcomes(Len(conf[c]), E)
  BY <1>2, <1>3, <1>4, UpdateLoopType
<1>6. UpdateLoop(c).end \in E
  BY <1>5 DEF Outcomes
<1>7. QED
  BY <1>2, <1>6

AloneMoves(c) ==
    \/ (\E st \in Statements : Call(c, st)) \/ Advance(c)
    \/ Restart
    \/ UNCHANGED vars

(* Nobody else changes the index.                                          *)
LEMMA OwnIndexStep ==
    ASSUME NEW c \in Clients, StoreOK(Statements), OwnIndex(c), AloneMoves(c)
    PROVE  OwnIndex(c)'
<1>0. CallsOK(Statements)
  BY DEF StoreOK
<1>1. ASSUME NEW st \in Statements, Call(c, st) PROVE OwnIndex(c)'
  <2>1. /\ pc'[c] = "open" /\ conf'[c] = DefaultRows /\ serverIndex' = IndexOf(DefaultRows)
    BY <1>0, <1>1 DEF Call, Goto, CallsOK
  <2>2. QED
    BY <2>1 DEF OwnIndex, DefaultRows, Encrypted, IndexOf, UsersIn
<1>2. ASSUME ReadFile(c) PROVE OwnIndex(c)'
  <2>1. /\ pc[c] = "open" /\ pc'[c] = IF file.state = "absent" THEN "loaded" ELSE "reindex"
        /\ conf'[c] = (IF file.state = "whole" THEN file.rows ELSE conf[c])
        /\ serverIndex' = serverIndex
    BY <1>0, <1>2 DEF ReadFile, Goto, CallsOK
  <2>2. CASE file.state = "absent"
    <3>1. conf'[c] = conf[c] /\ serverIndex' = IndexOf(conf[c])
      BY <2>1, <2>2 DEF OwnIndex
    <3>2. QED
      BY <2>1, <2>2, <3>1 DEF OwnIndex, IndexOf, UsersIn
  <2>3. CASE file.state # "absent"
    BY <2>1, <2>3 DEF OwnIndex
  <2>4. QED
    BY <2>2, <2>3
<1>3. ASSUME OpenFails(c) PROVE OwnIndex(c)'
  <2>1. /\ pc[c] = "open" /\ pc'[c] = "loaded" /\ conf'[c] = conf[c] /\ serverIndex' = serverIndex
    BY <1>0, <1>3 DEF OpenFails, Goto, CallsOK
  <2>2. serverIndex' = IndexOf(conf[c])
    BY <2>1 DEF OwnIndex
  <2>3. QED
    BY <2>1, <2>2 DEF OwnIndex, IndexOf, UsersIn
<1>4. ASSUME Reindex(c) PROVE OwnIndex(c)'
  <2>1. pc'[c] = "loaded" /\ conf' = conf /\ serverIndex' = IndexOf(conf[c])
    BY <1>0, <1>4 DEF Reindex, Goto, CallsOK
  <2>2. QED
    BY <2>1 DEF OwnIndex, IndexOf, UsersIn
<1>5. ASSUME Lock(c) PROVE OwnIndex(c)'
  <2>1. pc[c] = "loaded" /\ pc'[c] = "locked" /\ conf' = conf /\ serverIndex' = serverIndex
    BY <1>0, <1>5 DEF Lock, Goto, CallsOK
  <2>2. QED
    BY <2>1 DEF OwnIndex, IndexOf, UsersIn
<1>6. ASSUME pc'[c] \in {"idle", "reading", "reindex", "put", "encode"} PROVE OwnIndex(c)'
  BY <1>6 DEF OwnIndex
<1>7. ASSUME NEW from, NEW to \in {"reading", "reindex", "put", "encode"}, Goto(c, from, to)
      PROVE  OwnIndex(c)'
  BY <1>0, <1>6, <1>7 DEF Goto, CallsOK
<1>8. ASSUME ReadPart(c) \/ ReadRest(c) \/ ReadTorn(c) \/ ReadBroken(c) PROVE OwnIndex(c)'
  BY <1>7, <1>8 DEF ReadPart, ReadRest, ReadTorn, ReadBroken
<1>9. ASSUME NEW from, NEW a, Ends(c, from, a) PROVE OwnIndex(c)'
  BY <1>0, <1>6, <1>9 DEF Ends, Goto, CallsOK
<1>10. ASSUME NEW from, Fails(c, from) \/ \E a : Returns(c, from, a) PROVE OwnIndex(c)'
  BY <1>9, <1>10 DEF Fails, Returns
<1>11. ASSUME \/ Select(c) \/ GetPassword(c) \/ NothingChosen(c)
             \/ InsertFails(c) \/ UpdateFails(c) \/ EncryptFails(c)
      PROVE  OwnIndex(c)'
  BY <1>10, <1>11 DEF Select, GetPassword, NothingChosen, InsertFails, UpdateFails, EncryptFails
<1>12. ASSUME Delete(c) \/ Insert(c) \/ Update(c) PROVE OwnIndex(c)'
  <2>1. \E from : Goto(c, from, "put")
    BY <1>12 DEF Delete, Insert, Update
  <2>2. QED
    BY <2>1, <1>7
<1>13. ASSUME PutConfig(c) PROVE OwnIndex(c)'
  BY <1>7, <1>9, <1>10, <1>13 DEF PutConfig, CreateFails, Create, Encode, EncodeFails
<1>14. CASE Restart
  BY <1>6, <1>14 DEF Restart
<1>15. CASE UNCHANGED vars
  BY <1>15 DEF vars, clientVars, OwnIndex, IndexOf, UsersIn
<1>16. QED
  BY <1>1, <1>2, <1>4, <1>5, <1>11, <1>12, <1>13, <1>14, <1>15, <1>3, <1>8
     DEF AloneMoves, Advance, GetConfig

(* One caller finds in the index the positions of its own rows while it    *)
(* holds mu, and no UPDATE of its comes to a position beyond them:         *)
(* makeIndex is called again after the file is read (serverconfig.go:103). *)
THEOREM OneCallersIndex ==
    ASSUME NEW CONSTANT client, Clients = {client}
    PROVE  AloneSpec => []IndexIsOfConfig
<1> DEFINE Inv == StoreOK(Statements) /\ OwnIndex(client)
<1>0. client \in Clients
  OBVIOUS
<1>1. Init => Inv
  <2>1. Init => OwnIndex(client)
    BY DEF Init, Idle, OwnIndex
  <2>2. QED
    BY <2>1, StoreStarts, AbsentOK DEF Init
<1>2. Inv /\ [AloneNext]_vars => Inv'
  <2>1. [AloneNext]_vars => Moves(Statements)
    BY DEF AloneNext, AloneAdvance, GetConfig, Advance, Moves, Work
  <2>2. [AloneNext]_vars => AloneMoves(client)
    BY DEF AloneNext, AloneAdvance, GetConfig, Advance, AloneMoves
  <2>3. QED
    BY <1>0, <2>1, <2>2, StoreStep, OwnIndexStep, StatementsAskable
<1>3. Inv => IndexIsOfConfig
  <2>1. Inv => \A c \in Clients : OwnIndex(c) /\ ~ OutOfRange(c)
    BY OwnIndexInRange
  <2>2. QED
    BY <2>1 DEF IndexIsOfConfig, OwnIndex
<1> HIDE DEF Inv
<1>4. QED
  BY <1>1, <1>2, <1>3, PTL DEF AloneSpec
=============================================================================
