--------------------------- MODULE SequenceLemmas ---------------------------
(***************************************************************************)
(* Induction on the natural numbers and on sequences, over sets, and what  *)
(* follows from it about recursive functions and about Selected.           *)
(***************************************************************************)
EXTENDS Selections, WellFoundedInduction, SequenceTheorems, TLAPS

-----------------------------------------------------------------------------
(* Induction.  A property of numbers or of sequences is the set of those   *)
(* that have it.                                                           *)

(* Every set of numbers has a least one.                                   *)
LEMMA LeastNumber ==
    ASSUME NEW T, T \subseteq Nat, T # {}
    PROVE  \E x \in T : \A y \in T : x <= y
<1>1. \E x \in T : \A y \in T : ~ (<<y, x>> \in OpToRel(<, Nat))
  BY NatLessThanWellFounded, WFMin, Zenon
<1>2. \A x, y \in Nat : ~ (<<y, x>> \in OpToRel(<, Nat)) => x <= y
  BY DEF OpToRel
<1>3. QED
  BY <1>1, <1>2

(* A set that has 0 and with every number the next one has them all.       *)
LEMMA Induction ==
    ASSUME NEW T, 0 \in T, \A n \in Nat : n \in T => n + 1 \in T
    PROVE  Nat \subseteq T
<1>1. SUFFICES ASSUME Nat \ T # {} PROVE FALSE
  OBVIOUS
<1>2. PICK x \in Nat \ T : \A y \in Nat \ T : x <= y
  BY <1>1, LeastNumber
<1>3. x - 1 \in Nat
  OBVIOUS
<1>4. x - 1 \in T
  BY <1>2, <1>3
<1>5. QED
  BY <1>3, <1>4

(* A set that has the empty sequence and with every sequence the longer    *)
(* ones has them all.                                                      *)
LEMMA SeqInduction ==
    ASSUME NEW S, NEW P, <<>> \in P,
           \A q \in Seq(S), x \in S : q \in P => Append(q, x) \in P
    PROVE  Seq(S) \subseteq P
<1> DEFINE T == {n \in Nat : \A q \in Seq(S) : Len(q) = n => q \in P}
<1>1. 0 \in T
  <2>1. \A q \in Seq(S) : Len(q) = 0 => q = <<>>
    OBVIOUS
  <2>2. QED
    BY <2>1
<1>2. ASSUME NEW n \in Nat, n \in T
      PROVE  n + 1 \in T
  <2>1. SUFFICES ASSUME NEW q \in Seq(S), Len(q) = n + 1
                 PROVE  q \in P
    OBVIOUS
  <2>2. q # <<>>
    BY <2>1
  <2>3. PICK p \in Seq(S), x \in S : q = Append(p, x)
    BY <2>2, SequenceEmptyOrAppend
  <2>4. Len(p) = n
    BY <2>1, <2>3
  <2>5. QED
    BY <1>2, <2>3, <2>4
<1>3. Nat \subseteq T
  BY <1>1, <1>2, Induction
<1>4. \A q \in Seq(S) : Len(q) \in Nat
  OBVIOUS
<1>5. QED
  BY <1>3, <1>4

-----------------------------------------------------------------------------
(* Recursive functions.                                                    *)

(* A recursion on 0 .. n has a solution ...                                *)
LEMMA Iteration ==
    ASSUME NEW S, NEW b \in S, NEW g \in [Nat -> [S -> S]], NEW n \in Nat
    PROVE  \E f \in [0 .. n -> S] :
              f[0] = b /\ \A i \in 1 .. n : f[i] = g[i][f[i - 1]]
<1> DEFINE T == {k \in Nat : \E f \in [0 .. k -> S] :
                    f[0] = b /\ \A i \in 1 .. k : f[i] = g[i][f[i - 1]]}
<1>1. 0 \in T
  <2> DEFINE e == [i \in 0 .. 0 |-> b]
  <2>1. e \in [0 .. 0 -> S] /\ e[0] = b /\ 1 .. 0 = {}
    OBVIOUS
  <2> HIDE DEF e
  <2>2. \E f \in [0 .. 0 -> S] : f[0] = b /\ \A i \in 1 .. 0 : f[i] = g[i][f[i - 1]]
    BY <2>1
  <2>3. QED
    BY <2>2
<1>2. ASSUME NEW k \in Nat, k \in T
      PROVE  k + 1 \in T
  <2>1. PICK f \in [0 .. k -> S] : f[0] = b /\ \A i \in 1 .. k : f[i] = g[i][f[i - 1]]
    BY <1>2
  <2> DEFINE h == [i \in 0 .. k + 1 |-> IF i = k + 1 THEN g[k + 1][f[k]] ELSE f[i]]
  <2>2. g[k + 1][f[k]] \in S
    OBVIOUS
  <2>3. h \in [0 .. k + 1 -> S]
    BY <2>2
  <2>4. h[0] = b
    BY <2>1
  <2>5. ASSUME NEW i \in 1 .. k + 1
        PROVE  h[i] = g[i][h[i - 1]]
    <3>1. CASE i = k + 1
      BY <3>1
    <3>2. CASE i # k + 1
      <4>1. i \in 1 .. k /\ i - 1 \in 0 .. k /\ i - 1 # k + 1
        BY <3>2
      <4>2. h[i] = f[i] /\ h[i - 1] = f[i - 1]
        BY <4>1
      <4>3. QED
        BY <2>1, <4>1, <4>2
    <3>3. QED
      BY <3>1, <3>2
  <2> HIDE DEF h
  <2>6. k + 1 \in Nat /\ \E f1 \in [0 .. k + 1 -> S] :
           f1[0] = b /\ \A i \in 1 .. k + 1 : f1[i] = g[i][f1[i - 1]]
    BY <2>3, <2>4, <2>5
  <2>7. QED
    BY <2>6
<1>3. Nat \subseteq T
  BY <1>1, <1>2, Induction
<1>4. QED
  BY <1>3

(* The same, its data named: b at 0, then step g[i] of what was at i - 1.  *)
Steps(S) == [Nat -> [S -> S]]

Iterates(f, S, b, g, n) ==
    /\ f \in [0 .. n -> S]
    /\ f[0] = b
    /\ \A i \in 1 .. n : f[i] = g[i][f[i - 1]]

(* The same as a formula, for every step function.                         *)
LEMMA IterationOf ==
    \A S : \A b \in S : \A g \in Steps(S) : \A n \in Nat : \E f : Iterates(f, S, b, g, n)
BY Iteration DEF Steps, Iterates

(* Two functions that begin alike and take the same steps ...              *)
Alike(f, h, n) ==
    f[0] = h[0] /\ \A i \in 1 .. n : f[i - 1] = h[i - 1] => f[i] = h[i]

(* ... are one: the iteration is unique.                                   *)
LEMMA IterationUnique ==
    \A n \in Nat : \A f, h : Alike(f, h, n) => \A i \in 0 .. n : f[i] = h[i]
<1>1. SUFFICES ASSUME NEW n \in Nat, NEW f, NEW h, Alike(f, h, n)
               PROVE  \A i \in 0 .. n : f[i] = h[i]
  OBVIOUS
<1> DEFINE T == {i \in Nat : i <= n => f[i] = h[i]}
<1>2. 0 \in T
  BY <1>1 DEF Alike
<1>3. ASSUME NEW k \in Nat, k \in T PROVE k + 1 \in T
  <2>1. CASE k + 1 <= n
    <3>1. k + 1 \in 1 .. n /\ (k + 1) - 1 = k /\ k <= n
      BY <2>1
    <3>2. f[k] = h[k]
      BY <1>3, <3>1
    <3>3. f[k + 1] = h[k + 1]
      BY <1>1, <3>1, <3>2 DEF Alike
    <3>4. QED
      BY <3>3
  <2>2. CASE ~ (k + 1 <= n)
    BY <2>2
  <2>3. QED
    BY <2>1, <2>2
<1>4. Nat \subseteq T
  <2> HIDE DEF T
  <2>1. QED
    BY <1>2, <1>3, Induction
<1>5. QED
  BY <1>4

-----------------------------------------------------------------------------
(* Sequences.                                                              *)

(* A sequence is its first element and the rest.                           *)
LEMMA ConsHeadTail ==
    ASSUME NEW S, NEW q \in Seq(S), q # <<>>
    PROVE  <<Head(q)>> \o Tail(q) = q
OBVIOUS

(* ... and putting an element in front is undone by taking the rest.       *)
LEMMA TailCons ==
    ASSUME NEW S, NEW q \in Seq(S), NEW x \in S
    PROVE  /\ <<x>> \o q \in Seq(S)
           /\ <<x>> \o q # <<>>
           /\ Head(<<x>> \o q) = x
           /\ Tail(<<x>> \o q) = q
OBVIOUS

(* Append and concatenation.                                               *)
LEMMA ConcatAppend ==
    ASSUME NEW S, NEW p \in Seq(S), NEW q \in Seq(S), NEW x \in S
    PROVE  p \o Append(q, x) = Append(p \o q, x)
OBVIOUS

(* An element added to the end of two joined sequences is added to the     *)
(* second.                                                                 *)
LEMMA AppendConcat ==
    \A V : \A y \in V : \A a, c \in Seq(V) : Append(a \o c, y) = a \o Append(c, y)
<1>1. SUFFICES ASSUME NEW V, NEW y \in V, NEW a \in Seq(V), NEW c \in Seq(V)
               PROVE  Append(a \o c, y) = a \o Append(c, y)
  OBVIOUS
<1>2. QED
  OBVIOUS

(* The front of a concatenation.                                           *)
LEMMA ConcatLeft ==
    ASSUME NEW S, NEW a \in Seq(S), NEW b \in Seq(S)
    PROVE  /\ Len(a \o b) = Len(a) + Len(b) /\ Len(a) \in Nat /\ Len(b) \in Nat
           /\ \A i \in 1 .. Len(a) : (a \o b)[i] = a[i]
OBVIOUS

(* A sequence of length one.                                               *)
LEMMA OneElement ==
    ASSUME NEW S, NEW a \in Seq(S), NEW x, Len(a) = 1, a[1] = x
    PROVE  a = <<x>>
OBVIOUS

(* The first element of a sequence.                                        *)
LEMMA FirstAppended ==
    ASSUME NEW x
    PROVE  Append(<<>>, x) = <<x>>
OBVIOUS

(* A sequence is a beginning of a longer one, and of itself.               *)
LEMMA AppendIsBeginning ==
    ASSUME NEW S, NEW a \in Seq(S), NEW x \in S
    PROVE  /\ Len(a) = Len(Append(a, x)) - 1
           /\ a = SubSeq(Append(a, x), 1, Len(a))
           /\ Append(a, x) = SubSeq(Append(a, x), 1, Len(Append(a, x)))
<1> DEFINE c == Append(a, x)
<1>1. /\ Len(a) = Len(c) - 1 /\ Len(a) \in Nat /\ c \in Seq(S)
      /\ \A i \in 1 .. Len(a) : c[i] = a[i]
  OBVIOUS
<1> HIDE DEF c
<1>2. a = SubSeq(c, 1, Len(a))
  BY <1>1
<1>3. c = SubSeq(c, 1, Len(c))
  BY <1>1
<1>4. QED
  BY <1>1, <1>2, <1>3 DEF c

(* A beginning of a beginning is a beginning.                              *)
LEMMA Beginning ==
    ASSUME NEW S, NEW a \in Seq(S), NEW b \in Seq(S), NEW w \in Seq(S),
           Len(a \o b) <= Len(w), a \o b = SubSeq(w, 1, Len(a \o b))
    PROVE  Len(a) <= Len(w) /\ a = SubSeq(w, 1, Len(a))
<1>1. /\ Len(a) \in Nat /\ Len(b) \in Nat /\ Len(w) \in Nat
      /\ Len(a \o b) = Len(a) + Len(b)
      /\ \A i \in 1 .. Len(a) : (a \o b)[i] = a[i]
  OBVIOUS
<1> DEFINE c == a \o b
<1>2. \A i \in 1 .. Len(c) : SubSeq(w, 1, Len(c))[i] = w[i]
  <2>1. c \in Seq(S)
    OBVIOUS
  <2> HIDE DEF c
  <2>2. QED
    BY <1>1, <2>1 DEF c
<1>3. \A i \in 1 .. Len(a) : a[i] = w[i]
  BY <1>1, <1>2
<1>4. QED
  BY <1>1, <1>3

(* What begins a sequence of one element.                                  *)
LEMMA BeginningOfOne ==
    ASSUME NEW S, NEW a \in Seq(S), NEW b \in Seq(S), NEW x, a \o b = <<x>>
    PROVE  a = <<>> \/ a = <<x>>
<1> DEFINE c == a \o b
<1>1. /\ c = <<x>>
      /\ Len(c) = Len(a) + Len(b) /\ Len(a) \in Nat /\ Len(b) \in Nat
      /\ \A i \in 1 .. Len(a) : c[i] = a[i]
  BY ConcatLeft
<1> HIDE DEF c
<1>2. Len(c) = 1 /\ c[1] = x
  BY <1>1
<1>3. Len(a) = 0 \/ Len(a) = 1
  BY <1>1, <1>2
<1>4. CASE Len(a) = 0
  <2>1. a = <<>>
    BY <1>4
  <2>2. QED
    BY <2>1, Zenon
<1>5. CASE Len(a) = 1
  <2>1. a[1] = x
    BY <1>1, <1>2, <1>5
  <2>2. QED
    BY <1>5, <2>1, OneElement
<1>6. QED
  BY <1>3, <1>4, <1>5, Zenon

(* An element leaves the front of one sequence for the end of another.     *)
LEMMA MovesOver ==
    ASSUME NEW S, NEW p \in Seq(S), NEW q \in Seq(S), q # <<>>
    PROVE  Append(p, Head(q)) \o Tail(q) = p \o q
OBVIOUS

(* Joining is associative.                                                 *)
LEMMA ConcatAssoc ==
    ASSUME NEW S, NEW a \in Seq(S), NEW b \in Seq(S), NEW c \in Seq(S)
    PROVE  a \o (b \o c) = (a \o b) \o c
OBVIOUS

(* The same of any three sequences, by a name the provers find at once.    *)
Grouped(a, b, c) == a \o (b \o c) = (a \o b) \o c

(* Joining is associative, for all sequences at once.                      *)
LEMMA ConcatGrouped == \A S : \A a, b, c \in Seq(S) : Grouped(a, b, c)
<1>1. SUFFICES ASSUME NEW S, NEW a \in Seq(S), NEW b \in Seq(S), NEW c \in Seq(S)
               PROVE  Grouped(a, b, c)
  BY Zenon
<1>2. a \o (b \o c) = (a \o b) \o c
  BY ConcatAssoc
<1>3. QED
  BY <1>2 DEF Grouped

(* The first elements of a sequence, and the others.                       *)
LEMMA Slice ==
    ASSUME NEW S, NEW q \in Seq(S), NEW k \in 0 .. Len(q)
    PROVE  SubSeq(q, 1, k) \in Seq(S) /\ SubSeq(q, k + 1, Len(q)) \in Seq(S)
<1>1. Len(q) \in Nat
  OBVIOUS
<1>2. SubSeq(q, 1, k) \in Seq(S)
  BY <1>1, SubSeqProperties
<1>3. SubSeq(q, k + 1, Len(q)) \in Seq(S)
  BY <1>1, SubSeqProperties
<1>4. QED
  BY <1>2, <1>3

(* A sequence is its first elements and the others.                        *)
LEMMA SliceJoin ==
    ASSUME NEW S, NEW q \in Seq(S), NEW k \in 0 .. Len(q)
    PROVE  SubSeq(q, 1, k) \o SubSeq(q, k + 1, Len(q)) = q
<1> DEFINE a == SubSeq(q, 1, k)
           b == SubSeq(q, k + 1, Len(q))
<1>1. Len(q) \in Nat /\ k \in Nat /\ k <= Len(q)
  OBVIOUS
<1>2. a \in Seq(S) /\ Len(a) = k /\ \A i \in 1 .. k : a[i] = q[i]
  BY <1>1
<1>3. b \in Seq(S) /\ Len(b) = Len(q) - k /\ \A i \in 1 .. Len(q) - k : b[i] = q[k + i]
  BY <1>1
<1> HIDE DEF a, b
<1>4. /\ a \o b \in Seq(S) /\ Len(a \o b) = Len(q)
      /\ \A i \in 1 .. Len(q) : (a \o b)[i] = IF i <= k THEN a[i] ELSE b[i - k]
  BY <1>1, <1>2, <1>3
<1>5. \A i \in 1 .. Len(q) : (a \o b)[i] = q[i]
  <2>1. SUFFICES ASSUME NEW i \in 1 .. Len(q) PROVE (a \o b)[i] = q[i]
    OBVIOUS
  <2>2. CASE i <= k
    BY <1>2, <1>4, <2>2
  <2>3. CASE ~ (i <= k)
    <3>1. i - k \in 1 .. Len(q) - k /\ k + (i - k) = i
      BY <1>1, <2>3
    <3>2. QED
      BY <1>3, <1>4, <2>3, <3>1
  <2>4. QED
    BY <2>2, <2>3
<1>6. a \o b = q
  <2> DEFINE d == a \o b
  <2>1. d \in Seq(S) /\ Len(d) = Len(q) /\ \A i \in 1 .. Len(q) : d[i] = q[i]
    BY <1>4, <1>5
  <2> HIDE DEF d
  <2>2. d = q
    BY <2>1, SeqEqual
  <2>3. QED
    BY <2>2 DEF d
<1>7. QED
  BY <1>6 DEF a, b

(* The first of two joined sequences keeps its head.                       *)
LEMMA FirstJoined ==
    ASSUME NEW S, NEW a \in Seq(S), NEW b \in Seq(S), a # <<>>
    PROVE  /\ Head(a \o b) = Head(a) /\ Tail(a \o b) = Tail(a) \o b
           /\ a \o b # <<>> /\ Tail(a) \in Seq(S)
OBVIOUS

(* The second of two joined sequences has the elements of the whole.       *)
LEMMA RightPartType ==
    ASSUME NEW S, NEW T, NEW a \in Seq(S), NEW b \in Seq(S), NEW q \in Seq(T), q = a \o b
    PROVE  b \in Seq(T)
<1>1. /\ Len(q) = Len(a) + Len(b) /\ Len(a) \in Nat /\ Len(b) \in Nat
      /\ \A i \in 1 .. Len(b) : q[Len(a) + i] = b[i]
  OBVIOUS
<1>2. \A i \in 1 .. Len(b) : b[i] \in T
  <2>1. SUFFICES ASSUME NEW i \in 1 .. Len(b) PROVE b[i] \in T
    OBVIOUS
  <2>2. Len(a) + i \in 1 .. Len(q)
    BY <1>1
  <2>3. q[Len(a) + i] \in T
    BY <2>2
  <2>4. QED
    BY <1>1, <2>3
<1>3. b = [i \in 1 .. Len(b) |-> b[i]]
  OBVIOUS
<1>4. QED
  BY <1>1, <1>2, <1>3

(* Append joins a sequence of one.                                         *)
LEMMA AppendedOne == \A S : \A a \in Seq(S) : \A x \in S : Append(a, x) = a \o <<x>>
<1>1. SUFFICES ASSUME NEW S, NEW a \in Seq(S), NEW x \in S PROVE Append(a, x) = a \o <<x>>
  BY Zenon
<1>2. QED
  OBVIOUS

(* Nothing joined.                                                         *)
LEMMA EmptyRight == \A S : \A a \in Seq(S) : a \o <<>> = a
<1>1. SUFFICES ASSUME NEW S, NEW a \in Seq(S) PROVE a \o <<>> = a
  BY Zenon
<1>2. QED
  OBVIOUS

-----------------------------------------------------------------------------
(* Selected.                                                               *)

(* Selected is what its recursion says.                                    *)
LEMMA SelectedRecursion ==
    ASSUME NEW S, NEW q \in Seq(S), NEW T
    PROVE  \E f \in [0 .. Len(q) -> Seq(S)] :
              /\ f[0] = <<>>
              /\ \A i \in 1 .. Len(q) :
                    f[i] = IF q[i] \in T THEN Append(f[i - 1], q[i]) ELSE f[i - 1]
              /\ Selected(q, T) = f[Len(q)]
<1> DEFINE n == Len(q)
           Body(f) == [i \in 0 .. Len(q) |->
                          IF i = 0 THEN <<>>
                          ELSE IF q[i] \in T THEN Append(f[i - 1], q[i]) ELSE f[i - 1]]
           g == [i \in Nat |-> [v \in Seq(S) |->
                    IF i \in 1 .. n /\ q[i] \in T THEN Append(v, q[i]) ELSE v]]
<1>1. n \in Nat
  OBVIOUS
<1>2. g \in [Nat -> [Seq(S) -> Seq(S)]]
  OBVIOUS
<1>3. <<>> \in Seq(S)
  OBVIOUS
<1>4. PICK f \in [0 .. n -> Seq(S)] :
         f[0] = <<>> /\ \A i \in 1 .. n : f[i] = g[i][f[i - 1]]
  <2> DEFINE V == Seq(S)
             b == <<>>
  <2>1. b \in V /\ g \in Steps(V) /\ n \in Nat
    BY <1>1, <1>2, <1>3 DEF Steps
  <2> HIDE DEF g, n, V, b
  <2>2. \E f : Iterates(f, V, b, g, n)
    BY <2>1, IterationOf, Zenon
  <2>3. QED
    BY <2>2 DEF V, b, Iterates
<1>5. \A i \in 1 .. n : f[i] = IF q[i] \in T THEN Append(f[i - 1], q[i]) ELSE f[i - 1]
  <2>1. SUFFICES ASSUME NEW i \in 1 .. n
                 PROVE  f[i] = IF q[i] \in T THEN Append(f[i - 1], q[i]) ELSE f[i - 1]
    OBVIOUS
  <2>2. f[i - 1] \in Seq(S) /\ i \in Nat
    BY <1>1
  <2>3. g[i][f[i - 1]] = IF q[i] \in T THEN Append(f[i - 1], q[i]) ELSE f[i - 1]
    BY <2>2
  <2>4. QED
    BY <1>4, <2>3
<1>6. f = Body(f)
  <2>1. \A i \in 0 .. n : i = 0 \/ i \in 1 .. n
    BY <1>1
  <2>2. \A i \in 0 .. n : f[i] = IF i = 0 THEN <<>>
                                ELSE IF q[i] \in T THEN Append(f[i - 1], q[i]) ELSE f[i - 1]
    BY <1>1, <1>4, <1>5, <2>1
  <2>3. f = [i \in 0 .. n |-> f[i]]
    OBVIOUS
  <2>4. QED
    BY <2>2, <2>3
<1> DEFINE F == CHOOSE h : h = Body(h)
<1>7. F = Body(F)
  <2> HIDE DEF Body
  <2>1. QED
    BY <1>6
<1>8. Selected(q, T) = F[n]
  BY DEF Selected
<1> HIDE DEF F, g
<1>9. F = f
  <2>0. \A i \in 0 .. n : F[i] = IF i = 0 THEN <<>>
                                ELSE IF q[i] \in T THEN Append(F[i - 1], q[i]) ELSE F[i - 1]
    BY <1>7
  <2> HIDE DEF Body
  <2>1. F[0] = f[0]
    BY <2>0, <1>4, <1>1
  <2>2. ASSUME NEW i \in 1 .. n, F[i - 1] = f[i - 1]
        PROVE  F[i] = f[i]
    <3>1. F[i] = IF q[i] \in T THEN Append(F[i - 1], q[i]) ELSE F[i - 1]
      BY <2>0, <1>1
    <3>2. QED
      BY <1>5, <2>2, <3>1
  <2> HIDE DEF n
  <2>3. \A i \in 0 .. n : F[i] = f[i]
    <3>1. Alike(F, f, n)
      BY <2>1, <2>2 DEF Alike
    <3>2. QED
      BY <1>1, <3>1, IterationUnique
  <2>4. F = [i \in 0 .. n |-> F[i]] /\ f = [i \in 0 .. n |-> f[i]]
    BY <1>7 DEF Body, n
  <2>5. QED
    BY <2>3, <2>4
<1>10. QED
  BY <1>4, <1>5, <1>8, <1>9

(* The same for all sequences and sets, by a name.                         *)
Selects(f, q, T) ==
    /\ f[0] = <<>>
    /\ \A i \in 1 .. Len(q) : f[i] = IF q[i] \in T THEN Append(f[i - 1], q[i]) ELSE f[i - 1]
    /\ Selected(q, T) = f[Len(q)]

(* The recursion that selects has a solution, whatever the sequence and    *)
(* the set.                                                                *)
LEMMA SelectedRecursionOf == \A S, T : \A q \in Seq(S) : \E f : Selects(f, q, T)
BY SelectedRecursion DEF Selects

(* Nothing is selected from nothing.                                       *)
LEMMA SelectedEmpty ==
    ASSUME NEW T
    PROVE  Selected(<<>>, T) = <<>>
<1> DEFINE e == <<>>
           S == {}
<1>1. e \in Seq(S) /\ Len(e) = 0
  OBVIOUS
<1> HIDE DEF e, S
<1>2. PICK f : Selects(f, e, T)
  BY <1>1, SelectedRecursionOf, Zenon
<1>3. QED
  BY <1>1, <1>2 DEF e, Selects

(* A new last element is selected last, or not at all.                     *)
LEMMA SelectedAppend ==
    ASSUME NEW S, NEW q \in Seq(S), NEW x \in S, NEW T
    PROVE  Selected(Append(q, x), T) =
              IF x \in T THEN Append(Selected(q, T), x) ELSE Selected(q, T)
<1> DEFINE r == Append(q, x)
           n == Len(q)
<1>1. /\ r \in Seq(S) /\ Len(r) = n + 1 /\ n \in Nat
      /\ \A i \in 1 .. n : r[i] = q[i]
      /\ r[n + 1] = x
  OBVIOUS
<1>2. PICK f : /\ f[0] = <<>>
               /\ \A i \in 1 .. n :
                     f[i] = IF q[i] \in T THEN Append(f[i - 1], q[i]) ELSE f[i - 1]
               /\ Selected(q, T) = f[n]
  <2>1. \E u : Selects(u, q, T)
    BY SelectedRecursionOf, Zenon
  <2>2. QED
    BY <2>1 DEF Selects
<1> HIDE DEF r, n
<1>3. PICK h : /\ h[0] = <<>>
               /\ \A i \in 1 .. n + 1 :
                     h[i] = IF r[i] \in T THEN Append(h[i - 1], r[i]) ELSE h[i - 1]
               /\ Selected(r, T) = h[n + 1]
  <2>1. \E u : Selects(u, r, T)
    BY <1>1, SelectedRecursionOf, Zenon
  <2>2. QED
    BY <1>1, <2>1 DEF Selects
<1>4. ASSUME NEW i \in 1 .. n, f[i - 1] = h[i - 1]
      PROVE  f[i] = h[i]
  <2>1. i \in 1 .. n + 1
    BY <1>1
  <2>2. QED
    BY <1>1, <1>2, <1>3, <1>4, <2>1
<1>5. \A i \in 0 .. n : f[i] = h[i]
  <2>1. f[0] = h[0] /\ n \in Nat
    BY <1>1, <1>2, <1>3
  <2>2. Alike(f, h, n)
    BY <1>4, <2>1 DEF Alike
  <2>3. QED
    BY <2>1, <2>2, IterationUnique
<1>6. f[n] = h[n] /\ (n + 1) - 1 = n /\ n + 1 \in 1 .. n + 1
  BY <1>1, <1>5
<1>7. h[n + 1] = IF r[n + 1] \in T THEN Append(h[(n + 1) - 1], r[n + 1]) ELSE h[(n + 1) - 1]
  BY <1>3, <1>6
<1>8. QED
  BY <1>1, <1>2, <1>3, <1>6, <1>7 DEF r

(* What is selected is in the set.                                         *)
LEMMA SelectedType ==
    ASSUME NEW S, NEW T
    PROVE  \A q \in Seq(S) : Selected(q, T) \in Seq(S \cap T)
<1> DEFINE P == {q \in Seq(S) : Selected(q, T) \in Seq(S \cap T)}
<1>1. <<>> \in P
  <2>1. <<>> \in Seq(S) /\ <<>> \in Seq(S \cap T)
    OBVIOUS
  <2>2. QED
    BY <2>1, SelectedEmpty
<1>2. ASSUME NEW q \in Seq(S), NEW x \in S, q \in P
      PROVE  Append(q, x) \in P
  <2>1. Selected(q, T) \in Seq(S \cap T) /\ Append(q, x) \in Seq(S)
    BY <1>2
  <2>2. x \in T => Append(Selected(q, T), x) \in Seq(S \cap T)
    <3>1. x \in T => x \in S \cap T
      OBVIOUS
    <3>2. QED
      BY <2>1, <3>1, AppendProperties
  <2>4. Selected(Append(q, x), T) \in Seq(S \cap T)
    <3>1. Selected(Append(q, x), T) = IF x \in T THEN Append(Selected(q, T), x) ELSE Selected(q, T)
      BY SelectedAppend
    <3>2. QED
      BY <2>1, <2>2, <3>1
  <2>5. QED
    BY <2>1, <2>4
<1>3. Seq(S) \subseteq P
  <2> HIDE DEF P
  <2>1. QED
    BY <1>1, <1>2, SeqInduction
<1>4. QED
  BY <1>3

(* Selecting from a concatenation is selecting from its parts.             *)
LEMMA SelectedConcat ==
    ASSUME NEW S, NEW p \in Seq(S), NEW T
    PROVE  \A q \in Seq(S) : Selected(p \o q, T) = Selected(p, T) \o Selected(q, T)
<1> DEFINE P == {q \in Seq(S) : Selected(p \o q, T) = Selected(p, T) \o Selected(q, T)}
<1>1. <<>> \in P
  <2>1. Selected(p, T) \in Seq(S \cap T)
    BY SelectedType
  <2>2. p \o <<>> = p /\ Selected(p, T) \o <<>> = Selected(p, T) /\ <<>> \in Seq(S)
    BY <2>1
  <2>3. QED
    BY <2>2, SelectedEmpty
<1>2. ASSUME NEW q \in Seq(S), NEW x \in S, q \in P
      PROVE  Append(q, x) \in P
  <2>1. /\ Selected(p, T) \in Seq(S \cap T) /\ Selected(q, T) \in Seq(S \cap T)
        /\ Append(q, x) \in Seq(S) /\ p \o q \in Seq(S)
    BY SelectedType
  <2>2. p \o Append(q, x) = Append(p \o q, x)
    BY ConcatAppend
  <2>3. Selected(p \o q, T) = Selected(p, T) \o Selected(q, T)
    BY <1>2
  <2>4. CASE x \in T
    <3>1. /\ Selected(Append(p \o q, x), T) = Append(Selected(p \o q, T), x)
          /\ Selected(Append(q, x), T) = Append(Selected(q, T), x)
      <4> DEFINE r == p \o q
      <4>1. r \in Seq(S)
        BY <2>1
      <4> HIDE DEF r
      <4>2. Selected(Append(r, x), T) = Append(Selected(r, T), x)
        BY <4>1, <2>4, SelectedAppend
      <4>3. QED
        BY <4>2, <2>4, SelectedAppend DEF r
    <3>2. Append(Selected(p, T) \o Selected(q, T), x) = Selected(p, T) \o Append(Selected(q, T), x)
      <4> DEFINE V == S \cap T
                 sp == Selected(p, T)
                 sq == Selected(q, T)
      <4>1. sp \in Seq(V) /\ sq \in Seq(V) /\ x \in V
        BY <2>1, <2>4
      <4> HIDE DEF V, sp, sq
      <4>2. \A y \in V : \A a, c \in Seq(V) : Append(a \o c, y) = a \o Append(c, y)
        BY AppendConcat
      <4>3. Append(sp \o sq, x) = sp \o Append(sq, x)
        BY <4>1, <4>2
      <4>4. QED
        BY <4>3 DEF sp, sq
    <3>3. QED
      BY <2>1, <2>2, <2>3, <3>1, <3>2
  <2>5. CASE x \notin T
    <3>1. /\ Selected(Append(p \o q, x), T) = Selected(p \o q, T)
          /\ Selected(Append(q, x), T) = Selected(q, T)
      BY <2>1, <2>5, SelectedAppend
    <3>2. QED
      BY <2>1, <2>2, <2>3, <3>1
  <2>6. QED
    BY <2>4, <2>5
<1>3. Seq(S) \subseteq P
  <2> HIDE DEF P
  <2>1. QED
    BY <1>1, <1>2, SeqInduction
<1>4. QED
  BY <1>3

(* A set that has every element selects them all.                          *)
LEMMA SelectedAll ==
    ASSUME NEW S, NEW T, S \subseteq T
    PROVE  \A q \in Seq(S) : Selected(q, T) = q
<1> DEFINE P == {q \in Seq(S) : Selected(q, T) = q}
<1>1. <<>> \in P
  BY SelectedEmpty
<1>2. ASSUME NEW q \in Seq(S), NEW x \in S, q \in P
      PROVE  Append(q, x) \in P
  BY <1>2, SelectedAppend
<1>3. Seq(S) \subseteq P
  <2> HIDE DEF P
  <2>1. QED
    BY <1>1, <1>2, SeqInduction
<1>4. QED
  BY <1>3

(* Every selected element occurs, and every element of T that occurs is selected. *)
LEMMA SelectedElements ==
    ASSUME NEW S, NEW T
    PROVE  \A q \in Seq(S) : \A x :
              (\E i \in 1 .. Len(Selected(q, T)) : Selected(q, T)[i] = x)
                 <=> x \in T /\ \E i \in 1 .. Len(q) : q[i] = x
<1> DEFINE Occurs(q, x) == \E i \in 1 .. Len(q) : q[i] = x
           P == {q \in Seq(S) : \A x : Occurs(Selected(q, T), x) <=> x \in T /\ Occurs(q, x)}
<1>1. <<>> \in P
  BY SelectedEmpty
<1>0. ASSUME NEW R, NEW q \in Seq(R), NEW y \in R, NEW x
      PROVE  Occurs(Append(q, y), x) <=> Occurs(q, x) \/ x = y
  <2>1. /\ Len(Append(q, y)) = Len(q) + 1 /\ Len(q) \in Nat
        /\ \A i \in 1 .. Len(q) : Append(q, y)[i] = q[i]
        /\ Append(q, y)[Len(q) + 1] = y
    OBVIOUS
  <2>2. QED
    BY <2>1
<1>2. ASSUME NEW q \in Seq(S), NEW y \in S, q \in P
      PROVE  Append(q, y) \in P
  <2>1. Selected(q, T) \in Seq(S \cap T) /\ Append(q, y) \in Seq(S)
    BY SelectedType
  <2>2. Selected(Append(q, y), T) = IF y \in T THEN Append(Selected(q, T), y) ELSE Selected(q, T)
    BY SelectedAppend
  <2>3. \A x : Occurs(Append(q, y), x) <=> Occurs(q, x) \/ x = y
    BY <1>0
  <2>4. y \in T => \A x : Occurs(Append(Selected(q, T), y), x) <=> Occurs(Selected(q, T), x) \/ x = y
    BY <2>1, <1>0
  <2>5. \A x : Occurs(Selected(q, T), x) <=> x \in T /\ Occurs(q, x)
    BY <1>2
  <2> HIDE DEF Occurs
  <2>6. \A x : Occurs(Selected(Append(q, y), T), x) <=> x \in T /\ Occurs(Append(q, y), x)
    BY <2>2, <2>3, <2>4, <2>5
  <2>7. QED
    BY <2>1, <2>6
<1>3. Seq(S) \subseteq P
  <2> HIDE DEF P
  <2>1. QED
    BY <1>1, <1>2, SeqInduction
<1>4. QED
  BY <1>3

(* Selected asks only for the elements that occur.                         *)
LEMMA SelectedSame ==
    ASSUME NEW S, NEW q \in Seq(S), NEW T, NEW R,
           \A i \in 1 .. Len(q) : q[i] \in T <=> q[i] \in R
    PROVE  Selected(q, T) = Selected(q, R)
<1> DEFINE n == Len(q)
<1>0. n \in Nat
  OBVIOUS
<1>1. PICK f : /\ f[0] = <<>>
               /\ \A i \in 1 .. n :
                     f[i] = IF q[i] \in T THEN Append(f[i - 1], q[i]) ELSE f[i - 1]
               /\ Selected(q, T) = f[n]
  <2>1. \E u : Selects(u, q, T)
    BY SelectedRecursionOf, Zenon
  <2>2. QED
    BY <2>1 DEF Selects
<1>2. PICK h : /\ h[0] = <<>>
               /\ \A i \in 1 .. n :
                     h[i] = IF q[i] \in R THEN Append(h[i - 1], q[i]) ELSE h[i - 1]
               /\ Selected(q, R) = h[n]
  <2>1. \E u : Selects(u, q, R)
    BY SelectedRecursionOf, Zenon
  <2>2. QED
    BY <2>1 DEF Selects
<1>3. \A i \in 1 .. n : q[i] \in T <=> q[i] \in R
  OBVIOUS
<1> HIDE DEF n
<1>4. ASSUME NEW i \in 1 .. n, f[i - 1] = h[i - 1]
      PROVE  f[i] = h[i]
  BY <1>1, <1>2, <1>3, <1>4
<1>5. \A i \in 0 .. n : f[i] = h[i]
  <2>1. f[0] = h[0]
    BY <1>1, <1>2
  <2>2. Alike(f, h, n)
    BY <1>4, <2>1 DEF Alike
  <2>3. QED
    BY <1>0, <2>2, IterationUnique
<1>6. QED
  BY <1>0, <1>1, <1>2, <1>5
=============================================================================
