----------------------------- MODULE Selections -----------------------------
(***************************************************************************)
(* The elements of a sequence that a set keeps, as a recursive function: a *)
(* form of SelectSeq that can be reasoned about.                           *)
(***************************************************************************)
EXTENDS Naturals, Sequences

(* The elements of q that are in T, in the order they have in q.           *)
Selected(q, T) ==
    LET sel[i \in 0 .. Len(q)] ==
            IF i = 0 THEN <<>>
            ELSE IF q[i] \in T THEN Append(sel[i - 1], q[i]) ELSE sel[i - 1]
    IN  sel[Len(q)]
=============================================================================
