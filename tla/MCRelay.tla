------------------------------- MODULE MCRelay -------------------------------
EXTENDS RelayProperties

(* The first packet has a body, the second has none.                       *)
Lengths == [i \in 1 .. MaxSent |-> IF i = 1 THEN MaxBody ELSE 0]
=============================================================================
