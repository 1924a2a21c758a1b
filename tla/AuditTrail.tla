------------------------------ MODULE AuditTrail -----------------------------
(***************************************************************************)
(* What the audit pipeline promises, whatever buffers, pools, channels and *)
(* goroutines it is made of: records submitted for the log reach it        *)
(* unchanged, once, in the order of submission, until the log breaks; a    *)
(* broken log takes nothing more.  Records still pending when the process  *)
(* ends are not promised anything.                                         *)
(***************************************************************************)
EXTENDS Sequences

CONSTANT Records

VARIABLES
    pending,          \* submitted, not yet written; oldest first
    log,              \* written
    broken            \* the log has failed

vars == <<pending, log, broken>>

Init ==
    /\ pending = <<>>
    /\ log = <<>>
    /\ broken \in BOOLEAN

Submit ==
    /\ \E r \in Records : pending' = Append(pending, r)
    /\ UNCHANGED <<log, broken>>

Commit ==
    /\ pending # <<>>
    /\ ~ broken
    /\ log' = Append(log, Head(pending))
    /\ pending' = Tail(pending)
    /\ UNCHANGED broken

Discard ==
    /\ pending # <<>>
    /\ pending' = Tail(pending)
    /\ broken' = TRUE
    /\ UNCHANGED log

Break ==
    /\ broken' = TRUE
    /\ UNCHANGED <<pending, log>>

Next == Submit \/ Commit \/ Discard \/ Break

Spec == Init /\ [][Next]_vars
=============================================================================
