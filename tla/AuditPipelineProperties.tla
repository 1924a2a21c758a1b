----------------------- MODULE AuditPipelineProperties -----------------------
(***************************************************************************)
(* What AuditPipeline must satisfy.                                        *)
(***************************************************************************)
EXTENDS AuditPipeline, Selections

(* Every variable stays within its type.                                   *)
TypeOK ==
    /\ mode \in {"running", "exited", "crashed"}
    /\ ctx \in BOOLEAN
    /\ acceptor \in AcceptorStates
    /\ spc \in [Sessions -> SessionStates]
    /\ hand \in [Sessions -> Buffers \cup {None}]
    /\ forwarded \in [Sessions -> 0 .. MaxPackets]
    /\ buf \in [Buffers -> Records]
    /\ pool \subseteq Buffers
    /\ chan \in Seq(Buffers) /\ Len(chan) <= Cap
    /\ closed \in BOOLEAN
    /\ wpc \in WriterStates
    /\ wbuf \in Buffers \cup {None}
    /\ Sink!SinkTypeOK

(* Who holds a buffer where: the facts about program counters the proofs   *)
(* need beside TypeOK and ExclusiveBuffers.                                *)
HandsOK ==
    /\ \A s \in Sessions :
          /\ spc[s] \in {"pushConnect", "read", "write", "push", "pushBye"} => hand[s] # None
          /\ spc[s] \in {"idle", "setup", "start", "loop", "bye", "done"} => hand[s] = None
          /\ spc[s] = "write" => forwarded[s] < MaxPackets
    /\ wpc = "encode" <=> wbuf # None

-----------------------------------------------------------------------------
(* A buffer is never in two places: two sessions, the channel (twice), the *)
(* writer and the pool share none, so nobody writes in a buffer somebody   *)
(* else still reads (sendtask.go:62 clears sp after the push;              *)
(* auditlogwriter.go:119 puts the buffer back after encoding it).          *)
SessionsDisjoint ==
    \A s, t \in Sessions : s # t /\ hand[s] # None => hand[s] # hand[t]

ChannelDistinct ==
    \A i, j \in 1 .. Len(chan) : i # j => chan[i] # chan[j]

SessionsApart ==
    \A s \in Sessions : hand[s] # None =>
        /\ ~ InChannel(hand[s])
        /\ hand[s] # wbuf
        /\ hand[s] \notin pool

QueueApart ==
    /\ wbuf # None => ~ InChannel(wbuf) /\ wbuf \notin pool
    /\ \A b \in pool : ~ InChannel(b)

ExclusiveBuffers ==
    /\ SessionsDisjoint
    /\ ChannelDistinct
    /\ SessionsApart
    /\ QueueApart

-----------------------------------------------------------------------------
Packet(s, n)     == [sess |-> s, state |-> "est", pkt |-> n]
StateRecord(s, state) == [sess |-> s, state |-> state, pkt |-> 0]

RecordsOf(s) == {r \in Records : r.sess = s}

Trail(s) == Selected(log, RecordsOf(s))

PacketsUpTo(s, n) == [i \in 1 .. n |-> Packet(s, i)]

(* What the log holds of a session is a beginning of: its connect record,  *)
(* its packets from the first on with none missing or repeated, its        *)
(* disconnect record.  After an interrupt the select of the push may drop  *)
(* the connect record and every packet, and still deliver the disconnect.  *)
Whole(s, n) ==
    <<StateRecord(s, "connect")>> \o PacketsUpTo(s, n) \o <<StateRecord(s, "disconnect")>>

Story(s, t) ==
    \/ \E n \in 0 .. forwarded[s] :
          Len(t) <= n + 2 /\ t = SubSeq(Whole(s, n), 1, Len(t))
    \/ t = <<StateRecord(s, "disconnect")>> /\ ctx

WellFormedTrail == \A s \in Sessions : Story(s, Trail(s))

(* Where a record may be on its way to the log.                            *)
Logged(r)  == \E i \in 1 .. Len(log) : log[i] = r
Queued(r)  == \E i \in 1 .. Len(chan) : buf[chan[i]] = r
Encoding(r) == wbuf # None /\ buf[wbuf] = r
Pushing(s, r) == spc[s] = "push" /\ hand[s] # None /\ buf[hand[s]] = r

(* While nobody has asked the proxy to stop and the log file has not       *)
(* failed, every packet a target has received is in the log, or on its way *)
(* in exactly the buffers that will take it there.                         *)
NoOperationUnaudited ==
    mode = "running" /\ ~ ctx /\ sink # "broken" =>
        \A s \in Sessions : \A n \in 1 .. forwarded[s] :
            LET r == Packet(s, n)
            IN  Logged(r) \/ Queued(r) \/ Encoding(r) \/ Pushing(s, r)

(* The process dies of nothing but the two panics of this code: a push on  *)
(* the channel CloseChannel closed, which takes an interrupt, and a record *)
(* that arrives after createFile failed.                                   *)
CrashCause == mode = "crashed" => (closed /\ ctx) \/ sink = "none"

(* Why: no session exists before the listener does, and the accept loop is *)
(* only left, and the channel only closed, once ctx is done.               *)
LifeOK ==
    /\ closed <=> acceptor \in {"cancel", "done"}
    /\ (\E s \in Sessions : spc[s] # "idle") => acceptor = "accept" \/ ctx
    /\ acceptor = "accept" => ~ closed

(* The buffers, the pool, the channel and the writer implement a FIFO of   *)
(* record values: what was pushed is what is written.                      *)
InFlight == (IF wbuf # None THEN <<wbuf>> ELSE <<>>) \o chan

Contents(q) == [i \in 1 .. Len(q) |-> buf[q[i]]]

PendingRecords == Contents(InFlight)

AbstractTrail == INSTANCE AuditTrail
    WITH pending <- PendingRecords, broken <- (sink = "broken")

ImplementsTrail == AbstractTrail!Spec

-----------------------------------------------------------------------------
(* A proxy that has been asked to stop, or could not listen, ends: neither *)
(* a full channel nor a busy session keeps it.                             *)
ShutdownCompletes == (ctx \/ acceptor = "closeChannel") ~> (mode # "running")

(* Every packet that reached a target is in the log at last, unless the    *)
(* proxy is asked to stop or the log file fails.                           *)
EventuallyLogged ==
    \A s \in Sessions : \A n \in 1 .. MaxPackets :
        (forwarded[s] >= n)
            ~> (Logged(Packet(s, n)) \/ ctx \/ sink # "open" \/ mode # "running")

(* A session whose client has left is recorded as disconnected.            *)
EventuallyDisconnected ==
    \A s \in Sessions :
        (spc[s] = "finish")
            ~> (Logged(StateRecord(s, "disconnect")) \/ ctx \/ sink # "open" \/ mode # "running")

(* README.md:11 promises a log of the operations the proxy receives.  The  *)
(* orderly end of the process does not keep it: see the findings.          *)
AuditedAtExit ==
    mode = "exited" /\ sink # "broken" =>
        \A s \in Sessions : \A n \in 1 .. forwarded[s] : Logged(Packet(s, n))
=============================================================================
