---------------------------- MODULE AuditPipeline ----------------------------
(***************************************************************************)
(* The life of an audited operation in mysql8-audit-proxy: a session's     *)
(* SendTask.Worker reads a packet from the client, writes it to the        *)
(* target and pushes the buffer that holds it on a bounded channel; the    *)
(* one LogWriteWorker goroutine takes it off, encodes it in the current    *)
(* log file and returns the buffer to a sync.Pool.  main cancels ctx on    *)
(* os.Interrupt; the accept goroutine then closes the channel, and the     *)
(* process ends when those two goroutines have ended.                      *)
(*                                                                         *)
(* One action is one step between two points at which another goroutine    *)
(* can be observed: a select, a pool Get or Put, a read, a write.          *)
(*                                                                         *)
(* A definition whose name starts with Slip is not the code: it is a       *)
(* plausible mistake in the definition that follows it, kept to show that  *)
(* the properties notice it.                                               *)
(***************************************************************************)
EXTENDS Naturals, Sequences

CONSTANTS
    Sessions,         \* client connections
    Buffers,          \* *SendPacket objects
    Cap,              \* capacity of the channel q (1000 in main.go)
    MaxPackets,       \* bound: packets a client sends in a session
    None              \* nil

ASSUME CapAssumption        == Cap \in Nat \ {0}
ASSUME MaxPacketsAssumption == MaxPackets \in Nat
ASSUME NoneAssumption       == None \notin Buffers /\ None \notin Sessions

VARIABLES
    mode,             \* the process: "running", "exited" (main returned), "crashed" (panic)
    ctx,              \* ctx.Done() is closed
    acceptor,         \* where the goroutine of p.Start is
    spc,              \* spc[s]: where session s is
    hand,             \* hand[s]: the buffer its goroutine holds (sp)
    forwarded,        \* forwarded[s]: packets of s written to its target
    buf,              \* buf[b]: what buffer b holds
    pool,             \* buffers in dataPool
    chan,             \* dataChannel, oldest first
    closed,           \* dataChannel has been closed
    wpc,              \* where LogWriteWorker is
    wbuf,             \* the buffer it is encoding (data)
    sink, log         \* the log file: see AuditSink

lifeVars    == <<mode, ctx, acceptor>>
sessionVars == <<spc, hand, forwarded>>
poolVars    == <<buf, pool>>
chanVars    == <<chan, closed>>
writerVars  == <<wpc, wbuf>>
sinkVars    == <<sink, log>>

vars == <<lifeVars, sessionVars, poolVars, chanVars, writerVars, sinkVars>>

-----------------------------------------------------------------------------
(* A record: whose it is, its State field, and its Packets field: the n-th *)
(* packet of the session, or 0 when it is empty.                           *)
Records == [sess  : Sessions \cup {None},
            state : {"connect", "est", "disconnect"},
            pkt   : 0 .. MaxPackets]

Blank == [sess |-> None, state |-> "est", pkt |-> 0]

Sink == INSTANCE AuditSink

AcceptorStates == {"bind", "accept", "closeChannel", "cancel", "done"}

SessionStates ==
    {"idle", "setup", "start", "pushConnect", "loop", "read", "write",
     "push", "finish", "bye", "pushBye", "done"}

WriterStates == {"check", "select", "encode", "closing", "done"}

Init ==
    /\ mode = "running" /\ ctx = FALSE /\ acceptor = "bind"
    /\ spc = [s \in Sessions |-> "idle"]
    /\ hand = [s \in Sessions |-> None]
    /\ forwarded = [s \in Sessions |-> 0]
    /\ buf = [b \in Buffers |-> Blank]
    /\ pool = {}
    /\ chan = <<>> /\ closed = FALSE
    /\ wpc = "check" /\ wbuf = None
    /\ Sink!SinkInit

-----------------------------------------------------------------------------
(* The buffer pool.                                                        *)

InChannel(b) == \E i \in 1 .. Len(chan) : chan[i] = b

(* A buffer nothing refers to: not allocated yet, or garbage.  dataPool.New *)
(* may return it, with zeroed contents.                                    *)
Unreferenced(b) ==
    /\ b \notin pool
    /\ \A s \in Sessions : hand[s] # b
    /\ ~ InChannel(b)
    /\ wbuf # b

(* GetSendPacket: a pooled buffer, its old contents in it, or a new one.   *)
GetSendPacket(s, b) ==
    /\ b \in pool \/ Unreferenced(b)
    /\ pool' = pool \ {b}
    /\ hand' = [hand EXCEPT ![s] = b]

StalePackets(b) == IF b \in pool THEN buf[b].pkt ELSE 0

(* newSendPacket stamps the header fields; Packets keeps what it held.     *)
newSendPacket(s, b) ==
    /\ GetSendPacket(s, b)
    /\ buf' = [buf EXCEPT ![b] = [sess |-> s, state |-> "est", pkt |-> StalePackets(b)]]

SlipKeepsPackets(s, b, state) ==   \* sendState without sp.Packets[:0]
    /\ GetSendPacket(s, b)
    /\ buf' = [buf EXCEPT ![b] = [sess |-> s, state |-> state, pkt |-> StalePackets(b)]]

(* The part of sendState before the push.                                  *)
stateRecord(s, b, state) ==
    /\ GetSendPacket(s, b)
    /\ buf' = [buf EXCEPT ![b] = [sess |-> s, state |-> state, pkt |-> 0]]

-----------------------------------------------------------------------------
(* PushToLogChannel is a select of ctx.Done() and a send; when both can go *)
(* Go picks either.  A send on a closed channel panics.                    *)

Sent(s) ==
    /\ ~ closed
    /\ Len(chan) < Cap
    /\ chan' = Append(chan, hand[s])
    /\ UNCHANGED <<closed, mode>>

Cancelled ==
    /\ ctx
    /\ UNCHANGED <<chan, closed, mode>>

SendPanics ==
    /\ closed
    /\ mode' = "crashed"
    /\ UNCHANGED <<chan, closed>>

Goto(s, from, to) ==
    /\ mode = "running"
    /\ spc[s] = from
    /\ spc' = [spc EXCEPT ![s] = to]

-----------------------------------------------------------------------------
(* Sessions.                                                               *)

(* acceptClntConn: Accept returns a connection, ctx is not done.           *)
Accept(s) ==
    /\ acceptor = "accept" /\ ~ ctx
    /\ Goto(s, "idle", "setup")
    /\ UNCHANGED <<lifeVars, hand, forwarded, poolVars, chanVars, writerVars, sinkVars>>

(* sessionWorker ends before Proxy: the handshake or the connection to the *)
(* target fails, or the admin user is served and leaves.                   *)
SetupEnds(s) ==
    /\ Goto(s, "setup", "done")
    /\ UNCHANGED <<lifeVars, hand, forwarded, poolVars, chanVars, writerVars, sinkVars>>

(* ConnectToMySQL succeeds; Proxy starts the Worker.                       *)
Proxy(s) ==
    /\ Goto(s, "setup", "start")
    /\ UNCHANGED <<lifeVars, hand, forwarded, poolVars, chanVars, writerVars, sinkVars>>

Connect(s, b) ==                   \* sendState(ctx, "connect") up to the push
    /\ Goto(s, "start", "pushConnect")
    /\ stateRecord(s, b, "connect")
    /\ UNCHANGED <<lifeVars, forwarded, chanVars, writerVars, sinkVars>>

(* sendState's push; Worker ignores its error, and the buffer of a failed  *)
(* push is neither kept nor returned to the pool.                          *)
PushState(s, from, to) ==
    /\ Goto(s, from, to)
    /\ Sent(s) \/ Cancelled \/ SendPanics
    /\ hand' = [hand EXCEPT ![s] = None]
    /\ UNCHANGED <<ctx, acceptor, forwarded, poolVars, writerVars, sinkVars>>

PushConnect(s) == PushState(s, "pushConnect", "loop")

LoopEnds(s) ==                     \* the top of Worker's loop: ctx is done
    /\ ctx
    /\ Goto(s, "loop", "finish")
    /\ UNCHANGED <<lifeVars, hand, forwarded, poolVars, chanVars, writerVars, sinkVars>>

LoopGets(s, b) ==                  \* ... it is not, and sp is nil
    /\ ~ ctx
    /\ Goto(s, "loop", "read")
    /\ newSendPacket(s, b)
    /\ UNCHANGED <<lifeVars, forwarded, chanVars, writerVars, sinkVars>>

(* writeBufferAndSend reads a whole packet, and TimeoutWriter.Write then   *)
(* finds ctx not done.                                                     *)
ReadPacket(s) ==
    /\ ~ ctx
    /\ forwarded[s] < MaxPackets
    /\ Goto(s, "read", "write")
    /\ buf' = [buf EXCEPT ![hand[s]].pkt = forwarded[s] + 1]
    /\ UNCHANGED <<lifeVars, hand, forwarded, pool, chanVars, writerVars, sinkVars>>

(* End of file, a read error, the other direction's end, or ctx: the       *)
(* buffer is left empty or with a torn packet, and Worker returns.         *)
ReadEnds(s) ==
    /\ Goto(s, "read", "finish")
    /\ \E p \in {0, forwarded[s] + 1} \cap (0 .. MaxPackets) :
          buf' = [buf EXCEPT ![hand[s]].pkt = p]
    /\ UNCHANGED <<lifeVars, hand, forwarded, pool, chanVars, writerVars, sinkVars>>

Forward(s) ==                      \* the target has the packet
    /\ Goto(s, "write", "push")
    /\ forwarded' = [forwarded EXCEPT ![s] = @ + 1]
    /\ UNCHANGED <<lifeVars, hand, poolVars, chanVars, writerVars, sinkVars>>

WriteFails(s) ==
    /\ Goto(s, "write", "finish")
    /\ UNCHANGED <<lifeVars, hand, forwarded, poolVars, chanVars, writerVars, sinkVars>>

SlipKeepsBuffer(s) ==              \* without sp = nil
    /\ Goto(s, "push", "loop")
    /\ Sent(s) \/ SendPanics
    /\ UNCHANGED <<ctx, acceptor, hand, forwarded, poolVars, writerVars, sinkVars>>

SlipDropsWhenFull(s) ==            \* a default case in the select of the push
    /\ Goto(s, "push", "loop")
    /\ \/ Sent(s)
       \/ SendPanics
       \/ Len(chan) = Cap /\ UNCHANGED <<chan, closed, mode>>
    /\ hand' = [hand EXCEPT ![s] = None]
    /\ UNCHANGED <<ctx, acceptor, forwarded, poolVars, writerVars, sinkVars>>

PushPacket(s) ==                   \* pushed: sp = nil
    /\ Goto(s, "push", "loop")
    /\ Sent(s) \/ SendPanics
    /\ hand' = [hand EXCEPT ![s] = None]
    /\ UNCHANGED <<ctx, acceptor, forwarded, poolVars, writerVars, sinkVars>>

PushPacketFails(s) ==              \* ctx.Err(): Worker returns, sp not nil
    /\ Goto(s, "push", "finish")
    /\ Cancelled
    /\ UNCHANGED <<ctx, acceptor, hand, forwarded, poolVars, writerVars, sinkVars>>

SlipPutsNil(s) ==                  \* without if sp != nil
    /\ Goto(s, "finish", "bye")
    /\ pool' = pool \cup {hand[s]}
    /\ hand' = [hand EXCEPT ![s] = None]
    /\ UNCHANGED <<lifeVars, forwarded, buf, chanVars, writerVars, sinkVars>>

SlipLeavesSilently(s) ==           \* a return after the Put
    /\ Goto(s, "finish", IF hand[s] # None THEN "done" ELSE "bye")
    /\ pool' = IF hand[s] # None THEN pool \cup {hand[s]} ELSE pool
    /\ hand' = [hand EXCEPT ![s] = None]
    /\ UNCHANGED <<lifeVars, forwarded, buf, chanVars, writerVars, sinkVars>>

(* The deferred function: put sp back if there is one ...                  *)
Finish(s) ==
    /\ Goto(s, "finish", "bye")
    /\ pool' = IF hand[s] # None THEN pool \cup {hand[s]} ELSE pool
    /\ hand' = [hand EXCEPT ![s] = None]
    /\ UNCHANGED <<lifeVars, forwarded, buf, chanVars, writerVars, sinkVars>>

(* ... and sendState(ctx, "disconnect").                                   *)
Disconnect(s, b) ==
    /\ Goto(s, "bye", "pushBye")
    /\ stateRecord(s, b, "disconnect")
    /\ UNCHANGED <<lifeVars, forwarded, chanVars, writerVars, sinkVars>>

PushDisconnect(s) == PushState(s, "pushBye", "done")

Push(s) == PushConnect(s) \/ PushPacket(s) \/ PushPacketFails(s) \/ PushDisconnect(s)

(* What a session does without waiting for its client or its target.       *)
Progress(s) ==
    \/ \E b \in Buffers : Connect(s, b) \/ LoopGets(s, b) \/ Disconnect(s, b)
    \/ LoopEnds(s) \/ Forward(s) \/ WriteFails(s) \/ Finish(s)

Session(s) ==
    \/ Accept(s) \/ SetupEnds(s) \/ Proxy(s)
    \/ ReadPacket(s) \/ ReadEnds(s)
    \/ Progress(s) \/ Push(s)

-----------------------------------------------------------------------------
(* LogWriteWorker.                                                         *)

WriterGoto(from, to) ==
    /\ mode = "running"
    /\ wpc = from
    /\ wpc' = to

WriterCheck ==                     \* the select at the top of the loop
    /\ WriterGoto("check", IF ctx THEN "closing" ELSE "select")
    /\ UNCHANGED <<lifeVars, sessionVars, poolVars, chanVars, wbuf, sinkVars>>

(* receiveAndWrite's select has four cases.                                *)
WriterCancelled ==
    /\ ctx
    /\ WriterGoto("select", "check")
    /\ UNCHANGED <<lifeVars, sessionVars, poolVars, chanVars, wbuf, sinkVars>>

SlipPutsEarly ==                   \* PutSendPacket before the encoding
    /\ chan # <<>>
    /\ WriterGoto("select", "encode")
    /\ wbuf' = Head(chan)
    /\ chan' = Tail(chan)
    /\ pool' = pool \cup {Head(chan)}
    /\ UNCHANGED <<lifeVars, sessionVars, buf, closed, sinkVars>>

SlipWaitsForMore ==                \* takes a record only while another waits
    /\ Len(chan) > 1
    /\ WriterGoto("select", "encode")
    /\ wbuf' = Head(chan)
    /\ chan' = Tail(chan)
    /\ UNCHANGED <<lifeVars, sessionVars, poolVars, closed, sinkVars>>

WriterReceive ==
    /\ chan # <<>>
    /\ WriterGoto("select", "encode")
    /\ wbuf' = Head(chan)
    /\ chan' = Tail(chan)
    /\ UNCHANGED <<lifeVars, sessionVars, poolVars, closed, sinkVars>>

WriterDrained ==                   \* closed and empty: closeFile, then EOF or a retry
    /\ closed /\ chan = <<>>
    /\ \E ok \in BOOLEAN :
          /\ WriterGoto("select", IF ok THEN "closing" ELSE "check")
          /\ Sink!CloseFile(ok)
    /\ UNCHANGED <<lifeVars, sessionVars, poolVars, chanVars, wbuf>>

WriterTick ==
    /\ WriterGoto("select", "check")
    /\ Sink!Rotate
    /\ UNCHANGED <<lifeVars, sessionVars, poolVars, chanVars, wbuf>>

(* writeDataToFile, then PutSendPacket whatever it returned; its error     *)
(* ends receiveAndWrite and LogWriteWorker goes on.                        *)
WriterEncode ==
    /\ WriterGoto("encode", "check")
    /\ Sink!Encode(buf[wbuf]) \/ Sink!Reject
    /\ pool' = pool \cup {wbuf}
    /\ wbuf' = None
    /\ UNCHANGED <<lifeVars, sessionVars, buf, chanVars>>

WriterPanics ==                    \* encode on a nil gzip.Writer
    /\ mode = "running" /\ wpc = "encode" /\ sink = "none"
    /\ mode' = "crashed"
    /\ UNCHANGED <<ctx, acceptor, sessionVars, poolVars, chanVars, writerVars, sinkVars>>

WriterEnds ==                      \* the deferred closeFile
    /\ WriterGoto("closing", "done")
    /\ \E ok \in BOOLEAN : Sink!CloseFile(ok)
    /\ UNCHANGED <<lifeVars, sessionVars, poolVars, chanVars, wbuf>>

Writer ==
    \/ WriterCheck \/ WriterCancelled \/ WriterReceive \/ WriterDrained
    \/ WriterTick \/ WriterEncode \/ WriterPanics \/ WriterEnds

-----------------------------------------------------------------------------
(* main and the accept goroutine.                                          *)

AcceptorGoto(from, to) ==
    /\ mode = "running"
    /\ acceptor = from
    /\ acceptor' = to
    /\ UNCHANGED <<mode, sessionVars, poolVars, chan, writerVars, sinkVars>>

Listen     == AcceptorGoto("bind", "accept") /\ UNCHANGED <<ctx, closed>>
ListenFails == AcceptorGoto("bind", "closeChannel") /\ UNCHANGED <<ctx, closed>>

(* Start returns on any error of Accept.                                   *)
SlipAcceptEnds == AcceptorGoto("accept", "closeChannel") /\ UNCHANGED <<ctx, closed>>

(* ctx is done: the listener is closed, Accept returns, and so does Start. *)
AcceptEnds == ctx /\ AcceptorGoto("accept", "closeChannel") /\ UNCHANGED <<ctx, closed>>

CloseChannel == AcceptorGoto("closeChannel", "cancel") /\ closed' = TRUE /\ UNCHANGED ctx

SlipNoCancel == AcceptorGoto("cancel", "done") /\ UNCHANGED <<ctx, closed>>

Cancel == AcceptorGoto("cancel", "done") /\ ctx' = TRUE /\ UNCHANGED closed

Acceptor == Listen \/ ListenFails \/ AcceptEnds \/ CloseChannel \/ Cancel

Interrupt ==                       \* os.Interrupt
    /\ mode = "running" /\ ~ ctx
    /\ ctx' = TRUE
    /\ UNCHANGED <<mode, acceptor, sessionVars, poolVars, chanVars, writerVars, sinkVars>>

Exit ==                            \* wg.Wait returns; sessions are not waited for
    /\ mode = "running" /\ acceptor = "done" /\ wpc = "done"
    /\ mode' = "exited"
    /\ UNCHANGED <<ctx, acceptor, sessionVars, poolVars, chanVars, writerVars, sinkVars>>

Ended == mode # "running" /\ UNCHANGED vars

Next ==
    \/ \E s \in Sessions : Session(s)
    \/ Writer \/ Acceptor \/ Interrupt \/ Exit \/ Ended

Spec == Init /\ [][Next]_vars

(* The Go scheduler runs every goroutine that can run; a session need not  *)
(* hear from its client.  select picks a ready case at random, so a        *)
(* receive that is ready again and again beside the ticker is taken; a     *)
(* full channel wakes blocked senders first come, first served.            *)
Fairness ==
    /\ WF_vars(Writer) /\ SF_vars(WriterReceive)
    /\ WF_vars(Acceptor) /\ WF_vars(Exit)
    /\ \A s \in Sessions : WF_vars(Progress(s)) /\ SF_vars(Push(s))

LiveSpec == Spec /\ Fairness
=============================================================================
