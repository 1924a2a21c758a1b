-------------------------------- MODULE Relay --------------------------------
(***************************************************************************)
(* A session of mysql8-audit-proxy between ClientSess.Proxy and its end.   *)
(* SendTask.Worker reads the client's packets, header first, writes each   *)
(* to the target and pushes it for the log; a second goroutine copies the  *)
(* target's answers.  Every read and write has a deadline, and looks at    *)
(* cctx before it starts.  Whichever direction ends first cancels cctx;    *)
(* the session is over when both have ended.                               *)
(*                                                                         *)
(* cctx is a child of ctx: closing ctx.Done() comes first, cancelling the  *)
(* children after it.  A unit stands for some bytes; the client's are      *)
(* numbered 1, 2, ..., and so are the target's.  What the connections      *)
(* took is out and back, whether or not it was read at the other end.      *)
(* Definitions named Slip are plausible mistakes, not the code.            *)
(***************************************************************************)
EXTENDS Naturals, Sequences

CONSTANTS
    HeaderSize,       \* units of a packet header (4 bytes)
    MaxBody,          \* the largest body a header can announce (0xffffff bytes)
    Length,           \* Length[i]: the body announced by a header that starts at unit i
    Chunk,            \* units WriteTo reads at a time (1024 bytes)
    MaxSent,          \* bound: units the client sends
    MaxAnswered       \* bound: units the target sends

ASSUME RelayAssumption ==
    /\ HeaderSize \in Nat \ {0} /\ Chunk \in Nat \ {0}
    /\ MaxBody \in Nat /\ MaxSent \in Nat /\ MaxAnswered \in Nat
    /\ Length \in [1 .. MaxSent -> 0 .. MaxBody]

VARIABLES
    ctx, cctx,        \* ctx.Done(), cctx.Done() are closed
    client, target,   \* the peers: "open", "closed" (no more to read), "reset"
    sent, answered,   \* units they have sent
    up,               \* where the Worker is
    got,              \* units it has read of the client's
    buf,              \* sp.Packets
    part, want, n,    \* the slice readFullMysqlPacket fills: of what, its size, size so far
    out, logged,      \* units the target's connection took, units pushed for the log
    dn,               \* where the goroutine of io.Copy is
    copied,           \* units it has read of the target's
    dbuf, m,          \* buf and n of WriteTo
    back,             \* units the client's connection took
    closed            \* connections the session has closed

ctxVars  == <<ctx, cctx>>
peerVars == <<client, target, sent, answered>>
readVars == <<got, buf, part, want, n>>
upVars   == <<up, readVars, out, logged>>
downVars == <<dn, copied, dbuf, m, back>>
vars     == <<ctxVars, peerVars, upVars, downVars, closed>>

-----------------------------------------------------------------------------
Stale == 0            \* what a pooled buffer held before

SlipCapacity == MaxBody            \* maxPacketSize without the header

(* maxPacketSize, with which the pool allocates Packets.                   *)
Capacity == HeaderSize + MaxBody

(* resizeSlice reslices what has room, and miscounts what has not.         *)
Fits(size) == size <= Capacity

EmptyBuffer == [i \in 1 .. Capacity |-> Stale]

Before == IF part = "header" THEN 0 ELSE HeaderSize

PacketSize == HeaderSize + want    \* once the header is read

Packet == SubSeq(buf, 1, PacketSize)

(* What the header in dst announces; anything when a part of it is stale.  *)
Announced(b) ==
    IF \A i \in 1 .. HeaderSize : b[i] # Stale /\ b[i] = b[1] + i - 1
    THEN {Length[b[1]]} ELSE 0 .. MaxBody

Init ==
    /\ ctx = FALSE /\ cctx = FALSE
    /\ client = "open" /\ target = "open" /\ sent = 0 /\ answered = 0
    /\ up = "loop" /\ got = 0 /\ buf = EmptyBuffer
    /\ part = "header" /\ want = HeaderSize /\ n = 0
    /\ out = <<>> /\ logged = <<>>
    /\ dn = "read" /\ copied = 0 /\ dbuf = [i \in 1 .. Chunk |-> Stale] /\ m = 0
    /\ back = <<>>
    /\ closed = {}

-----------------------------------------------------------------------------
(* Peers, and the stop of the process.                                     *)

Alive == up \notin {"done", "panicked"}

ClientSends ==
    /\ Alive /\ client = "open" /\ sent < MaxSent
    /\ sent' = sent + 1
    /\ UNCHANGED <<ctxVars, client, target, answered, upVars, downVars, closed>>

TargetSends ==
    /\ Alive /\ target = "open" /\ answered < MaxAnswered
    /\ answered' = answered + 1
    /\ UNCHANGED <<ctxVars, client, target, sent, upVars, downVars, closed>>

ClientLeaves ==
    /\ Alive /\ client = "open"
    /\ client' \in {"closed", "reset"}
    /\ UNCHANGED <<ctxVars, target, sent, answered, upVars, downVars, closed>>

TargetLeaves ==
    /\ Alive /\ target = "open"
    /\ target' \in {"closed", "reset"}
    /\ UNCHANGED <<ctxVars, client, sent, answered, upVars, downVars, closed>>

Stop ==                            \* an interrupt
    /\ Alive /\ ~ ctx
    /\ ctx' = TRUE
    /\ UNCHANGED <<cctx, peerVars, upVars, downVars, closed>>

Propagate ==                       \* ... reaches the children of ctx
    /\ ctx /\ ~ cctx
    /\ cctx' = TRUE
    /\ UNCHANGED <<ctx, peerVars, upVars, downVars, closed>>

-----------------------------------------------------------------------------
(* From the client to the target: SendTask.Worker.                         *)

UpGoto(from, to) == up = from /\ up' = to

LoopEnds ==
    /\ ctx
    /\ UpGoto("loop", "leave")
    /\ UNCHANGED <<ctxVars, peerVars, readVars, out, logged, downVars, closed>>

LoopGets ==                        \* a pooled buffer, resliced for the header
    /\ ~ ctx
    /\ UpGoto("loop", "read")
    /\ buf' = EmptyBuffer
    /\ part' = "header" /\ want' = HeaderSize /\ n' = 0
    /\ UNCHANGED <<ctxVars, peerVars, got, out, logged, downVars, closed>>

ReadStarts ==                      \* TimeoutReader.Read
    /\ UpGoto("read", IF cctx THEN "leave" ELSE "reading")
    /\ UNCHANGED <<ctxVars, peerVars, readVars, out, logged, downVars, closed>>

(* A part is taken for full: the header says how much to read next, and    *)
(* after the data comes the write.                                         *)
PartEnds(b, k) ==
    \/ /\ part = "header"
       /\ part' = "data" /\ want' \in Announced(b) /\ n' = 0
       /\ up' = IF Fits(HeaderSize + want') THEN "read" ELSE "panicked"
    \/ /\ part = "data"
       /\ up' = "write" /\ n' = n + k
       /\ UNCHANGED <<part, want>>

SlipRereads(k) ==                  \* without buf = buf[nn:]
    /\ up = "reading" /\ got + k <= sent
    /\ IF want = n THEN k = 0 ELSE k \in 1 .. want - n
    /\ got' = got + k
    /\ buf' = [i \in 1 .. Capacity |->
                  IF i \in Before + 1 .. Before + k THEN got + i - Before ELSE buf[i]]
    /\ \/ k = want /\ PartEnds(buf', k)
       \/ k < want /\ UpGoto("reading", "read") /\ UNCHANGED <<part, want, n>>
    /\ UNCHANGED <<ctxVars, peerVars, out, logged, downVars, closed>>

SlipOverreads(k) ==                \* reads into the rest of the buffer
    /\ up = "reading" /\ got + k <= sent
    /\ k \in (IF want = n THEN 0 ELSE 1) .. Capacity - Before - n
    /\ got' = got + k
    /\ buf' = [i \in 1 .. Capacity |->
                  IF i \in Before + n + 1 .. Before + n + k THEN got + i - Before - n ELSE buf[i]]
    /\ \/ n + k >= want /\ PartEnds(buf', k)
       \/ n + k < want /\ UpGoto("reading", "read") /\ n' = n + k /\ UNCHANGED <<part, want>>
    /\ UNCHANGED <<ctxVars, peerVars, out, logged, downVars, closed>>

(* The connection has k units for the slice; an empty slice is filled at   *)
(* once.                                                                   *)
ReadData(k) ==
    /\ up = "reading" /\ got + k <= sent
    /\ IF want = n THEN k = 0 ELSE k \in 1 .. want - n
    /\ got' = got + k
    /\ buf' = [i \in 1 .. Capacity |->
                  IF i \in Before + n + 1 .. Before + n + k THEN got + i - Before - n ELSE buf[i]]
    /\ \/ n + k = want /\ PartEnds(buf', k)
       \/ n + k < want /\ UpGoto("reading", "read") /\ n' = n + k /\ UNCHANGED <<part, want>>
    /\ UNCHANGED <<ctxVars, peerVars, out, logged, downVars, closed>>

SlipTakesTimeout ==                \* without asking whether ctx is done
    /\ up = "reading" /\ want > n /\ got = sent /\ client = "open"
    /\ PartEnds(buf, 0)
    /\ UNCHANGED <<ctxVars, peerVars, got, buf, out, logged, downVars, closed>>

(* The deadline passes: what there is counts as full when ctx is done.     *)
ReadTimesOut ==
    /\ up = "reading" /\ want > n /\ got = sent /\ client = "open"
    /\ \/ ctx /\ PartEnds(buf, 0)
       \/ ~ ctx /\ UpGoto("reading", "read") /\ UNCHANGED <<part, want, n>>
    /\ UNCHANGED <<ctxVars, peerVars, got, buf, out, logged, downVars, closed>>

ReadFails ==                       \* the end of the stream, or an error
    /\ want > n
    /\ client = "reset" \/ (client = "closed" /\ got = sent)
    /\ UpGoto("reading", "leave")
    /\ UNCHANGED <<ctxVars, peerVars, readVars, out, logged, downVars, closed>>

WriteStarts ==                     \* TimeoutWriter.Write
    /\ UpGoto("write", IF cctx THEN "leave" ELSE "writing")
    /\ UNCHANGED <<ctxVars, peerVars, readVars, out, logged, downVars, closed>>

Write ==
    /\ UpGoto("writing", "push")
    /\ out' = out \o Packet
    /\ UNCHANGED <<ctxVars, peerVars, readVars, logged, downVars, closed>>

SlipLogsFailedWrite ==             \* pushes the packet whatever Write returned
    /\ UpGoto("writing", "push")
    /\ \E k \in 0 .. PacketSize - 1 : out' = out \o SubSeq(buf, 1, k)
    /\ UNCHANGED <<ctxVars, peerVars, readVars, logged, downVars, closed>>

WriteFails ==                      \* the deadline or an error, with k units gone
    /\ UpGoto("writing", "leave")
    /\ \E k \in 0 .. PacketSize - 1 : out' = out \o SubSeq(buf, 1, k)
    /\ UNCHANGED <<ctxVars, peerVars, readVars, logged, downVars, closed>>

Push ==                            \* PushToLogChannel: sent, or ctx.Done()
    /\ \/ UpGoto("push", "loop") /\ logged' = logged \o Packet
       \/ ctx /\ UpGoto("push", "leave") /\ UNCHANGED logged
    /\ UNCHANGED <<ctxVars, peerVars, readVars, out, downVars, closed>>

(* Worker has returned: cancel().                                          *)
Leave ==
    /\ UpGoto("leave", "wait")
    /\ cctx' = TRUE
    /\ UNCHANGED <<ctx, peerVars, readVars, out, logged, downVars, closed>>

SlipWaitsForNobody ==              \* without wg.Wait()
    /\ UpGoto("wait", "closing")
    /\ closed' = {"target"}
    /\ UNCHANGED <<ctxVars, peerVars, readVars, out, logged, downVars>>

CloseTarget ==                     \* wg.Wait(), TargetMysql.Close()
    /\ dn = "done"
    /\ UpGoto("wait", "closing")
    /\ closed' = {"target"}
    /\ UNCHANGED <<ctxVars, peerVars, readVars, out, logged, downVars>>

CloseClient ==                     \* sessionWorker's deferred calls
    /\ UpGoto("closing", "done")
    /\ closed' = closed \cup {"client"}
    /\ UNCHANGED <<ctxVars, peerVars, readVars, out, logged, downVars>>

Up ==
    \/ LoopEnds \/ LoopGets
    \/ ReadStarts \/ (\E k \in 0 .. Capacity : ReadData(k)) \/ ReadTimesOut \/ ReadFails
    \/ WriteStarts \/ Write \/ WriteFails \/ Push
    \/ Leave \/ CloseTarget \/ CloseClient

-----------------------------------------------------------------------------
(* From the target to the client: io.Copy, that is TimeoutReader.WriteTo.  *)

DnGoto(from, to) == dn = from /\ dn' = to

CopyReadStarts ==
    /\ DnGoto("read", IF cctx THEN "leave" ELSE "reading")
    /\ UNCHANGED <<ctxVars, peerVars, upVars, copied, dbuf, m, back, closed>>

SlipReadsFull(k) ==                \* io.ReadFull for Read
    /\ DnGoto("reading", "write")
    /\ k = Chunk /\ copied + k <= answered
    /\ dbuf' = [i \in 1 .. Chunk |-> IF i <= k THEN copied + i ELSE dbuf[i]]
    /\ m' = k /\ copied' = copied + k
    /\ UNCHANGED <<ctxVars, peerVars, upVars, back, closed>>

CopyReadData(k) ==
    /\ DnGoto("reading", "write")
    /\ k \in 1 .. Chunk /\ copied + k <= answered
    /\ dbuf' = [i \in 1 .. Chunk |-> IF i <= k THEN copied + i ELSE dbuf[i]]
    /\ m' = k /\ copied' = copied + k
    /\ UNCHANGED <<ctxVars, peerVars, upVars, back, closed>>

CopyTimesOut ==
    /\ copied = answered /\ target = "open"
    /\ DnGoto("reading", "read")
    /\ UNCHANGED <<ctxVars, peerVars, upVars, copied, dbuf, m, back, closed>>

CopyReadFails ==
    /\ target = "reset" \/ (target = "closed" /\ copied = answered)
    /\ DnGoto("reading", "leave")
    /\ UNCHANGED <<ctxVars, peerVars, upVars, copied, dbuf, m, back, closed>>

CopyWriteStarts ==
    /\ DnGoto("write", IF cctx THEN "leave" ELSE "writing")
    /\ UNCHANGED <<ctxVars, peerVars, upVars, copied, dbuf, m, back, closed>>

SlipWritesBuffer ==                \* buf for buf[:n]
    /\ DnGoto("writing", "read")
    /\ back' = back \o dbuf
    /\ UNCHANGED <<ctxVars, peerVars, upVars, copied, dbuf, m, closed>>

CopyWrite ==
    /\ DnGoto("writing", "read")
    /\ back' = back \o SubSeq(dbuf, 1, m)
    /\ UNCHANGED <<ctxVars, peerVars, upVars, copied, dbuf, m, closed>>

CopyWriteFails ==
    /\ DnGoto("writing", "leave")
    /\ \E k \in 0 .. m - 1 : back' = back \o SubSeq(dbuf, 1, k)
    /\ UNCHANGED <<ctxVars, peerVars, upVars, copied, dbuf, m, closed>>

SlipLeavesQuietly ==               \* wg.Done() without cancel()
    /\ DnGoto("leave", "done")
    /\ UNCHANGED <<ctxVars, peerVars, upVars, copied, dbuf, m, back, closed>>

CopyLeaves ==                      \* cancel(), wg.Done()
    /\ DnGoto("leave", "done")
    /\ cctx' = TRUE
    /\ UNCHANGED <<ctx, peerVars, upVars, copied, dbuf, m, back, closed>>

Down ==
    \/ CopyReadStarts \/ (\E k \in 1 .. Chunk : CopyReadData(k)) \/ CopyTimesOut \/ CopyReadFails
    \/ CopyWriteStarts \/ CopyWrite \/ CopyWriteFails \/ CopyLeaves

-----------------------------------------------------------------------------
Over == ~ Alive /\ UNCHANGED vars

Next ==
    \/ ClientSends \/ TargetSends \/ ClientLeaves \/ TargetLeaves
    \/ Stop \/ Propagate
    \/ Up \/ Down \/ Over

Spec == Init /\ [][Next]_vars

(* Deadlines end every read and write, the log's channel moves or ctx is   *)
(* done, and the scheduler runs what can run; nothing is asked of peers.   *)
LiveSpec == Spec /\ WF_vars(Up) /\ WF_vars(Down) /\ WF_vars(Propagate)
=============================================================================
