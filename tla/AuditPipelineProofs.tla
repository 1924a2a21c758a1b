------------------------- MODULE AuditPipelineProofs -------------------------
(***************************************************************************)
(* Proofs about AuditPipeline for any sessions, buffers, channel capacity  *)
(* and number of packets: it is type correct, no buffer is in two places,  *)
(* it panics in two cases only, loses no operation while it serves, keeps  *)
(* the log of each session a beginning of its story, and implements        *)
(* AuditTrail.                                                             *)
(***************************************************************************)
EXTENDS AuditPipelineProperties, SequenceLemmas

-----------------------------------------------------------------------------
(* The log file.                                                           *)

(* Whatever the writer does to the sink, its type is kept.                 *)
LEMMA SinkKeepsType ==
    ASSUME Sink!SinkTypeOK,
           \/ \E r \in Records : Sink!Encode(r)
           \/ Sink!Reject
           \/ Sink!Rotate
           \/ \E ok \in BOOLEAN : Sink!CloseFile(ok)
    PROVE  Sink!SinkTypeOK'
<1>1. CASE \E r \in Records : Sink!Encode(r)
  BY <1>1 DEF Sink!SinkTypeOK, Sink!Encode
<1>2. CASE Sink!Reject
  BY <1>2 DEF Sink!SinkTypeOK, Sink!Reject, Sink!SinkStates
<1>3. ASSUME NEW k \in Sink!SinkStates, NEW c \in Sink!CloseOutcomes(k)
      PROVE  c.to \in Sink!SinkStates
  BY <1>3 DEF Sink!CloseOutcomes, Sink!SinkStates
<1>4. CASE Sink!Rotate
  BY <1>3, <1>4 DEF Sink!SinkTypeOK, Sink!Rotate, Sink!CreateOutcomes, Sink!SinkStates
<1>5. CASE \E ok \in BOOLEAN : Sink!CloseFile(ok)
  BY <1>3, <1>5 DEF Sink!SinkTypeOK, Sink!CloseFile
<1>6. QED BY <1>1, <1>2, <1>4, <1>5

(* What a session's record is made of stays a record.                      *)
LEMMA StaleIsPacket ==
    ASSUME NEW b \in Buffers, TypeOK
    PROVE  StalePackets(b) \in 0 .. MaxPackets
BY MaxPacketsAssumption DEF StalePackets, TypeOK, Records

(* A record naming a session, one of the three states and a packet number  *)
(* is a record of the model.                                               *)
LEMMA NewRecord ==
    ASSUME NEW s \in Sessions, NEW n \in 0 .. MaxPackets,
           NEW state \in {"connect", "est", "disconnect"}
    PROVE  [sess |-> s, state |-> state, pkt |-> n] \in Records
BY DEF Records

-----------------------------------------------------------------------------
(* TypeOK with HandsOK is inductive.                                       *)

Typed == TypeOK /\ HandsOK

(* Before anything runs, every buffer is blank and no hand holds one.      *)
LEMMA TypedInit == Init => Typed
<1>1. Blank \in Records
  BY MaxPacketsAssumption DEF Blank, Records
<1>2. <<>> \in Seq(Buffers) /\ <<>> \in Seq(Records) /\ Len(<<>>) = 0
  OBVIOUS
<1> SUFFICES ASSUME Init PROVE Typed
  OBVIOUS
<1>3. Sink!SinkTypeOK
  BY <1>2 DEF Init, Sink!SinkInit, Sink!SinkTypeOK, Sink!SinkStates
<1>4. chan \in Seq(Buffers) /\ Len(chan) <= Cap
  BY <1>2, CapAssumption DEF Init
<1>5. 0 \in 0 .. MaxPackets
  BY MaxPacketsAssumption
<1>6. TypeOK
  BY <1>1, <1>3, <1>4, <1>5 DEF Init, TypeOK, AcceptorStates, SessionStates, WriterStates
<1>7. HandsOK
  BY DEF Init, HandsOK
<1>8. QED
  BY <1>6, <1>7 DEF Typed

(* The push's select: the channel keeps its type.                          *)
LEMMA SentKeepsType ==
    ASSUME TypeOK, HandsOK, NEW s \in Sessions, hand[s] # None,
           Sent(s) \/ Cancelled \/ SendPanics
    PROVE  /\ chan' \in Seq(Buffers) /\ Len(chan') <= Cap
           /\ closed' = closed
           /\ mode' \in {"running", "exited", "crashed"}
<1>1. hand[s] \in Buffers
  BY DEF TypeOK
<1>2. CASE Sent(s)
  BY <1>1, <1>2, CapAssumption DEF Sent, TypeOK
<1>3. CASE Cancelled \/ SendPanics
  BY <1>3 DEF Cancelled, SendPanics, TypeOK
<1>4. QED BY <1>2, <1>3

(* No step leaves the types, nor the rule which places of a session and of *)
(* the writer hold a buffer.                                               *)
LEMMA TypedStep ==
    ASSUME Typed, [Next]_vars
    PROVE  Typed'
<1> USE DEF Typed
<1>1. ASSUME NEW s \in Sessions, Session(s)
      PROVE  Typed'
  <2> USE <1>1
  <2>0. sinkVars' = sinkVars => Sink!SinkTypeOK'
    BY DEF TypeOK, sinkVars, Sink!SinkTypeOK
  <2>1. CASE Accept(s) \/ SetupEnds(s) \/ Proxy(s) \/ LoopEnds(s) \/ WriteFails(s)
    BY <2>0, <2>1
       DEF Accept, SetupEnds, Proxy, LoopEnds, WriteFails, Goto, TypeOK, HandsOK,
           SessionStates, lifeVars, poolVars, chanVars, writerVars
  <2>2. ASSUME NEW b \in Buffers, Connect(s, b) \/ Disconnect(s, b)
        PROVE  Typed'
    <3>1. PICK state \in {"connect", "disconnect"} : stateRecord(s, b, state)
      BY <2>2 DEF Connect, Disconnect
    <3>2. [sess |-> s, state |-> state, pkt |-> 0] \in Records
      BY MaxPacketsAssumption DEF Records
    <3>3. /\ buf' \in [Buffers -> Records]
          /\ pool' \subseteq Buffers
          /\ hand' = [hand EXCEPT ![s] = b]
      BY <3>1, <3>2 DEF stateRecord, GetSendPacket, TypeOK
    <3>4. CASE Connect(s, b)
      BY <2>0, <3>4, <3>3, NoneAssumption
         DEF Connect, Goto, TypeOK, HandsOK, SessionStates, lifeVars, chanVars, writerVars
    <3>5. CASE Disconnect(s, b)
      BY <2>0, <3>5, <3>3, NoneAssumption
         DEF Disconnect, Goto, TypeOK, HandsOK, SessionStates, lifeVars, chanVars, writerVars
    <3>6. QED
      BY <2>2, <3>4, <3>5
  <2>3. ASSUME NEW b \in Buffers, LoopGets(s, b)
        PROVE  Typed'
    <3>1. buf' \in [Buffers -> Records]
      BY <2>3, NewRecord, StaleIsPacket DEF LoopGets, newSendPacket, TypeOK
    <3>2. QED
      BY <2>0, <2>3, <3>1, NoneAssumption
         DEF LoopGets, newSendPacket, GetSendPacket, Goto, TypeOK, HandsOK,
             SessionStates, lifeVars, chanVars, writerVars
  <2>4. CASE ReadPacket(s)
    <3>1. forwarded[s] + 1 \in 0 .. MaxPackets
      BY <2>4, MaxPacketsAssumption DEF ReadPacket, TypeOK
    <3>2. buf' \in [Buffers -> Records]
      BY <2>4, <3>1 DEF ReadPacket, TypeOK, Records
    <3>3. QED
      BY <2>0, <2>4, <3>2
         DEF ReadPacket, Goto, TypeOK, HandsOK, SessionStates, lifeVars, chanVars, writerVars
  <2>5. CASE ReadEnds(s)
    <3>0. PICK p \in 0 .. MaxPackets : buf' = [buf EXCEPT ![hand[s]].pkt = p]
      BY <2>5 DEF ReadEnds
    <3>1. buf' \in [Buffers -> Records]
      BY <3>0 DEF TypeOK, Records
    <3>2. QED
      BY <2>0, <2>5, <3>1
         DEF ReadEnds, Goto, TypeOK, HandsOK, SessionStates, lifeVars, chanVars, writerVars
  <2>6. CASE Forward(s)
    BY <2>0, <2>6, MaxPacketsAssumption
       DEF Forward, Goto, TypeOK, HandsOK, SessionStates, lifeVars, poolVars, chanVars, writerVars
  <2>7. CASE Finish(s)
    BY <2>0, <2>7
       DEF Finish, Goto, TypeOK, HandsOK, SessionStates, lifeVars, chanVars, writerVars
  <2>8. CASE Push(s)
    <3>1. hand[s] # None
      BY <2>8 DEF Push, PushConnect, PushPacket, PushPacketFails, PushDisconnect, PushState,
                  Goto, HandsOK
    <3>2. Sent(s) \/ Cancelled \/ SendPanics
      BY <2>8 DEF Push, PushConnect, PushPacket, PushPacketFails, PushDisconnect, PushState
    <3>3. /\ chan' \in Seq(Buffers) /\ Len(chan') <= Cap
          /\ closed' = closed
          /\ mode' \in {"running", "exited", "crashed"}
      BY <3>1, <3>2, SentKeepsType
    <3>4. QED
      BY <2>0, <2>8, <3>3
         DEF Push, PushConnect, PushPacket, PushPacketFails, PushDisconnect, PushState,
             Goto, TypeOK, HandsOK, SessionStates, poolVars, writerVars
  <2>9. QED
    BY <1>1, <2>1, <2>2, <2>3, <2>4, <2>5, <2>6, <2>7, <2>8 DEF Session, Progress
<1>2. CASE Writer
  <2>1. CASE WriterCheck \/ WriterCancelled
    BY <2>1 DEF WriterCheck, WriterCancelled, WriterGoto, TypeOK, HandsOK, WriterStates,
                Sink!SinkTypeOK, lifeVars, sessionVars, poolVars, chanVars, sinkVars
  <2>2. CASE WriterReceive
    <3>1. Head(chan) \in Buffers /\ Tail(chan) \in Seq(Buffers) /\ Len(Tail(chan)) <= Cap
      BY <2>2, CapAssumption DEF WriterReceive, TypeOK
    <3>2. QED
      BY <2>2, <3>1, NoneAssumption
         DEF WriterReceive, WriterGoto, TypeOK, HandsOK, WriterStates,
             Sink!SinkTypeOK, lifeVars, sessionVars, poolVars, sinkVars
  <2>3. CASE WriterDrained \/ WriterTick \/ WriterEnds
    <3>1. Sink!SinkTypeOK'
      BY <2>3, SinkKeepsType DEF WriterDrained, WriterTick, WriterEnds, TypeOK
    <3>2. QED
      BY <2>3, <3>1 DEF WriterDrained, WriterTick, WriterEnds, WriterGoto, TypeOK, HandsOK,
                WriterStates, lifeVars, sessionVars, poolVars, chanVars
  <2>4. CASE WriterEncode
    <3>1. wbuf \in Buffers
      BY <2>4 DEF WriterEncode, WriterGoto, TypeOK, HandsOK
    <3>2. buf[wbuf] \in Records
      BY <3>1 DEF TypeOK
    <3>3. Sink!SinkTypeOK'
      BY <2>4, <3>2, SinkKeepsType DEF WriterEncode, TypeOK
    <3>4. QED
      BY <2>4, <3>1, <3>3 DEF WriterEncode, WriterGoto, TypeOK, HandsOK,
                WriterStates, lifeVars, sessionVars, chanVars
  <2>5. CASE WriterPanics
    BY <2>5 DEF WriterPanics, TypeOK, HandsOK, Sink!SinkTypeOK,
                sessionVars, poolVars, chanVars, writerVars, sinkVars
  <2>6. QED
    BY <1>2, <2>1, <2>2, <2>3, <2>4, <2>5 DEF Writer
<1>3. CASE Acceptor \/ Interrupt \/ Exit
  BY <1>3 DEF Acceptor, Listen, ListenFails, AcceptEnds, CloseChannel, Cancel, AcceptorGoto,
              Interrupt, Exit, TypeOK, HandsOK, AcceptorStates, Sink!SinkTypeOK,
              sessionVars, poolVars, chanVars, writerVars, sinkVars
<1>4. CASE UNCHANGED vars
  BY <1>4 DEF TypeOK, HandsOK, Sink!SinkTypeOK,
              vars, lifeVars, sessionVars, poolVars, chanVars, writerVars, sinkVars,
              InChannel
<1>5. QED
  BY <1>1, <1>2, <1>3, <1>4 DEF Next, Ended

(* TypeOK holds in every reachable state; the program counters and what    *)
(* the goroutines hold agree.                                              *)
THEOREM TypeCorrect == Spec => [](TypeOK /\ HandsOK)
<1>1. Init => Typed
  BY TypedInit
<1>2. Typed /\ [Next]_vars => Typed'
  BY TypedStep
<1>3. QED
  BY <1>1, <1>2, PTL DEF Spec, Typed

-----------------------------------------------------------------------------
(* ExclusiveBuffers is inductive beside Typed.                             *)

(* At the start every buffer is in the pool, and nowhere else.             *)
LEMMA ExclusiveInit == Init => ExclusiveBuffers
BY DEF Init, ExclusiveBuffers, SessionsDisjoint, ChannelDistinct, SessionsApart, QueueApart,
       InChannel

(* Nothing moves.                                                          *)
LEMMA ExclusiveFrame ==
    ASSUME ExclusiveBuffers, UNCHANGED <<hand, pool, chan, wbuf>>
    PROVE  ExclusiveBuffers'
BY DEF ExclusiveBuffers, SessionsDisjoint, ChannelDistinct, SessionsApart, QueueApart, InChannel

(* The pool gives out what nobody holds.                                   *)
LEMMA ExclusiveGet ==
    ASSUME Typed, ExclusiveBuffers, NEW s \in Sessions, NEW b \in Buffers,
           GetSendPacket(s, b), UNCHANGED <<chan, wbuf>>
    PROVE  ExclusiveBuffers'
<1>1. /\ \A t \in Sessions : hand[t] # b
      /\ ~ InChannel(b)
      /\ wbuf # b
  BY NoneAssumption
     DEF GetSendPacket, Unreferenced, ExclusiveBuffers, SessionsApart, QueueApart
<1>2. /\ pool' = pool \ {b}
      /\ hand' = [hand EXCEPT ![s] = b]
      /\ hand \in [Sessions -> Buffers \cup {None}]
  BY DEF GetSendPacket, Typed, TypeOK
<1>3. \A c : InChannel(c)' <=> InChannel(c)
  BY DEF InChannel
<1>4. SessionsDisjoint'
  BY <1>1, <1>2 DEF ExclusiveBuffers, SessionsDisjoint
<1>5. ChannelDistinct'
  BY DEF ExclusiveBuffers, ChannelDistinct
<1>6. SessionsApart'
  BY <1>1, <1>2, <1>3 DEF ExclusiveBuffers, SessionsApart
<1>7. QueueApart'
  BY <1>2, <1>3 DEF ExclusiveBuffers, QueueApart
<1>8. QED
  BY <1>4, <1>5, <1>6, <1>7 DEF ExclusiveBuffers

(* A sent buffer leaves the session's hand.                                *)
LEMMA ExclusiveSend ==
    ASSUME Typed, ExclusiveBuffers, NEW s \in Sessions, hand[s] # None,
           chan' = Append(chan, hand[s]),
           hand' = [hand EXCEPT ![s] = None],
           UNCHANGED <<pool, wbuf>>
    PROVE  ExclusiveBuffers'
<1>1. /\ hand \in [Sessions -> Buffers \cup {None}]
      /\ hand[s] \in Buffers
      /\ chan \in Seq(Buffers)
  BY DEF Typed, TypeOK
<1>2. /\ Len(chan') = Len(chan) + 1
      /\ \A i \in 1 .. Len(chan) : chan'[i] = chan[i]
      /\ chan'[Len(chan) + 1] = hand[s]
      /\ Len(chan) \in Nat
  BY <1>1
<1>3. \A c : InChannel(c)' <=> (InChannel(c) \/ c = hand[s])
  BY <1>2 DEF InChannel
<1>4. SessionsDisjoint'
  BY <1>1 DEF ExclusiveBuffers, SessionsDisjoint
<1>5. ChannelDistinct'
  <2>1. \A i \in 1 .. Len(chan) : chan[i] # hand[s]
    BY DEF ExclusiveBuffers, SessionsApart, InChannel
  <2>2. QED
    BY <1>2, <2>1 DEF ExclusiveBuffers, ChannelDistinct
<1>6. SessionsApart'
  BY <1>1, <1>3 DEF ExclusiveBuffers, SessionsApart, SessionsDisjoint
<1>7. QueueApart'
  BY <1>1, <1>3 DEF ExclusiveBuffers, QueueApart, SessionsApart
<1>8. QED
  BY <1>4, <1>5, <1>6, <1>7 DEF ExclusiveBuffers

(* A session lets its buffer go: to the pool, or to the garbage collector. *)
LEMMA ExclusiveRelease ==
    ASSUME Typed, ExclusiveBuffers, NEW s \in Sessions,
           hand' = [hand EXCEPT ![s] = None],
           pool' = pool \/ (hand[s] # None /\ pool' = pool \cup {hand[s]}),
           UNCHANGED <<chan, wbuf>>
    PROVE  ExclusiveBuffers'
<1>1. /\ hand \in [Sessions -> Buffers \cup {None}]
      /\ pool' \subseteq pool \cup {hand[s]}
      /\ hand[s] = None => pool' = pool
  BY DEF Typed, TypeOK
<1>2. \A c : InChannel(c)' <=> InChannel(c)
  BY DEF InChannel
<1>3. SessionsDisjoint'
  BY <1>1 DEF ExclusiveBuffers, SessionsDisjoint
<1>4. ChannelDistinct'
  BY DEF ExclusiveBuffers, ChannelDistinct
<1>5. SessionsApart'
  BY <1>1, <1>2 DEF ExclusiveBuffers, SessionsApart, SessionsDisjoint
<1>6. QueueApart'
  BY <1>1, <1>2 DEF ExclusiveBuffers, QueueApart, SessionsApart
<1>7. QED
  BY <1>3, <1>4, <1>5, <1>6 DEF ExclusiveBuffers

(* The writer takes the oldest buffer off the channel.                     *)
LEMMA ExclusiveReceive ==
    ASSUME Typed, ExclusiveBuffers, wbuf = None, chan # <<>>,
           wbuf' = Head(chan), chan' = Tail(chan), UNCHANGED <<hand, pool>>
    PROVE  ExclusiveBuffers'
<1>1. /\ chan \in Seq(Buffers)
      /\ pool \subseteq Buffers
  BY DEF Typed, TypeOK
<1>2. /\ Len(chan) \in Nat \ {0}
      /\ Len(chan') = Len(chan) - 1
      /\ \A i \in 1 .. Len(chan') : chan'[i] = chan[i + 1]
      /\ wbuf' = chan[1]
  BY <1>1
<1>3. InChannel(wbuf')
  BY <1>2 DEF InChannel
<1>4. \A c : InChannel(c)' => InChannel(c)
  BY <1>2 DEF InChannel
<1>5. \A i \in 1 .. Len(chan') : chan'[i] # wbuf'
  <2>1. SUFFICES ASSUME NEW i \in 1 .. Len(chan')
                 PROVE  chan[i + 1] # chan[1]
    BY <1>2
  <2>2. i + 1 \in 1 .. Len(chan) /\ 1 \in 1 .. Len(chan) /\ i + 1 # 1
    BY <1>2
  <2>3. QED
    BY <2>2 DEF ExclusiveBuffers, ChannelDistinct
<1>6. SessionsDisjoint'
  BY DEF ExclusiveBuffers, SessionsDisjoint
<1>7. ChannelDistinct'
  BY <1>2 DEF ExclusiveBuffers, ChannelDistinct
<1>8. SessionsApart'
  BY <1>3, <1>4 DEF ExclusiveBuffers, SessionsApart
<1>9. QueueApart'
  <2>1. wbuf' \notin pool
    BY <1>3 DEF ExclusiveBuffers, QueueApart
  <2>2. QED
    BY <1>4, <1>5, <2>1 DEF ExclusiveBuffers, QueueApart, InChannel
<1>10. QED
  BY <1>6, <1>7, <1>8, <1>9 DEF ExclusiveBuffers

(* ... and puts it in the pool.                                            *)
LEMMA ExclusivePut ==
    ASSUME Typed, ExclusiveBuffers, wbuf \in Buffers,
           pool' = pool \cup {wbuf}, wbuf' = None, UNCHANGED <<hand, chan>>
    PROVE  ExclusiveBuffers'
<1>1. wbuf # None /\ hand \in [Sessions -> Buffers \cup {None}]
  BY NoneAssumption DEF Typed, TypeOK
<1>2. \A c : InChannel(c)' <=> InChannel(c)
  BY DEF InChannel
<1>3. SessionsDisjoint' /\ ChannelDistinct'
  BY DEF ExclusiveBuffers, SessionsDisjoint, ChannelDistinct
<1>4. SessionsApart'
  BY <1>1, <1>2 DEF ExclusiveBuffers, SessionsApart
<1>5. QueueApart'
  BY <1>1, <1>2 DEF ExclusiveBuffers, QueueApart
<1>6. QED
  BY <1>3, <1>4, <1>5 DEF ExclusiveBuffers

(* A buffer always moves: no step leaves it in two of the pool, a hand,    *)
(* the channel and the writer.                                             *)
LEMMA ExclusiveStep ==
    ASSUME Typed, ExclusiveBuffers, [Next]_vars
    PROVE  ExclusiveBuffers'
<1>1. ASSUME NEW s \in Sessions, Session(s)
      PROVE  ExclusiveBuffers'
  <2>1. CASE \/ Accept(s) \/ SetupEnds(s) \/ Proxy(s) \/ LoopEnds(s)
             \/ ReadPacket(s) \/ ReadEnds(s) \/ Forward(s) \/ WriteFails(s)
    BY <2>1, ExclusiveFrame
       DEF Accept, SetupEnds, Proxy, LoopEnds, ReadPacket, ReadEnds, Forward, WriteFails,
           poolVars, chanVars, writerVars
  <2>2. ASSUME NEW b \in Buffers, Connect(s, b) \/ LoopGets(s, b) \/ Disconnect(s, b)
        PROVE  ExclusiveBuffers'
    BY <2>2, ExclusiveGet
       DEF Connect, LoopGets, Disconnect, stateRecord, newSendPacket, chanVars, writerVars
  <2>3. CASE Finish(s)
    BY <2>3, ExclusiveRelease DEF Finish, chanVars, writerVars
  <2>4. CASE PushPacketFails(s)
    BY <2>4, ExclusiveFrame DEF PushPacketFails, Cancelled, poolVars, writerVars
  <2>5. CASE PushConnect(s) \/ PushPacket(s) \/ PushDisconnect(s)
    <3>1. /\ hand[s] # None
          /\ hand' = [hand EXCEPT ![s] = None]
          /\ UNCHANGED <<pool, wbuf>>
      BY <1>1, <2>5
         DEF PushConnect, PushPacket, PushDisconnect, PushState, Goto, Typed, HandsOK,
             poolVars, writerVars
    <3>2. CASE Sent(s)
      BY <3>1, <3>2, ExclusiveSend DEF Sent
    <3>3. CASE Cancelled \/ SendPanics
      BY <3>1, <3>3, ExclusiveRelease DEF Cancelled, SendPanics
    <3>4. QED
      BY <2>5, <3>2, <3>3 DEF PushConnect, PushPacket, PushDisconnect, PushState
  <2>6. QED
    BY <1>1, <2>1, <2>2, <2>3, <2>4, <2>5 DEF Session, Progress, Push
<1>2. CASE Writer
  <2>1. CASE WriterReceive
    BY <2>1, ExclusiveReceive
       DEF WriterReceive, WriterGoto, Typed, HandsOK, sessionVars, poolVars
  <2>2. CASE WriterEncode
    <3>1. wbuf \in Buffers
      BY <2>2 DEF WriterEncode, WriterGoto, Typed, TypeOK, HandsOK
    <3>2. QED
      BY <2>2, <3>1, ExclusivePut DEF WriterEncode, sessionVars, chanVars
  <2>3. CASE \/ WriterCheck \/ WriterCancelled \/ WriterDrained
             \/ WriterTick \/ WriterPanics \/ WriterEnds
    BY <2>3, ExclusiveFrame
       DEF WriterCheck, WriterCancelled, WriterDrained, WriterTick, WriterPanics, WriterEnds,
           sessionVars, poolVars, chanVars, writerVars
  <2>4. QED
    BY <1>2, <2>1, <2>2, <2>3 DEF Writer
<1>3. CASE Acceptor \/ Interrupt \/ Exit
  BY <1>3, ExclusiveFrame
     DEF Acceptor, Listen, ListenFails, AcceptEnds, CloseChannel, Cancel, AcceptorGoto,
         Interrupt, Exit, sessionVars, poolVars, chanVars, writerVars
<1>4. CASE UNCHANGED vars
  BY <1>4, ExclusiveFrame DEF vars, sessionVars, poolVars, chanVars, writerVars
<1>5. QED
  BY <1>1, <1>2, <1>3, <1>4 DEF Next, Ended

(* No buffer is ever in two places, for any number of sessions and any     *)
(* channel: a session cannot overwrite a record that is queued, being      *)
(* encoded, or another's.                                                  *)
THEOREM BuffersAreExclusive == Spec => []ExclusiveBuffers
<1>1. Init => Typed /\ ExclusiveBuffers
  BY TypedInit, ExclusiveInit
<1>2. Typed /\ ExclusiveBuffers /\ [Next]_vars => (Typed /\ ExclusiveBuffers)'
  BY TypedStep, ExclusiveStep
<1>3. QED
  BY <1>1, <1>2, PTL DEF Spec

-----------------------------------------------------------------------------
(* The two panics.                                                         *)

(* No step breaks the order in which the program stops, nor panics but for *)
(* the two known causes.                                                   *)
LEMMA LifeStep ==
    ASSUME Typed, LifeOK, CrashCause, [Next]_vars
    PROVE  LifeOK' /\ CrashCause'
<1>1. ASSUME NEW s \in Sessions, Session(s)
      PROVE  LifeOK' /\ CrashCause'
  <2>1. CASE Accept(s)
    BY <2>1 DEF Accept, Goto, LifeOK, CrashCause, lifeVars, chanVars, Typed, TypeOK
  <2>2. CASE ~ Accept(s)
    <3>1. /\ spc[s] # "idle" /\ mode = "running"
          /\ \A t \in Sessions : spc'[t] # "idle" => spc[t] # "idle"
          /\ UNCHANGED <<ctx, acceptor, closed, sink>>
          /\ mode' = mode \/ (mode' = "crashed" /\ closed)
      BY <1>1, <2>2
         DEF Session, Progress, Push, SetupEnds, Proxy, ReadPacket, ReadEnds, Connect, LoopGets,
             Disconnect, LoopEnds, Forward, WriteFails, Finish, PushConnect, PushPacket,
             PushPacketFails, PushDisconnect, PushState, Sent, Cancelled, SendPanics, Goto,
             Typed, TypeOK, lifeVars, chanVars, sinkVars
    <3>2. QED
      BY <3>1 DEF LifeOK, CrashCause
  <2>3. QED
    BY <2>1, <2>2
<1>2. CASE Writer
  <2>1. CASE WriterPanics
    BY <2>1 DEF WriterPanics, LifeOK, CrashCause, sessionVars, chanVars, sinkVars
  <2>2. CASE ~ WriterPanics
    <3>1. mode = "running" /\ UNCHANGED <<mode, ctx, acceptor, spc, closed>>
      BY <1>2, <2>2
         DEF Writer, WriterCheck, WriterCancelled, WriterReceive, WriterDrained, WriterTick,
             WriterEncode, WriterEnds, WriterGoto, lifeVars, sessionVars, chanVars
    <3>2. QED
      BY <3>1 DEF LifeOK, CrashCause
  <2>3. QED
    BY <2>1, <2>2
<1>3. CASE Acceptor \/ Interrupt \/ Exit
  BY <1>3
     DEF Acceptor, Listen, ListenFails, AcceptEnds, CloseChannel, Cancel, AcceptorGoto,
         Interrupt, Exit, LifeOK, CrashCause, Typed, TypeOK, sessionVars, chanVars
<1>4. CASE UNCHANGED vars
  BY <1>4 DEF vars, lifeVars, sessionVars, chanVars, sinkVars, LifeOK, CrashCause
<1>5. QED
  BY <1>1, <1>2, <1>3, <1>4 DEF Next, Ended

(* The proxy process panics only in a push on the closed channel after ctx *)
(* is done, or on a record that finds no gzip writer.                      *)
THEOREM CrashesExplained == Spec => []CrashCause
<1>1. Init => Typed /\ LifeOK /\ CrashCause
  <2>1. Init => LifeOK /\ CrashCause
    BY DEF Init, LifeOK, CrashCause
  <2>2. QED
    BY <2>1, TypedInit
<1>2. Typed /\ LifeOK /\ CrashCause /\ [Next]_vars => (Typed /\ LifeOK /\ CrashCause)'
  BY TypedStep, LifeStep
<1>3. QED
  BY <1>1, <1>2, PTL DEF Spec

-----------------------------------------------------------------------------
(* No operation goes unaudited while the proxy serves.                     *)

(* Packet n of session s is in the log or in a buffer that will be.        *)
OnItsWay(s, n) ==
    LET r == Packet(s, n)
    IN  Logged(r) \/ Queued(r) \/ Encoding(r) \/ Pushing(s, r)

Serving == mode = "running" /\ ~ ctx /\ sink # "broken"

(* What the buffer in a session's hand holds: its own packet, numbered by  *)
(* what the target has.                                                    *)
FilledOK ==
    \A s \in Sessions :
        /\ spc[s] \in {"read", "write", "push"} =>
              buf[hand[s]].sess = s /\ buf[hand[s]].state = "est"
        /\ spc[s] = "write" => buf[hand[s]].pkt = forwarded[s] + 1
        /\ spc[s] = "push" => buf[hand[s]].pkt = forwarded[s]

Audited == Typed /\ ExclusiveBuffers /\ FilledOK /\ NoOperationUnaudited

-----------------------------------------------------------------------------
(* FilledOK.                                                               *)

(* A step of a session writes only in the buffer it holds or takes.        *)
LEMMA OthersKeepTheirs ==
    ASSUME Typed, ExclusiveBuffers, NEW s \in Sessions, Session(s)
    PROVE  \A t \in Sessions \ {s} :
              /\ spc'[t] = spc[t] /\ hand'[t] = hand[t] /\ forwarded'[t] = forwarded[t]
              /\ hand[t] # None => buf'[hand[t]] = buf[hand[t]]
<1> SUFFICES ASSUME NEW t \in Sessions \ {s}
             PROVE  /\ spc'[t] = spc[t] /\ hand'[t] = hand[t] /\ forwarded'[t] = forwarded[t]
                    /\ hand[t] # None => buf'[hand[t]] = buf[hand[t]]
  OBVIOUS
<1> USE DEF Typed
<1>1. CASE \/ Accept(s) \/ SetupEnds(s) \/ Proxy(s) \/ LoopEnds(s)
           \/ WriteFails(s) \/ Finish(s) \/ Push(s)
  BY <1>1 DEF Accept, SetupEnds, Proxy, LoopEnds, WriteFails, Finish, Push, PushConnect,
     PushPacket, PushPacketFails, PushDisconnect, PushState, Goto, TypeOK, poolVars
<1>2. CASE ReadPacket(s) \/ ReadEnds(s)
  <2>1. hand[s] # None
    BY <1>2 DEF ReadPacket, ReadEnds, Goto, HandsOK
  <2>2. hand[t] # None => hand[t] # hand[s]
    BY <2>1 DEF ExclusiveBuffers, SessionsDisjoint
  <2>3. QED
    BY <1>2, <2>2 DEF ReadPacket, ReadEnds, Goto, TypeOK
<1>3. CASE Forward(s)
  BY <1>3 DEF Forward, Goto, TypeOK, poolVars
<1>4. ASSUME NEW b \in Buffers, Connect(s, b) \/ LoopGets(s, b) \/ Disconnect(s, b)
      PROVE  /\ spc'[t] = spc[t] /\ hand'[t] = hand[t] /\ forwarded'[t] = forwarded[t]
             /\ hand[t] # None => buf'[hand[t]] = buf[hand[t]]
  <2>1. GetSendPacket(s, b)
    BY <1>4 DEF Connect, LoopGets, Disconnect, stateRecord, newSendPacket
  <2>2. hand[t] # b
    BY <2>1, NoneAssumption DEF GetSendPacket, Unreferenced, ExclusiveBuffers, SessionsApart
  <2>3. QED
    BY <1>4, <2>1, <2>2 DEF Connect, LoopGets, Disconnect, stateRecord, newSendPacket,
       GetSendPacket, Goto, TypeOK
<1>5. QED
  BY <1>1, <1>2, <1>3, <1>4 DEF Session, Progress

(* A step fills only the buffer its own session holds, so what another     *)
(* session has filled stays.                                               *)
LEMMA FilledStep ==
    ASSUME Typed, ExclusiveBuffers, FilledOK, [Next]_vars
    PROVE  FilledOK'
<1>1. ASSUME NEW s \in Sessions, Session(s)
      PROVE  FilledOK'
  <2> USE DEF Typed
  <2>1. \A t \in Sessions \ {s} :
           /\ spc'[t] \in {"read", "write", "push"} =>
                 buf'[hand'[t]].sess = t /\ buf'[hand'[t]].state = "est"
           /\ spc'[t] = "write" => buf'[hand'[t]].pkt = forwarded'[t] + 1
           /\ spc'[t] = "push" => buf'[hand'[t]].pkt = forwarded'[t]
    BY <1>1, OthersKeepTheirs DEF FilledOK, HandsOK
  <2> DEFINE Mine ==
        /\ spc'[s] \in {"read", "write", "push"} =>
              buf'[hand'[s]].sess = s /\ buf'[hand'[s]].state = "est"
        /\ spc'[s] = "write" => buf'[hand'[s]].pkt = forwarded'[s] + 1
        /\ spc'[s] = "push" => buf'[hand'[s]].pkt = forwarded'[s]
  <2>2. spc'[s] \notin {"read", "write", "push"} => Mine
    OBVIOUS
  <2>3. ASSUME NEW b \in Buffers, LoopGets(s, b)
        PROVE  Mine
    BY <2>3 DEF LoopGets, newSendPacket, GetSendPacket, Goto, TypeOK
  <2>4. ASSUME ReadPacket(s)
        PROVE  Mine
    <3>1. /\ hand[s] \in Buffers
          /\ buf' = [buf EXCEPT ![hand[s]].pkt = forwarded[s] + 1]
          /\ spc[s] = "read" /\ spc'[s] = "write"
          /\ UNCHANGED <<hand, forwarded>>
      BY <2>4 DEF ReadPacket, Goto, TypeOK, HandsOK
    <3>2. /\ buf'[hand[s]].pkt = forwarded[s] + 1
          /\ buf'[hand[s]].sess = buf[hand[s]].sess
          /\ buf'[hand[s]].state = buf[hand[s]].state
      BY <3>1 DEF TypeOK, Records
    <3>3. QED
      BY <3>1, <3>2 DEF FilledOK
  <2>5. ASSUME Forward(s)
        PROVE  Mine
    BY <2>5 DEF Forward, Goto, TypeOK, FilledOK, poolVars
  <2>6. ASSUME \/ Accept(s) \/ SetupEnds(s) \/ Proxy(s) \/ LoopEnds(s) \/ ReadEnds(s)
               \/ WriteFails(s) \/ Finish(s) \/ Push(s)
               \/ \E b \in Buffers : Connect(s, b) \/ Disconnect(s, b)
        PROVE  Mine
    BY <2>6, <2>2 DEF Accept, SetupEnds, Proxy, LoopEnds, ReadEnds, WriteFails, Finish, Push,
       PushConnect, PushPacket, PushPacketFails, PushDisconnect, PushState, Connect, Disconnect,
       Goto, TypeOK
  <2>7. Mine
    BY <1>1, <2>3, <2>4, <2>5, <2>6 DEF Session, Progress
  <2>8. QED
    BY <2>1, <2>7 DEF FilledOK
<1>2. CASE Writer \/ Acceptor \/ Interrupt \/ Exit \/ UNCHANGED vars
  <2>1. UNCHANGED <<spc, hand, forwarded, buf>>
    BY <1>2 DEF Writer, WriterCheck, WriterCancelled, WriterReceive, WriterDrained, WriterTick,
       WriterEncode, WriterPanics, WriterEnds, Acceptor, Listen, ListenFails, AcceptEnds,
       CloseChannel, Cancel, AcceptorGoto, Interrupt, Exit, vars, sessionVars, poolVars
  <2>2. QED
    BY <2>1 DEF FilledOK
<1>3. QED
  BY <1>1, <1>2 DEF Next, Ended

-----------------------------------------------------------------------------
(* What is on its way stays on its way.                                    *)

(* A record is determined by its session, its state and its packet number. *)
LEMMA FilledPacket ==
    ASSUME NEW s, NEW n, NEW r \in Records, r.sess = s, r.state = "est", r.pkt = n
    PROVE  r = Packet(s, n)
BY DEF Records, Packet

(* No step that touches neither the channel, the writer, the log nor a     *)
(* buffer that is queued, being encoded or being pushed.                   *)
LEMMA WayFrame ==
    ASSUME NEW s \in Sessions, NEW n, OnItsWay(s, n),
           UNCHANGED <<chan, wbuf, log>>,
           \A b \in Buffers : InChannel(b) \/ b = wbuf => buf'[b] = buf[b],
           spc[s] = "push" /\ hand[s] # None =>
              spc'[s] = "push" /\ hand'[s] = hand[s] /\ buf'[hand[s]] = buf[hand[s]],
           Typed
    PROVE  OnItsWay(s, n)'
<1> DEFINE r == Packet(s, n)
<1>1. r' = r
  BY DEF Packet
<1>2. CASE Logged(r)
  BY <1>1, <1>2 DEF OnItsWay, Logged, Packet
<1>3. CASE Queued(r)
  <2>1. PICK i \in 1 .. Len(chan) : buf[chan[i]] = r
    BY <1>3 DEF Queued
  <2>2. chan[i] \in Buffers /\ InChannel(chan[i])
    BY <2>1 DEF Typed, TypeOK, InChannel
  <2>3. buf'[chan'[i]] = r /\ i \in 1 .. Len(chan')
    BY <2>1, <2>2
  <2>4. QED
    BY <2>3 DEF OnItsWay, Queued, Packet
<1>4. CASE Encoding(r)
  BY <1>1, <1>4 DEF OnItsWay, Encoding, Packet, Typed, TypeOK
<1>5. CASE Pushing(s, r)
  BY <1>1, <1>5 DEF OnItsWay, Pushing, Packet
<1>6. QED
  BY <1>2, <1>3, <1>4, <1>5 DEF OnItsWay

(* A push that is sent: the record goes from the hand to the channel.      *)
LEMMA WaySent ==
    ASSUME Typed, NEW t \in Sessions, hand[t] # None, Sent(t),
           UNCHANGED <<buf, wbuf, log>>,
           NEW s \in Sessions, NEW n, OnItsWay(s, n),
           s # t => spc'[s] = spc[s] /\ hand'[s] = hand[s]
    PROVE  OnItsWay(s, n)'
<1> DEFINE r == Packet(s, n)
<1>1. /\ chan \in Seq(Buffers) /\ hand[t] \in Buffers
      /\ chan' = Append(chan, hand[t])
  BY DEF Typed, TypeOK, Sent
<1>2. /\ Len(chan') = Len(chan) + 1 /\ Len(chan) \in Nat
      /\ \A i \in 1 .. Len(chan) : chan'[i] = chan[i]
      /\ chan'[Len(chan) + 1] = hand[t]
  BY <1>1
<1>3. CASE Logged(r)
  BY <1>3 DEF OnItsWay, Logged, Packet
<1>4. CASE Queued(r)
  <2>1. PICK i \in 1 .. Len(chan) : buf[chan[i]] = r
    BY <1>4 DEF Queued
  <2>2. i \in 1 .. Len(chan') /\ buf'[chan'[i]] = r
    BY <1>2, <2>1
  <2>3. QED
    BY <2>2 DEF OnItsWay, Queued, Packet
<1>5. CASE Encoding(r)
  BY <1>5 DEF OnItsWay, Encoding, Packet
<1>6. CASE Pushing(s, r) /\ s = t
  <2>1. Len(chan) + 1 \in 1 .. Len(chan') /\ buf'[chan'[Len(chan) + 1]] = r
    BY <1>2, <1>6 DEF Pushing
  <2>2. QED
    BY <2>1 DEF OnItsWay, Queued, Packet
<1>7. CASE Pushing(s, r) /\ s # t
  BY <1>7 DEF OnItsWay, Pushing, Packet
<1>8. QED
  BY <1>3, <1>4, <1>5, <1>6, <1>7 DEF OnItsWay

(* The writer takes a record off the channel ...                           *)
LEMMA WayReceived ==
    ASSUME Typed, wbuf = None, chan # <<>>,
           wbuf' = Head(chan), chan' = Tail(chan), UNCHANGED <<spc, hand, buf, log>>,
           NEW s \in Sessions, NEW n, OnItsWay(s, n)
    PROVE  OnItsWay(s, n)'
<1> DEFINE r == Packet(s, n)
<1>1. chan \in Seq(Buffers)
  BY DEF Typed, TypeOK
<1>2. /\ Len(chan) \in Nat \ {0}
      /\ Len(chan') = Len(chan) - 1
      /\ \A i \in 1 .. Len(chan') : chan'[i] = chan[i + 1]
      /\ wbuf' = chan[1] /\ chan[1] \in Buffers
  BY <1>1
<1>3. CASE Logged(r)
  BY <1>3 DEF OnItsWay, Logged, Packet
<1>4. CASE Queued(r)
  <2>1. PICK i \in 1 .. Len(chan) : buf[chan[i]] = r
    BY <1>4 DEF Queued
  <2>2. CASE i = 1
    BY <1>2, <2>1, <2>2, NoneAssumption DEF OnItsWay, Encoding, Packet
  <2>3. CASE i # 1
    <3>1. i - 1 \in 1 .. Len(chan') /\ chan'[i - 1] = chan[i]
      BY <1>2, <2>1, <2>3
    <3>2. QED
      BY <2>1, <3>1 DEF OnItsWay, Queued, Packet
  <2>4. QED
    BY <2>2, <2>3
<1>5. CASE Pushing(s, r)
  BY <1>5 DEF OnItsWay, Pushing, Packet
<1>6. QED
  BY <1>3, <1>4, <1>5 DEF OnItsWay, Encoding

(* ... and encodes it.                                                     *)
LEMMA WayEncoded ==
    ASSUME Typed, wbuf \in Buffers, Sink!Encode(buf[wbuf]),
           UNCHANGED <<spc, hand, buf, chan>>,
           NEW s \in Sessions, NEW n, OnItsWay(s, n)
    PROVE  OnItsWay(s, n)'
<1> DEFINE r == Packet(s, n)
<1>1. log \in Seq(Records) /\ buf[wbuf] \in Records /\ log' = Append(log, buf[wbuf])
  BY DEF Typed, TypeOK, Sink!SinkTypeOK, Sink!Encode
<1>2. /\ Len(log') = Len(log) + 1 /\ Len(log) \in Nat
      /\ \A i \in 1 .. Len(log) : log'[i] = log[i]
      /\ log'[Len(log) + 1] = buf[wbuf]
  BY <1>1
<1>3. CASE Logged(r)
  <2>1. PICK i \in 1 .. Len(log) : log[i] = r
    BY <1>3 DEF Logged
  <2>2. i \in 1 .. Len(log') /\ log'[i] = r
    BY <1>2, <2>1
  <2>3. QED
    BY <2>2 DEF OnItsWay, Logged, Packet
<1>4. CASE Queued(r)
  BY <1>4 DEF OnItsWay, Queued, Packet
<1>5. CASE Encoding(r)
  <2>1. Len(log) + 1 \in 1 .. Len(log') /\ log'[Len(log) + 1] = r
    BY <1>2, <1>5 DEF Encoding
  <2>2. QED
    BY <2>1 DEF OnItsWay, Logged, Packet
<1>6. CASE Pushing(s, r)
  BY <1>6 DEF OnItsWay, Pushing, Packet
<1>7. QED
  BY <1>3, <1>4, <1>5, <1>6 DEF OnItsWay

-----------------------------------------------------------------------------
(* A log file that has failed stays so ...                                 *)
LEMMA BrokenStays ==
    ASSUME [Next]_vars, sink = "broken"
    PROVE  sink' = "broken"
<1>1. \A k, c : k = "broken" /\ c \in Sink!CloseOutcomes(k) => c = [to |-> "broken", ok |-> FALSE]
  BY DEF Sink!CloseOutcomes
<1>2. ASSUME Sink!Rotate \/ \E ok \in BOOLEAN : Sink!CloseFile(ok)
      PROVE  sink' = "broken"
  BY <1>1, <1>2 DEF Sink!Rotate, Sink!CloseFile
<1>3. QED
  BY <1>2
     DEF Next, Ended, vars, Session, Progress, Push, Accept, SetupEnds, Proxy, ReadPacket,
         ReadEnds, Connect, LoopGets, Disconnect, LoopEnds, Forward, WriteFails, Finish,
         PushConnect, PushPacket, PushPacketFails, PushDisconnect, PushState,
         Writer, WriterCheck, WriterCancelled, WriterReceive, WriterDrained, WriterTick,
         WriterEncode, WriterPanics, WriterEnds, Acceptor, Listen, ListenFails, AcceptEnds,
         CloseChannel, Cancel, AcceptorGoto, Interrupt, Exit, sinkVars, Sink!Encode, Sink!Reject

(* ... a process that has ended takes no step ...                          *)
LEMMA EndedStays ==
    ASSUME [Next]_vars, mode # "running"
    PROVE  UNCHANGED vars
BY DEF Next, Ended, vars, Session, Progress, Push, Accept, SetupEnds, Proxy, ReadPacket,
       ReadEnds, Connect, LoopGets, Disconnect, LoopEnds, Forward, WriteFails, Finish,
       PushConnect, PushPacket, PushPacketFails, PushDisconnect, PushState, Goto,
       Writer, WriterCheck, WriterCancelled, WriterReceive, WriterDrained, WriterTick,
       WriterEncode, WriterPanics, WriterEnds, WriterGoto,
       Acceptor, Listen, ListenFails, AcceptEnds,
       CloseChannel, Cancel, AcceptorGoto, Interrupt, Exit

(* ... and a cancelled ctx stays cancelled.                                *)
LEMMA CancelledStays ==
    ASSUME [Next]_vars, ctx
    PROVE  ctx'
BY DEF Next, Ended, vars, Session, Progress, Push, Accept, SetupEnds, Proxy, ReadPacket,
       ReadEnds, Connect, LoopGets, Disconnect, LoopEnds, Forward, WriteFails, Finish,
       PushConnect, PushPacket, PushPacketFails, PushDisconnect, PushState,
       Writer, WriterCheck, WriterCancelled, WriterReceive, WriterDrained, WriterTick,
       WriterEncode, WriterPanics, WriterEnds, Acceptor, Listen, ListenFails, AcceptEnds,
       CloseChannel, Cancel, AcceptorGoto, Interrupt, Exit, lifeVars

(* A program still serving after a step was serving before it: nothing     *)
(* returns from shutdown.                                                  *)
LEMMA ServedBefore ==
    ASSUME [Next]_vars, Serving'
    PROVE  Serving
<1>1. mode # "running" => mode' = mode
  BY EndedStays DEF vars, lifeVars
<1>2. QED
  BY <1>1, BrokenStays, CancelledStays DEF Serving

(* A session's step.                                                       *)
LEMMA AuditedSession ==
    ASSUME Audited, NEW t \in Sessions, Session(t), Serving, Serving',
           NEW s \in Sessions, NEW n \in 1 .. forwarded'[s]
    PROVE  OnItsWay(s, n)'
<1> USE DEF Audited
<1>1. n \in 1 .. forwarded[s] => OnItsWay(s, n)
  BY DEF NoOperationUnaudited, OnItsWay, Serving
<1>2. CASE Forward(t)
  <2>1. /\ spc[t] = "write" /\ spc'[t] = "push"
        /\ hand[t] \in Buffers
        /\ forwarded' = [forwarded EXCEPT ![t] = @ + 1]
        /\ forwarded[t] \in Nat
        /\ UNCHANGED <<hand, buf, chan, wbuf, log>>
    BY <1>2, MaxPacketsAssumption
       DEF Forward, Goto, Typed, TypeOK, HandsOK, poolVars, chanVars, writerVars, sinkVars
  <2>2. CASE s = t /\ n = forwarded[t] + 1
    <3>1. buf[hand[t]] = Packet(t, n)
      BY <2>1, <2>2, FilledPacket DEF FilledOK, Typed, TypeOK
    <3>2. hand[t] # None
      BY <2>1, NoneAssumption
    <3>3. QED
      BY <2>1, <2>2, <3>1, <3>2 DEF OnItsWay, Pushing, Packet
  <2>3. CASE ~ (s = t /\ n = forwarded[t] + 1)
    <3>1. n \in 1 .. forwarded[s]
      BY <2>1, <2>3 DEF Typed, TypeOK
    <3>2. spc[s] = "push" => spc'[s] = "push"
      BY <1>2, <2>1 DEF Forward, Goto, Typed, TypeOK
    <3>3. QED
      BY <1>1, <2>1, <3>1, <3>2, WayFrame
  <2>4. QED
    BY <2>2, <2>3
<1>3. CASE ~ Forward(t)
  <2>1. forwarded' = forwarded
    BY <1>3 DEF Session, Progress, Push, Accept, SetupEnds, Proxy, ReadPacket, ReadEnds, Connect,
       LoopGets, Disconnect, LoopEnds, WriteFails, Finish, PushConnect, PushPacket,
       PushPacketFails, PushDisconnect, PushState
  <2>2. OnItsWay(s, n)
    BY <1>1, <2>1
  <2>3. CASE Push(t)
    <3>1. Sent(t)
      BY <2>3 DEF Push, PushConnect, PushPacket, PushPacketFails, PushDisconnect, PushState,
         Cancelled, SendPanics, Serving
    <3>2. /\ hand[t] # None
          /\ UNCHANGED <<buf, wbuf, log>>
          /\ s # t => spc'[s] = spc[s] /\ hand'[s] = hand[s]
      BY <2>3 DEF Push, PushConnect, PushPacket, PushPacketFails, PushDisconnect, PushState,
         Goto, Typed, TypeOK, HandsOK, poolVars, writerVars, sinkVars
    <3>3. QED
      BY <2>2, <3>1, <3>2, WaySent
  <2>4. CASE ~ Push(t)
    <3>1. UNCHANGED <<chan, wbuf, log>>
      BY <1>3, <2>4 DEF Session, Progress, Accept, SetupEnds, Proxy, ReadPacket, ReadEnds,
         Connect, LoopGets, Disconnect, LoopEnds, WriteFails, Finish,
         chanVars, writerVars, sinkVars
    <3>2. spc[t] # "push"
      BY <1>3, <2>4 DEF Session, Progress, Accept, SetupEnds, Proxy, ReadPacket, ReadEnds,
         Connect, LoopGets, Disconnect, LoopEnds, WriteFails, Finish, Goto
    <3>3. spc[s] = "push" /\ hand[s] # None =>
             spc'[s] = "push" /\ hand'[s] = hand[s] /\ buf'[hand[s]] = buf[hand[s]]
      BY <3>2, OthersKeepTheirs
    <3>4. \A b \in Buffers : InChannel(b) \/ b = wbuf => buf'[b] = buf[b]
      <4>1. SUFFICES ASSUME NEW b \in Buffers, InChannel(b) \/ b = wbuf
                     PROVE  buf'[b] = buf[b]
        OBVIOUS
      <4>2. b # hand[t] /\ ~ (b \in pool) /\ ~ Unreferenced(b)
        BY <4>1, NoneAssumption DEF ExclusiveBuffers, SessionsApart, QueueApart, Unreferenced
      <4>3. CASE ReadPacket(t) \/ ReadEnds(t)
        BY <4>2, <4>3 DEF ReadPacket, ReadEnds, Typed, TypeOK
      <4>4. ASSUME NEW c \in Buffers, Connect(t, c) \/ LoopGets(t, c) \/ Disconnect(t, c)
            PROVE  buf'[b] = buf[b]
        BY <4>2, <4>4 DEF Connect, LoopGets, Disconnect, stateRecord, newSendPacket,
           GetSendPacket, Typed, TypeOK
      <4>5. CASE Accept(t) \/ SetupEnds(t) \/ Proxy(t) \/ LoopEnds(t) \/ WriteFails(t) \/ Finish(t)
        BY <4>5 DEF Accept, SetupEnds, Proxy, LoopEnds, WriteFails, Finish, poolVars
      <4>6. QED
        BY <1>3, <2>4, <4>3, <4>4, <4>5 DEF Session, Progress
    <3>5. QED
      BY <2>2, <3>1, <3>3, <3>4, WayFrame
  <2>5. QED
    BY <2>3, <2>4
<1>4. QED
  BY <1>2, <1>3

(* No step of a serving program loses the record of an operation the       *)
(* target has.                                                             *)
LEMMA AuditedStep ==
    ASSUME Audited, [Next]_vars
    PROVE  NoOperationUnaudited'
<1> USE DEF Audited
<1> SUFFICES ASSUME Serving', NEW s \in Sessions, NEW n \in 1 .. forwarded'[s]
             PROVE  OnItsWay(s, n)'
  BY DEF NoOperationUnaudited, OnItsWay, Serving
<1>1. Serving
  BY ServedBefore
<1>2. CASE \E t \in Sessions : Session(t)
  BY <1>1, <1>2, AuditedSession
<1>3. CASE Writer
  <2>1. UNCHANGED <<spc, hand, forwarded, buf>>
    BY <1>3 DEF Writer, WriterCheck, WriterCancelled, WriterReceive, WriterDrained, WriterTick,
       WriterEncode, WriterPanics, WriterEnds, sessionVars, poolVars
  <2>2. OnItsWay(s, n)
    BY <1>1, <2>1 DEF NoOperationUnaudited, OnItsWay, Serving
  <2>3. CASE WriterReceive
    BY <2>1, <2>2, <2>3, WayReceived
       DEF WriterReceive, WriterGoto, Typed, HandsOK, sinkVars
  <2>4. CASE WriterEncode
    <3>1. wbuf \in Buffers
      BY <2>4 DEF WriterEncode, WriterGoto, Typed, TypeOK, HandsOK
    <3>2. Sink!Encode(buf[wbuf])
      BY <2>4 DEF WriterEncode, Sink!Reject, Serving
    <3>3. QED
      BY <2>1, <2>2, <2>4, <3>1, <3>2, WayEncoded DEF WriterEncode, chanVars
  <2>5. CASE \/ WriterCheck \/ WriterCancelled \/ WriterDrained \/ WriterTick \/ WriterEnds
             \/ WriterPanics
    <3>1. UNCHANGED <<chan, wbuf, log>>
      BY <2>5 DEF WriterCheck, WriterCancelled, WriterDrained, WriterTick, WriterEnds,
         WriterPanics, chanVars, writerVars, sinkVars, Sink!CloseFile, Sink!Rotate
    <3>2. QED
      BY <2>1, <2>2, <3>1, WayFrame
  <2>6. QED
    BY <1>3, <2>3, <2>4, <2>5 DEF Writer
<1>4. CASE Acceptor \/ Interrupt \/ Exit \/ UNCHANGED vars
  <2>1. UNCHANGED <<spc, hand, forwarded, buf, chan, wbuf, log>>
    BY <1>4 DEF Acceptor, Listen, ListenFails, AcceptEnds, CloseChannel, Cancel, AcceptorGoto,
       Interrupt, Exit, vars, sessionVars, poolVars, chanVars, writerVars, sinkVars
  <2>2. OnItsWay(s, n)
    BY <1>1, <2>1 DEF NoOperationUnaudited, OnItsWay, Serving
  <2>3. QED
    BY <2>1, <2>2, WayFrame
<1>5. QED
  BY <1>2, <1>3, <1>4 DEF Next, Ended

(* At the start no buffer is filled and no operation has been forwarded.   *)
LEMMA AuditedInit == Init => FilledOK /\ NoOperationUnaudited
BY DEF Init, FilledOK, NoOperationUnaudited

(* While nobody has asked the proxy to stop and the log file has not       *)
(* failed, every packet a target has received is in the log or in a buffer *)
(* that will take it there, for any number of sessions, any channel and    *)
(* any number of packets: no push, no reuse of a buffer and no rotation    *)
(* loses one.                                                              *)
THEOREM NothingUnaudited == Spec => []NoOperationUnaudited
<1>1. Init => Audited
  BY TypedInit, ExclusiveInit, AuditedInit DEF Audited
<1>2. Audited /\ [Next]_vars => Audited'
  <2>1. Audited /\ [Next]_vars => Typed' /\ ExclusiveBuffers' /\ FilledOK'
    BY TypedStep, ExclusiveStep, FilledStep DEF Audited
  <2>2. QED
    BY <2>1, AuditedStep DEF Audited
<1>3. Audited => NoOperationUnaudited
  BY DEF Audited
<1>4. QED
  BY <1>1, <1>2, <1>3, PTL DEF Spec

-----------------------------------------------------------------------------
(* The records in a sequence of buffers.                                   *)

(* The records in a sequence of buffers, one for each buffer in order.     *)
LEMMA ContentsType ==
    ASSUME TypeOK, NEW q \in Seq(Buffers)
    PROVE  /\ Contents(q) \in Seq(Records)
           /\ Len(Contents(q)) = Len(q)
           /\ \A i \in 1 .. Len(q) : Contents(q)[i] = buf[q[i]]
<1>1. \A i \in 1 .. Len(q) : buf[q[i]] \in Records
  BY DEF TypeOK
<1>2. Len(q) \in Nat
  OBVIOUS
<1>3. QED
  BY <1>1, <1>2 DEF Contents

(* A buffer sent to the channel adds its record at the end.                *)
LEMMA ContentsAppend ==
    ASSUME TypeOK, NEW q \in Seq(Buffers), NEW b \in Buffers
    PROVE  Contents(Append(q, b)) = Append(Contents(q), buf[b])
<1>1. Append(q, b) \in Seq(Buffers) /\ buf[b] \in Records
  BY DEF TypeOK
<1>2. QED
  BY <1>1, ContentsType DEF Contents

(* A buffer received from the channel takes the first record away.         *)
LEMMA ContentsTail ==
    ASSUME TypeOK, NEW q \in Seq(Buffers), q # <<>>
    PROVE  /\ Contents(q) # <<>>
           /\ Head(Contents(q)) = buf[Head(q)]
           /\ Tail(Contents(q)) = Contents(Tail(q))
<1>1. Tail(q) \in Seq(Buffers) /\ Len(q) \in Nat \ {0}
  OBVIOUS
<1>2. QED
  BY <1>1, ContentsType DEF Contents

(* What the writer holds, before what the channel holds, is a sequence of  *)
(* buffers.                                                                *)
LEMMA InFlightType ==
    ASSUME Typed
    PROVE  InFlight \in Seq(Buffers)
BY DEF InFlight, Typed, TypeOK

(* ... each of which the writer or the channel holds.                      *)
LEMMA InFlightElements ==
    ASSUME Typed, NEW i \in 1 .. Len(InFlight)
    PROVE  \/ wbuf # None /\ InFlight[i] = wbuf
           \/ InChannel(InFlight[i])
<1>1. chan \in Seq(Buffers) /\ wbuf \in Buffers \cup {None}
  BY DEF Typed, TypeOK
<1>2. CASE wbuf = None
  BY <1>1, <1>2 DEF InFlight, InChannel
<1>3. CASE wbuf # None
  <2>1. /\ InFlight = <<wbuf>> \o chan
        /\ Len(InFlight) = Len(chan) + 1 /\ Len(chan) \in Nat
    BY <1>1, <1>3 DEF InFlight
  <2>2. CASE i = 1
    BY <1>1, <1>3, <2>1, <2>2
  <2>3. CASE i # 1
    <3>1. i - 1 \in 1 .. Len(chan)
      BY <2>1, <2>3
    <3>2. InFlight[i] = chan[i - 1]
      BY <1>1, <2>1, <2>3, <3>1
    <3>3. QED
      BY <3>1, <3>2 DEF InChannel
  <2>4. QED
    BY <2>2, <2>3
<1>4. QED
  BY <1>2, <1>3

(* A step that writes only in buffers no one else holds leaves the pending *)
(* records alone.                                                          *)
LEMMA PendingFrame ==
    ASSUME Typed, UNCHANGED <<chan, wbuf>>,
           \A b \in Buffers : InChannel(b) \/ b = wbuf => buf'[b] = buf[b]
    PROVE  PendingRecords' = PendingRecords
<1>1. InFlight' = InFlight
  BY DEF InFlight
<1>2. \A i \in 1 .. Len(InFlight) : InFlight[i] \in Buffers
  BY InFlightType
<1>3. \A i \in 1 .. Len(InFlight) : buf'[InFlight[i]] = buf[InFlight[i]]
  BY <1>2, InFlightElements
<1>4. QED
  BY <1>1, <1>3 DEF PendingRecords, Contents

(* A send adds the session's record at the end of the abstract trail's     *)
(* pending records.                                                        *)
LEMMA SendSubmits ==
    ASSUME Typed, NEW s \in Sessions, hand[s] # None, Sent(s), UNCHANGED <<buf, wbuf>>
    PROVE  PendingRecords' = Append(PendingRecords, buf[hand[s]])
<1>1. /\ hand[s] \in Buffers /\ chan \in Seq(Buffers) /\ wbuf \in Buffers \cup {None}
      /\ chan' = Append(chan, hand[s])
  BY DEF Typed, TypeOK, Sent
<1>2. InFlight' = Append(InFlight, hand[s])
  <2>1. CASE wbuf = None
    <3>1. <<>> \in Seq(Buffers)
      OBVIOUS
    <3>2. QED
      BY <1>1, <2>1, <3>1, ConcatAppend DEF InFlight
  <2>2. CASE wbuf # None
    <3>1. <<wbuf>> \in Seq(Buffers)
      BY <1>1, <2>2
    <3>2. QED
      BY <1>1, <2>2, <3>1, ConcatAppend DEF InFlight
  <2>3. QED
    BY <2>1, <2>2
<1>3. Contents(Append(InFlight, hand[s])) = Append(Contents(InFlight), buf[hand[s]])
  BY <1>1, InFlightType, ContentsAppend DEF Typed
<1>4. PendingRecords' = Contents(Append(InFlight, hand[s]))
  BY <1>2 DEF PendingRecords, Contents
<1>5. QED
  BY <1>3, <1>4 DEF PendingRecords

(* A receive by the writer moves a buffer and leaves the pending records   *)
(* alone.                                                                  *)
LEMMA ReceiveKeeps ==
    ASSUME Typed, wbuf = None, chan # <<>>,
           wbuf' = Head(chan), chan' = Tail(chan), UNCHANGED buf
    PROVE  PendingRecords' = PendingRecords
<1>1. chan \in Seq(Buffers) /\ Head(chan) \in Buffers
  BY DEF Typed, TypeOK
<1>2. InFlight' = <<Head(chan)>> \o Tail(chan)
  BY <1>1, NoneAssumption DEF InFlight
<1>3. InFlight = chan
  BY <1>1 DEF InFlight
<1>4. InFlight' = InFlight
  BY <1>1, <1>2, <1>3, ConsHeadTail
<1>5. QED
  BY <1>4 DEF PendingRecords, Contents

(* Encoding takes the first pending record.                                *)
LEMMA EncodeTakesHead ==
    ASSUME Typed, wbuf \in Buffers, wbuf' = None, UNCHANGED <<chan, buf>>
    PROVE  /\ PendingRecords # <<>>
           /\ Head(PendingRecords) = buf[wbuf]
           /\ PendingRecords' = Tail(PendingRecords)
<1>1. chan \in Seq(Buffers)
  BY DEF Typed, TypeOK
<1>2. InFlight = <<wbuf>> \o chan
  BY NoneAssumption DEF InFlight
<1>3. InFlight' = chan
  BY <1>1 DEF InFlight
<1>4. InFlight # <<>> /\ Head(InFlight) = wbuf /\ Tail(InFlight) = chan
  BY <1>1, <1>2, TailCons
<1>5. PendingRecords' = Contents(chan)
  BY <1>3 DEF PendingRecords, Contents
<1>6. QED
  BY <1>4, <1>5, InFlightType, ContentsTail DEF Typed, PendingRecords

-----------------------------------------------------------------------------
(* The refinement.                                                         *)

(* The initial states of the pipeline are initial states of the abstract   *)
(* trail.                                                                  *)
LEMMA TrailInit == Init => AbstractTrail!Init
<1> SUFFICES ASSUME Init PROVE AbstractTrail!Init
  OBVIOUS
<1>1. InFlight = <<>>
  BY DEF Init, InFlight
<1>2. PendingRecords = <<>>
  BY <1>1 DEF PendingRecords, Contents
<1>3. QED
  BY <1>2 DEF Init, Sink!SinkInit, AbstractTrail!Init

(* A session's step that pushes nothing leaves what was submitted alone ... *)
LEMMA QuietSession ==
    ASSUME Typed, ExclusiveBuffers, NEW s \in Sessions, Session(s), ~ Push(s) \/ UNCHANGED chan
    PROVE  PendingRecords' = PendingRecords /\ UNCHANGED sinkVars
<1>1. CASE \/ Accept(s) \/ SetupEnds(s) \/ Proxy(s) \/ LoopEnds(s)
           \/ Forward(s) \/ WriteFails(s) \/ Finish(s) \/ PushPacketFails(s)
  <2>1. UNCHANGED <<chan, wbuf, buf, sinkVars>>
    BY <1>1 DEF Accept, SetupEnds, Proxy, LoopEnds, Forward, WriteFails, Finish,
                PushPacketFails, Cancelled, poolVars, chanVars, writerVars
  <2>2. QED
    BY <2>1, PendingFrame
<1>2. CASE ReadPacket(s) \/ ReadEnds(s)
  <2>1. /\ hand[s] # None
        /\ \E p : buf' = [buf EXCEPT ![hand[s]].pkt = p]
        /\ UNCHANGED <<chan, wbuf, sinkVars>>
    BY <1>2 DEF ReadPacket, ReadEnds, Goto, Typed, HandsOK, chanVars, writerVars
  <2>2. \A b \in Buffers : InChannel(b) \/ b = wbuf => b # hand[s]
    BY <2>1 DEF ExclusiveBuffers, SessionsApart
  <2>3. \A b \in Buffers : InChannel(b) \/ b = wbuf => buf'[b] = buf[b]
    BY <2>1, <2>2 DEF Typed, TypeOK
  <2>4. QED
    BY <2>1, <2>3, PendingFrame
<1>3. ASSUME NEW b \in Buffers, Connect(s, b) \/ LoopGets(s, b) \/ Disconnect(s, b)
      PROVE  PendingRecords' = PendingRecords /\ UNCHANGED sinkVars
  <2>1. /\ GetSendPacket(s, b)
        /\ \E r : buf' = [buf EXCEPT ![b] = r]
        /\ UNCHANGED <<chan, wbuf, sinkVars>>
    BY <1>3 DEF Connect, LoopGets, Disconnect, stateRecord, newSendPacket,
                chanVars, writerVars
  <2>2. ~ InChannel(b) /\ b # wbuf
    BY <2>1, NoneAssumption
       DEF GetSendPacket, Unreferenced, ExclusiveBuffers, QueueApart
  <2>3. \A c \in Buffers : InChannel(c) \/ c = wbuf => buf'[c] = buf[c]
    BY <2>1, <2>2 DEF Typed, TypeOK
  <2>4. QED
    BY <2>1, <2>3, PendingFrame
<1>4. CASE (PushConnect(s) \/ PushPacket(s) \/ PushDisconnect(s)) /\ UNCHANGED chan
  <2>1. UNCHANGED <<wbuf, buf, sinkVars>>
    BY <1>4 DEF PushConnect, PushPacket, PushDisconnect, PushState, poolVars, writerVars
  <2>2. QED
    BY <1>4, <2>1, PendingFrame
<1>5. QED
  BY <1>1, <1>2, <1>3, <1>4 DEF Session, Progress, Push

(* ... and a push that is sent submits what its buffer holds.              *)
LEMMA SendingSession ==
    ASSUME Typed, NEW s \in Sessions, Sent(s),
           PushConnect(s) \/ PushPacket(s) \/ PushDisconnect(s)
    PROVE  /\ hand[s] \in Buffers /\ hand[s] # None /\ buf[hand[s]] \in Records
           /\ PendingRecords' = Append(PendingRecords, buf[hand[s]])
           /\ UNCHANGED <<buf, sinkVars>>
<1>1. /\ hand[s] \in Buffers /\ hand[s] # None
      /\ UNCHANGED <<wbuf, buf, sinkVars>>
  BY DEF PushConnect, PushPacket, PushDisconnect, PushState, Goto, Typed, TypeOK, HandsOK,
         poolVars, writerVars
<1>2. buf[hand[s]] \in Records
  BY <1>1 DEF Typed, TypeOK
<1>3. PendingRecords' = Append(PendingRecords, buf[hand[s]])
  BY <1>1, SendSubmits
<1>4. QED
  BY <1>1, <1>2, <1>3

(* The writer encodes the oldest pending record, or loses it.              *)
LEMMA WriterTakes ==
    ASSUME Typed, WriterEncode
    PROVE  /\ PendingRecords # <<>>
           /\ PendingRecords' = Tail(PendingRecords)
           /\ Sink!Encode(Head(PendingRecords)) \/ Sink!Reject
<1>1. wbuf \in Buffers
  BY DEF WriterEncode, WriterGoto, Typed, TypeOK, HandsOK
<1>2. QED
  BY <1>1, EncodeTakesHead DEF WriterEncode, chanVars

(* Every other step of another process leaves what was submitted alone.    *)
LEMMA QuietWriter ==
    ASSUME Typed, (Writer /\ ~ WriterEncode) \/ Acceptor \/ Interrupt \/ Exit \/ UNCHANGED vars
    PROVE  /\ PendingRecords' = PendingRecords
           /\ log' = log
           /\ UNCHANGED sink \/ Sink!Rotate \/ \E ok \in BOOLEAN : Sink!CloseFile(ok)
<1>1. CASE WriterReceive
  <2>1. wbuf = None
    BY <1>1 DEF WriterReceive, WriterGoto, Typed, HandsOK
  <2>2. PendingRecords' = PendingRecords
    BY <1>1, <2>1, ReceiveKeeps DEF WriterReceive, poolVars
  <2>3. QED
    BY <1>1, <2>2 DEF WriterReceive, sinkVars
<1>2. CASE WriterCheck \/ WriterCancelled \/ WriterPanics
  <2>1. UNCHANGED <<chan, wbuf, buf, sinkVars>>
    BY <1>2 DEF WriterCheck, WriterCancelled, WriterPanics, poolVars, chanVars, writerVars
  <2>2. QED
    BY <2>1, PendingFrame DEF sinkVars
<1>3. CASE WriterDrained \/ WriterTick \/ WriterEnds
  <2>1. UNCHANGED <<chan, wbuf, buf>>
    BY <1>3 DEF WriterDrained, WriterTick, WriterEnds, poolVars, chanVars
  <2>2. PendingRecords' = PendingRecords
    BY <2>1, PendingFrame
  <2>3. Sink!Rotate \/ \E ok \in BOOLEAN : Sink!CloseFile(ok)
    BY <1>3 DEF WriterDrained, WriterTick, WriterEnds
  <2>4. QED
    BY <2>2, <2>3 DEF Sink!Rotate, Sink!CloseFile
<1>4. CASE Acceptor \/ Interrupt \/ Exit \/ UNCHANGED vars
  <2>1. UNCHANGED <<chan, wbuf, buf, sinkVars>>
    BY <1>4 DEF Acceptor, Listen, ListenFails, AcceptEnds, CloseChannel, Cancel, AcceptorGoto,
                Interrupt, Exit, vars, poolVars, chanVars, writerVars
  <2>2. QED
    BY <2>1, PendingFrame DEF sinkVars
<1>5. QED
  BY <1>1, <1>2, <1>3, <1>4 DEF Writer

(* The writer's other dealings with the file only ever break the log.      *)
LEMMA SinkStepIsTrailStep ==
    ASSUME Typed, PendingRecords' = PendingRecords,
           Sink!Rotate \/ \E ok \in BOOLEAN : Sink!CloseFile(ok)
    PROVE  [AbstractTrail!Next]_(AbstractTrail!vars)
<1>1. log' = log
  BY DEF Sink!Rotate, Sink!CloseFile
<1>2. sink = "broken" => sink' = "broken"
  BY DEF Sink!Rotate, Sink!CloseFile, Sink!CloseOutcomes
<1>3. QED
  BY <1>1, <1>2 DEF AbstractTrail!Next, AbstractTrail!Break, AbstractTrail!vars

(* Every step of the pipeline is a step of the abstract trail, or leaves   *)
(* it unchanged.                                                           *)
LEMMA TrailStep ==
    ASSUME Typed, ExclusiveBuffers, [Next]_vars
    PROVE  [AbstractTrail!Next]_(AbstractTrail!vars)
<1>0. ASSUME PendingRecords' = PendingRecords, UNCHANGED sinkVars
      PROVE  [AbstractTrail!Next]_(AbstractTrail!vars)
  BY <1>0 DEF sinkVars, AbstractTrail!vars
<1>1. ASSUME NEW s \in Sessions, Session(s)
      PROVE  [AbstractTrail!Next]_(AbstractTrail!vars)
  <2>1. CASE ~ Push(s) \/ UNCHANGED chan
    BY <1>0, <1>1, <2>1, QuietSession
  <2>2. CASE Sent(s) /\ (PushConnect(s) \/ PushPacket(s) \/ PushDisconnect(s))
    BY <2>2, SendingSession DEF AbstractTrail!Next, AbstractTrail!Submit, sinkVars
  <2>3. QED
    BY <2>1, <2>2 DEF Push, PushConnect, PushPacket, PushPacketFails, PushDisconnect, PushState,
       Cancelled, SendPanics
<1>2. CASE WriterEncode
  <2>1. CASE Sink!Encode(Head(PendingRecords))
    BY <1>2, <2>1, WriterTakes DEF Sink!Encode, AbstractTrail!Next, AbstractTrail!Commit
  <2>2. CASE Sink!Reject
    BY <1>2, <2>2, WriterTakes DEF Sink!Reject, AbstractTrail!Next, AbstractTrail!Discard
  <2>3. QED
    BY <1>2, <2>1, <2>2, WriterTakes
<1>3. CASE (Writer /\ ~ WriterEncode) \/ Acceptor \/ Interrupt \/ Exit \/ UNCHANGED vars
  <2>1. /\ PendingRecords' = PendingRecords
        /\ UNCHANGED sinkVars \/ Sink!Rotate \/ \E ok \in BOOLEAN : Sink!CloseFile(ok)
    BY <1>3, QuietWriter DEF sinkVars
  <2>2. QED
    BY <1>0, <2>1, SinkStepIsTrailStep
<1>4. QED
  BY <1>1, <1>2, <1>3 DEF Next, Ended

(* The pool, the shared buffers and the bounded channel together are a     *)
(* FIFO of record values: what is written is what was pushed, unchanged,   *)
(* once, in the order of the pushes, until the log file fails.             *)
THEOREM PipelineImplementsTrail == Spec => ImplementsTrail
<1>1. Init => Typed /\ ExclusiveBuffers /\ AbstractTrail!Init
  BY TypedInit, ExclusiveInit, TrailInit
<1>2. Typed /\ ExclusiveBuffers /\ [Next]_vars
        => (Typed /\ ExclusiveBuffers)' /\ [AbstractTrail!Next]_(AbstractTrail!vars)
  BY TypedStep, ExclusiveStep, TrailStep
<1>3. QED
  BY <1>1, <1>2, PTL DEF Spec, ImplementsTrail, AbstractTrail!Spec

-----------------------------------------------------------------------------
(* What a session tells, and how far it has got.                           *)

(* A connect record and n packets.                                         *)
Told(s, n) == <<StateRecord(s, "connect")>> \o PacketsUpTo(s, n)

(* The records a session pushes are its own.                               *)
LEMMA RecordTypes ==
    ASSUME NEW s \in Sessions
    PROVE  /\ StateRecord(s, "connect") \in RecordsOf(s)
           /\ StateRecord(s, "disconnect") \in RecordsOf(s)
           /\ \A n \in 0 .. MaxPackets : Packet(s, n) \in RecordsOf(s)
BY MaxPacketsAssumption DEF StateRecord, Packet, RecordsOf, Records

(* What Told consists of.                                                  *)
LEMMA ToldType ==
    ASSUME NEW s \in Sessions, NEW n \in 0 .. MaxPackets
    PROVE  /\ Told(s, n) \in Seq(RecordsOf(s))
           /\ Len(Told(s, n)) = n + 1
           /\ Told(s, n)[1] = StateRecord(s, "connect")
           /\ \A i \in 1 .. n : Told(s, n)[i + 1] = Packet(s, i)
<1> DEFINE c == StateRecord(s, "connect")
           p == PacketsUpTo(s, n)
           R == RecordsOf(s)
<1>1. c \in R /\ n \in Nat
  BY RecordTypes, MaxPacketsAssumption
<1>2. p \in Seq(R) /\ Len(p) = n /\ \A i \in 1 .. n : p[i] = Packet(s, i)
  <2>1. \A i \in 1 .. n : Packet(s, i) \in R
    BY RecordTypes, MaxPacketsAssumption
  <2>2. QED
    BY <1>1, <2>1 DEF PacketsUpTo
<1>3. Told(s, n) = <<c>> \o p
  BY DEF Told
<1> HIDE DEF c, p, R
<1>4. /\ <<c>> \o p \in Seq(R)
      /\ Len(<<c>> \o p) = n + 1
      /\ (<<c>> \o p)[1] = c
      /\ \A i \in 1 .. n : (<<c>> \o p)[i + 1] = p[i]
  BY <1>1, <1>2
<1>5. QED
  BY <1>2, <1>3, <1>4 DEF c, R

(* The next packet continues it ...                                        *)
LEMMA ToldPacket ==
    ASSUME NEW s \in Sessions, NEW n \in 1 .. MaxPackets
    PROVE  Append(Told(s, n - 1), Packet(s, n)) = Told(s, n)
<1>1. n \in 0 .. MaxPackets /\ n - 1 \in 0 .. MaxPackets /\ n \in Nat
  BY MaxPacketsAssumption
<1> DEFINE a == Told(s, n - 1)
           b == Told(s, n)
           R == RecordsOf(s)
           x == Packet(s, n)
<1>2. /\ a \in Seq(R) /\ Len(a) = (n - 1) + 1 /\ a[1] = StateRecord(s, "connect")
      /\ \A i \in 1 .. n - 1 : a[i + 1] = Packet(s, i)
  BY <1>1, ToldType
<1>3. /\ b \in Seq(R) /\ Len(b) = n + 1 /\ b[1] = StateRecord(s, "connect")
      /\ \A i \in 1 .. n : b[i + 1] = Packet(s, i)
  BY <1>1, ToldType
<1>4. x \in R
  BY <1>1, RecordTypes
<1> HIDE DEF a, b, R
<1>5. \A i \in 1 .. n : a[i] = b[i]
  <2>1. SUFFICES ASSUME NEW i \in 1 .. n PROVE a[i] = b[i]
    OBVIOUS
  <2>2. CASE i = 1
    BY <1>2, <1>3, <2>2
  <2>3. CASE i # 1
    <3>1. i - 1 \in 1 .. n - 1 /\ i - 1 \in 1 .. n /\ (i - 1) + 1 = i
      BY <1>1, <2>3
    <3>2. QED
      BY <1>2, <1>3, <3>1
  <2>4. QED
    BY <2>2, <2>3
<1>6. b[n + 1] = x
  BY <1>1, <1>3
<1> HIDE DEF x
<1>7. \A i \in 1 .. n + 1 : Append(a, x)[i] = b[i]
  BY <1>1, <1>2, <1>4, <1>5, <1>6
<1>8. Append(a, x) \in Seq(R) /\ Len(Append(a, x)) = n + 1
  BY <1>1, <1>2, <1>4
<1>9. Append(a, x) = b
  BY <1>3, <1>7, <1>8
<1>10. QED
  BY <1>9 DEF a, b, x

(* ... and the disconnect record completes it.                             *)
LEMMA ToldBye ==
    ASSUME NEW s \in Sessions, NEW n \in 0 .. MaxPackets
    PROVE  /\ Append(Told(s, n), StateRecord(s, "disconnect")) = Whole(s, n)
           /\ Whole(s, n) \in Seq(RecordsOf(s))
           /\ Len(Whole(s, n)) = n + 2
<1> DEFINE a == Told(s, n)
           R == RecordsOf(s)
           x == StateRecord(s, "disconnect")
<1>1. a \in Seq(R) /\ Len(a) = n + 1 /\ x \in R /\ n \in Nat
  BY ToldType, RecordTypes, MaxPacketsAssumption
<1>2. Whole(s, n) = a \o <<x>>
  BY DEF Whole, Told
<1> HIDE DEF a, R, x
<1>3. /\ Append(a, x) = a \o <<x>>
      /\ Append(a, x) \in Seq(R)
      /\ Len(Append(a, x)) = n + 2
  BY <1>1
<1>4. QED
  BY <1>2, <1>3 DEF a, R, x

(* A connect record with packets is a beginning of a story, and a          *)
(* disconnect record ends it.                                              *)
LEMMA WholeStory ==
    ASSUME Typed, NEW s \in Sessions, NEW n \in 0 .. forwarded[s]
    PROVE  /\ n \in 0 .. MaxPackets
           /\ Story(s, Told(s, n))
           /\ Story(s, Append(Told(s, n), StateRecord(s, "disconnect")))
<1>1. n \in 0 .. MaxPackets
  BY MaxPacketsAssumption DEF Typed, TypeOK
<1> DEFINE a == Told(s, n)
           R == RecordsOf(s)
           x == StateRecord(s, "disconnect")
           w == Whole(s, n)
<1>2. /\ a \in Seq(R) /\ Len(a) = n + 1 /\ x \in R /\ n \in Nat
      /\ w = Append(a, x) /\ Len(w) = n + 2
  BY <1>1, ToldType, ToldBye, RecordTypes, MaxPacketsAssumption
<1> HIDE DEF a, R, x
<1>3. Len(a) <= n + 2 /\ a = SubSeq(w, 1, Len(a))
  BY <1>2, AppendIsBeginning
<1>4. Len(w) <= n + 2 /\ w = SubSeq(w, 1, Len(w))
  BY <1>2, AppendIsBeginning
<1>5. Story(s, a) /\ Story(s, w)
  BY <1>3, <1>4 DEF Story
<1>6. QED
  BY <1>1, <1>2, <1>5 DEF a, x

(* Nothing is a beginning of a story.                                      *)
LEMMA NoStory ==
    ASSUME Typed, NEW s \in Sessions
    PROVE  Story(s, <<>>)
<1>1. 0 \in 0 .. forwarded[s] /\ 0 \in 0 .. MaxPackets
  BY MaxPacketsAssumption DEF Typed, TypeOK
<1> DEFINE w == Whole(s, 0)
           e == <<>>
           R == RecordsOf(s)
<1>2. w \in Seq(R)
  BY <1>1, ToldBye
<1> HIDE DEF w, R
<1>3. Len(e) <= 0 + 2 /\ e = SubSeq(w, 1, Len(e))
  BY <1>2
<1> HIDE DEF e
<1>4. Story(s, e)
  BY <1>1, <1>3 DEF Story, w
<1>5. QED
  BY <1>4 DEF e

(* So is what begins a beginning of a story.                               *)
LEMMA StoryBegins ==
    ASSUME Typed, NEW s \in Sessions,
           NEW a \in Seq(RecordsOf(s)), NEW b \in Seq(RecordsOf(s)), Story(s, a \o b)
    PROVE  Story(s, a)
<1> DEFINE R == RecordsOf(s)
           c == a \o b
<1>1. CASE \E n \in 0 .. forwarded[s] : Len(c) <= n + 2 /\ c = SubSeq(Whole(s, n), 1, Len(c))
  <2>1. PICK n \in 0 .. forwarded[s] : Len(c) <= n + 2 /\ c = SubSeq(Whole(s, n), 1, Len(c))
    BY <1>1
  <2> DEFINE w == Whole(s, n)
  <2>2. w \in Seq(R) /\ Len(w) = n + 2
    BY WholeStory, ToldBye
  <2>3. Len(a \o b) <= Len(w) /\ a \o b = SubSeq(w, 1, Len(a \o b))
    BY <2>1, <2>2
  <2> HIDE DEF w, c
  <2>4. Len(a) <= Len(w) /\ a = SubSeq(w, 1, Len(a))
    BY <2>2, <2>3, Beginning
  <2>5. QED
    BY <2>2, <2>4 DEF Story, w
<1>2. CASE c = <<StateRecord(s, "disconnect")>> /\ ctx
  <2> DEFINE x == StateRecord(s, "disconnect")
  <2>1. x \in R /\ a \o b = <<x>>
    BY <1>2, RecordTypes
  <2> HIDE DEF x
  <2>2. a = <<>> \/ a = <<x>>
    BY <2>1, BeginningOfOne
  <2>3. QED
    BY <1>2, <2>2, NoStory DEF Story, x
<1>3. QED
  BY <1>1, <1>2 DEF Story

(* Everything pushed so far, in the order of the pushes, until the log file *)
(* fails ...                                                               *)
Submitted == log \o PendingRecords

(* ... and what of it session s pushed.                                    *)
Journey(s) == Selected(Submitted, RecordsOf(s))

(* The interrupt came before the connect record was pushed.                *)
Silent(s, t) == ctx /\ t = <<>>

(* The last packets may have been dropped after an interrupt.              *)
ToldSome(s, t) == \E n \in 0 .. forwarded[s] : t = Told(s, n)

(* What a session has submitted, by where it is.                           *)
StageOK(s) ==
    /\ spc[s] \in {"idle", "setup", "start", "pushConnect"} =>
          Journey(s) = <<>> /\ forwarded[s] = 0
    /\ spc[s] = "loop" =>
          Journey(s) = Told(s, forwarded[s]) \/ Silent(s, Journey(s))
    /\ spc[s] \in {"read", "write"} =>
          Journey(s) = Told(s, forwarded[s])
    /\ spc[s] = "push" =>
          forwarded[s] > 0 /\ Journey(s) = Told(s, forwarded[s] - 1)
    /\ spc[s] \in {"finish", "bye", "pushBye"} =>
          ToldSome(s, Journey(s)) \/ Silent(s, Journey(s))
    /\ spc[s] = "done" =>
          Story(s, Journey(s))

(* A broken log takes nothing, and a process that is not running pushes    *)
(* nothing: only before that does the stage tell what was submitted.       *)
StagesOK == mode = "running" /\ sink # "broken" => \A s \in Sessions : StageOK(s)

(* What the buffer of a state record holds.                                *)
StatesOK ==
    \A s \in Sessions :
        /\ spc[s] = "pushConnect" => buf[hand[s]] = StateRecord(s, "connect")
        /\ spc[s] = "pushBye" => buf[hand[s]] = StateRecord(s, "disconnect")

(* The inductive invariant.                                                *)
TrailsInv == StagesOK /\ StatesOK /\ WellFormedTrail

(* What was submitted are records.                                         *)
LEMMA SubmittedType ==
    ASSUME Typed
    PROVE  /\ log \in Seq(Records) /\ PendingRecords \in Seq(Records)
           /\ Submitted \in Seq(Records)
<1>1. log \in Seq(Records)
  BY DEF Typed, TypeOK, Sink!SinkTypeOK
<1>2. PendingRecords \in Seq(Records)
  BY InFlightType, ContentsType DEF Typed, PendingRecords
<1>3. QED
  BY <1>1, <1>2 DEF Submitted

(* What a push submits joins the journey of the session it is of, and of   *)
(* no other.                                                               *)
LEMMA Submits ==
    ASSUME Typed, NEW r \in Records, Submitted' = Append(Submitted, r)
    PROVE  \A t \in Sessions : Journey(t)' =
              IF r.sess = t THEN Append(Journey(t), r) ELSE Journey(t)
<1>1. SUFFICES ASSUME NEW t \in Sessions
               PROVE  Journey(t)' = IF r.sess = t THEN Append(Journey(t), r) ELSE Journey(t)
  OBVIOUS
<1>2. Submitted \in Seq(Records)
  BY SubmittedType
<1>3. r \in RecordsOf(t) <=> r.sess = t
  BY DEF RecordsOf
<1>4. Journey(t)' = Selected(Append(Submitted, r), RecordsOf(t))
  BY DEF Journey
<1>5. Selected(Append(Submitted, r), RecordsOf(t)) =
         IF r \in RecordsOf(t) THEN Append(Selected(Submitted, RecordsOf(t)), r)
         ELSE Selected(Submitted, RecordsOf(t))
  BY <1>2, SelectedAppend
<1>6. QED
  BY <1>3, <1>4, <1>5 DEF Journey

(* A step that submits nothing changes no journey.                         *)
LEMMA Stands ==
    ASSUME Submitted' = Submitted
    PROVE  \A t \in Sessions : Journey(t)' = Journey(t)
BY DEF Journey

(* A step that writes nothing changes no trail.                            *)
LEMMA TrailStands ==
    ASSUME log' = log
    PROVE  \A t \in Sessions : Trail(t)' = Trail(t)
BY DEF Trail

(* A story stays one while the target receives more.                       *)
LEMMA StoryStands ==
    ASSUME Typed, NEW s \in Sessions, NEW t, Story(s, t),
           forwarded[s] <= forwarded'[s], forwarded'[s] \in Nat, ctx => ctx'
    PROVE  \/ \E n \in 0 .. forwarded'[s] :
                 Len(t) <= n + 2 /\ t = SubSeq(Whole(s, n), 1, Len(t))
           \/ t = <<StateRecord(s, "disconnect")>> /\ ctx'
<1>1. \A n \in 0 .. forwarded[s] : n \in 0 .. forwarded'[s]
  BY MaxPacketsAssumption DEF Typed, TypeOK
<1>2. QED
  BY <1>1 DEF Story

(* At every stage a journey is a story.                                    *)
LEMMA StageIsStory ==
    ASSUME Typed, NEW s \in Sessions, StageOK(s)
    PROVE  Story(s, Journey(s))
<1>1. forwarded[s] \in 0 .. MaxPackets /\ spc[s] \in SessionStates
  BY DEF Typed, TypeOK
<1>2. Journey(s) = <<>> \/ ToldSome(s, Journey(s)) \/ Story(s, Journey(s))
  <2>1. CASE spc[s] = "push"
    <3>1. forwarded[s] - 1 \in 0 .. forwarded[s]
      BY <1>1, <2>1, MaxPacketsAssumption DEF StageOK
    <3>2. QED
      BY <2>1, <3>1 DEF StageOK, ToldSome
  <2>2. CASE spc[s] # "push"
    <3>1. forwarded[s] \in 0 .. forwarded[s]
      BY <1>1, MaxPacketsAssumption
    <3>2. QED
      BY <1>1, <2>2, <3>1 DEF StageOK, ToldSome, Silent, SessionStates
  <2>3. QED
    BY <2>1, <2>2
<1>3. QED
  BY <1>2, NoStory, WholeStory DEF ToldSome

(* StatesOK is inductive.                                                  *)
LEMMA StatesStep ==
    ASSUME Typed, ExclusiveBuffers, StatesOK, [Next]_vars
    PROVE  StatesOK'
<1>1. ASSUME NEW s \in Sessions, Session(s)
      PROVE  StatesOK'
  <2> USE DEF Typed
  <2>1. \A t \in Sessions \ {s} :
           /\ spc'[t] = "pushConnect" => buf'[hand'[t]] = StateRecord(t, "connect")
           /\ spc'[t] = "pushBye" => buf'[hand'[t]] = StateRecord(t, "disconnect")
    BY <1>1, OthersKeepTheirs DEF StatesOK, HandsOK
  <2> DEFINE Mine ==
        /\ spc'[s] = "pushConnect" => buf'[hand'[s]] = StateRecord(s, "connect")
        /\ spc'[s] = "pushBye" => buf'[hand'[s]] = StateRecord(s, "disconnect")
  <2>2. ASSUME NEW b \in Buffers, Connect(s, b) \/ Disconnect(s, b)
        PROVE  Mine
    BY <2>2 DEF Connect, Disconnect, stateRecord, GetSendPacket, Goto, TypeOK, StateRecord
  <2>3. ASSUME \/ Accept(s) \/ SetupEnds(s) \/ Proxy(s) \/ LoopEnds(s) \/ ReadEnds(s)
               \/ WriteFails(s) \/ Finish(s) \/ Push(s) \/ ReadPacket(s) \/ Forward(s)
               \/ \E b \in Buffers : LoopGets(s, b)
        PROVE  Mine
    BY <2>3 DEF Accept, SetupEnds, Proxy, LoopEnds, ReadEnds, WriteFails, Finish, Push,
       PushConnect, PushPacket, PushPacketFails, PushDisconnect, PushState, LoopGets,
       ReadPacket, Forward, Goto, TypeOK
  <2>4. Mine
    BY <1>1, <2>2, <2>3 DEF Session, Progress
  <2>5. QED
    BY <2>1, <2>4 DEF StatesOK
<1>2. CASE Writer \/ Acceptor \/ Interrupt \/ Exit \/ UNCHANGED vars
  <2>1. UNCHANGED <<spc, hand, buf>>
    BY <1>2 DEF Writer, WriterCheck, WriterCancelled, WriterReceive, WriterDrained, WriterTick,
       WriterEncode, WriterPanics, WriterEnds, Acceptor, Listen, ListenFails, AcceptEnds,
       CloseChannel, Cancel, AcceptorGoto, Interrupt, Exit, vars, sessionVars, poolVars
  <2>2. QED
    BY <2>1 DEF StatesOK
<1>3. QED
  BY <1>1, <1>2 DEF Next, Ended

(* A stage lasts while the session stands still and submits nothing.       *)
LEMMA StageFrame ==
    ASSUME Typed, NEW t \in Sessions, StageOK(t),
           spc'[t] = spc[t], forwarded'[t] = forwarded[t], Journey(t)' = Journey(t), ctx => ctx'
    PROVE  StageOK(t)'
BY DEF StageOK, Silent, ToldSome, Story

(* A story of one record.                                                  *)
LEMMA FirstTold ==
    ASSUME NEW s \in Sessions
    PROVE  /\ Append(<<>>, StateRecord(s, "connect")) = Told(s, 0)
           /\ Append(<<>>, StateRecord(s, "disconnect")) = <<StateRecord(s, "disconnect")>>
<1> DEFINE c == StateRecord(s, "connect")
<1>1. 0 \in 0 .. MaxPackets
  BY MaxPacketsAssumption
<1>2. Told(s, 0) \in Seq(RecordsOf(s)) /\ Len(Told(s, 0)) = 0 + 1 /\ Told(s, 0)[1] = c
  BY <1>1, ToldType, Zenon
<1>3. Told(s, 0) = <<c>>
  BY <1>2, OneElement
<1>4. QED
  BY <1>3, FirstAppended, Zenon

(* A session's own step takes it from stage to stage.                      *)
LEMMA StageStep ==
    ASSUME Typed, ExclusiveBuffers, FilledOK, StatesOK, NEW s \in Sessions, StageOK(s),
           Session(s), mode' = "running"
    PROVE  StageOK(s)'
<1> DEFINE f == forwarded[s]
<1>0. /\ f \in 0 .. MaxPackets /\ f \in Nat /\ spc[s] \in SessionStates
      /\ mode = "running"
  BY MaxPacketsAssumption DEF Typed, TypeOK, Session, Progress, Push, Accept, SetupEnds, Proxy,
     ReadPacket, ReadEnds, Connect, LoopGets, Disconnect, LoopEnds, Forward, WriteFails, Finish,
     PushConnect, PushPacket, PushPacketFails, PushDisconnect, PushState, Goto
<1>1. ~ Push(s) \/ UNCHANGED chan => Journey(s)' = Journey(s)
  <2>1. ~ Push(s) \/ UNCHANGED chan => Submitted' = Submitted
    BY QuietSession DEF Submitted, sinkVars
  <2>2. QED
    BY <2>1, Stands
<1>2. ASSUME PushConnect(s) \/ PushPacket(s) \/ PushDisconnect(s), Sent(s)
      PROVE  Journey(s)' = IF buf[hand[s]].sess = s THEN Append(Journey(s), buf[hand[s]])
                           ELSE Journey(s)
  <2> DEFINE r == buf[hand[s]]
  <2>1. r \in Records /\ PendingRecords' = Append(PendingRecords, r) /\ log' = log
    BY <1>2, SendingSession DEF sinkVars
  <2> HIDE DEF r
  <2>2. Submitted' = Append(Submitted, r)
    BY <2>1, SubmittedType, ConcatAppend DEF Submitted
  <2>3. QED
    BY <2>1, <2>2, Submits DEF r
<1>3. CASE Accept(s) \/ Proxy(s) \/ \E b \in Buffers : Connect(s, b)
  <2>1. /\ spc[s] \in {"idle", "setup", "start"} /\ spc'[s] \in {"setup", "start", "pushConnect"}
        /\ forwarded'[s] = f /\ UNCHANGED chan
    BY <1>3 DEF Accept, Proxy, Connect, Goto, Typed, TypeOK, chanVars
  <2>2. QED
    BY <1>1, <2>1 DEF StageOK
<1>4. CASE SetupEnds(s)
  <2>1. /\ spc[s] = "setup" /\ spc'[s] = "done"
        /\ forwarded' = forwarded /\ ctx' = ctx /\ UNCHANGED chan
    BY <1>4 DEF SetupEnds, Goto, Typed, TypeOK, lifeVars, chanVars
  <2>2. Story(s, Journey(s))
    BY <2>1, NoStory DEF StageOK
  <2>3. Story(s, Journey(s))'
    BY <1>1, <2>1, <2>2 DEF Story
  <2>4. QED
    BY <2>1, <2>3 DEF StageOK
<1>5. CASE PushConnect(s)
  <2>1. /\ spc[s] = "pushConnect" /\ spc'[s] = "loop" /\ forwarded'[s] = f /\ ctx' = ctx
        /\ Sent(s) \/ Cancelled
    BY <1>0, <1>5 DEF PushConnect, PushState, Goto, SendPanics, Typed, TypeOK
  <2>2. Journey(s) = <<>> /\ f = 0
    BY <2>1 DEF StageOK
  <2>3. CASE Sent(s)
    <3>1. buf[hand[s]] = StateRecord(s, "connect")
      BY <2>1 DEF StatesOK
    <3>2. Journey(s)' = Append(Journey(s), StateRecord(s, "connect"))
      BY <1>2, <1>5, <2>3, <3>1 DEF StateRecord
    <3>3. Journey(s)' = Told(s, forwarded'[s])
      BY <2>1, <2>2, <3>2, FirstTold
    <3>4. QED
      BY <2>1, <3>3 DEF StageOK
  <2>4. CASE Cancelled
    <3>1. Journey(s)' = <<>> /\ ctx'
      BY <1>1, <2>1, <2>2, <2>4 DEF Cancelled
    <3>2. QED
      BY <2>1, <3>1 DEF StageOK, Silent
  <2>5. QED
    BY <2>1, <2>3, <2>4
<1>6. CASE \E b \in Buffers : LoopGets(s, b)
  <2>1. /\ spc[s] = "loop" /\ spc'[s] = "read" /\ forwarded'[s] = f /\ UNCHANGED chan /\ ~ ctx
    BY <1>6 DEF LoopGets, Goto, Typed, TypeOK, chanVars
  <2>2. QED
    BY <1>1, <2>1 DEF StageOK, Silent
<1>7. CASE ReadPacket(s)
  <2>1. /\ spc[s] = "read" /\ spc'[s] = "write" /\ forwarded'[s] = f /\ UNCHANGED chan
    BY <1>7 DEF ReadPacket, Goto, Typed, TypeOK, chanVars
  <2>2. QED
    BY <1>1, <2>1 DEF StageOK
<1>8. CASE Forward(s)
  <2>1. /\ spc[s] = "write" /\ spc'[s] = "push" /\ forwarded'[s] = f + 1 /\ UNCHANGED chan
    BY <1>8 DEF Forward, Goto, Typed, TypeOK, chanVars
  <2>2. (f + 1) - 1 = f /\ f + 1 > 0
    BY <1>0
  <2>3. QED
    BY <1>1, <2>1, <2>2 DEF StageOK
<1>9. CASE PushPacket(s)
  <2>1. /\ spc[s] = "push" /\ spc'[s] = "loop" /\ forwarded'[s] = f
        /\ Sent(s)
    BY <1>0, <1>9 DEF PushPacket, Goto, SendPanics, Typed, TypeOK
  <2>2. Journey(s) = Told(s, f - 1) /\ f \in 1 .. MaxPackets
    BY <1>0, <2>1, MaxPacketsAssumption DEF StageOK
  <2>3. buf[hand[s]] = Packet(s, f)
    <3>1. buf[hand[s]] \in Records
      BY <1>9, <2>1, SendingSession
    <3>2. QED
      BY <2>1, <3>1, FilledPacket DEF FilledOK
  <2>4. Journey(s)' = Append(Journey(s), Packet(s, f))
    BY <1>2, <1>9, <2>1, <2>3 DEF Packet
  <2>5. Journey(s)' = Told(s, forwarded'[s])
    BY <2>1, <2>2, <2>4, ToldPacket
  <2>6. QED
    BY <2>1, <2>5 DEF StageOK
<1>10. CASE LoopEnds(s) \/ ReadEnds(s) \/ WriteFails(s) \/ PushPacketFails(s)
            \/ Finish(s) \/ \E b \in Buffers : Disconnect(s, b)
  <2>1. /\ spc[s] \in {"loop", "read", "write", "push", "finish", "bye"}
        /\ spc'[s] \in {"finish", "bye", "pushBye"}
        /\ forwarded' = forwarded /\ ctx' = ctx /\ UNCHANGED chan
    BY <1>10 DEF LoopEnds, ReadEnds, WriteFails, PushPacketFails, Cancelled, Finish, Disconnect,
       Goto, Typed, TypeOK, chanVars, lifeVars
  <2>2. ToldSome(s, Journey(s)) \/ Silent(s, Journey(s))
    <3>1. CASE spc[s] = "push"
      <4>1. f - 1 \in 0 .. f
        BY <1>0, <3>1 DEF StageOK
      <4>2. QED
        BY <3>1, <4>1 DEF StageOK, ToldSome
    <3>2. CASE spc[s] # "push"
      <4>1. f \in 0 .. f
        BY <1>0
      <4>2. QED
        BY <2>1, <3>2, <4>1 DEF StageOK, ToldSome
    <3>3. QED
      BY <3>1, <3>2
  <2>3. ToldSome(s, Journey(s))' \/ Silent(s, Journey(s))'
    BY <1>1, <2>1, <2>2 DEF ToldSome, Silent
  <2>4. QED
    BY <2>1, <2>3 DEF StageOK
<1>11. CASE PushDisconnect(s)
  <2>1. /\ spc[s] = "pushBye" /\ spc'[s] = "done" /\ forwarded' = forwarded /\ ctx' = ctx
        /\ Sent(s) \/ Cancelled
    BY <1>0, <1>11 DEF PushDisconnect, PushState, Goto, SendPanics, Typed, TypeOK
  <2>2. Story(s, Journey(s)')
    <3>1. CASE Cancelled
      BY <1>1, <3>1, StageIsStory DEF Cancelled
    <3>2. CASE Sent(s)
      <4>1. buf[hand[s]] = StateRecord(s, "disconnect")
        BY <2>1 DEF StatesOK
      <4>2. Journey(s)' = Append(Journey(s), StateRecord(s, "disconnect"))
        BY <1>2, <1>11, <3>2, <4>1 DEF StateRecord
      <4>3. CASE ToldSome(s, Journey(s))
        BY <4>2, <4>3, WholeStory DEF ToldSome
      <4>4. CASE Silent(s, Journey(s))
        BY <4>2, <4>4, FirstTold DEF Silent, Story
      <4>5. QED
        BY <2>1, <4>3, <4>4 DEF StageOK
    <3>3. QED
      BY <2>1, <3>1, <3>2
  <2>3. Story(s, Journey(s))'
    BY <2>1, <2>2 DEF Story
  <2>4. QED
    BY <2>1, <2>3 DEF StageOK
<1>12. QED
  BY <1>3, <1>4, <1>5, <1>6, <1>7, <1>8, <1>9, <1>10, <1>11 DEF Session, Progress, Push

(* StagesOK is inductive: the writer only moves records from the pending   *)
(* ones to the log.                                                        *)
LEMMA StagesStep ==
    ASSUME Typed, ExclusiveBuffers, FilledOK, StatesOK, StagesOK, [Next]_vars
    PROVE  StagesOK'
<1> SUFFICES ASSUME mode' = "running", sink' # "broken"
             PROVE  \A t \in Sessions : StageOK(t)'
  BY DEF StagesOK
<1>1. mode = "running" /\ sink # "broken" /\ (ctx => ctx')
  BY EndedStays, BrokenStays, CancelledStays DEF vars, lifeVars
<1>2. \A t \in Sessions : StageOK(t)
  BY <1>1 DEF StagesOK
<1>3. ASSUME NEW s \in Sessions, Session(s)
      PROVE  \A t \in Sessions : StageOK(t)'
  <2>1. StageOK(s)'
    BY <1>2, <1>3, StageStep
  <2>2. ASSUME NEW t \in Sessions \ {s}
        PROVE  StageOK(t)'
    <3>1. Journey(t)' = Journey(t)
      <4>1. CASE ~ Push(s) \/ UNCHANGED chan
        <5>1. Submitted' = Submitted
          BY <1>3, <4>1, QuietSession DEF Submitted, sinkVars
        <5>2. QED
          BY <5>1, Stands
      <4>2. CASE Sent(s) /\ (PushConnect(s) \/ PushPacket(s) \/ PushDisconnect(s))
        <5> DEFINE r == buf[hand[s]]
        <5>1. r \in Records /\ PendingRecords' = Append(PendingRecords, r) /\ log' = log
          BY <4>2, SendingSession DEF sinkVars
        <5>2. r.sess = s
          <6>1. spc[s] \in {"pushConnect", "push", "pushBye"}
            BY <4>2 DEF PushConnect, PushPacket, PushDisconnect, PushState, Goto
          <6>2. \A c : StateRecord(s, c).sess = s
            BY DEF StateRecord
          <6>3. CASE spc[s] = "push"
            BY <6>3 DEF FilledOK
          <6>4. CASE spc[s] # "push"
            BY <6>1, <6>2, <6>4 DEF StatesOK
          <6>5. QED
            BY <6>3, <6>4
        <5> HIDE DEF r
        <5>3. Submitted' = Append(Submitted, r)
          BY <5>1, SubmittedType, ConcatAppend DEF Submitted
        <5>4. QED
          BY <5>1, <5>2, <5>3, Submits
      <4>3. QED
        BY <1>3, <4>1, <4>2 DEF Push, PushConnect, PushPacket, PushPacketFails, PushDisconnect,
           PushState, Cancelled, SendPanics
    <3>2. spc'[t] = spc[t] /\ forwarded'[t] = forwarded[t]
      BY <1>3, OthersKeepTheirs
    <3>3. QED
      BY <1>1, <1>2, <3>1, <3>2, StageFrame
  <2>3. QED
    BY <2>1, <2>2
<1>4. CASE WriterEncode
  <2>1. Submitted' = Submitted
    <3>1. /\ log \in Seq(Records) /\ PendingRecords \in Seq(Records)
          /\ PendingRecords # <<>> /\ PendingRecords' = Tail(PendingRecords)
          /\ log' = Append(log, Head(PendingRecords))
      BY <1>4, SubmittedType, WriterTakes DEF Sink!Encode, Sink!Reject
    <3>2. QED
      BY <3>1, MovesOver DEF Submitted
  <2>2. UNCHANGED <<spc, forwarded>>
    BY <1>4 DEF WriterEncode, sessionVars
  <2>3. QED
    BY <1>1, <1>2, <2>1, <2>2, Stands, StageFrame
<1>5. CASE (Writer /\ ~ WriterEncode) \/ Acceptor \/ Interrupt \/ Exit \/ UNCHANGED vars
  <2>1. Submitted' = Submitted
    BY <1>5, QuietWriter DEF Submitted
  <2>2. UNCHANGED <<spc, forwarded>>
    BY <1>5 DEF Writer, WriterCheck, WriterCancelled, WriterReceive, WriterDrained, WriterTick,
       WriterEncode, WriterPanics, WriterEnds, Acceptor, Listen, ListenFails, AcceptEnds,
       CloseChannel, Cancel, AcceptorGoto, Interrupt, Exit, vars, sessionVars
  <2>3. QED
    BY <1>1, <1>2, <2>1, <2>2, Stands, StageFrame
<1>6. QED
  BY <1>3, <1>4, <1>5 DEF Next, Ended

(* A session's part of two sequences of records.                           *)
LEMMA SelectedRecords ==
    ASSUME NEW s, NEW p \in Seq(Records), NEW q \in Seq(Records)
    PROVE  /\ Selected(p \o q, RecordsOf(s))
                = Selected(p, RecordsOf(s)) \o Selected(q, RecordsOf(s))
           /\ Selected(p, RecordsOf(s)) \in Seq(RecordsOf(s))
           /\ Selected(q, RecordsOf(s)) \in Seq(RecordsOf(s))
<1>1. Records \cap RecordsOf(s) = RecordsOf(s)
  BY DEF RecordsOf
<1>2. \A r \in Seq(Records) : Selected(r, RecordsOf(s)) \in Seq(RecordsOf(s))
  BY <1>1, SelectedType
<1>3. QED
  BY <1>2, SelectedConcat

(* The log grows by an encoding only, which leaves the journey as it was.  *)
LEMMA StoriesStep ==
    ASSUME Typed, ExclusiveBuffers, StagesOK, WellFormedTrail, [Next]_vars
    PROVE  WellFormedTrail'
<1> SUFFICES ASSUME NEW s \in Sessions
             PROVE  Story(s, Trail(s))'
  BY DEF WellFormedTrail
<1>1. /\ forwarded[s] <= forwarded'[s] /\ forwarded'[s] \in Nat
      /\ ctx => ctx'
  <2>1. forwarded[s] \in Nat /\ forwarded \in [Sessions -> 0 .. MaxPackets]
    BY MaxPacketsAssumption DEF Typed, TypeOK
  <2>2. forwarded' = forwarded \/ \E t \in Sessions : forwarded' = [forwarded EXCEPT ![t] = @ + 1]
    BY DEF Next, Ended, vars, Session, Progress, Push, Accept, SetupEnds, Proxy, ReadPacket,
       ReadEnds, Connect, LoopGets, Disconnect, LoopEnds, Forward, WriteFails, Finish,
       PushConnect, PushPacket, PushPacketFails, PushDisconnect, PushState,
       Writer, WriterCheck, WriterCancelled, WriterReceive, WriterDrained, WriterTick,
       WriterEncode, WriterPanics, WriterEnds, Acceptor, Listen, ListenFails, AcceptEnds,
       CloseChannel, Cancel, AcceptorGoto, Interrupt, Exit, sessionVars
  <2>3. QED
    BY <2>1, <2>2, CancelledStays
<1>2. Story(s, Trail(s)')
  <2>1. CASE log' = log
    BY <2>1, TrailStands DEF WellFormedTrail
  <2>2. CASE log' # log
    <3>1. WriterEncode /\ Sink!Encode(Head(PendingRecords)) /\ mode = "running"
      BY <2>2, QuietSession, SendingSession, QuietWriter, WriterTakes
         DEF Next, Ended, Push, PushConnect, PushPacket, PushPacketFails, PushDisconnect,
             PushState, Cancelled, SendPanics, Sink!Reject, sinkVars, WriterEncode, WriterGoto
    <3>2. Story(s, Journey(s))
      BY <3>1, StageIsStory DEF StagesOK, Sink!Encode
    <3> DEFINE x == Head(PendingRecords)
               p == Tail(PendingRecords)
               l == Append(log, x)
               R == RecordsOf(s)
    <3>3. l \in Seq(Records) /\ p \in Seq(Records) /\ Submitted = l \o p /\ log' = l
      <4>1. /\ log \in Seq(Records) /\ PendingRecords \in Seq(Records)
            /\ PendingRecords # <<>>
        BY <3>1, SubmittedType, WriterTakes
      <4>2. Append(log, x) \o p = log \o PendingRecords
        BY <4>1, MovesOver
      <4>3. QED
        BY <3>1, <4>1, <4>2 DEF Submitted, Sink!Encode
    <3> HIDE DEF l, p
    <3>4. /\ Selected(l \o p, R) = Selected(l, R) \o Selected(p, R)
          /\ Selected(l, R) \in Seq(R) /\ Selected(p, R) \in Seq(R)
      BY <3>3, SelectedRecords
    <3>5. Story(s, Selected(l, R))
      BY <3>2, <3>3, <3>4, StoryBegins DEF Journey
    <3>6. Trail(s)' = Selected(l, R)
      BY <3>3 DEF Trail
    <3>7. QED
      BY <3>5, <3>6
  <2>3. QED
    BY <2>1, <2>2
<1>3. QED
  BY <1>1, <1>2, StoryStands DEF Story

(* The invariant holds at the start.                                       *)
LEMMA TrailsInit == Init => TrailsInv
<1> SUFFICES ASSUME Init PROVE TrailsInv
  OBVIOUS
<1>1. Typed
  BY TypedInit
<1>2. PendingRecords = <<>> /\ log = <<>>
  BY TrailInit DEF AbstractTrail!Init
<1>3. \A s \in Sessions : Journey(s) = <<>> /\ Trail(s) = <<>>
  <2>1. Submitted = <<>>
    BY <1>2 DEF Submitted
  <2>2. QED
    BY <1>2, <2>1, SelectedEmpty DEF Journey, Trail
<1>4. StagesOK /\ StatesOK
  BY <1>3 DEF Init, StagesOK, StageOK, StatesOK
<1>5. WellFormedTrail
  BY <1>1, <1>3, NoStory DEF WellFormedTrail
<1>6. QED
  BY <1>4, <1>5 DEF TrailsInv

(* For any number of sessions, buffers and packets, what the log holds of  *)
(* a session is a beginning of its connect record, its packets in order    *)
(* and without gap, and its disconnect record; or, after an interrupt, its *)
(* disconnect record alone.                                                *)
THEOREM TrailsAreWellFormed == Spec => []WellFormedTrail
<1> DEFINE Inv == Typed /\ ExclusiveBuffers /\ FilledOK /\ TrailsInv
<1>1. Init => Inv
  BY TypedInit, ExclusiveInit, AuditedInit, TrailsInit
<1>2. Inv /\ [Next]_vars => Inv'
  BY TypedStep, ExclusiveStep, FilledStep, StatesStep, StagesStep, StoriesStep DEF TrailsInv
<1>3. Inv => WellFormedTrail
  BY DEF TrailsInv
<1>4. QED
  BY <1>1, <1>2, <1>3, PTL DEF Spec
=============================================================================
