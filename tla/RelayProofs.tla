----------------------------- MODULE RelayProofs -----------------------------
(***************************************************************************)
(* Proofs about Relay for packets, buffers and streams of any size.        *)
(***************************************************************************)
EXTENDS RelayProperties, SequenceTheorems, TLAPS

Units == 0 .. MaxSent

-----------------------------------------------------------------------------
(* Sequences.                                                              *)

(* A slice from the start of a buffer.                                     *)
LEMMA Slice ==
    ASSUME NEW S, NEW size \in Nat, NEW b \in [1 .. size -> S], NEW k \in 0 .. size
    PROVE  /\ SubSeq(b, 1, k) \in Seq(S) /\ Len(SubSeq(b, 1, k)) = k
           /\ \A i \in 1 .. k : SubSeq(b, 1, k)[i] = b[i]
<1>1. b \in Seq(S) /\ Len(b) = size
  OBVIOUS
<1>2. QED
  BY <1>1, SubSeqProperties

(* What a connection has after it took a slice.                            *)
LEMMA Extended ==
    ASSUME NEW S, NEW q \in Seq(S), NEW r \in Seq(S)
    PROVE  /\ q \o r \in Seq(S) /\ Len(q \o r) = Len(q) + Len(r)
           /\ \A i \in 1 .. Len(q) : (q \o r)[i] = q[i]
           /\ \A i \in 1 .. Len(r) : (q \o r)[Len(q) + i] = r[i]
OBVIOUS

(* A sequence is a prefix of itself with anything added,                   *)
LEMMA PrefixOfExtended ==
    ASSUME NEW S, NEW q \in Seq(S), NEW r \in Seq(S)
    PROVE  IsPrefix(q, q \o r)
<1>1. /\ q \o r \in Seq(S) /\ Len(q \o r) = Len(q) + Len(r) /\ Len(q) \in Nat /\ Len(r) \in Nat
      /\ \A i \in 1 .. Len(q) : (q \o r)[i] = q[i]
  BY Extended
<1>2. SubSeq(q, 1, Len(q)) = SubSeq(q \o r, 1, Len(q))
  BY <1>1
<1>3. QED
  BY <1>1, <1>2 DEF IsPrefix

(* and of itself.                                                          *)
LEMMA PrefixOfItself ==
    ASSUME NEW S, NEW q \in Seq(S)
    PROVE  IsPrefix(q, q)
BY DEF IsPrefix

-----------------------------------------------------------------------------
(* Type correctness.                                                       *)

(* The bounds and the sizes of the two buffers are natural numbers.        *)
LEMMA Sizes ==
    /\ HeaderSize \in Nat \ {0} /\ Chunk \in Nat \ {0}
    /\ MaxBody \in Nat /\ MaxSent \in Nat /\ MaxAnswered \in Nat
    /\ Capacity \in Nat /\ Capacity = HeaderSize + MaxBody
BY RelayAssumption DEF Capacity

(* A slice of buf is a sequence of units.                                  *)
LEMMA SliceType ==
    ASSUME TypeOK, NEW k \in 0 .. Capacity
    PROVE  /\ SubSeq(buf, 1, k) \in Seq(Units) /\ Len(SubSeq(buf, 1, k)) = k
           /\ \A i \in 1 .. k : SubSeq(buf, 1, k)[i] = buf[i]
BY Slice, Sizes DEF TypeOK, UpOK, Units

(* And so is one of WriteTo's.                                             *)
LEMMA CopySliceType ==
    ASSUME TypeOK, NEW k \in 0 .. m
    PROVE  /\ SubSeq(dbuf, 1, k) \in Seq(0 .. MaxAnswered) /\ Len(SubSeq(dbuf, 1, k)) = k
           /\ \A i \in 1 .. k : SubSeq(dbuf, 1, k)[i] = dbuf[i]
<1>1. k \in 0 .. Chunk
  BY Sizes DEF TypeOK, DownOK
<1>2. QED
  BY <1>1, Slice, Sizes DEF TypeOK, DownOK

(* What a header announces has room in the buffer.                         *)
LEMMA AnnouncedFits ==
    ASSUME NEW b \in [1 .. Capacity -> Units], NEW size \in Announced(b)
    PROVE  size \in 0 .. MaxBody /\ Fits(HeaderSize + size)
<1>1. 1 \in 1 .. HeaderSize /\ 1 \in 1 .. Capacity
  BY Sizes
<1>2. Announced(b) \subseteq 0 .. MaxBody
  <2>1. CASE b[1] = Stale
    BY <1>1, <2>1 DEF Announced
  <2>2. CASE b[1] # Stale
    <3>1. b[1] \in 1 .. MaxSent
      BY <1>1, <2>2, Sizes DEF Units, Stale
    <3>2. Length[b[1]] \in 0 .. MaxBody
      BY <3>1, RelayAssumption
    <3>3. QED
      BY <3>2 DEF Announced
  <2>3. QED
    BY <2>1, <2>2
<1>3. QED
  BY <1>2, Sizes DEF Fits

(* A session's relay starts with empty buffers and both directions         *)
(* running.                                                                *)
LEMMA InitTyped == Init => TypeOK /\ EveryPacketFits
<1> SUFFICES ASSUME Init PROVE TypeOK /\ EveryPacketFits
  OBVIOUS
<1>1. PeersOK
  <2>1. ctx \in BOOLEAN /\ cctx \in BOOLEAN /\ closed \in SUBSET {"client", "target"}
    BY DEF Init
  <2>2. QED
    BY <2>1, Sizes DEF Init, PeersOK
<1>2. buf \in [1 .. Capacity -> 0 .. MaxSent]
  BY Sizes DEF Init, EmptyBuffer, Stale
<1>3. UpOK /\ EveryPacketFits
  BY <1>2, Sizes DEF Init, UpOK, EveryPacketFits
<1>4. dbuf \in [1 .. Chunk -> 0 .. MaxAnswered]
  BY Sizes DEF Init, Stale
<1>5. DownOK
  BY <1>4, Sizes DEF Init, DownOK
<1>6. QED
  BY <1>1, <1>3, <1>5 DEF TypeOK

(* A part that ends keeps the types, and never panics.                     *)
LEMMA PartEndsTyped ==
    ASSUME TypeOK, NEW b \in [1 .. Capacity -> Units], NEW k \in Nat, n + k <= want, PartEnds(b, k)
    PROVE  /\ up' \in {"read", "write"}
           /\ part' = "data" /\ want' \in 0 .. MaxBody /\ n' \in 0 .. want'
<1>1. CASE part = "header"
  <2>1. want' \in Announced(b) /\ part' = "data" /\ n' = 0
        /\ up' = IF Fits(HeaderSize + want') THEN "read" ELSE "panicked"
    BY <1>1 DEF PartEnds
  <2>2. QED
    BY <2>1, AnnouncedFits
<1>2. CASE part = "data"
  <2>1. up' = "write" /\ n' = n + k /\ part' = part /\ want' = want
    BY <1>2 DEF PartEnds
  <2>2. QED
    BY <1>2, <2>1, Sizes DEF TypeOK, UpOK
<1>3. QED
  BY <1>1, <1>2 DEF TypeOK, UpOK

(* ReadData and ReadTimesOut: a part ends, or stays to be read on.         *)
LEMMA ReadTyped ==
    ASSUME TypeOK, NEW b \in [1 .. Capacity -> Units], NEW k \in Nat, n + k <= want,
           \/ PartEnds(b, k)
           \/ up' = "read" /\ n' = n + k /\ UNCHANGED <<part, want>>
    PROVE  /\ up' \in {"read", "write"}
           /\ part' \in {"header", "data"}
           /\ part' = "header" => want' = HeaderSize
           /\ part' = "data" => want' \in 0 .. MaxBody
           /\ up' = "write" => part' = "data"
           /\ n' \in 0 .. want'
<1>1. CASE PartEnds(b, k)
  BY <1>1, PartEndsTyped
<1>2. CASE up' = "read" /\ n' = n + k /\ UNCHANGED <<part, want>>
  BY <1>2, Sizes DEF TypeOK, UpOK
<1>3. QED
  BY <1>1, <1>2

(* A read of any size the buffer allows keeps the loop's state typed, and  *)
(* every packet within the buffer ...                                      *)
LEMMA ReadDataTyped ==
    ASSUME TypeOK, NEW k \in 0 .. Capacity, ReadData(k)
    PROVE  UpOK' /\ EveryPacketFits'
<1>1. /\ k \in Nat /\ n + k <= want /\ got + k <= sent /\ got' = got + k
      /\ sent' = sent /\ out' = out /\ logged' = logged
  BY Sizes DEF ReadData, TypeOK, UpOK, peerVars
<1>2. buf' \in [1 .. Capacity -> 0 .. MaxSent]
  <2>1. \A i \in Before + n + 1 .. Before + n + k : got + i - Before - n \in 0 .. MaxSent
    BY <1>1, Sizes DEF TypeOK, PeersOK, UpOK, Before
  <2>2. QED
    BY <2>1, Sizes DEF ReadData, TypeOK, UpOK
<1>3. \/ PartEnds(buf', k)
      \/ up' = "read" /\ n' = n + k /\ UNCHANGED <<part, want>>
  BY DEF ReadData, UpGoto
<1>4. /\ up' \in {"read", "write"}
      /\ part' \in {"header", "data"}
      /\ part' = "header" => want' = HeaderSize
      /\ part' = "data" => want' \in 0 .. MaxBody
      /\ up' = "write" => part' = "data"
      /\ n' \in 0 .. want'
  BY <1>1, <1>2, <1>3, ReadTyped DEF Units
<1>5. got' \in 0 .. sent'
  BY <1>1 DEF TypeOK, PeersOK, UpOK
<1>6. QED
  BY <1>1, <1>2, <1>4, <1>5 DEF TypeOK, UpOK, EveryPacketFits

(* ... and so does a read that times out.                                  *)
LEMMA ReadTimesOutTyped ==
    ASSUME TypeOK, ReadTimesOut
    PROVE  UpOK' /\ EveryPacketFits'
<1>1. UNCHANGED <<sent, got, buf, out, logged>>
  BY DEF ReadTimesOut, peerVars
<1>2. \/ PartEnds(buf, 0)
      \/ up' = "read" /\ n' = n + 0 /\ UNCHANGED <<part, want>>
  BY DEF ReadTimesOut, UpGoto, TypeOK, UpOK
<1>3. n + 0 <= want
  BY Sizes DEF TypeOK, UpOK
<1>4. /\ up' \in {"read", "write"}
      /\ part' \in {"header", "data"}
      /\ part' = "header" => want' = HeaderSize
      /\ part' = "data" => want' \in 0 .. MaxBody
      /\ up' = "write" => part' = "data"
      /\ n' \in 0 .. want'
  BY <1>2, <1>3, ReadTyped DEF Units, TypeOK, UpOK
<1>5. QED
  BY <1>1, <1>4 DEF TypeOK, UpOK, EveryPacketFits

(* A write: the target's connection takes a part of the packet.            *)
LEMMA WriteTyped ==
    ASSUME TypeOK, Write \/ WriteFails
    PROVE  \E k \in 0 .. PacketSize : out' = out \o SubSeq(buf, 1, k)
<1>1. PacketSize \in Nat
  BY Sizes DEF TypeOK, UpOK, PacketSize, Write, WriteFails, UpGoto
<1>2. CASE Write
  BY <1>1, <1>2 DEF Write, Packet
<1>3. CASE WriteFails
  BY <1>1, <1>3 DEF WriteFails
<1>4. QED
  BY <1>2, <1>3

(* A packet that is being written or recorded has a header and fits in the *)
(* buffer.                                                                 *)
LEMMA PacketFits ==
    ASSUME TypeOK, up \in {"write", "writing", "push"}
    PROVE  PacketSize \in HeaderSize .. Capacity
BY Sizes DEF TypeOK, UpOK, PacketSize

(* No step of the client's direction leaves the types of that direction,   *)
LEMMA UpTyped ==
    ASSUME TypeOK, EveryPacketFits, Up
    PROVE  UpOK' /\ EveryPacketFits'
<1>1. CASE LoopEnds \/ ReadStarts \/ ReadFails \/ WriteStarts \/ Leave \/ CloseTarget \/ CloseClient
  BY <1>1 DEF LoopEnds, ReadStarts, ReadFails, WriteStarts, Leave, CloseTarget, CloseClient,
     TypeOK, UpOK, EveryPacketFits, UpGoto, peerVars, readVars
<1>2. CASE LoopGets
  <2>1. buf' \in [1 .. Capacity -> 0 .. MaxSent]
    BY <1>2, Sizes DEF LoopGets, EmptyBuffer, Stale
  <2>2. QED
    BY <1>2, <2>1, Sizes DEF LoopGets, TypeOK, UpOK, EveryPacketFits, UpGoto, peerVars
<1>3. ASSUME NEW k \in 0 .. Capacity, ReadData(k)
      PROVE  UpOK' /\ EveryPacketFits'
  BY <1>3, ReadDataTyped
<1>4. CASE ReadTimesOut
  BY <1>4, ReadTimesOutTyped
<1>5. CASE Write \/ WriteFails
  <2>1. PICK k \in 0 .. PacketSize : out' = out \o SubSeq(buf, 1, k)
    BY <1>5, WriteTyped
  <2>2. k \in 0 .. Capacity
    BY <1>5, PacketFits, Sizes DEF Write, WriteFails, UpGoto
  <2>3. out' \in Seq(0 .. MaxSent)
    <3>1. SubSeq(buf, 1, k) \in Seq(0 .. MaxSent)
      BY <2>2, SliceType DEF Units
    <3>2. QED
      BY <2>1, <3>1, Extended DEF TypeOK, UpOK
  <2>4. QED
    BY <1>5, <2>3 DEF Write, WriteFails, TypeOK, UpOK, EveryPacketFits, UpGoto, peerVars, readVars
<1>6. CASE Push
  <2>1. Packet \in Seq(0 .. MaxSent)
    BY <1>6, SliceType, PacketFits, Sizes DEF Push, UpGoto, Packet, Units
  <2>2. logged' \in Seq(0 .. MaxSent)
    <3>1. logged \o Packet \in Seq(0 .. MaxSent) /\ logged \in Seq(0 .. MaxSent)
      BY <2>1, Extended DEF TypeOK, UpOK
    <3>2. QED
      BY <1>6, <3>1 DEF Push
  <2>3. QED
    BY <1>6, <2>2 DEF Push, TypeOK, UpOK, EveryPacketFits, UpGoto, peerVars, readVars
<1>7. QED
  BY <1>1, <1>2, <1>3, <1>4, <1>5, <1>6 DEF Up

(* nor changes what the peers have sent and the other direction has read.  *)
LEMMA UpPeers ==
    ASSUME TypeOK, Up
    PROVE  PeersOK' /\ DownOK'
<1>1. UNCHANGED <<peerVars, downVars, ctx>>
  BY DEF Up, LoopEnds, LoopGets, ReadStarts, ReadData, ReadTimesOut, ReadFails, WriteStarts,
     Write, WriteFails, Push, Leave, CloseTarget, CloseClient, ctxVars
<1>2. cctx' \in BOOLEAN /\ closed' \in SUBSET {"client", "target"}
  BY DEF Up, LoopEnds, LoopGets, ReadStarts, ReadData, ReadTimesOut, ReadFails, WriteStarts,
     Write, WriteFails, Push, Leave, CloseTarget, CloseClient, ctxVars, TypeOK, PeersOK
<1>3. QED
  BY <1>1, <1>2 DEF TypeOK, PeersOK, DownOK, peerVars, downVars

(* The goroutine of io.Copy writes what WriteTo holds.                     *)
LEMMA CopyWriteTyped ==
    ASSUME TypeOK, CopyWrite \/ CopyWriteFails
    PROVE  /\ \E k \in 0 .. m : back' = back \o SubSeq(dbuf, 1, k)
           /\ back' \in Seq(0 .. MaxAnswered)
<1>1. PICK k \in 0 .. m : back' = back \o SubSeq(dbuf, 1, k)
  <2>1. m \in Nat
    BY Sizes DEF TypeOK, DownOK
  <2>2. CASE CopyWrite
    BY <2>1, <2>2 DEF CopyWrite
  <2>3. CASE CopyWriteFails
    BY <2>1, <2>3 DEF CopyWriteFails
  <2>4. QED
    BY <2>2, <2>3
<1>2. back' \in Seq(0 .. MaxAnswered)
  BY <1>1, CopySliceType, Extended DEF TypeOK, DownOK
<1>3. QED
  BY <1>1, <1>2

(* No step of the target's direction leaves the types.                     *)
LEMMA DownTyped ==
    ASSUME TypeOK, EveryPacketFits, Down
    PROVE  TypeOK' /\ EveryPacketFits'
<1>1. UNCHANGED <<peerVars, upVars, ctx, closed>> /\ cctx' \in BOOLEAN
  BY DEF Down, CopyReadStarts, CopyReadData, CopyTimesOut, CopyReadFails, CopyWriteStarts,
     CopyWrite, CopyWriteFails, CopyLeaves, ctxVars, TypeOK, PeersOK
<1>2. PeersOK' /\ UpOK' /\ EveryPacketFits'
  BY <1>1 DEF TypeOK, PeersOK, UpOK, EveryPacketFits, peerVars, upVars, readVars
<1>3. DownOK'
  <2>1. CASE CopyReadStarts \/ CopyTimesOut \/ CopyReadFails \/ CopyWriteStarts \/ CopyLeaves
    BY <2>1 DEF CopyReadStarts, CopyTimesOut, CopyReadFails, CopyWriteStarts, CopyLeaves,
       TypeOK, DownOK, DnGoto, peerVars
  <2>2. ASSUME NEW k \in 1 .. Chunk, CopyReadData(k)
        PROVE  DownOK'
    <3>1. \A i \in 1 .. k : copied + i \in 0 .. MaxAnswered
      BY <2>2, Sizes DEF CopyReadData, TypeOK, PeersOK, DownOK
    <3>2. dbuf' \in [1 .. Chunk -> 0 .. MaxAnswered]
      <4>1. dbuf' = [i \in 1 .. Chunk |-> IF i <= k THEN copied + i ELSE dbuf[i]]
        BY <2>2 DEF CopyReadData
      <4>2. \A i \in 1 .. Chunk : dbuf[i] \in 0 .. MaxAnswered
        BY DEF TypeOK, DownOK
      <4>3. \A i \in 1 .. Chunk : i <= k => i \in 1 .. k
        BY <2>2, Sizes
      <4>4. QED
        BY <3>1, <4>1, <4>2, <4>3
    <3>3. copied' \in 0 .. answered' /\ m' \in 0 .. Chunk
      BY <2>2, Sizes DEF CopyReadData, TypeOK, PeersOK, DownOK, peerVars
    <3>4. QED
      BY <2>2, <3>2, <3>3 DEF CopyReadData, TypeOK, DownOK, DnGoto
  <2>3. CASE CopyWrite \/ CopyWriteFails
    <3>1. back' \in Seq(0 .. MaxAnswered)
      BY <2>3, CopyWriteTyped
    <3>2. QED
      BY <2>3, <3>1 DEF CopyWrite, CopyWriteFails, TypeOK, DownOK, DnGoto, peerVars
  <2>4. QED
    BY <2>1, <2>2, <2>3 DEF Down
<1>4. QED
  BY <1>2, <1>3 DEF TypeOK

(* The peers, an interrupt, and what happens after the session.            *)
Others == ClientSends \/ TargetSends \/ ClientLeaves \/ TargetLeaves \/ Stop \/ Propagate \/ Over

(* The peers, the timers and the signal leave both directions' variables   *)
(* alone,                                                                  *)
LEMMA OthersKeep ==
    ASSUME TypeOK, Others \/ UNCHANGED vars
    PROVE  /\ UNCHANGED <<upVars, downVars, closed>>
           /\ ctx => ctx'
           /\ sent' \in sent .. MaxSent /\ answered' \in answered .. MaxAnswered
           /\ PeersOK'
<1>1. CASE Others
  <2>1. UNCHANGED <<upVars, downVars, closed>>
    BY <1>1 DEF Others, ClientSends, TargetSends, ClientLeaves, TargetLeaves, Stop, Propagate, Over, vars
  <2>2. (ctx => ctx') /\ ctx' \in BOOLEAN /\ cctx' \in BOOLEAN
    BY <1>1 DEF Others, ClientSends, TargetSends, ClientLeaves, TargetLeaves, Stop, Propagate, Over,
       vars, ctxVars, TypeOK, PeersOK
  <2>3. /\ sent' \in sent .. MaxSent /\ answered' \in answered .. MaxAnswered
        /\ client' \in {"open", "closed", "reset"} /\ target' \in {"open", "closed", "reset"}
    BY <1>1, Sizes DEF Others, ClientSends, TargetSends, ClientLeaves, TargetLeaves, Stop, Propagate, Over,
       vars, peerVars, TypeOK, PeersOK
  <2>4. QED
    BY <2>1, <2>2, <2>3, Sizes DEF TypeOK, PeersOK
<1>2. CASE UNCHANGED vars
  BY <1>2, Sizes DEF vars, ctxVars, peerVars, TypeOK, PeersOK
<1>3. QED
  BY <1>1, <1>2

(* and the types with them.                                                *)
LEMMA OthersTyped ==
    ASSUME TypeOK, EveryPacketFits, Others \/ UNCHANGED vars
    PROVE  TypeOK' /\ EveryPacketFits'
<1>1. /\ UNCHANGED <<upVars, downVars, closed>>
      /\ sent' \in sent .. MaxSent /\ answered' \in answered .. MaxAnswered
      /\ PeersOK'
  BY OthersKeep
<1>2. UpOK' /\ EveryPacketFits'
  BY <1>1 DEF TypeOK, PeersOK, UpOK, EveryPacketFits, upVars, readVars
<1>3. DownOK'
  BY <1>1 DEF TypeOK, PeersOK, DownOK, downVars
<1>4. QED
  BY <1>1, <1>2, <1>3 DEF TypeOK

(* No step of the relay leaves the types.                                  *)
LEMMA StepTyped == TypeOK /\ EveryPacketFits /\ [Next]_vars => TypeOK' /\ EveryPacketFits'
<1>1. TypeOK /\ EveryPacketFits /\ Up => TypeOK' /\ EveryPacketFits'
  BY UpTyped, UpPeers DEF TypeOK
<1>2. QED
  BY <1>1, DownTyped, OthersTyped DEF Next, Others

(* Every variable keeps its type, for any sizes, packets and bounds.       *)
THEOREM RelayTypeCorrect == Spec => []TypeOK /\ []EveryPacketFits
<1>1. QED
  BY InitTyped, StepTyped, PTL DEF Spec

(* No packet is too long for a pooled buffer: resizeSlice, which would     *)
(* make the slice too short, never has to append (sendtask.go:146).        *)
THEOREM PacketsFitTheirBuffers == Spec => []EveryPacketFits
<1>1. QED
  BY RelayTypeCorrect, PTL

-----------------------------------------------------------------------------
(* From the target to the client.                                          *)

(* What WriteTo holds comes next; else the client has all that was read.   *)
CopyInv ==
    /\ ClientGetsStream
    /\ dn \in {"read", "reading"} => Len(back) = copied
    /\ dn \in {"write", "writing"} =>
           /\ copied = Len(back) + m
           /\ \A i \in 1 .. m : dbuf[i] = Len(back) + i

(* A write to the client, whole or cut short by an error, gives it the     *)
(* next bytes of the target's stream.                                      *)
LEMMA CopyWriteStep ==
    ASSUME TypeOK, CopyInv, CopyWrite \/ CopyWriteFails
    PROVE  CopyInv'
<1>1. /\ back \in Seq(0 .. MaxAnswered) /\ Len(back) \in Nat /\ m \in Nat
      /\ copied = Len(back) + m
      /\ \A i \in 1 .. m : dbuf[i] = Len(back) + i
  BY Sizes DEF TypeOK, DownOK, CopyInv, CopyWrite, CopyWriteFails, DnGoto
<1>2. ASSUME NEW k \in 0 .. m, back' = back \o SubSeq(dbuf, 1, k)
      PROVE  ClientGetsStream' /\ Len(back') = Len(back) + k
  <2>1. /\ SubSeq(dbuf, 1, k) \in Seq(0 .. MaxAnswered) /\ Len(SubSeq(dbuf, 1, k)) = k
        /\ \A i \in 1 .. k : SubSeq(dbuf, 1, k)[i] = dbuf[i]
    BY CopySliceType
  <2>2. /\ back' \in Seq(0 .. MaxAnswered) /\ Len(back') = Len(back) + k
        /\ \A i \in 1 .. Len(back) : back'[i] = back[i]
        /\ \A i \in 1 .. k : back'[Len(back) + i] = SubSeq(dbuf, 1, k)[i]
    BY <1>1, <1>2, <2>1, Extended
  <2>3. ASSUME NEW j \in 1 .. Len(back) + k PROVE back'[j] = j
    <3>1. CASE j <= Len(back)
      BY <1>1, <2>2, <3>1 DEF CopyInv, ClientGetsStream
    <3>2. CASE j > Len(back)
      <4>1. PICK i \in 1 .. k : j = Len(back) + i
        <5>1. j - Len(back) \in 1 .. k /\ j = Len(back) + (j - Len(back))
          BY <1>1, <3>2
        <5>2. QED
          BY <5>1
      <4>2. back'[Len(back) + i] = SubSeq(dbuf, 1, k)[i]
        BY <2>2
      <4>3. SubSeq(dbuf, 1, k)[i] = dbuf[i]
        BY <2>1
      <4>4. i \in 1 .. m
        BY <1>1
      <4>5. dbuf[i] = Len(back) + i
        BY <1>1, <4>4
      <4>6. QED
        BY <4>1, <4>2, <4>3, <4>5
    <3>3. QED
      BY <1>1, <3>1, <3>2
  <2>4. DOMAIN back' = 1 .. Len(back) + k
    BY <2>2
  <2>5. QED
    BY <2>2, <2>3, <2>4 DEF ClientGetsStream
<1>3. CASE CopyWrite
  <2>1. m \in 0 .. m /\ back' = back \o SubSeq(dbuf, 1, m) /\ copied' = copied /\ dn' = "read"
    BY <1>1, <1>3 DEF CopyWrite, DnGoto
  <2>2. ClientGetsStream' /\ Len(back') = Len(back) + m
    BY <1>2, <2>1
  <2>3. QED
    BY <1>1, <2>1, <2>2 DEF CopyInv
<1>4. CASE CopyWriteFails
  <2>1. PICK k \in 0 .. m - 1 : back' = back \o SubSeq(dbuf, 1, k)
    BY <1>4 DEF CopyWriteFails
  <2>2. ClientGetsStream'
    <3>1. k \in 0 .. m
      BY <1>1
    <3>2. QED
      BY <1>2, <2>1, <3>1
  <2>3. QED
    BY <1>4, <2>2 DEF CopyInv, CopyWriteFails, DnGoto
<1>5. QED
  BY <1>3, <1>4

(* No step of the relay disturbs what the client has of the target's       *)
(* stream.                                                                 *)
LEMMA CopyStep ==
    ASSUME TypeOK, CopyInv, [Next]_vars
    PROVE  CopyInv'
<1>1. CASE UNCHANGED downVars
  BY <1>1 DEF CopyInv, ClientGetsStream, downVars
<1>2. CASE CopyReadStarts \/ CopyTimesOut \/ CopyReadFails \/ CopyWriteStarts \/ CopyLeaves
  BY <1>2 DEF CopyReadStarts, CopyTimesOut, CopyReadFails, CopyWriteStarts, CopyLeaves,
     CopyInv, ClientGetsStream, DnGoto
<1>3. ASSUME NEW k \in 1 .. Chunk, CopyReadData(k)
      PROVE  CopyInv'
  <2>1. /\ dn' = "write" /\ back' = back /\ m' = k /\ copied' = copied + k /\ Len(back) = copied
        /\ copied \in Nat /\ k \in Nat
    BY <1>3, Sizes DEF CopyReadData, CopyInv, DnGoto, TypeOK, PeersOK, DownOK
  <2>2. \A i \in 1 .. k : dbuf'[i] = copied + i
    <3>1. \A i \in 1 .. k : i \in 1 .. Chunk /\ i <= k
      BY Sizes
    <3>2. QED
      BY <1>3, <3>1 DEF CopyReadData
  <2>3. QED
    BY <2>1, <2>2 DEF CopyInv, ClientGetsStream
<1>4. CASE CopyWrite \/ CopyWriteFails
  BY <1>4, CopyWriteStep
<1>5. Up => UNCHANGED downVars
  BY DEF Up, LoopEnds, LoopGets, ReadStarts, ReadData, ReadTimesOut, ReadFails, WriteStarts,
     Write, WriteFails, Push, Leave, CloseTarget, CloseClient
<1>6. Others \/ UNCHANGED vars => UNCHANGED downVars
  BY OthersKeep
<1>7. QED
  BY <1>1, <1>2, <1>3, <1>4, <1>5, <1>6 DEF Next, Down, Others

(* The client gets the target's bytes, none lost, repeated or moved.       *)
THEOREM ClientGetsTheStream == Spec => []ClientGetsStream
<1>1. Init => CopyInv
  BY DEF Init, CopyInv, ClientGetsStream
<1>2. CopyInv => ClientGetsStream
  BY DEF CopyInv
<1>3. TypeOK /\ CopyInv /\ [Next]_vars => CopyInv'
  BY CopyStep
<1>4. QED
  BY <1>1, <1>2, <1>3, RelayTypeCorrect, PTL DEF Spec

-----------------------------------------------------------------------------
(* The connections are closed last.                                        *)

ClosingInv ==
    /\ up \in {"closing", "done"} => dn = "done"
    /\ closed = CASE up = "closing" -> {"target"} [] up = "done" -> {"target", "client"} [] OTHER -> {}

(* No step closes a connection a direction may use, nor the client's       *)
(* before the target's.                                                    *)
LEMMA ClosingStep ==
    ASSUME TypeOK, ClosingInv, [Next]_vars
    PROVE  ClosingInv'
<1>1. CASE Up
  <2>1. CASE LoopEnds \/ LoopGets \/ ReadStarts \/ ReadFails \/ WriteStarts \/ Write \/ WriteFails
              \/ Push \/ Leave
    BY <2>1 DEF LoopEnds, LoopGets, ReadStarts, ReadFails, WriteStarts, Write, WriteFails, Push, Leave,
       ClosingInv, UpGoto, downVars
  <2>2. ASSUME (\E k \in 0 .. Capacity : ReadData(k)) \/ ReadTimesOut
        PROVE  ClosingInv'
    <3>1. /\ up = "reading" /\ up' \in {"read", "write", "panicked"}
          /\ UNCHANGED <<closed, dn>>
      BY <2>2 DEF ReadData, ReadTimesOut, PartEnds, UpGoto, downVars
    <3>2. QED
      BY <3>1 DEF ClosingInv
  <2>3. CASE CloseTarget
    BY <2>3 DEF CloseTarget, ClosingInv, UpGoto, downVars
  <2>4. CASE CloseClient
    BY <2>4 DEF CloseClient, ClosingInv, UpGoto, downVars
  <2>5. QED
    BY <1>1, <2>1, <2>2, <2>3, <2>4 DEF Up
<1>2. CASE Down
  <2>1. UNCHANGED <<up, closed>> /\ dn # "done"
    BY <1>2 DEF Down, CopyReadStarts, CopyReadData, CopyTimesOut, CopyReadFails, CopyWriteStarts,
       CopyWrite, CopyWriteFails, CopyLeaves, upVars, DnGoto
  <2>2. QED
    BY <2>1 DEF ClosingInv
<1>3. CASE Others \/ UNCHANGED vars
  <2>1. UNCHANGED <<upVars, downVars, closed>>
    BY <1>3, OthersKeep
  <2>2. QED
    BY <2>1 DEF ClosingInv, upVars, downVars
<1>4. QED
  BY <1>1, <1>2, <1>3 DEF Next, Others

(* No connection is closed under a direction that uses it.                 *)
THEOREM ConnectionsCloseLast == Spec => []ClosedLast
<1>1. Init => ClosingInv
  BY DEF Init, ClosingInv
<1>2. TypeOK /\ ClosingInv => ClosedLast
  BY DEF ClosingInv, ClosedLast, TypeOK, UpOK
<1>3. TypeOK /\ ClosingInv /\ [Next]_vars => ClosingInv'
  BY ClosingStep
<1>4. QED
  BY <1>1, <1>2, <1>3, RelayTypeCorrect, PTL DEF Spec

-----------------------------------------------------------------------------
(* From the client to the target.                                          *)

Whole(s) == \A i \in DOMAIN s : s[i] = i

(* The buffer has what was read since the last packet, and nothing else.   *)
Clean ==
    /\ got = Len(out) + Before + n
    /\ \A i \in 1 .. Before + n : buf[i] = Len(out) + i
    /\ \A i \in Before + n + 1 .. Capacity : buf[i] = Stale

(* A read that timed out after a stop has left a hole in its first units.  *)
Torn(size) ==
    /\ ctx /\ part = "data"
    /\ \E j \in 1 .. size : buf[j] = Stale /\ \A i \in 1 .. j - 1 : buf[i] = Len(out) + i

ForwardInv ==
    /\ TargetGetsStream
    /\ up \in {"loop", "push"} => ctx \/ (Whole(out) /\ got = Len(out))
    /\ up \in {"read", "reading"} => Whole(out) /\ (Clean \/ Torn(HeaderSize))
    /\ up \in {"write", "writing"} => Whole(out) /\ ((Clean /\ n = want) \/ Torn(PacketSize))

(* A loop that starts on the next packet has forwarded all of the packets  *)
(* before it.                                                              *)
LEMMA LoopGetsForwards ==
    ASSUME TypeOK, ForwardInv, LoopGets
    PROVE  ForwardInv'
<1>1. /\ ctx' = ctx /\ ~ ctx /\ up = "loop" /\ up' = "read" /\ out' = out /\ got' = got
      /\ part' = "header" /\ n' = 0
      /\ \A i \in 1 .. Capacity : buf'[i] = Stale
  BY Sizes DEF LoopGets, UpGoto, EmptyBuffer, ctxVars
<1>2. Whole(out') /\ got' = Len(out') /\ TargetGetsStream'
  BY <1>1 DEF ForwardInv, Whole, TargetGetsStream
<1>3. Clean'
  BY <1>1, <1>2, Sizes DEF Clean, Before, TypeOK, UpOK
<1>4. QED
  BY <1>1, <1>2, <1>3 DEF ForwardInv

(* A read takes the next bytes of the client's stream.                     *)
LEMMA ReadDataForwards ==
    ASSUME TypeOK, ForwardInv, NEW k \in 0 .. Capacity, ReadData(k)
    PROVE  ForwardInv'
<1>1. /\ up = "reading" /\ out' = out /\ ctx' = ctx /\ got' = got + k
      /\ k \in Nat /\ n \in Nat /\ want \in Nat /\ got \in Nat /\ n + k <= want
      /\ Len(out) \in Nat /\ Before \in Nat /\ Before + want <= Capacity
      /\ up' \in {"read", "write"} /\ part \in {"header", "data"}
  <2>1. /\ up = "reading" /\ out' = out /\ ctx' = ctx /\ got' = got + k
        /\ n + k <= want /\ n \in Nat /\ want \in Nat
    BY Sizes DEF ReadData, ctxVars, TypeOK, UpOK
  <2>2. /\ k \in Nat /\ got \in Nat /\ Len(out) \in Nat
        /\ Before \in Nat /\ Before + want <= Capacity /\ part \in {"header", "data"}
    BY Sizes DEF TypeOK, PeersOK, UpOK, Before
  <2>3. up' # "panicked"
    BY ReadDataTyped DEF EveryPacketFits
  <2>4. up' \in {"read", "write"}
    BY <2>3 DEF ReadData, PartEnds, UpGoto
  <2>5. QED
    BY <2>1, <2>2, <2>4
<1>2. Whole(out') /\ TargetGetsStream'
  BY <1>1 DEF ForwardInv, Whole, TargetGetsStream
<1>3. \A i \in 1 .. Capacity : buf'[i] =
         IF i \in Before + n + 1 .. Before + n + k THEN got + i - Before - n ELSE buf[i]
  BY DEF ReadData
<1>4. CASE Clean
  <2>1. /\ got' = Len(out) + Before + n + k
        /\ \A i \in 1 .. Capacity : i <= Before + n + k => buf'[i] = Len(out) + i
        /\ \A i \in Before + n + k + 1 .. Capacity : buf'[i] = Stale
    BY <1>1, <1>3, <1>4, Sizes DEF Clean
  <2>2. CASE part = "header" /\ n + k = want
    <3>1. part' = "data" /\ n' = 0 /\ up' = "read" /\ want = HeaderSize
      BY <1>1, <2>2, Sizes DEF ReadData, PartEnds, TypeOK, UpOK
    <3>2. Clean'
      BY <1>1, <2>1, <2>2, <3>1, Sizes DEF Clean, Before
    <3>3. QED
      BY <1>2, <3>1, <3>2 DEF ForwardInv
  <2>3. CASE part = "data" \/ n + k < want
    <3>1. /\ part' = part /\ n' = n + k /\ want' = want
          /\ up' = "write" => n' = want'
      <4>1. CASE part = "data" /\ n + k = want /\ PartEnds(buf', k)
        BY <4>1 DEF PartEnds
      <4>2. CASE n + k < want /\ UpGoto("reading", "read") /\ n' = n + k /\ UNCHANGED <<part, want>>
        BY <4>2 DEF UpGoto
      <4>3. QED
        BY <1>1, <2>3, <4>1, <4>2 DEF ReadData
    <3>2. Before' = Before /\ Before' + n' <= Capacity
      BY <1>1, <3>1, Sizes DEF Before
    <3>3. Clean'
      <4>1. Before' + n' = Before + n + k /\ got' = Len(out') + Before' + n'
        BY <1>1, <2>1, <3>1, <3>2
      <4>2. \A i \in 1 .. Before + n + k : i \in 1 .. Capacity /\ i <= Before + n + k
        BY <1>1, Sizes
      <4>3. \A i \in 1 .. Before' + n' : buf'[i] = Len(out') + i
        BY <1>1, <2>1, <4>1, <4>2
      <4>4. \A i \in Before' + n' + 1 .. Capacity : buf'[i] = Stale
        BY <2>1, <4>1
      <4>5. QED
        BY <4>1, <4>3, <4>4 DEF Clean
    <3>4. QED
      BY <1>1, <1>2, <3>1, <3>3 DEF ForwardInv
  <2>4. QED
    BY <1>1, <2>2, <2>3 DEF TypeOK, UpOK
<1>5. CASE Torn(HeaderSize)
  <2>1. PICK j \in 1 .. HeaderSize : buf[j] = Stale /\ \A i \in 1 .. j - 1 : buf[i] = Len(out) + i
    BY <1>5 DEF Torn
  <2>2. part' = "data" /\ want' = want
    BY <1>5 DEF Torn, ReadData, PartEnds
  <2>3. \A i \in 1 .. HeaderSize : buf'[i] = buf[i]
    BY <1>1, <1>3, <1>5, Sizes DEF Torn, Before
  <2>4. buf'[j] = Stale /\ \A i \in 1 .. j - 1 : buf'[i] = Len(out') + i
    BY <1>1, <2>1, <2>3, Sizes
  <2>5. j \in 1 .. HeaderSize /\ j \in 1 .. PacketSize'
    BY <1>1, <2>2, Sizes DEF PacketSize
  <2>6. Torn(HeaderSize)' /\ Torn(PacketSize)'
    BY <1>1, <1>5, <2>2, <2>4, <2>5 DEF Torn
  <2>7. QED
    BY <1>1, <1>2, <2>6 DEF ForwardInv
<1>6. QED
  BY <1>1, <1>4, <1>5 DEF ForwardInv

(* A read that times out leaves the bytes it had got, or ends a torn part  *)
(* once ctx is done.                                                       *)
LEMMA ReadTimesOutForwards ==
    ASSUME TypeOK, ForwardInv, ReadTimesOut
    PROVE  ForwardInv'
<1>1. /\ up = "reading" /\ n < want /\ UNCHANGED <<ctx, got, buf, out>>
      /\ n \in Nat /\ want \in Nat /\ Len(out) \in Nat /\ Whole(out) /\ (Clean \/ Torn(HeaderSize))
      /\ part \in {"header", "data"} /\ (part = "header" => want = HeaderSize)
      /\ part = "data" => want \in 0 .. MaxBody
  BY Sizes DEF ReadTimesOut, ForwardInv, TypeOK, UpOK, ctxVars
<1>2. Whole(out') /\ TargetGetsStream'
  BY <1>1 DEF ForwardInv, Whole, TargetGetsStream
<1>3. CASE ctx /\ PartEnds(buf, 0) /\ part = "header"
  <2>1. up' = "read" /\ part' = "data"
    <3>1. buf \in [1 .. Capacity -> Units] /\ n + 0 <= want
      BY <1>1 DEF Units, TypeOK, UpOK
    <3>2. up' \in {"read", "write"}
      BY <1>3, <3>1, PartEndsTyped
    <3>3. QED
      BY <1>3, <3>2 DEF PartEnds
  <2>2. Clean
    BY <1>1, <1>3 DEF Torn
  <2>3. /\ n + 1 \in 1 .. HeaderSize /\ buf[n + 1] = Stale
        /\ \A i \in 1 .. n + 1 - 1 : buf[i] = Len(out) + i
    BY <1>1, <1>3, <2>2, Sizes DEF Clean, Before
  <2>4. Torn(HeaderSize)'
    BY <1>1, <1>3, <2>1, <2>3 DEF Torn
  <2>5. QED
    BY <1>2, <2>1, <2>4 DEF ForwardInv
<1>4. CASE ctx /\ PartEnds(buf, 0) /\ part = "data"
  <2>1. up' = "write" /\ part' = "data" /\ want' = want
    BY <1>4 DEF PartEnds
  <2>2. PICK j \in 1 .. PacketSize : buf[j] = Stale /\ \A i \in 1 .. j - 1 : buf[i] = Len(out) + i
    <3>1. CASE Clean
      <4>1. /\ HeaderSize + n + 1 \in 1 .. PacketSize /\ buf[HeaderSize + n + 1] = Stale
            /\ \A i \in 1 .. HeaderSize + n : buf[i] = Len(out) + i
        <5>1. Before = HeaderSize /\ HeaderSize + n + 1 \in 1 .. PacketSize
              /\ HeaderSize + n + 1 \in HeaderSize + n + 1 .. Capacity
          BY <1>1, <1>4, Sizes DEF Before, PacketSize
        <5>2. QED
          BY <3>1, <5>1 DEF Clean
      <4>2. PICK h \in 1 .. PacketSize : h = HeaderSize + n + 1 /\ h - 1 = HeaderSize + n
        BY <1>1, <4>1, Sizes
      <4>3. buf[h] = Stale /\ \A i \in 1 .. h - 1 : buf[i] = Len(out) + i
        BY <4>1, <4>2
      <4>4. QED
        BY <4>3
    <3>2. CASE Torn(HeaderSize)
      <4>1. PICK h \in 1 .. HeaderSize : buf[h] = Stale /\ \A i \in 1 .. h - 1 : buf[i] = Len(out) + i
        BY <3>2 DEF Torn
      <4>2. h \in 1 .. PacketSize
        BY <1>1, Sizes DEF PacketSize
      <4>3. QED
        BY <4>1, <4>2
    <3>3. QED
      BY <1>1, <3>1, <3>2
  <2>3. PacketSize' = PacketSize
    BY <2>1 DEF PacketSize
  <2>4. Torn(PacketSize)'
    BY <1>1, <1>4, <2>1, <2>2, <2>3 DEF Torn
  <2>5. QED
    BY <1>2, <2>1, <2>4 DEF ForwardInv
<1>5. CASE up' = "read" /\ UNCHANGED <<part, want, n>>
  <2>1. (Clean => Clean') /\ (Torn(HeaderSize) => Torn(HeaderSize)')
    BY <1>1, <1>5 DEF Clean, Torn, Before
  <2>2. QED
    BY <1>1, <1>2, <1>5, <2>1 DEF ForwardInv
<1>6. QED
  BY <1>1, <1>3, <1>4, <1>5 DEF ReadTimesOut, UpGoto

(* The target's connection takes k units of a packet.                      *)
LEMMA TakenForwards ==
    ASSUME TypeOK, ForwardInv, up = "writing", ctx' = ctx,
           NEW k \in 0 .. PacketSize, out' = out \o SubSeq(buf, 1, k)
    PROVE  /\ TargetGetsStream'
           /\ Len(out') = Len(out) + k
           /\ ctx \/ (Whole(out') /\ got = Len(out) + PacketSize)
<1>1. /\ PacketSize \in HeaderSize .. Capacity /\ part = "data" /\ k \in Nat
      /\ out \in Seq(Units) /\ Len(out) \in Nat
  BY PacketFits, Sizes DEF TypeOK, UpOK, Units
<1>2. /\ SubSeq(buf, 1, k) \in Seq(Units) /\ Len(SubSeq(buf, 1, k)) = k
      /\ \A i \in 1 .. k : SubSeq(buf, 1, k)[i] = buf[i]
  BY <1>1, SliceType, Sizes
<1>3. /\ out' \in Seq(Units) /\ Len(out') = Len(out) + k
      /\ \A i \in 1 .. Len(out) : out'[i] = i
      /\ \A i \in 1 .. k : out'[Len(out) + i] = buf[i]
  <2>1. \A i \in 1 .. Len(out) : out[i] = i
    BY <1>1 DEF ForwardInv, Whole
  <2>2. QED
    BY <1>1, <1>2, <2>1, Extended
<1>4. DOMAIN out' = 1 .. Len(out) + k
  BY <1>3
<1>5. CASE Clean /\ n = want
  <2>1. got = Len(out) + PacketSize /\ \A i \in 1 .. k : buf[i] = Len(out) + i
    BY <1>1, <1>5, Sizes DEF Clean, Before, PacketSize, TypeOK, UpOK
  <2>2. ASSUME NEW i \in 1 .. Len(out) + k PROVE out'[i] = i
    <3>1. CASE i <= Len(out)
      BY <1>1, <1>3, <3>1
    <3>2. CASE i > Len(out)
      <4>1. i - Len(out) \in 1 .. k /\ i = Len(out) + (i - Len(out))
        BY <1>1, <3>2
      <4>2. QED
        BY <1>1, <1>3, <2>1, <4>1
    <3>3. QED
      BY <1>1, <3>1, <3>2
  <2>3. QED
    BY <1>3, <1>4, <2>1, <2>2 DEF Whole, TargetGetsStream
<1>6. CASE Torn(PacketSize)
  <2>1. PICK j \in 1 .. PacketSize : buf[j] = Stale /\ \A i \in 1 .. j - 1 : buf[i] = Len(out) + i
    BY <1>6 DEF Torn
  <2>2. ASSUME NEW i \in 1 .. Len(out) + k
        PROVE  out'[i] = i \/ \E h \in 1 .. i : out'[h] = Stale /\ Len(out') < h + Capacity
    <3>1. CASE i <= Len(out)
      BY <1>1, <1>3, <3>1
    <3>2. CASE i > Len(out) /\ i < Len(out) + j
      <4>1. i - Len(out) \in 1 .. k /\ i - Len(out) \in 1 .. j - 1 /\ i = Len(out) + (i - Len(out))
        BY <1>1, <3>2
      <4>2. QED
        BY <1>1, <1>3, <2>1, <4>1
    <3>3. CASE i >= Len(out) + j
      <4>1. j \in 1 .. k /\ Len(out) + j \in 1 .. i /\ Len(out) + k < Len(out) + j + Capacity
        BY <1>1, <3>3, Sizes
      <4>2. QED
        BY <1>3, <2>1, <4>1
    <3>4. QED
      BY <1>1, <3>1, <3>2, <3>3
  <2>3. ctx
    BY <1>6 DEF Torn
  <2>4. QED
    BY <1>3, <1>4, <2>2, <2>3 DEF TargetGetsStream
<1>7. QED
  BY <1>5, <1>6 DEF ForwardInv

(* A write to the target, whole or cut short, gives it the next bytes of   *)
(* the client's stream.                                                    *)
LEMMA WriteForwards ==
    ASSUME TypeOK, ForwardInv, Write \/ WriteFails
    PROVE  ForwardInv'
<1>1. up = "writing" /\ ctx' = ctx /\ got' = got /\ up' \in {"push", "leave"}
  BY DEF Write, WriteFails, UpGoto, ctxVars, readVars
<1>2. CASE Write
  <2>1. PacketSize \in 0 .. PacketSize /\ out' = out \o SubSeq(buf, 1, PacketSize)
    BY <1>1, <1>2, PacketFits, Sizes DEF Write, Packet
  <2>2. /\ TargetGetsStream' /\ Len(out') = Len(out) + PacketSize
        /\ ctx \/ (Whole(out') /\ got = Len(out) + PacketSize)
    BY <1>1, <2>1, TakenForwards
  <2>3. QED
    BY <1>1, <2>2 DEF ForwardInv
<1>3. CASE WriteFails
  <2>1. PICK k \in 0 .. PacketSize - 1 : out' = out \o SubSeq(buf, 1, k)
    BY <1>3 DEF WriteFails
  <2>2. k \in 0 .. PacketSize
    BY <1>1, PacketFits, Sizes
  <2>3. TargetGetsStream'
    BY <1>1, <2>1, <2>2, TakenForwards
  <2>4. up' = "leave"
    BY <1>3 DEF WriteFails, UpGoto
  <2>5. QED
    BY <2>3, <2>4 DEF ForwardInv
<1>4. QED
  BY <1>2, <1>3

(* No step of the relay disturbs what the target has of the client's       *)
(* stream.                                                                 *)
LEMMA ForwardStep ==
    ASSUME TypeOK, ForwardInv, [Next]_vars
    PROVE  ForwardInv'
<1>1. ASSUME UNCHANGED <<up, got, buf, part, want, n, out>>, ctx => ctx'
      PROVE  ForwardInv'
  <2>1. TargetGetsStream'
    BY <1>1 DEF ForwardInv, TargetGetsStream
  <2>2. /\ Whole(out) => Whole(out')
        /\ Clean => Clean'
        /\ Torn(HeaderSize) => Torn(HeaderSize)'
        /\ Torn(PacketSize) => Torn(PacketSize)'
    BY <1>1 DEF Whole, Clean, Torn, Before, PacketSize
  <2>3. QED
    BY <1>1, <2>1, <2>2 DEF ForwardInv
<1>2. CASE Down
  <2>1. UNCHANGED <<upVars, ctx>>
    BY <1>2 DEF Down, CopyReadStarts, CopyReadData, CopyTimesOut, CopyReadFails, CopyWriteStarts,
       CopyWrite, CopyWriteFails, CopyLeaves, ctxVars
  <2>2. QED
    BY <1>1, <2>1 DEF upVars, readVars
<1>3. CASE Others \/ UNCHANGED vars
  BY <1>1, <1>3, OthersKeep DEF upVars, readVars
<1>4. CASE ReadStarts \/ WriteStarts
  <2>1. /\ UNCHANGED <<ctx, got, buf, part, want, n, out>>
        /\ \/ up' = "leave"
           \/ up = "read" /\ up' = "reading"
           \/ up = "write" /\ up' = "writing"
    BY <1>4 DEF ReadStarts, WriteStarts, UpGoto, ctxVars, readVars
  <2>2. /\ TargetGetsStream'
        /\ Whole(out) => Whole(out')
        /\ Clean => Clean'
        /\ Torn(HeaderSize) => Torn(HeaderSize)'
        /\ Torn(PacketSize) => Torn(PacketSize)'
    BY <2>1 DEF ForwardInv, TargetGetsStream, Whole, Clean, Torn, Before, PacketSize
  <2>3. QED
    BY <2>1, <2>2 DEF ForwardInv
<1>5. CASE LoopEnds \/ ReadFails \/ Push \/ Leave \/ CloseTarget \/ CloseClient
  <2>1. /\ UNCHANGED <<ctx, got, out>>
        /\ up' \in {"leave", "wait", "closing", "done"} \/ (up = "push" /\ up' = "loop")
    BY <1>5 DEF LoopEnds, ReadFails, Push, Leave, CloseTarget, CloseClient, UpGoto, ctxVars, readVars
  <2>2. QED
    BY <2>1 DEF ForwardInv, TargetGetsStream, Whole
<1>6. QED
  BY <1>2, <1>3, <1>4, <1>5, LoopGetsForwards, ReadDataForwards, ReadTimesOutForwards, WriteForwards
  DEF Next, Up, Others

(* The target gets the client's bytes; a stop may put one torn packet      *)
(* after them.                                                             *)
THEOREM TargetGetsTheStream == Spec => []TargetGetsStream
<1>1. Init => ForwardInv
  BY Sizes DEF Init, ForwardInv, TargetGetsStream, Whole
<1>2. ForwardInv => TargetGetsStream
  BY DEF ForwardInv
<1>3. TypeOK /\ ForwardInv /\ [Next]_vars => ForwardInv'
  BY ForwardStep
<1>4. QED
  BY <1>1, <1>2, <1>3, RelayTypeCorrect, PTL DEF Spec

-----------------------------------------------------------------------------
(* The log.                                                                *)

(* What is recorded stays what the target has, less the packet that is     *)
(* about to be pushed.                                                     *)
LEMMA LoggedStep ==
    ASSUME TypeOK, LoggedIsForwarded, [Next]_vars
    PROVE  LoggedIsForwarded'
<1>1. out \in Seq(Units) /\ logged \in Seq(Units) /\ IsPrefix(logged, logged) /\ IsPrefix(out, out)
  BY PrefixOfItself DEF TypeOK, UpOK, Units
<1>2. ASSUME UNCHANGED <<up, buf, want, out, logged>>
      PROVE  LoggedIsForwarded'
  BY <1>2 DEF LoggedIsForwarded, Packet, PacketSize
<1>3. CASE Down
  <2>1. UNCHANGED upVars
    BY <1>3 DEF Down, CopyReadStarts, CopyReadData, CopyTimesOut, CopyReadFails, CopyWriteStarts,
       CopyWrite, CopyWriteFails, CopyLeaves
  <2>2. QED
    BY <1>2, <2>1 DEF upVars, readVars
<1>4. CASE Others \/ UNCHANGED vars
  BY <1>2, <1>4, OthersKeep DEF upVars, readVars
<1>5. ASSUME \/ LoopEnds \/ LoopGets \/ ReadStarts \/ (\E k \in 0 .. Capacity : ReadData(k))
             \/ ReadTimesOut \/ ReadFails \/ WriteStarts
      PROVE  LoggedIsForwarded'
  <2>1. /\ UNCHANGED <<out, logged>> /\ up' # "push"
        /\ up \in {"loop", "read", "reading", "write", "writing"}
    BY <1>5 DEF LoopEnds, LoopGets, ReadStarts, ReadData, ReadTimesOut, ReadFails, WriteStarts, PartEnds,
       UpGoto
  <2>2. QED
    BY <1>1, <2>1 DEF LoggedIsForwarded
<1>6. CASE Write \/ WriteFails
  <2>1. up = "writing" /\ logged = out /\ logged' = logged
    BY <1>6 DEF Write, WriteFails, UpGoto, LoggedIsForwarded
  <2>2. PICK k \in 0 .. PacketSize : out' = out \o SubSeq(buf, 1, k)
    BY <1>6, WriteTyped
  <2>3. k \in 0 .. Capacity
    BY <2>1, PacketFits, Sizes
  <2>4. IsPrefix(logged', out')
    BY <1>1, <2>1, <2>2, <2>3, SliceType, PrefixOfExtended
  <2>5. CASE Write
    <3>1. up' = "push" /\ out' = logged' \o Packet'
      BY <2>1, <2>5 DEF Write, UpGoto, Packet, PacketSize, readVars
    <3>2. QED
      BY <2>4, <3>1 DEF LoggedIsForwarded
  <2>6. CASE WriteFails
    BY <2>4, <2>6 DEF WriteFails, UpGoto, LoggedIsForwarded
  <2>7. QED
    BY <1>6, <2>5, <2>6
<1>7. CASE Push
  <2>1. out = logged \o Packet /\ IsPrefix(logged, out) /\ out' = out
    BY <1>7 DEF Push, UpGoto, LoggedIsForwarded
  <2>2. CASE up' = "loop" /\ logged' = logged \o Packet
    BY <1>1, <2>1, <2>2 DEF LoggedIsForwarded
  <2>3. CASE up' = "leave" /\ logged' = logged
    BY <2>1, <2>3 DEF LoggedIsForwarded
  <2>4. QED
    BY <1>7, <2>2, <2>3 DEF Push, UpGoto
<1>8. CASE Leave \/ CloseTarget \/ CloseClient
  <2>1. UNCHANGED <<out, logged>> /\ up' \in {"wait", "closing", "done"}
    BY <1>8 DEF Leave, CloseTarget, CloseClient, UpGoto
  <2>2. QED
    BY <2>1 DEF LoggedIsForwarded
<1>9. QED
  BY <1>3, <1>4, <1>5, <1>6, <1>7, <1>8 DEF Next, Up, Others

(* The log has what the target has, but for the packet in hand.            *)
THEOREM LogFollowsTheTarget == Spec => []LoggedIsForwarded
<1>1. Init => LoggedIsForwarded
  <2>1. <<>> \in Seq(Units)
    OBVIOUS
  <2>2. IsPrefix(<<>>, <<>>)
    BY <2>1, PrefixOfItself
  <2>3. QED
    BY <2>2 DEF Init, LoggedIsForwarded
<1>2. TypeOK /\ LoggedIsForwarded /\ [Next]_vars => LoggedIsForwarded'
  BY LoggedStep
<1>3. QED
  BY <1>1, <1>2, RelayTypeCorrect, PTL DEF Spec
=============================================================================
