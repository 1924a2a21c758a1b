--------------------------- MODULE RelayProperties ---------------------------
(* What the relay promises the two peers of a session and the audit log.    *)
EXTENDS Relay, SequencesExt

(* ClientSess.Proxy, SendTask: where both directions can be and what they   *)
(* hold; no more of a packet is read than the header announced.             *)
PeersOK ==
    /\ ctx \in BOOLEAN /\ cctx \in BOOLEAN
    /\ client \in {"open", "closed", "reset"} /\ target \in {"open", "closed", "reset"}
    /\ sent \in 0 .. MaxSent /\ answered \in 0 .. MaxAnswered
    /\ closed \in SUBSET {"client", "target"}

UpOK ==
    /\ up \in {"loop", "read", "reading", "write", "writing", "push",
               "leave", "wait", "closing", "done", "panicked"}
    /\ got \in 0 .. sent
    /\ buf \in [1 .. Capacity -> 0 .. MaxSent]
    /\ part \in {"header", "data"}
    /\ part = "header" => want = HeaderSize
    /\ part = "data" => want \in 0 .. MaxBody
    /\ up \in {"write", "writing", "push"} => part = "data"
    /\ n \in 0 .. want
    /\ out \in Seq(0 .. MaxSent) /\ logged \in Seq(0 .. MaxSent)

DownOK ==
    /\ dn \in {"read", "reading", "write", "writing", "leave", "done"}
    /\ copied \in 0 .. answered
    /\ dbuf \in [1 .. Chunk -> 0 .. MaxAnswered] /\ m \in 0 .. Chunk
    /\ back \in Seq(0 .. MaxAnswered)

TypeOK == PeersOK /\ UpOK /\ DownOK

(* resizeSlice: the buffers of the pool hold the largest packet a header    *)
(* can announce, so that no packet makes Worker slice past one.             *)
EveryPacketFits == up # "panicked"

(* SendTask.writeBufferAndSend: the target gets the client's bytes, all of  *)
(* them in their order.  Only once ctx is done can bytes left in a pooled   *)
(* buffer go out for bytes that did not come, and then in one packet, the   *)
(* last.                                                                    *)
TargetGetsStream == \A i \in DOMAIN out :
    \/ out[i] = i
    \/ ctx /\ \E j \in 1 .. i : out[j] = Stale /\ Len(out) < j + Capacity

(* SendTask.Worker: a packet is logged when all of it went to the target,   *)
(* and before the next one is read; so the log has what the target has,     *)
(* but for the packet in hand.                                              *)
LoggedIsForwarded ==
    /\ IsPrefix(logged, out)
    /\ up \in {"loop", "read", "reading", "write", "writing"} => logged = out
    /\ up = "push" => out = logged \o Packet

(* TimeoutReader.WriteTo: the client gets the target's bytes, all of them   *)
(* in their order, whatever deadlines passed between them.                  *)
ClientGetsStream == \A i \in DOMAIN back : back[i] = i

(* ClientSess.Proxy: no connection is closed while a direction may use it,  *)
(* and the target's is closed before the client's.                          *)
ClosedLast ==
    /\ closed # {} => dn = "done" /\ up \in {"closing", "done"}
    /\ "client" \in closed => "target" \in closed

-----------------------------------------------------------------------------
(* ClientSess.Proxy: a stop, the end of the answers or the end of Worker,   *)
(* for whatever reason, ends the session, though the peer of the other      *)
(* direction still has its connection open and is silent.                   *)
SessionEnds ==
    (ctx \/ dn = "done" \/ up \in {"leave", "wait"})
        ~> (up = "done" /\ closed = {"client", "target"})

(* The unit that ends the packet starting at unit i.                        *)
PacketEnd(i) == i + HeaderSize + Length[i] - 1

(* The last units of the packets the client sends.                          *)
Ends == LET end[i \in 0 .. MaxSent] ==
               i # 0 /\ \E j \in 1 .. i : PacketEnd(j) = i /\ (j = 1 \/ end[j - 1])
        IN  {i \in 1 .. MaxSent : end[i]}

(* SendTask.Worker: a packet whose last byte the client sent goes to the    *)
(* target, however its bytes were spread over reads and deadlines, unless   *)
(* the Worker leaves for a reason: a stop, a peer that left, a failed write *)
(* or the other direction's end.                                            *)
EveryPacketForwarded == \A k \in Ends :
    (sent >= k) ~> (Len(out) >= k \/ up \in {"leave", "wait", "closing", "done"})

(* TimeoutReader.WriteTo: an answer does not wait for more to fill a buffer.*)
AnswersArrive == \A k \in 1 .. MaxAnswered :
    (answered >= k) ~> (Len(back) >= k \/ dn \in {"leave", "done"})
=============================================================================
