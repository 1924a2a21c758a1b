-------------------------- MODULE LogFileProperties --------------------------
(***************************************************************************)
(* What LogFile must satisfy.                                              *)
(***************************************************************************)
EXTENDS LogFile, Selections

(* Every variable stays within its type; a file is open exactly when there *)
(* is a gzip writer (closeFile and createFile keep the two fields paired). *)
TypeOK ==
    /\ {now, tick, since} \subseteq Hours /\ since <= now
    /\ phase \in {"down", "serving", "creating", "ended"}
    /\ gz \in {"nil", "ok", "err"}
    /\ file \in Hours \cup {None}
    /\ begun \in BOOLEAN
    /\ buffer \in Seq(Items)
    /\ exists \subseteq Hours
    /\ members \in [Hours -> Seq(Members)]
    /\ log \in Seq(Entries)
    /\ tainted \subseteq Hours
    /\ opens \in 0 .. MaxOpens
    /\ gz = "nil" <=> file = None

Encoded(h) == Selected(log, {e \in Entries : e.file = h})

Held(h) == IF h = file THEN Selected(buffer, Entries) ELSE <<>>

IsBeginning(p, q) == Len(p) <= Len(q) /\ p = SubSeq(q, 1, Len(p))

(* A file no kill and no failed write has touched decodes, at any moment,  *)
(* to exactly what was encoded for it less what gzip still holds: across   *)
(* rotations and restarts within one hour too, where createFile appends a  *)
(* member and must not repeat the version header.                          *)
CleanFilesDecode ==
    \A h \in Hours : h \notin tainted => Encoded(h) = Decoded(h) \o Held(h)

(* What can be decoded once can be decoded ever after: no later step of    *)
(* the writer, no restart, takes it back.                                  *)
DecodedOnlyGrows ==
    [][\A h \in Hours : IsBeginning(Decoded(h), Decoded(h)')]_vars

(* The files are an AuditSink: this is the file as AuditPipeline sees it.  *)
SinkState == CASE gz = "nil" -> "none" [] gz = "ok" -> "open" [] gz = "err" -> "broken"

AbstractSink == INSTANCE AuditSink
    WITH Records <- Entries, sink <- SinkState

ImplementsSink ==
    [][\/ \E e \in Entries : AbstractSink!Encode(e)
       \/ AbstractSink!Reject \/ AbstractSink!Rotate
       \/ AbstractSink!Die /\ phase' = "down"
       \/ \E ok \in BOOLEAN : AbstractSink!CloseFile(ok)]_<<SinkState, log>>

(* README.md:13 has the decoder read the files the proxy generates.  A     *)
(* complete member is not decoded when an incomplete one, or one without   *)
(* the version header, stands before it: see the findings.                 *)
CompleteMembersDecode ==
    \A h \in Hours : \A i \in 1 .. Len(members[h]) :
        LET m == members[h][i]
        IN  m.sealed => \A j \in 1 .. Len(m.items) :
                m.items[j] = Hdr \/ \E k \in 1 .. Len(Decoded(h)) : Decoded(h)[k] = m.items[j]

(* README.md:11 has the files rotated by a time interval.  After a failed  *)
(* write closeFile fails at every tick, and the old file stays.            *)
RotationMovesOn ==
    \A h \in Hours :
        (phase = "serving" /\ file = h /\ now > h) ~> (file # h \/ phase # "serving")
=============================================================================
