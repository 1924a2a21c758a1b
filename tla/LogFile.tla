------------------------------- MODULE LogFile -------------------------------
(***************************************************************************)
(* The audit log on disk: auditLogWriter's file and gzip writer over the   *)
(* lives of several processes, and what mysql8-audit-log-decoder reads     *)
(* back.                                                                   *)
(*                                                                         *)
(* The name of a file is an hour (the default LOG_FILE_NAME): that of the  *)
(* tick that asks for it, which the worker may receive later.  A file is a *)
(* sequence of gzip members, each with the items that have reached the     *)
(* disk and whether its trailer has; the items of the last member that     *)
(* compress/gzip still holds are in buffer.  What write(2) took survives   *)
(* the process: there is no power failure here.                            *)
(*                                                                         *)
(* A definition whose name starts with Slip is a plausible mistake in the  *)
(* definition that follows it, kept to show that the properties notice it. *)
(***************************************************************************)
EXTENDS Naturals, Sequences

CONSTANTS
    MaxHour,          \* bound: hours the clock goes through
    MaxRecords,       \* bound: records encoded
    MaxOpens,         \* bound: calls of createFile
    None              \* nil

ASSUME LogBounds == MaxHour \in Nat \ {0} /\ MaxRecords \in Nat /\ MaxOpens \in Nat
ASSUME NoneIsNoHour == None \notin Nat

VARIABLES
    now,              \* the hour
    tick,             \* that of the last tick received
    since,            \* when it was received: ticker.C holds none from before
    phase,            \* the process and its writer: "down", "serving", "creating"
                      \* (between closeFile and createFile of a rotation), "ended"
    gz,               \* d.gzipWriter: "nil", "ok", "err" (an error it will repeat)
    file,             \* d.file: the hour of its name, or None
    begun,            \* the gzip writer has written its member's first bytes
    buffer,           \* items it holds that are not on disk
    exists,           \* hours whose file exists
    members,          \* members[h]: the members in that file
    log,              \* entries whose encoding succeeded, oldest first
    tainted,          \* hours whose file was left by a kill or a failed write
    opens             \* calls of createFile so far

clockVars  == <<now, tick, since>>
writerVars == <<phase, gz, file, begun, buffer>>
diskVars   == <<exists, members>>
vars == <<clockVars, writerVars, diskVars, log, tainted, opens>>

Hours == 1 .. MaxHour

(* The n-th record encoded, and the file it was encoded for.               *)
Entries == [file : Hours, n : 1 .. MaxRecords]

Hdr == [file |-> 0, n |-> 0]       \* fmtVersion

Items == Entries \cup {Hdr}

Members == [items : Seq(Items), sealed : BOOLEAN]

NewMember == [items |-> <<>>, sealed |-> FALSE]

Init ==
    /\ now = 1 /\ tick = 1 /\ since = 1
    /\ phase = "down" /\ gz = "nil" /\ file = None /\ begun = FALSE /\ buffer = <<>>
    /\ exists = {} /\ members = [h \in Hours |-> <<>>]
    /\ log = <<>> /\ tainted = {} /\ opens = 0

-----------------------------------------------------------------------------
(* Writing through gzip.Writer.                                            *)

(* The members of the current file once gzip has begun its own.            *)
OwnMember == IF begun THEN members[file] ELSE Append(members[file], NewMember)

OnDisk(ms, items, sealed) ==
    [members EXCEPT ![file] =
        [ms EXCEPT ![Len(ms)] = [items |-> @.items \o items, sealed |-> sealed]]]

FirstItems(q, k) == SubSeq(q, 1, k)

(* A write that succeeds puts any number of the held items on disk.        *)
gzipWrite(x) ==
    /\ gz = "ok"
    /\ LET held == Append(buffer, x)
       IN  \E k \in 0 .. Len(held) :
              /\ members' = OnDisk(OwnMember, FirstItems(held, k), FALSE)
              /\ buffer' = SubSeq(held, k + 1, Len(held))
    /\ begun' = TRUE
    /\ UNCHANGED gz

(* One that fails may have put some there first; the rest is lost.         *)
gzipFails ==
    /\ gz = "ok"
    /\ \/ UNCHANGED members /\ begun = FALSE
       \/ \E k \in 0 .. Len(buffer) :
             members' = OnDisk(OwnMember, FirstItems(buffer, k), FALSE)
    /\ gz' = "err"
    /\ begun' = TRUE
    /\ buffer' = <<>>
    /\ tainted' = tainted \cup {file}

-----------------------------------------------------------------------------
(* createFile for a time t, with gzipWriter and file nil.                  *)

(* The path is new: the version header goes to the gzip writer, whose ten  *)
(* bytes go to the file; nobody looks at the error.                        *)
createNew(t) ==
    /\ t \notin exists
    /\ exists' = exists \cup {t}
    /\ file' = t
    /\ begun' = TRUE
    /\ \/ /\ gz' = "ok"
          /\ buffer' = <<Hdr>>
          /\ members' = [members EXCEPT ![t] = <<NewMember>>]
          /\ UNCHANGED tainted
       \/ /\ gz' = "err"
          /\ buffer' = <<>>
          /\ \E ms \in {<<>>, <<NewMember>>} : members' = [members EXCEPT ![t] = ms]
          /\ tainted' = tainted \cup {t}

SlipTruncates(t) ==                \* O_TRUNC for O_APPEND
    /\ t \in exists
    /\ gz' = "ok" /\ file' = t /\ begun' = FALSE /\ buffer' = <<>>
    /\ members' = [members EXCEPT ![t] = <<>>]
    /\ UNCHANGED <<exists, tainted>>

SlipRepeatsHeader(t) ==            \* the version header in every member
    /\ t \in exists
    /\ gz' = "ok" /\ file' = t /\ begun' = FALSE /\ buffer' = <<Hdr>>
    /\ UNCHANGED <<diskVars, tainted>>

(* It exists: O_APPEND, a new gzip writer, no version header.              *)
createAppend(t) ==
    /\ t \in exists
    /\ gz' = "ok" /\ file' = t /\ begun' = FALSE /\ buffer' = <<>>
    /\ UNCHANGED <<diskVars, tainted>>

createFails ==                     \* OpenFile's error: file and gzipWriter are nil
    /\ gz' = "nil" /\ file' = None /\ begun' = FALSE /\ buffer' = <<>>
    /\ UNCHANGED <<diskVars, tainted>>

createFile(t) ==
    /\ opens < MaxOpens
    /\ opens' = opens + 1
    /\ createNew(t) \/ createAppend(t) \/ createFails

(* closeFile returns nil: the member is complete.  file.Close may still    *)
(* report an error; nothing is left open either way.                       *)
Completed ==
    IF gz = "ok" THEN OnDisk(OwnMember, buffer, TRUE) ELSE members

SlipKeepsFile ==                   \* without d.file = nil
    /\ gz \in {"ok", "nil"}
    /\ members' = Completed
    /\ gz' = "nil" /\ begun' = FALSE /\ buffer' = <<>>
    /\ UNCHANGED <<file, tainted>>

closeSucceeds ==
    /\ gz \in {"ok", "nil"}
    /\ members' = Completed
    /\ gz' = "nil" /\ file' = None /\ begun' = FALSE /\ buffer' = <<>>
    /\ UNCHANGED tainted

(* closeFile goes on after gzip Close's error.                             *)
SlipForgetsError ==
    /\ gz = "err"
    /\ gz' = "nil" /\ file' = None /\ begun' = FALSE /\ buffer' = <<>>
    /\ UNCHANGED <<members, tainted>>

(* gzip Close returns an error, now or from earlier: nothing is reset.     *)
closeFails ==
    \/ gzipFails /\ UNCHANGED file
    \/ gz = "err" /\ UNCHANGED <<gz, file, begun, buffer, members, tainted>>

-----------------------------------------------------------------------------
(* The process.                                                            *)

Start ==                           \* NewAuditLogWriter; main gives up when it fails
    /\ phase = "down"
    /\ createFile(now)
    /\ phase' = IF file' = None THEN "down" ELSE "serving"
    /\ tick' = now /\ since' = now
    /\ UNCHANGED <<now, log>>

Write ==                           \* writeDataToFile
    /\ phase = "serving"
    /\ Len(log) < MaxRecords
    /\ LET e == [file |-> file, n |-> Len(log) + 1]
       IN  gzipWrite(e) /\ log' = Append(log, e)
    /\ UNCHANGED <<clockVars, phase, file, exists, tainted, opens>>

WriteFails ==
    /\ phase = "serving"
    /\ gzipFails
    /\ UNCHANGED <<clockVars, phase, file, exists, log, opens>>

(* The ticker's case: closeFile and, if it returns nil, createFile with    *)
(* the time of the tick.  The channel holds one, fired since the last was  *)
(* received.                                                               *)
TickReceived == tick' \in since .. now /\ since' = now

RotateCloses ==
    /\ phase = "serving"
    /\ TickReceived
    /\ closeSucceeds
    /\ phase' \in {"creating", "serving"}       \* "serving": file.Close failed
    /\ phase' = "serving" => file # None
    /\ UNCHANGED <<now, exists, log, opens>>

RotateFails ==
    /\ phase = "serving"
    /\ TickReceived
    /\ closeFails
    /\ UNCHANGED <<now, phase, exists, log, opens>>

RotateCreates ==
    /\ phase = "creating"
    /\ createFile(tick)
    /\ phase' = "serving"
    /\ UNCHANGED <<clockVars, log>>

(* LogWriteWorker returns: its deferred closeFile.                         *)
WorkerEnds ==
    /\ phase = "serving"
    /\ closeSucceeds \/ closeFails
    /\ phase' = "ended"
    /\ UNCHANGED <<clockVars, exists, log, opens>>

(* The process ends, by itself or not: SIGTERM, a panic, a crash.  A       *)
(* member gzip has begun and not completed stays as it is.                 *)
Die ==
    /\ phase # "down"
    /\ phase' = "down"
    /\ gz' = "nil" /\ file' = None /\ begun' = FALSE /\ buffer' = <<>>
    /\ tainted' = IF begun THEN tainted \cup {file} ELSE tainted
    /\ UNCHANGED <<clockVars, diskVars, log, opens>>

HourPasses ==
    /\ now < MaxHour
    /\ now' = now + 1
    /\ UNCHANGED <<tick, since, writerVars, diskVars, log, tainted, opens>>

Down == phase = "down" /\ UNCHANGED vars       \* nobody starts it again

Next ==
    \/ Down
    \/ Start \/ Write \/ WriteFails
    \/ RotateCloses \/ RotateFails \/ RotateCreates
    \/ WorkerEnds \/ Die \/ HourPasses

Spec == Init /\ [][Next]_vars

(* The ticker's channel is ready again and again.                          *)
TickingSpec == Spec /\ WF_vars(RotateCloses \/ RotateFails) /\ WF_vars(RotateCreates)

-----------------------------------------------------------------------------
(* mysql8-audit-log-decoder.  Go's gzip reader joins the members of a file *)
(* up to the first that is not complete, whose items it still delivers.    *)
(* These are the items that stand as they were written; what it makes of   *)
(* bytes appended behind a cut is LogDecoder's.  NewFileReader wants the   *)
(* version header first.                                                   *)

StreamOf(ms) ==
    LET read[i \in 0 .. Len(ms)] ==
            IF i = 0 THEN <<>>
            ELSE IF \A j \in 1 .. i - 1 : ms[j].sealed THEN read[i - 1] \o ms[i].items
            ELSE read[i - 1]
    IN  read[Len(ms)]

Stream(h) == StreamOf(members[h])

checkFormat(h) == Stream(h) # <<>> /\ Head(Stream(h)) = Hdr

Decoded(h) == IF checkFormat(h) THEN Tail(Stream(h)) ELSE <<>>
=============================================================================
