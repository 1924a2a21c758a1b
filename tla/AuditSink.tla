------------------------------ MODULE AuditSink ------------------------------
(***************************************************************************)
(* What the log writer's goroutine sees of the current audit log file: the *)
(* gzip writer of auditlogwriter.go is there and working ("open"), is      *)
(* there and has failed once ("broken": compress/gzip keeps its first      *)
(* error and returns it from every later call, Close included), or is nil  *)
(* ("none").  log is the sequence of records whose encoding succeeded.     *)
(*                                                                         *)
(* AuditPipeline uses these operations; LogFile implements them with real  *)
(* files, gzip members and buffers.                                        *)
(***************************************************************************)
EXTENDS Sequences

CONSTANT Records      \* the records a session may hand to the writer

VARIABLES
    sink,             \* the state of d.gzipWriter
    log               \* the records encoded so far, oldest first

sinkVars == <<sink, log>>

SinkStates == {"open", "broken", "none"}

SinkTypeOK == sink \in SinkStates /\ log \in Seq(Records)

(* closeFile: gzip Close may fail (gzipWriter stays), file Close may fail   *)
(* (both fields are nil by then); closing what is nil succeeds.            *)
CloseOutcomes(k) ==
    CASE k = "open"   -> {[to |-> "none", ok |-> TRUE],
                          [to |-> "none", ok |-> FALSE],
                          [to |-> "broken", ok |-> FALSE]}
      [] k = "broken" -> {[to |-> "broken", ok |-> FALSE]}
      [] k = "none"   -> {[to |-> "none", ok |-> TRUE]}

(* createFile with no file open: the version header's own write error is   *)
(* not looked at; a failing OpenFile leaves gzipWriter nil.                *)
CreateOutcomes == {"open", "broken", "none"}

SinkInit ==                        \* NewAuditLogWriter returned no error
    /\ sink \in {"open", "broken"}
    /\ log = <<>>

Encode(r) ==                       \* writeDataToFile succeeds
    /\ sink = "open"
    /\ log' = Append(log, r)
    /\ UNCHANGED sink

Reject ==                          \* writeDataToFile returns an error
    /\ sink # "none"
    /\ sink' = "broken"
    /\ UNCHANGED log

Rotate ==                          \* the ticker's case
    /\ \E c \in CloseOutcomes(sink) :
          IF c.ok THEN sink' \in CreateOutcomes ELSE sink' = c.to
    /\ UNCHANGED log

CloseFile(ok) ==                   \* closeFile on its own, with its result
    /\ \E c \in CloseOutcomes(sink) : c.ok = ok /\ sink' = c.to
    /\ UNCHANGED log

Die ==                             \* the process is gone; its next life starts with Rotate
    /\ sink' = "none"
    /\ UNCHANGED log

SinkNext ==
    \/ Die
    \/ \E r \in Records : Encode(r)
    \/ Reject
    \/ Rotate
    \/ \E ok \in BOOLEAN : CloseFile(ok)

SinkSpec == SinkInit /\ [][SinkNext]_sinkVars
=============================================================================
