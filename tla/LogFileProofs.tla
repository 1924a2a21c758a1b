----------------------------- MODULE LogFileProofs -----------------------------
(***************************************************************************)
(* Proofs about LogFile for any number of hours, records and openings,     *)
(* and about LogDecoder at work on its files, for any number of fields.    *)
(***************************************************************************)
EXTENDS LogDecoderProperties, SequenceLemmas

-----------------------------------------------------------------------------
(* The members of the open file.                                           *)

(* gzip puts items of its own member on disk: the members keep their type. *)
LEMMA OnDiskType ==
    ASSUME members \in [Hours -> Seq(Members)], file \in Hours,
           NEW ms \in Seq(Members), ms # <<>>,
           NEW items \in Seq(Items), NEW sealed \in BOOLEAN
    PROVE  OnDisk(ms, items, sealed) \in [Hours -> Seq(Members)]
<1>1. /\ Len(ms) \in Nat \ {0}
      /\ ms[Len(ms)] \in Members
  OBVIOUS
<1>2. ms[Len(ms)].items \o items \in Seq(Items)
  BY <1>1 DEF Members
<1>3. [items |-> ms[Len(ms)].items \o items, sealed |-> sealed] \in Members
  BY <1>2 DEF Members
<1>4. [ms EXCEPT ![Len(ms)] = [items |-> @.items \o items, sealed |-> sealed]] \in Seq(Members)
  BY <1>1, <1>3
<1>5. QED
  BY <1>4 DEF OnDisk

(* The open file has a member once gzip has begun one.                     *)
BegunOK ==
    /\ gz = "ok" /\ begun => members[file] # <<>>
    /\ gz = "nil" => begun = FALSE
    /\ phase \in {"down", "creating"} => gz = "nil"

Typed == TypeOK /\ BegunOK

(* While the gzip writer is usable, its file has a member, the last of     *)
(* them being its own.                                                     *)
LEMMA OwnMemberType ==
    ASSUME Typed, gz = "ok"
    PROVE  /\ OwnMember \in Seq(Members) /\ OwnMember # <<>>
           /\ file \in Hours
<1>1. file \in Hours /\ members[file] \in Seq(Members)
  BY DEF Typed, TypeOK
<1>2. NewMember \in Members
  BY DEF NewMember, Members
<1>3. Append(members[file], NewMember) \in Seq(Members) /\ Append(members[file], NewMember) # <<>>
  BY <1>1, <1>2
<1>4. QED
  BY <1>1, <1>3 DEF OwnMember, Typed, BegunOK

(* An empty buffer is a sequence of items.                                 *)
LEMMA NothingHeld == <<>> \in Seq(Items)
OBVIOUS

(* A new file's one member is a member of the model, and so is its header. *)
LEMMA HeaderIsItem == Hdr \in Items /\ NewMember \in Members /\ <<NewMember>> \in Seq(Members)
<1>1. Hdr \in Items
  BY DEF Items
<1>2. NewMember \in Members
  BY DEF NewMember, Members
<1>3. QED
  BY <1>1, <1>2

-----------------------------------------------------------------------------
(* The operations keep the types.                                          *)

(* What they may write: the file and the gzip writer.                      *)
FileTyped ==
    /\ gz \in {"nil", "ok", "err"}
    /\ file \in Hours \cup {None}
    /\ begun \in BOOLEAN
    /\ buffer \in Seq(Items)
    /\ members \in [Hours -> Seq(Members)]
    /\ tainted \subseteq Hours
    /\ gz = "nil" <=> file = None
    /\ gz = "ok" /\ begun => members[file] # <<>>
    /\ gz = "nil" => begun = FALSE

(* What the gzip writer adds to its member keeps the files typed.          *)
LEMMA OnDiskTyped ==
    ASSUME Typed, gz = "ok",
           NEW items \in Seq(Items), NEW sealed \in BOOLEAN,
           members' = OnDisk(OwnMember, items, sealed)
    PROVE  members' \in [Hours -> Seq(Members)] /\ members'[file] # <<>>
<1>1. OwnMember \in Seq(Members) /\ OwnMember # <<>> /\ file \in Hours
  BY OwnMemberType
<1>2. members' \in [Hours -> Seq(Members)]
  BY <1>1, OnDiskType DEF Typed, TypeOK
<1>3. Len(OwnMember) \in Nat \ {0}
  BY <1>1
<1>4. members'[file] = [OwnMember EXCEPT ![Len(OwnMember)] =
                           [items |-> @.items \o items, sealed |-> sealed]]
  BY <1>1 DEF OnDisk, Typed, TypeOK
<1>5. DOMAIN members'[file] = 1 .. Len(OwnMember)
  BY <1>1, <1>4
<1>6. members'[file] # <<>>
  BY <1>3, <1>5
<1>7. QED
  BY <1>2, <1>6

(* A write that succeeds keeps the file's state typed ...                  *)
LEMMA WriteTyped ==
    ASSUME Typed, NEW x \in Items, gzipWrite(x), UNCHANGED <<file, tainted>>
    PROVE  FileTyped'
<1> DEFINE held == Append(buffer, x)
<1>1. held \in Seq(Items) /\ gz = "ok" /\ gz' = "ok" /\ begun' = TRUE
  BY DEF gzipWrite, Typed, TypeOK
<1>2. PICK k \in 0 .. Len(held) :
         /\ members' = OnDisk(OwnMember, FirstItems(held, k), FALSE)
         /\ buffer' = SubSeq(held, k + 1, Len(held))
  BY DEF gzipWrite
<1>3. FirstItems(held, k) \in Seq(Items) /\ buffer' \in Seq(Items)
  BY <1>1, <1>2, Slice DEF FirstItems
<1>4. members' \in [Hours -> Seq(Members)] /\ members'[file] # <<>>
  BY <1>1, <1>2, <1>3, OnDiskTyped
<1>5. QED
  BY <1>1, <1>3, <1>4 DEF FileTyped, Typed, TypeOK

(* ... and so do a write that fails,                                       *)
LEMMA FailTyped ==
    ASSUME Typed, gzipFails, UNCHANGED file
    PROVE  FileTyped'
<1>1. /\ gz = "ok" /\ gz' = "err" /\ begun' = TRUE /\ buffer' = <<>>
      /\ tainted' = tainted \cup {file} /\ file \in Hours
  BY DEF gzipFails, Typed, TypeOK
<1>2. members' \in [Hours -> Seq(Members)]
  <2>1. CASE UNCHANGED members
    BY <2>1 DEF Typed, TypeOK
  <2>2. ASSUME NEW k \in 0 .. Len(buffer),
               members' = OnDisk(OwnMember, FirstItems(buffer, k), FALSE)
        PROVE  members' \in [Hours -> Seq(Members)]
    <3>1. FirstItems(buffer, k) \in Seq(Items)
      BY Slice DEF FirstItems, Typed, TypeOK
    <3>2. QED
      BY <1>1, <2>2, <3>1, OnDiskTyped
  <2>3. QED
    BY <2>1, <2>2 DEF gzipFails
<1>3. QED
  BY <1>1, <1>2, NoneIsNoHour DEF FileTyped, Typed, TypeOK

(* a close that succeeds,                                                  *)
LEMMA CloseTyped ==
    ASSUME Typed, closeSucceeds
    PROVE  FileTyped'
<1>1. members' \in [Hours -> Seq(Members)]
  <2>1. CASE gz = "ok"
    BY <2>1, OnDiskTyped DEF closeSucceeds, Completed, Typed, TypeOK
  <2>2. CASE gz # "ok"
    BY <2>2 DEF closeSucceeds, Completed, Typed, TypeOK
  <2>3. QED
    BY <2>1, <2>2
<1>2. QED
  BY <1>1, NothingHeld DEF closeSucceeds, FileTyped, Typed, TypeOK

(* the creation or opening of a file,                                      *)
LEMMA CreateTyped ==
    ASSUME Typed, NEW t \in Hours, createFile(t)
    PROVE  FileTyped' /\ exists' \subseteq Hours /\ opens' \in 0 .. MaxOpens
<1>1. opens' \in 0 .. MaxOpens
  BY LogBounds DEF createFile, Typed, TypeOK
<1>2. t \in Hours /\ t # None
  BY NoneIsNoHour DEF Hours
<1>3. CASE createNew(t)
  <2>1. <<Hdr>> \in Seq(Items) /\ <<>> \in Seq(Items) /\ <<>> \in Seq(Members)
    BY HeaderIsItem
  <2>2. members' \in [Hours -> Seq(Members)]
    BY <1>2, <1>3, <2>1, HeaderIsItem DEF createNew, Typed, TypeOK
  <2>3. gz' = "ok" => members'[t] # <<>>
    <3>1. gz' = "ok" => members' = [members EXCEPT ![t] = <<NewMember>>]
      BY <1>3 DEF createNew
    <3>2. <<NewMember>> # <<>>
      OBVIOUS
    <3>3. QED
      BY <1>2, <3>1, <3>2 DEF Typed, TypeOK
  <2>4. QED
    BY <1>1, <1>2, <1>3, <2>1, <2>2, <2>3 DEF createNew, FileTyped, Typed, TypeOK
<1>4. CASE createAppend(t)
  BY <1>1, <1>2, <1>4, NothingHeld DEF createAppend, FileTyped, Typed, TypeOK, diskVars
<1>5. CASE createFails
  BY <1>1, <1>5, NothingHeld DEF createFails, FileTyped, Typed, TypeOK, diskVars
<1>6. QED
  BY <1>3, <1>4, <1>5 DEF createFile

(* and a close, whether or not it succeeds.                                *)
LEMMA ClosingTyped ==
    ASSUME Typed, closeSucceeds \/ closeFails
    PROVE  FileTyped'
<1>1. CASE closeSucceeds
  BY <1>1, CloseTyped
<1>2. CASE closeFails
  <2>1. CASE gzipFails /\ UNCHANGED file
    BY <2>1, FailTyped
  <2>2. CASE UNCHANGED <<gz, file, begun, buffer, members, tainted>>
    BY <2>2 DEF FileTyped, Typed, TypeOK, BegunOK
  <2>3. QED
    BY <1>2, <2>1, <2>2 DEF closeFails
<1>3. QED
  BY <1>1, <1>2

-----------------------------------------------------------------------------
(* TypeOK with BegunOK is inductive.                                       *)

(* The initial state, with no file open, is typed.                         *)
LEMMA TypedInit == Init => Typed
<1>1. <<>> \in Seq(Items) /\ <<>> \in Seq(Members) /\ <<>> \in Seq(Entries)
  OBVIOUS
<1>2. 1 \in Hours /\ 0 \in 0 .. MaxOpens
  BY LogBounds DEF Hours
<1>3. Init => {now, tick, since} \subseteq Hours /\ since <= now
  BY <1>2 DEF Init
<1>4. Init => BegunOK
  BY DEF Init, BegunOK
<1>5. [h \in Hours |-> <<>>] \in [Hours -> Seq(Members)]
  BY <1>1
<1>6. QED
  BY <1>1, <1>2, <1>3, <1>4, <1>5 DEF Init, Typed, TypeOK

(* The next record to encode is an entry of the open file.                 *)
LEMMA EntryType ==
    ASSUME Typed, gz = "ok", Len(log) < MaxRecords
    PROVE  [file |-> file, n |-> Len(log) + 1] \in Entries
<1>1. file \in Hours /\ Len(log) \in Nat
  BY DEF Typed, TypeOK
<1>2. Len(log) + 1 \in 1 .. MaxRecords
  BY <1>1, LogBounds
<1>3. QED
  BY <1>1, <1>2 DEF Entries

ClockTyped == {now, tick, since} \subseteq Hours /\ since <= now

(* A tick that is received was fired at an hour that has been.             *)
LEMMA TickTyped ==
    ASSUME ClockTyped, TickReceived, now' = now
    PROVE  ClockTyped'
<1>1. now \in Hours /\ since \in Hours /\ since <= now
  BY DEF ClockTyped
<1>2. \A h \in since .. now : h \in Hours
  BY <1>1, LogBounds DEF Hours
<1>3. tick' \in Hours /\ since' = now' /\ now' \in Hours
  BY <1>1, <1>2 DEF TickReceived
<1>4. now' <= now'
  BY <1>3 DEF Hours
<1>5. Hours' = Hours
  BY DEF Hours
<1>6. QED
  BY <1>3, <1>4, <1>5 DEF ClockTyped

(* The clock goes on, and starts with the process.                         *)
LEMMA HourTyped ==
    ASSUME ClockTyped
    PROVE  /\ HourPasses => ClockTyped'
           /\ Start => ClockTyped'
           /\ UNCHANGED clockVars => ClockTyped'
<1>1. now \in Hours /\ since \in Hours /\ since <= now /\ tick \in Hours
  BY DEF ClockTyped
<1>2. now < MaxHour => now + 1 \in Hours /\ since <= now + 1
  BY <1>1, LogBounds DEF Hours
<1>3. now <= now
  BY <1>1 DEF Hours
<1>4. QED
  BY <1>1, <1>2, <1>3 DEF ClockTyped, HourPasses, Start, clockVars, Hours

(* No step of the writer leaves the types.                                 *)
LEMMA TypedStep ==
    ASSUME Typed, [Next]_vars
    PROVE  Typed'
<1>0. ClockTyped
  BY DEF ClockTyped, Typed, TypeOK
<1>1. CASE Start
  <2>1. ClockTyped'
    BY <1>0, <1>1, HourTyped
  <2>2. FileTyped' /\ exists' \subseteq Hours /\ opens' \in 0 .. MaxOpens
    BY <1>0, <1>1, CreateTyped DEF Start, ClockTyped
  <2>3. QED
    BY <1>1, <2>1, <2>2 DEF Start, Typed, TypeOK, BegunOK, FileTyped, ClockTyped
<1>2. CASE Write
  <2>1. [file |-> file, n |-> Len(log) + 1] \in Entries
    BY <1>2, EntryType DEF Write, gzipWrite
  <2>2. FileTyped'
    BY <1>2, <2>1, WriteTyped DEF Write, Items
  <2>3. log' \in Seq(Entries)
    BY <1>2, <2>1 DEF Write, Typed, TypeOK
  <2>4. QED
    BY <1>2, <2>2, <2>3 DEF Write, Typed, TypeOK, BegunOK, FileTyped, clockVars
<1>3. CASE WriteFails
  BY <1>3, FailTyped DEF WriteFails, Typed, TypeOK, BegunOK, FileTyped, clockVars
<1>4. CASE RotateCloses
  <2>1. FileTyped' /\ gz' = "nil"
    BY <1>4, CloseTyped DEF RotateCloses, closeSucceeds
  <2>2. ClockTyped'
    BY <1>0, <1>4, TickTyped DEF RotateCloses
  <2>3. QED
    BY <1>4, <2>1, <2>2 DEF RotateCloses, Typed, TypeOK, BegunOK, FileTyped, ClockTyped
<1>5. CASE RotateFails
  <2>1. ClockTyped'
    BY <1>0, <1>5, TickTyped DEF RotateFails
  <2>2. FileTyped'
    BY <1>5, ClosingTyped DEF RotateFails
  <2>3. QED
    BY <1>5, <2>1, <2>2 DEF RotateFails, Typed, TypeOK, BegunOK, FileTyped, ClockTyped
<1>6. CASE RotateCreates
  <2>1. FileTyped' /\ exists' \subseteq Hours /\ opens' \in 0 .. MaxOpens
    BY <1>0, <1>6, CreateTyped DEF RotateCreates, ClockTyped
  <2>2. QED
    BY <1>6, <2>1 DEF RotateCreates, Typed, TypeOK, BegunOK, FileTyped, clockVars
<1>7. CASE WorkerEnds
  BY <1>7, ClosingTyped DEF WorkerEnds, Typed, TypeOK, BegunOK, FileTyped, clockVars
<1>8. CASE Die
  <2>1. begun => file \in Hours
    BY DEF Typed, TypeOK, BegunOK
  <2>2. <<>> \in Seq(Items)
    OBVIOUS
  <2>3. QED
    BY <1>8, <2>1, <2>2 DEF Die, Typed, TypeOK, BegunOK, diskVars, clockVars
<1>9. CASE HourPasses
  <2>1. ClockTyped'
    BY <1>0, <1>9, HourTyped
  <2>2. QED
    BY <1>9, <2>1 DEF HourPasses, Typed, TypeOK, BegunOK, writerVars, diskVars, ClockTyped
<1>10. CASE UNCHANGED vars
  BY <1>10 DEF vars, clockVars, writerVars, diskVars, Typed, TypeOK, BegunOK
<1>11. QED
  BY <1>1, <1>2, <1>3, <1>4, <1>5, <1>6, <1>7, <1>8, <1>9, <1>10 DEF Next, Down

(* TypeOK holds in every reachable state; in particular the fields file    *)
(* and gzipWriter are nil together, whatever fails.                        *)
THEOREM LogFileTypeCorrect == Spec => []TypeOK
<1>1. Typed /\ [Next]_vars => Typed'
  BY TypedStep
<1>2. Typed => TypeOK
  BY DEF Typed
<1>3. QED
  BY TypedInit, <1>1, <1>2, PTL DEF Spec

-----------------------------------------------------------------------------
(* The files are an AuditSink.                                             *)

SinkStep ==
    \/ \E e \in Entries : AbstractSink!Encode(e)
    \/ AbstractSink!Reject \/ AbstractSink!Rotate
    \/ AbstractSink!Die /\ phase' = "down"
    \/ \E ok \in BOOLEAN : AbstractSink!CloseFile(ok)

(* The abstract sink's state is that of the gzip writer.                   *)
LEMMA SinkStates ==
    ASSUME Typed
    PROVE  /\ gz = "nil" <=> SinkState = "none"
           /\ gz = "ok" <=> SinkState = "open"
           /\ gz = "err" <=> SinkState = "broken"
BY DEF SinkState, Typed, TypeOK

(* A rotation whose closeFile has left nothing open.                       *)
LEMMA CreateRotates ==
    ASSUME Typed, Typed', gz = "nil", NEW t \in Hours, createFile(t), UNCHANGED log
    PROVE  SinkStep
<1>1. SinkState = "none" /\ SinkState' \in {"open", "broken", "none"}
  BY SinkStates DEF SinkState, Typed, TypeOK
<1>2. [to |-> "none", ok |-> TRUE] \in AbstractSink!CloseOutcomes(SinkState)
  BY <1>1 DEF AbstractSink!CloseOutcomes
<1>3. AbstractSink!Rotate
  BY <1>1, <1>2 DEF AbstractSink!Rotate, AbstractSink!CreateOutcomes
<1>4. QED
  BY <1>3 DEF SinkStep

(* A close is the sink's, whether or not the gzip writer could finish the  *)
(* member.                                                                 *)
LEMMA CloseCloses ==
    ASSUME Typed, Typed', closeSucceeds \/ closeFails, UNCHANGED log
    PROVE  SinkStep
<1>1. CASE closeSucceeds
  <2>1. SinkState \in {"open", "none"} /\ SinkState' = "none"
    BY <1>1, SinkStates DEF closeSucceeds, SinkState
  <2>2. [to |-> "none", ok |-> TRUE] \in AbstractSink!CloseOutcomes(SinkState)
    BY <2>1 DEF AbstractSink!CloseOutcomes
  <2>3. AbstractSink!CloseFile(TRUE)
    BY <1>1, <2>1, <2>2 DEF AbstractSink!CloseFile
  <2>4. QED
    BY <2>3 DEF SinkStep
<1>2. CASE closeFails
  <2>1. SinkState \in {"open", "broken"} /\ SinkState' = "broken"
    BY <1>2, SinkStates DEF closeFails, gzipFails, SinkState
  <2>2. [to |-> "broken", ok |-> FALSE] \in AbstractSink!CloseOutcomes(SinkState)
    BY <2>1 DEF AbstractSink!CloseOutcomes
  <2>3. AbstractSink!CloseFile(FALSE)
    BY <2>1, <2>2 DEF AbstractSink!CloseFile
  <2>4. QED
    BY <2>3 DEF SinkStep
<1>3. QED
  BY <1>1, <1>2

(* Every step of the log file is a step of the sink, or leaves it          *)
(* unchanged.                                                              *)
LEMMA StepIsSinkStep ==
    ASSUME Typed, Typed', [Next]_vars
    PROVE  SinkStep \/ UNCHANGED <<SinkState, log>>
<1>1. CASE Start
  BY <1>1, CreateRotates DEF Start, Typed, TypeOK, BegunOK
<1>2. CASE Write
  <2>1. [file |-> file, n |-> Len(log) + 1] \in Entries
    BY <1>2, EntryType DEF Write, gzipWrite
  <2>2. SinkState = "open" /\ SinkState' = "open"
    BY <1>2, SinkStates DEF Write, gzipWrite, SinkState
  <2>3. AbstractSink!Encode([file |-> file, n |-> Len(log) + 1])
    BY <1>2, <2>2 DEF Write, AbstractSink!Encode
  <2>4. QED
    BY <2>1, <2>3 DEF SinkStep
<1>3. CASE WriteFails
  <2>1. SinkState = "open" /\ SinkState' = "broken" /\ log' = log
    BY <1>3, SinkStates DEF WriteFails, gzipFails, SinkState
  <2>2. AbstractSink!Reject
    BY <2>1 DEF AbstractSink!Reject
  <2>3. QED
    BY <2>2 DEF SinkStep
<1>4. CASE RotateCloses \/ RotateFails \/ WorkerEnds
  BY <1>4, CloseCloses DEF RotateCloses, RotateFails, WorkerEnds
<1>5. CASE RotateCreates
  BY <1>5, CreateRotates DEF RotateCreates, Typed, TypeOK, BegunOK
<1>6. CASE Die
  <2>1. SinkState' = "none" /\ log' = log /\ phase' = "down"
    BY <1>6 DEF Die, SinkState
  <2>2. QED
    BY <2>1 DEF SinkStep, AbstractSink!Die
<1>7. CASE HourPasses \/ UNCHANGED vars
  BY <1>7 DEF HourPasses, vars, writerVars, SinkState
<1>8. QED
  BY <1>1, <1>2, <1>3, <1>4, <1>5, <1>6, <1>7 DEF Next, Down

(* The files on disk, with their gzip members, buffered items, kills and   *)
(* failed writes, show the log writer nothing but an AuditSink: what       *)
(* AuditPipeline assumes of its log file is what auditLogWriter does.      *)
THEOREM LogFileImplementsSink == Spec => ImplementsSink
<1>1. Typed /\ [Next]_vars => Typed'
  BY TypedStep
<1>2. Typed /\ Typed' /\ [Next]_vars => [SinkStep]_<<SinkState, log>>
  BY StepIsSinkStep
<1>3. Spec => [][SinkStep]_<<SinkState, log>>
  BY TypedInit, <1>1, <1>2, PTL DEF Spec
<1>4. QED
  BY <1>3 DEF ImplementsSink, SinkStep

-----------------------------------------------------------------------------
(* What a reader gets of a file.                                           *)

(* The first n members are complete.                                       *)
Sealed(ms, n) == \A j \in 1 .. n : ms[j].sealed

(* StreamOf is the recursion it is defined by.                             *)
LEMMA StreamRecursion ==
    ASSUME NEW ms \in Seq(Members)
    PROVE  \E f \in [0 .. Len(ms) -> Seq(Items)] :
              /\ f[0] = <<>>
              /\ \A i \in 1 .. Len(ms) :
                    f[i] = IF Sealed(ms, i - 1) THEN f[i - 1] \o ms[i].items ELSE f[i - 1]
              /\ StreamOf(ms) = f[Len(ms)]
<1> DEFINE n == Len(ms)
           Body(f) == [i \in 0 .. Len(ms) |->
                          IF i = 0 THEN <<>>
                          ELSE IF \A j \in 1 .. i - 1 : ms[j].sealed THEN f[i - 1] \o ms[i].items
                          ELSE f[i - 1]]
           g == [i \in Nat |-> [v \in Seq(Items) |->
                    IF i \in 1 .. n /\ Sealed(ms, i - 1) THEN v \o ms[i].items ELSE v]]
<1>1. n \in Nat /\ \A i \in 1 .. n : ms[i].items \in Seq(Items)
  <2>1. n \in Nat /\ \A i \in 1 .. n : ms[i] \in Members
    OBVIOUS
  <2>2. \A m \in Members : m.items \in Seq(Items)
    BY DEF Members
  <2>3. QED
    BY <2>1, <2>2
<1>2. g \in [Nat -> [Seq(Items) -> Seq(Items)]]
  <2>1. ASSUME NEW i \in 1 .. n, NEW v \in Seq(Items)
        PROVE  v \o ms[i].items \in Seq(Items)
    BY <1>1
  <2>2. QED
    BY <2>1
<1>3. <<>> \in Seq(Items)
  OBVIOUS
<1>4. PICK f \in [0 .. n -> Seq(Items)] :
         f[0] = <<>> /\ \A i \in 1 .. n : f[i] = g[i][f[i - 1]]
  <2> DEFINE V == Seq(Items)
             b == <<>>
  <2>1. b \in V /\ g \in Steps(V) /\ n \in Nat
    BY <1>1, <1>2, <1>3 DEF Steps
  <2> HIDE DEF g, n, V, b
  <2>2. \E f : Iterates(f, V, b, g, n)
    BY <2>1, IterationOf, Zenon
  <2>3. QED
    BY <2>2 DEF V, b, Iterates
<1>5. \A i \in 1 .. n : f[i] = IF Sealed(ms, i - 1) THEN f[i - 1] \o ms[i].items ELSE f[i - 1]
  <2>1. SUFFICES ASSUME NEW i \in 1 .. n
                 PROVE  f[i] = IF Sealed(ms, i - 1) THEN f[i - 1] \o ms[i].items ELSE f[i - 1]
    OBVIOUS
  <2>2. f[i - 1] \in Seq(Items) /\ i \in Nat
    BY <1>1
  <2>3. g[i][f[i - 1]] = IF Sealed(ms, i - 1) THEN f[i - 1] \o ms[i].items ELSE f[i - 1]
    BY <2>2
  <2>4. QED
    BY <1>4, <2>3
<1>6. f = Body(f)
  <2>1. \A i \in 0 .. n : i = 0 \/ i \in 1 .. n
    BY <1>1
  <2>2. \A i \in 0 .. n : f[i] = IF i = 0 THEN <<>>
                                ELSE IF \A j \in 1 .. i - 1 : ms[j].sealed
                                     THEN f[i - 1] \o ms[i].items ELSE f[i - 1]
    BY <1>1, <1>4, <1>5, <2>1 DEF Sealed
  <2>3. f = [i \in 0 .. n |-> f[i]]
    OBVIOUS
  <2>4. QED
    BY <2>2, <2>3
<1> DEFINE F == CHOOSE h : h = Body(h)
<1>7. F = Body(F)
  <2> HIDE DEF Body
  <2>1. QED
    BY <1>6
<1>8. StreamOf(ms) = F[n]
  BY DEF StreamOf
<1> HIDE DEF F, g
<1>9. F = f
  <2>0. \A i \in 0 .. n : F[i] = IF i = 0 THEN <<>>
                                ELSE IF \A j \in 1 .. i - 1 : ms[j].sealed
                                     THEN F[i - 1] \o ms[i].items ELSE F[i - 1]
    BY <1>7
  <2> HIDE DEF Body
  <2>1. F[0] = f[0]
    BY <2>0, <1>4, <1>1
  <2>2. ASSUME NEW i \in 1 .. n, F[i - 1] = f[i - 1]
        PROVE  F[i] = f[i]
    <3>1. F[i] = IF Sealed(ms, i - 1) THEN F[i - 1] \o ms[i].items ELSE F[i - 1]
      BY <2>0, <1>1 DEF Sealed
    <3>2. QED
      BY <1>5, <2>2, <3>1
  <2> HIDE DEF n
  <2>3. \A i \in 0 .. n : F[i] = f[i]
    <3>1. Alike(F, f, n)
      BY <2>1, <2>2 DEF Alike
    <3>2. QED
      BY <1>1, <3>1, IterationUnique
  <2>4. F = [i \in 0 .. n |-> F[i]] /\ f = [i \in 0 .. n |-> f[i]]
    BY <1>7 DEF Body, n
  <2>5. QED
    BY <2>3, <2>4
<1>10. QED
  BY <1>4, <1>5, <1>8, <1>9

(* A file without members gives a reader nothing.                          *)
LEMMA StreamEmpty == StreamOf(<<>>) = <<>>
<1> DEFINE e == <<>>
<1>1. e \in Seq(Members) /\ Len(e) = 0
  OBVIOUS
<1> HIDE DEF e
<1>2. PICK f : f[0] = <<>> /\ StreamOf(e) = f[Len(e)]
  BY <1>1, StreamRecursion
<1>3. QED
  BY <1>1, <1>2 DEF e

(* What a reader gets of a file is a sequence of items.                    *)
LEMMA StreamType ==
    ASSUME NEW ms \in Seq(Members)
    PROVE  StreamOf(ms) \in Seq(Items)
<1>1. PICK f \in [0 .. Len(ms) -> Seq(Items)] : StreamOf(ms) = f[Len(ms)]
  BY StreamRecursion
<1>2. Len(ms) \in 0 .. Len(ms)
  OBVIOUS
<1>3. QED
  BY <1>1, <1>2

(* A reader goes on into the next member only from complete ones.          *)
LEMMA StreamAppend ==
    ASSUME NEW ms \in Seq(Members), NEW m \in Members
    PROVE  StreamOf(Append(ms, m)) =
              IF Sealed(ms, Len(ms)) THEN StreamOf(ms) \o m.items ELSE StreamOf(ms)
<1> DEFINE r == Append(ms, m)
           n == Len(ms)
<1>1. /\ r \in Seq(Members) /\ Len(r) = n + 1 /\ n \in Nat
      /\ \A i \in 1 .. n : r[i] = ms[i]
      /\ r[n + 1] = m
  OBVIOUS
<1>2. PICK f : /\ f[0] = <<>>
               /\ \A i \in 1 .. n :
                     f[i] = IF Sealed(ms, i - 1) THEN f[i - 1] \o ms[i].items ELSE f[i - 1]
               /\ StreamOf(ms) = f[n]
  BY StreamRecursion
<1>a. \A i \in 1 .. n + 1 : Sealed(r, i - 1) <=> Sealed(ms, i - 1)
  BY <1>1 DEF Sealed
<1> HIDE DEF r, n
<1>3. PICK h : /\ h[0] = <<>>
               /\ \A i \in 1 .. n + 1 :
                     h[i] = IF Sealed(r, i - 1) THEN h[i - 1] \o r[i].items ELSE h[i - 1]
               /\ StreamOf(r) = h[n + 1]
  BY <1>1, StreamRecursion
<1>4. ASSUME NEW i \in 1 .. n, f[i - 1] = h[i - 1]
      PROVE  f[i] = h[i]
  <2>1. i \in 1 .. n + 1
    BY <1>1
  <2>2. QED
    BY <1>1, <1>a, <1>2, <1>3, <1>4, <2>1
<1>5. \A i \in 0 .. n : f[i] = h[i]
  <2>1. f[0] = h[0] /\ n \in Nat
    BY <1>1, <1>2, <1>3
  <2>2. Alike(f, h, n)
    BY <1>4, <2>1 DEF Alike
  <2>3. QED
    BY <2>1, <2>2, IterationUnique
<1>6. f[n] = h[n] /\ (n + 1) - 1 = n /\ n + 1 \in 1 .. n + 1
  BY <1>1, <1>5
<1>7. h[n + 1] = IF Sealed(ms, n) THEN h[n] \o r[n + 1].items ELSE h[n]
  BY <1>3, <1>6, <1>a
<1>8. QED
  BY <1>1, <1>2, <1>3, <1>6, <1>7 DEF r, n

(* The last of the members, replaced.                                      *)
LEMMA LastReplaced ==
    ASSUME NEW p \in Seq(Members), NEW m \in Members, NEW x \in Members
    PROVE  /\ [Append(p, m) EXCEPT ![Len(Append(p, m))] = x] = Append(p, x)
           /\ Append(p, m)[Len(Append(p, m))] = m
<1> DEFINE r == Append(p, m)
           n == Len(p)
           t == Append(p, x)
<1>1. /\ r \in Seq(Members) /\ Len(r) = n + 1 /\ n \in Nat
      /\ \A i \in 1 .. n : r[i] = p[i]
      /\ r[n + 1] = m
  OBVIOUS
<1>2. /\ t \in Seq(Members) /\ Len(t) = n + 1
      /\ \A i \in 1 .. n : t[i] = p[i]
      /\ t[n + 1] = x
  OBVIOUS
<1> HIDE DEF r, t, n
<1>3. [r EXCEPT ![n + 1] = x] \in Seq(Members) /\ Len([r EXCEPT ![n + 1] = x]) = n + 1
  BY <1>1
<1>4. \A i \in 1 .. n + 1 : [r EXCEPT ![n + 1] = x][i] = t[i]
  BY <1>1, <1>2
<1>5. [r EXCEPT ![n + 1] = x] = t
  BY <1>2, <1>3, <1>4
<1>6. QED
  BY <1>1, <1>5 DEF r, t

(* A member added at the end leaves the ones before it sealed or not as    *)
(* they were.                                                              *)
LEMMA SealedAppend ==
    ASSUME NEW p \in Seq(Members), NEW m \in Members
    PROVE  /\ Len(Append(p, m)) = Len(p) + 1 /\ Len(p) \in Nat
           /\ Append(p, m) \in Seq(Members)
           /\ Append(p, m)[Len(p) + 1] = m
           /\ Sealed(Append(p, m), Len(p)) <=> Sealed(p, Len(p))
           /\ Sealed(Append(p, m), Len(p) + 1) <=> Sealed(p, Len(p)) /\ m.sealed
<1>1. /\ Len(Append(p, m)) = Len(p) + 1 /\ Len(p) \in Nat
      /\ Append(p, m) \in Seq(Members)
      /\ Append(p, m)[Len(p) + 1] = m
      /\ \A i \in 1 .. Len(p) : Append(p, m)[i] = p[i]
  OBVIOUS
<1>2. QED
  BY <1>1 DEF Sealed

(* What gzip holds for a file.                                             *)
Pending(h) == IF file = h THEN buffer ELSE <<>>

(* gzip is inside a member of the file.                                    *)
Open(h) == gz = "ok" /\ begun /\ file = h

(* A reader gets to the place where the next item is written.              *)
ReadsOn(h) == Sealed(members[h], IF Open(h) THEN Len(members[h]) - 1 ELSE Len(members[h]))

(* Items that gzip puts on disk come last in what a reader gets, if it     *)
(* gets that far.                                                          *)
LEMMA Puts ==
    ASSUME Typed, gz = "ok", NEW items \in Seq(Items), NEW sealed \in BOOLEAN,
           members' = OnDisk(OwnMember, items, sealed)
    PROVE  /\ \A h \in Hours \ {file} : members'[h] = members[h]
           /\ StreamOf(members'[file]) = IF ReadsOn(file) THEN Stream(file) \o items ELSE Stream(file)
           /\ members'[file] # <<>>
           /\ members'[file][Len(members'[file])].sealed = sealed
           /\ Sealed(members'[file], Len(members'[file]) - 1) <=> ReadsOn(file)
           /\ Sealed(members'[file], Len(members'[file])) <=> ReadsOn(file) /\ sealed
<1> DEFINE ms == members[file]
<1>1. file \in Hours /\ ms \in Seq(Members) /\ OwnMember \in Seq(Members)
  BY OwnMemberType DEF Typed, TypeOK
<1>2. PICK p \in Seq(Members), m \in Members :
         /\ OwnMember = Append(p, m)
         /\ ReadsOn(file) <=> Sealed(p, Len(p))
         /\ Sealed(p, Len(p)) => Stream(file) = StreamOf(p) \o m.items
         /\ ~ Sealed(p, Len(p)) => Stream(file) = StreamOf(p)
  <2>1. CASE begun
    <3>1. ms # <<>>
      BY <2>1 DEF Typed, BegunOK
    <3>2. PICK p \in Seq(Members), m \in Members : ms = Append(p, m)
      BY <1>1, <3>1, SequenceEmptyOrAppend
    <3>3. ReadsOn(file) <=> Sealed(ms, Len(ms) - 1)
      BY <2>1 DEF ReadsOn, Open
    <3>4. ReadsOn(file) <=> Sealed(p, Len(p))
      <4>1. Len(ms) - 1 = Len(p)
        BY <3>2, SealedAppend
      <4>2. QED
        BY <3>2, <3>3, <4>1, SealedAppend
    <3>5. Stream(file) = IF Sealed(p, Len(p)) THEN StreamOf(p) \o m.items ELSE StreamOf(p)
      BY <3>2, StreamAppend DEF Stream
    <3>6. OwnMember = Append(p, m)
      BY <2>1, <3>2 DEF OwnMember
    <3>7. QED
      BY <3>4, <3>5, <3>6
  <2>2. CASE ~ begun
    <3>1. OwnMember = Append(ms, NewMember)
      BY <2>2 DEF OwnMember
    <3>2. ReadsOn(file) <=> Sealed(ms, Len(ms))
      BY <2>2 DEF ReadsOn, Open
    <3>3. Stream(file) = StreamOf(ms) \o <<>> /\ Stream(file) = StreamOf(ms)
      <4>1. StreamOf(ms) \in Seq(Items)
        BY <1>1, StreamType
      <4>2. QED
        BY <4>1 DEF Stream
    <3>4. NewMember \in Members /\ NewMember.items = <<>>
      BY HeaderIsItem DEF NewMember
    <3>5. QED
      BY <1>1, <3>1, <3>2, <3>3, <3>4
  <2>3. QED
    BY <2>1, <2>2
<1> DEFINE x == [items |-> m.items \o items, sealed |-> sealed]
<1>3. x \in Members /\ x.items = m.items \o items /\ x.sealed = sealed /\ m.items \in Seq(Items)
  <2>1. m.items \in Seq(Items)
    BY DEF Members
  <2>2. m.items \o items \in Seq(Items)
    BY <2>1
  <2>3. QED
    BY <2>1, <2>2 DEF Members
<1>4. members' = [members EXCEPT ![file] = [OwnMember EXCEPT ![Len(OwnMember)] = x]]
  <2>1. OwnMember[Len(OwnMember)] = m
    BY <1>2, LastReplaced
  <2>2. QED
    BY <2>1 DEF OnDisk
<1> HIDE DEF x
<1>5. [OwnMember EXCEPT ![Len(OwnMember)] = x] = Append(p, x)
  BY <1>2, <1>3, LastReplaced
<1>6. members'[file] = Append(p, x) /\ \A h \in Hours \ {file} : members'[h] = members[h]
  BY <1>1, <1>4, <1>5 DEF Typed, TypeOK
<1> DEFINE r == Append(p, x)
<1>7. /\ Len(r) = Len(p) + 1 /\ Len(p) \in Nat /\ r \in Seq(Members)
      /\ r[Len(p) + 1] = x
      /\ Sealed(r, Len(p)) <=> Sealed(p, Len(p))
      /\ Sealed(r, Len(p) + 1) <=> Sealed(p, Len(p)) /\ x.sealed
  BY <1>3, SealedAppend
<1>8. StreamOf(r) = IF Sealed(p, Len(p)) THEN StreamOf(p) \o x.items ELSE StreamOf(p)
  BY <1>3, StreamAppend
<1> HIDE DEF r
<1>9. Len(r) - 1 = Len(p) /\ r # <<>>
  BY <1>7
<1>10. Sealed(p, Len(p)) => StreamOf(r) = Stream(file) \o items
  <2>1. StreamOf(p) \in Seq(Items)
    BY StreamType
  <2> DEFINE a == StreamOf(p)
             b == m.items
  <2> HIDE DEF a, b
  <2>2. a \o (b \o items) = (a \o b) \o items
    <3>1. a \in Seq(Items) /\ b \in Seq(Items)
      BY <1>3, <2>1 DEF a, b
    <3>2. Grouped(a, b, items)
      BY <3>1, ConcatGrouped
    <3>3. QED
      BY <3>2 DEF Grouped
  <2>3. QED
    BY <1>2, <1>3, <1>8, <2>2 DEF a, b
<1>11. members'[file] = r
  BY <1>6 DEF r
<1>12. QED
  BY <1>2, <1>3, <1>6, <1>7, <1>8, <1>9, <1>10, <1>11

-----------------------------------------------------------------------------
(* What a file holds of what was encoded for it.                           *)

(* A file starts with the version header, or its first write failed.       *)
Heads == {<<>>, <<Hdr>>}

(* What a reader gets and what gzip holds are, behind the header, what was *)
(* encoded.                                                                *)
Reads(h) ==
    \E hd \in Heads :
        /\ h \in exists \ tainted => hd = <<Hdr>>
        /\ Stream(h) \o Pending(h) = hd \o Encoded(h)

(* What a reader gets is a beginning of that.                              *)
Begins(h) ==
    \E hd \in Heads : \E rest \in Seq(Items) : Stream(h) \o rest = hd \o Encoded(h)

(* A clean file is read to its end.  Any other is read to its first cut at *)
(* the least: the member gzip is in is not complete.                       *)
FileOK(h) ==
    /\ h \notin exists => members[h] = <<>> /\ Encoded(h) = <<>> /\ file # h
    /\ h \in exists \ tainted => ReadsOn(h)
    /\ Open(h) => ~ members[h][Len(members[h])].sealed
    /\ ReadsOn(h) => Reads(h)
    /\ Begins(h)

(* The inductive invariant of the files.  Whatever gzip holds, it holds    *)
(* for the member it is in.                                                *)
FilesOK ==
    /\ ~ (gz = "ok" /\ begun) => buffer = <<>>
    /\ \A h \in Hours : FileOK(h)

(* Each of the possible beginnings of a stream is a sequence of items.     *)
LEMMA HeadType == \A hd \in Heads : hd \in Seq(Items)
<1>1. <<>> \in Seq(Items) /\ <<Hdr>> \in Seq(Items)
  BY HeaderIsItem
<1>2. QED
  BY <1>1 DEF Heads

(* What a file gives, what is still to come and what was encoded for it    *)
(* are sequences of items.                                                 *)
LEMMA ItemsTyped ==
    ASSUME Typed, NEW h \in Hours
    PROVE  /\ Stream(h) \in Seq(Items) /\ Pending(h) \in Seq(Items)
           /\ Encoded(h) \in Seq(Items) /\ Encoded(h) \in Seq(Entries)
<1>1. Stream(h) \in Seq(Items)
  BY StreamType DEF Stream, Typed, TypeOK
<1>2. Pending(h) \in Seq(Items)
  BY NothingHeld DEF Pending, Typed, TypeOK
<1>3. Encoded(h) \in Seq(Entries)
  <2> DEFINE T == {e \in Entries : e.file = h}
  <2>1. Entries \cap T = T
    OBVIOUS
  <2>2. \A q \in Seq(Entries) : Selected(q, T) \in Seq(Entries \cap T)
    BY SelectedType
  <2>3. Encoded(h) \in Seq(T)
    BY <2>1, <2>2 DEF Encoded, Typed, TypeOK
  <2>4. QED
    BY <2>3
<1>4. QED
  BY <1>1, <1>2, <1>3 DEF Items

(* A step that encodes nothing leaves what was encoded for each file as it *)
(* was.                                                                    *)
LEMMA EncodedStands ==
    ASSUME log' = log
    PROVE  \A h : Encoded(h)' = Encoded(h)
BY DEF Encoded

(* A file nobody has open, or opens a new member in, stays as good as it   *)
(* is.                                                                     *)
LEMMA FileFrame ==
    ASSUME Typed, NEW h \in Hours, FileOK(h),
           ~ Open(h), ~ Open(h)', Pending(h) = <<>>, Pending(h)' = <<>>,
           members'[h] = members[h], Encoded(h)' = Encoded(h),
           h \in exists' <=> h \in exists, h \in tainted => h \in tainted',
           h \notin exists => file' # h
    PROVE  FileOK(h)'
<1>1. ReadsOn(h)' <=> ReadsOn(h)
  BY DEF ReadsOn, Sealed
<1>2. Stream(h)' = Stream(h)
  BY DEF Stream
<1>3. Reads(h) => Reads(h)'
  BY <1>2 DEF Reads, Heads, Hdr
<1>4. Begins(h) => Begins(h)'
  BY <1>2 DEF Begins, Heads, Hdr, Items, Entries, Hours
<1>5. QED
  BY <1>1, <1>3, <1>4 DEF FileOK

(* The sets of items, entries and beginnings are the same after every      *)
(* step.                                                                   *)
LEMMA HeadStays == Hdr' = Hdr /\ Heads' = Heads /\ Items' = Items /\ Entries' = Entries
BY DEF Hdr, Heads, Items, Entries, Hours

(* Joining sequences of items is associative.                              *)
LEMMA ItemsConcat == \A a, b, c \in Seq(Items) : Grouped(a, b, c)
BY ConcatGrouped

(* What is added to the end of two equal sequences.                        *)
Joined(s, p, hd, c) == s \o p = hd \o c

(* ... leaves them equal.                                                  *)
LEMMA BothLonger ==
    \A s, p, hd, c, new \in Seq(Items) :
        Joined(s, p, hd, c) => Joined(s, p \o new, hd, c \o new)
<1>1. SUFFICES ASSUME NEW s \in Seq(Items), NEW p \in Seq(Items), NEW hd \in Seq(Items),
                      NEW c \in Seq(Items), NEW new \in Seq(Items), Joined(s, p, hd, c)
               PROVE  Joined(s, p \o new, hd, c \o new)
  BY Zenon
<1>2. Grouped(s, p, new) /\ Grouped(hd, c, new)
  BY ItemsConcat
<1>3. QED
  BY <1>1, <1>2, Zenon DEF Grouped, Joined

(* Four parts joined from the right and from the left.                     *)
LEMMA PartsJoined ==
    \A hd, p, u, r \in Seq(Items) : Joined(hd, p \o (u \o r), (hd \o p) \o u, r)
<1>1. SUFFICES ASSUME NEW hd \in Seq(Items), NEW p \in Seq(Items), NEW u \in Seq(Items),
                      NEW r \in Seq(Items)
               PROVE  Joined(hd, p \o (u \o r), (hd \o p) \o u, r)
  BY Zenon
<1>2. hd \o p \in Seq(Items) /\ u \o r \in Seq(Items)
  OBVIOUS
<1>3. Grouped(hd \o p, u, r) /\ Grouped(hd, p, u \o r)
  BY <1>2, ItemsConcat
<1>4. QED
  BY <1>3, Zenon DEF Grouped, Joined

(* The open file in one step: new is encoded for it, items reach the disk, *)
(* rest is left, held or lost.                                             *)
LEMMA FileGrows ==
    ASSUME Typed, Typed', NEW h \in Hours, FileOK(h), h \in exists, h \in exists',
           h \in tainted => h \in tainted',
           NEW new \in Seq(Items), NEW items \in Seq(Items), NEW rest \in Seq(Items),
           NEW q, q = Pending(h) \o new, q = items \o rest,
           Encoded(h)' = Encoded(h) \o new,
           Stream(h)' = IF ReadsOn(h) THEN Stream(h) \o items ELSE Stream(h),
           Open(h)' => ~ members'[h][Len(members'[h])].sealed,
           ReadsOn(h)' => ReadsOn(h) /\ Pending(h)' = rest,
           h \in exists' \ tainted' => ReadsOn(h)'
    PROVE  FileOK(h)'
<1> DEFINE s == Stream(h)
           p == Pending(h)
           c == Encoded(h)
<1>1. s \in Seq(Items) /\ p \in Seq(Items) /\ c \in Seq(Items)
  BY ItemsTyped
<1>2. Encoded(h)' = c \o new /\ Stream(h)' = (IF ReadsOn(h) THEN s \o items ELSE s)
      /\ q = p \o new
  OBVIOUS
<1>3. FileOK(h) => /\ ReadsOn(h) => \E hd \in Heads : /\ h \in exists \ tainted => hd = <<Hdr>>
                                                      /\ s \o p = hd \o c
                   /\ \E hd \in Heads, r \in Seq(Items) : s \o r = hd \o c
  BY DEF FileOK, Reads, Begins
<1> HIDE DEF s, p, c
<1>4. ReadsOn(h) => \E hd \in Heads : /\ h \in exists \ tainted => hd = <<Hdr>>
                                      /\ Stream(h)' \o rest = hd \o Encoded(h)'
  <2>1. SUFFICES ASSUME ReadsOn(h)
                 PROVE  \E hd \in Heads : /\ h \in exists \ tainted => hd = <<Hdr>>
                                          /\ Stream(h)' \o rest = hd \o Encoded(h)'
    OBVIOUS
  <2>2. PICK hd \in Heads : /\ h \in exists \ tainted => hd = <<Hdr>>
                            /\ s \o p = hd \o c
    BY <1>3, <2>1
  <2>3. hd \in Seq(Items)
    BY HeadType
  <2>5. s \o (p \o new) = hd \o (c \o new)
    <3>1. Joined(s, p, hd, c)
      BY <2>2 DEF Joined
    <3>2. Joined(s, p \o new, hd, c \o new)
      BY <1>1, <2>3, <3>1, BothLonger
    <3>3. QED
      BY <3>2 DEF Joined
  <2>6. (s \o items) \o rest = s \o q
    <3>1. Grouped(s, items, rest)
      BY <1>1, ItemsConcat
    <3>2. QED
      BY <1>1, <3>1 DEF Grouped
  <2>7. Stream(h)' \o rest = hd \o Encoded(h)'
    BY <1>2, <2>1, <2>5, <2>6, Zenon
  <2>8. QED
    BY <2>2, <2>7
<1>5. ReadsOn(h)' => Reads(h)'
  <2>1. ReadsOn(h)' => \E hd \in Heads : /\ h \in exists' \ tainted' => hd = <<Hdr>>
                                         /\ Stream(h)' \o Pending(h)' = hd \o Encoded(h)'
    BY <1>4
  <2>2. QED
    BY <2>1, HeadStays DEF Reads
<1>6. Begins(h)'
  <2>1. \E hd \in Heads, r \in Seq(Items) : Stream(h)' \o r = hd \o Encoded(h)'
    <3>1. CASE ReadsOn(h)
      BY <1>4, <3>1
    <3>2. CASE ~ ReadsOn(h)
      <4>1. PICK hd \in Heads, r \in Seq(Items) : s \o r = hd \o c
        BY <1>3
      <4>2. hd \in Seq(Items)
        BY HeadType
      <4>3. r \o new \in Seq(Items)
        OBVIOUS
      <4>4. s \o (r \o new) = hd \o (c \o new)
        <5>1. Joined(s, r, hd, c)
          BY <4>1 DEF Joined
        <5>2. Joined(s, r \o new, hd, c \o new)
          BY <1>1, <4>2, <5>1, BothLonger
        <5>3. QED
          BY <5>2 DEF Joined
      <4>5. Stream(h)' \o (r \o new) = hd \o Encoded(h)'
        BY <1>2, <3>2, <4>4, Zenon
      <4>6. QED
        BY <4>3, <4>5
    <3>3. QED
      BY <3>1, <3>2
  <2>2. QED
    BY <2>1, HeadStays DEF Begins
<1>7. QED
  BY <1>5, <1>6 DEF FileOK

(* The other files do not notice.                                          *)
LEMMA OthersStand ==
    ASSUME Typed, FilesOK, NEW h \in Hours, h # file, h # file',
           members'[h] = members[h], Encoded(h)' = Encoded(h),
           h \in exists' <=> h \in exists, tainted \subseteq tainted'
    PROVE  FileOK(h)'
<1>1. FileOK(h)
  BY DEF FilesOK
<1>2. ~ Open(h) /\ ~ Open(h)' /\ Pending(h) = <<>> /\ Pending(h)' = <<>>
  BY DEF Open, Pending
<1>3. QED
  BY <1>1, <1>2, FileFrame

(* An encoded record adds one entry to its own file's, and nothing to any  *)
(* other's.                                                                *)
LEMMA EncodedGrows ==
    ASSUME Typed, NEW e \in Entries, log' = Append(log, e)
    PROVE  \A h \in Hours : Encoded(h)' = IF h = e.file THEN Append(Encoded(h), e) ELSE Encoded(h)
<1>1. SUFFICES ASSUME NEW h \in Hours
               PROVE  Encoded(h)' = IF h = e.file THEN Append(Encoded(h), e) ELSE Encoded(h)
  OBVIOUS
<1> DEFINE T == {x \in Entries : x.file = h}
<1>2. e \in T <=> h = e.file
  OBVIOUS
<1>3. log \in Seq(Entries)
  BY DEF Typed, TypeOK
<1>4. Encoded(h)' = Selected(log', T) /\ Encoded(h) = Selected(log, T)
  BY DEF Encoded
<1> HIDE DEF T
<1>5. Selected(Append(log, e), T) = IF e \in T THEN Append(Selected(log, T), e) ELSE Selected(log, T)
  BY <1>3, SelectedAppend
<1>6. QED
  BY <1>2, <1>4, <1>5

(* writeDataToFile.                                                        *)
LEMMA WriteKeepsFiles ==
    ASSUME Typed, Typed', FilesOK, Write
    PROVE  FilesOK'
<1> DEFINE e == [file |-> file, n |-> Len(log) + 1]
           held == Append(buffer, e)
<1>1. /\ gz = "ok" /\ gz' = "ok" /\ begun' = TRUE /\ Len(log) < MaxRecords
      /\ file \in Hours /\ file' = file /\ exists' = exists /\ tainted' = tainted
      /\ log' = Append(log, e) /\ buffer \in Seq(Items)
  BY DEF Write, gzipWrite, Typed, TypeOK
<1>2. e \in Entries /\ e \in Items /\ e.file = file
  BY <1>1, EntryType DEF Items
<1>3. held \in Seq(Items)
  BY <1>1, <1>2
<1>4. PICK k \in 0 .. Len(held) :
         /\ members' = OnDisk(OwnMember, SubSeq(held, 1, k), FALSE)
         /\ buffer' = SubSeq(held, k + 1, Len(held))
  BY DEF Write, gzipWrite, FirstItems
<1>5. \A h \in Hours : Encoded(h)' = IF h = file THEN Append(Encoded(h), e) ELSE Encoded(h)
  <2> HIDE DEF e
  <2>1. QED
    BY <1>1, <1>2, EncodedGrows
<1> HIDE DEF e
<1> DEFINE items == SubSeq(held, 1, k)
           rest  == SubSeq(held, k + 1, Len(held))
<1>6. items \in Seq(Items) /\ rest \in Seq(Items) /\ held = items \o rest
  BY <1>3, Slice, SliceJoin
<1>7. members' = OnDisk(OwnMember, items, FALSE) /\ buffer' = rest
  BY <1>4
<1>8. held = buffer \o <<e>> /\ <<e>> \in Seq(Items)
  BY <1>1, <1>2, AppendedOne
<1>9. Encoded(file)' = Encoded(file) \o <<e>>
  <2>1. Encoded(file) \in Seq(Entries)
    BY <1>1, ItemsTyped
  <2>2. QED
    BY <1>1, <1>2, <1>5, <2>1, AppendedOne
<1> HIDE DEF held, items, rest
<1>10. /\ \A h \in Hours \ {file} : members'[h] = members[h]
       /\ StreamOf(members'[file]) = IF ReadsOn(file) THEN Stream(file) \o items ELSE Stream(file)
       /\ members'[file][Len(members'[file])].sealed = FALSE
       /\ Sealed(members'[file], Len(members'[file]) - 1) <=> ReadsOn(file)
  BY <1>1, <1>6, <1>7, Puts
<1>11. ASSUME NEW h \in Hours, h # file
       PROVE  FileOK(h)'
  BY <1>1, <1>5, <1>10, <1>11, OthersStand
<1>12. FileOK(file)'
  <2>1. FileOK(file) /\ file \in exists
    BY <1>1 DEF FilesOK, FileOK
  <2>2. ReadsOn(file)' <=> ReadsOn(file)
    BY <1>1, <1>10 DEF ReadsOn, Open
  <2>3. Stream(file)' = IF ReadsOn(file) THEN Stream(file) \o items ELSE Stream(file)
    BY <1>1, <1>10 DEF Stream
  <2>4. Pending(file) = buffer /\ Pending(file)' = rest
    BY <1>1, <1>7 DEF Pending
  <2>5. file \in exists \ tainted => ReadsOn(file)
    BY <2>1 DEF FileOK
  <2> DEFINE h == file
  <2>6. QED
    BY <1>1, <1>6, <1>8, <1>9, <1>10, <2>1, <2>2, <2>3, <2>4, <2>5, FileGrows
<1>13. QED
  BY <1>1, <1>11, <1>12 DEF FilesOK

(* A write or a gzip Close that fails: the member is cut for good.         *)
LEMMA FailKeepsFiles ==
    ASSUME Typed, Typed', FilesOK, gzipFails, UNCHANGED <<file, exists, log>>
    PROVE  FilesOK'
<1>1. /\ gz = "ok" /\ gz' = "err" /\ begun' = TRUE /\ buffer' = <<>>
      /\ file \in Hours /\ file' = file /\ exists' = exists /\ log' = log
      /\ tainted' = tainted \cup {file} /\ buffer \in Seq(Items)
  BY DEF gzipFails, Typed, TypeOK
<1>2. \A h \in Hours : Encoded(h)' = Encoded(h) /\ Encoded(h) \in Seq(Items)
  BY <1>1, EncodedStands, ItemsTyped
<1>3. FileOK(file) /\ file \in exists /\ ~ Open(file)'
  BY <1>1 DEF FilesOK, FileOK, Open
<1>4. Pending(file) = buffer /\ Pending(file)' = <<>>
  BY <1>1 DEF Pending
<1>5. FileOK(file)' /\ \A h \in Hours \ {file} : members'[h] = members[h]
  <2>1. CASE UNCHANGED members /\ begun = FALSE
    <3>1. ~ Open(file) /\ buffer = <<>>
      BY <2>1 DEF Open, FilesOK
    <3>2. FileOK(file)'
      BY <1>1, <1>2, <1>3, <1>4, <2>1, <3>1, FileFrame
    <3>3. QED
      BY <2>1, <3>2
  <2>2. ASSUME NEW k \in 0 .. Len(buffer),
               members' = OnDisk(OwnMember, FirstItems(buffer, k), FALSE)
        PROVE  FileOK(file)' /\ \A h \in Hours \ {file} : members'[h] = members[h]
    <3> DEFINE items == SubSeq(buffer, 1, k)
               rest  == SubSeq(buffer, k + 1, Len(buffer))
               none  == <<>>
    <3>1. items \in Seq(Items) /\ rest \in Seq(Items) /\ buffer = items \o rest
      BY <1>1, Slice, SliceJoin
    <3>2. members' = OnDisk(OwnMember, items, FALSE)
      BY <2>2 DEF FirstItems
    <3>3. none \in Seq(Items) /\ buffer = buffer \o none /\ Encoded(file) = Encoded(file) \o none
      BY <1>1, <1>2, EmptyRight
    <3> HIDE DEF items, rest, none
    <3>4. /\ \A h \in Hours \ {file} : members'[h] = members[h]
          /\ StreamOf(members'[file]) = IF ReadsOn(file) THEN Stream(file) \o items ELSE Stream(file)
          /\ members'[file] # <<>>
          /\ members'[file][Len(members'[file])].sealed = FALSE
      BY <1>1, <3>1, <3>2, Puts
    <3>5. ~ ReadsOn(file)'
      <4>1. members'[file] \in Seq(Members)
        BY <1>1 DEF Typed, TypeOK
      <4>2. Len(members'[file]) \in 1 .. Len(members'[file])
        BY <3>4, <4>1
      <4>3. QED
        BY <1>1, <1>3, <3>4, <4>2 DEF ReadsOn, Sealed
    <3>6. Stream(file)' = IF ReadsOn(file) THEN Stream(file) \o items ELSE Stream(file)
      BY <1>1, <3>4 DEF Stream
    <3>7. FileOK(file)'
      BY <1>1, <1>2, <1>3, <1>4, <3>1, <3>3, <3>5, <3>6, FileGrows
    <3>8. QED
      BY <3>4, <3>7
  <2>3. QED
    BY <2>1, <2>2 DEF gzipFails
<1>6. ASSUME NEW h \in Hours, h # file
      PROVE  FileOK(h)'
  BY <1>1, <1>2, <1>5, <1>6, OthersStand
<1>7. QED
  BY <1>1, <1>5, <1>6 DEF FilesOK

(* closeFile returns nil: what gzip held is on disk, and the trailer.      *)
LEMMA CloseKeepsFiles ==
    ASSUME Typed, Typed', FilesOK, closeSucceeds, UNCHANGED <<exists, log>>
    PROVE  FilesOK'
<1>1. /\ gz \in {"ok", "nil"} /\ gz' = "nil" /\ file' = None /\ begun' = FALSE /\ buffer' = <<>>
      /\ exists' = exists /\ tainted' = tainted /\ buffer \in Seq(Items)
      /\ members' = Completed /\ None \notin Hours
      /\ gz = "ok" => file \in Hours
      /\ gz = "nil" => file = None
  <2>1. None \notin Hours
    BY NoneIsNoHour DEF Hours
  <2>2. buffer \in Seq(Items) /\ file \in Hours \cup {None} /\ (gz = "nil" <=> file = None)
    BY DEF Typed, TypeOK
  <2>3. QED
    BY <2>1, <2>2 DEF closeSucceeds
<1>2. \A h \in Hours : Encoded(h)' = Encoded(h) /\ Encoded(h) \in Seq(Items)
  BY EncodedStands, ItemsTyped
<1>3. CASE gz = "nil"
  <2>1. members' = members
    BY <1>1, <1>3 DEF Completed
  <2>2. ASSUME NEW h \in Hours
        PROVE  FileOK(h)'
    <3>1. h # file /\ h # file'
      BY <1>1, <1>3
    <3>2. QED
      BY <1>1, <1>2, <2>1, <3>1, OthersStand
  <2>3. QED
    BY <1>1, <2>2 DEF FilesOK
<1>4. CASE gz = "ok"
  <2>1. /\ \A h \in Hours \ {file} : members'[h] = members[h]
        /\ StreamOf(members'[file]) = IF ReadsOn(file) THEN Stream(file) \o buffer ELSE Stream(file)
        /\ Sealed(members'[file], Len(members'[file])) <=> ReadsOn(file)
    BY <1>1, <1>4, Puts DEF Completed
  <2>2. ASSUME NEW h \in Hours, h = file
        PROVE  FileOK(h)'
    <3> DEFINE none == <<>>
    <3>1. /\ none \in Seq(Items) /\ buffer = buffer \o none
          /\ Encoded(h) = Encoded(h) \o none
      BY <1>1, <1>2, EmptyRight
    <3>2. Pending(h) = buffer /\ Pending(h)' = none
      BY <1>1, <2>2 DEF Pending
    <3>3. ~ Open(h)'
      BY <1>1 DEF Open
    <3> HIDE DEF none
    <3>4. FileOK(h) /\ h \in exists
      BY <1>1, <1>4, <2>2 DEF FilesOK, FileOK
    <3>5. ReadsOn(h)' <=> ReadsOn(h)
      BY <2>1, <2>2, <3>3 DEF ReadsOn
    <3>6. h \in exists \ tainted => ReadsOn(h)
      BY <3>4 DEF FileOK
    <3>7. Stream(h)' = IF ReadsOn(h) THEN Stream(h) \o buffer ELSE Stream(h)
      BY <2>1, <2>2 DEF Stream
    <3>8. QED
      BY <1>1, <1>2, <3>1, <3>2, <3>3, <3>4, <3>5, <3>6, <3>7, FileGrows
  <2>3. ASSUME NEW h \in Hours, h # file
        PROVE  FileOK(h)'
    BY <1>1, <1>2, <2>1, <2>3, OthersStand
  <2>4. QED
    BY <1>1, <2>2, <2>3 DEF FilesOK
<1>5. QED
  BY <1>1, <1>3, <1>4

(* A new file's one empty member gives a reader nothing.                   *)
LEMMA FreshStream == StreamOf(<<NewMember>>) = <<>>
<1> DEFINE e == <<>>
<1>1. e \in Seq(Members) /\ Len(e) = 0 /\ StreamOf(e) = <<>> /\ <<NewMember>> = Append(e, NewMember)
  BY StreamEmpty
<1> HIDE DEF e
<1>2. NewMember \in Members /\ NewMember.items = <<>>
  BY HeaderIsItem DEF NewMember
<1>3. Sealed(e, Len(e))
  BY <1>1 DEF Sealed
<1>4. StreamOf(Append(e, NewMember)) = StreamOf(e) \o NewMember.items
  BY <1>1, <1>2, <1>3, StreamAppend
<1>5. <<>> \o <<>> = <<>>
  OBVIOUS
<1>6. QED
  BY <1>1, <1>2, <1>4, <1>5, Zenon

(* A file begins with the version header, once.                            *)
LEMMA NewFileOK ==
    ASSUME Typed, Typed', FilesOK, NEW t \in Hours, createNew(t), log' = log,
           NEW h \in Hours, h = t
    PROVE  FileOK(h)'
<1>1. t \in Hours /\ t \notin exists /\ t \in exists' /\ file' = t
  BY DEF createNew, Typed, TypeOK
<1>2. h = t
  OBVIOUS
<1>3. Encoded(h) = <<>> /\ Encoded(h)' = <<>> /\ Pending(h)' = buffer'
  BY <1>1, <1>2, EncodedStands DEF FilesOK, FileOK, Pending
<1>4. <<>> \in Seq(Items) /\ <<Hdr>> \in Seq(Items) /\ <<>> \o <<>> = <<>>
      /\ <<Hdr>> \o <<>> = <<Hdr>> /\ <<>> \o <<Hdr>> = <<Hdr>>
  BY HeaderIsItem
<1>5. <<>> \in Heads /\ <<Hdr>> \in Heads
  BY DEF Heads
<1>6. CASE gz' = "ok"
  <2>1. members'[h] = <<NewMember>> /\ buffer' = <<Hdr>> /\ begun' = TRUE
    BY <1>1, <1>2, <1>6 DEF createNew, Typed, TypeOK
  <2>2. Len(<<NewMember>>) = 1 /\ <<NewMember>>[1].sealed = FALSE
    BY DEF NewMember
  <2>3. Open(h)'
    BY <1>1, <1>2, <1>6, <2>1 DEF Open
  <2>4. ReadsOn(h)'
    BY <2>1, <2>2, <2>3 DEF ReadsOn, Sealed
  <2>5. Stream(h)' \o <<Hdr>> = <<Hdr>> \o Encoded(h)'
    <3>1. Stream(h)' = <<>>
      BY <2>1, FreshStream DEF Stream
    <3>2. QED
      BY <1>3, <1>4, <3>1
  <2>6. Reads(h)' /\ Begins(h)'
    <3>1. Pending(h)' = <<Hdr>>
      BY <1>3, <2>1
    <3>2. \E hd \in Heads : /\ h \in exists' \ tainted' => hd = <<Hdr>>
                            /\ Stream(h)' \o Pending(h)' = hd \o Encoded(h)'
      BY <1>5, <2>5, <3>1, Zenon
    <3>3. \E hd \in Heads : \E rest \in Seq(Items) : Stream(h)' \o rest = hd \o Encoded(h)'
      BY <1>4, <1>5, <2>5, Zenon
    <3>4. QED
      BY <3>2, <3>3, HeadStays DEF Reads, Begins
  <2>7. QED
    BY <1>1, <1>2, <2>1, <2>2, <2>4, <2>6 DEF FileOK
<1>7. CASE gz' = "err"
  <2>1. members'[h] \in {<<>>, <<NewMember>>} /\ buffer' = <<>> /\ t \in tainted'
    BY <1>1, <1>2, <1>7 DEF createNew, Typed, TypeOK
  <2>2. Stream(h)' = <<>>
    BY <2>1, StreamEmpty, FreshStream DEF Stream
  <2>3. Stream(h)' \o <<>> = <<>> \o Encoded(h)' /\ Pending(h)' = <<>>
    BY <1>3, <1>4, <2>1, <2>2
  <2>4. Reads(h)' /\ Begins(h)'
    <3>1. \E hd \in Heads : /\ h \in exists' \ tainted' => hd = <<Hdr>>
                            /\ Stream(h)' \o Pending(h)' = hd \o Encoded(h)'
      BY <1>2, <1>5, <2>1, <2>3
    <3>2. \E hd \in Heads : \E rest \in Seq(Items) : Stream(h)' \o rest = hd \o Encoded(h)'
      BY <1>4, <1>5, <2>3, Zenon
    <3>3. QED
      BY <3>1, <3>2, HeadStays DEF Reads, Begins
  <2>5. ~ Open(h)'
    BY <1>7 DEF Open
  <2>6. QED
    BY <1>1, <1>2, <2>1, <2>4, <2>5 DEF FileOK
<1>8. QED
  BY <1>6, <1>7 DEF createNew

(* createFile, for a new path or for one that exists.                      *)
LEMMA CreateKeepsFiles ==
    ASSUME Typed, Typed', FilesOK, gz = "nil", NEW t \in Hours, createFile(t), log' = log
    PROVE  FilesOK'
<1>1. /\ file = None /\ None \notin Hours /\ buffer = <<>> /\ ~ begun
      /\ \A h \in Hours : Encoded(h)' = Encoded(h)
  <2>1. None \notin Hours
    BY NoneIsNoHour DEF Hours
  <2>2. file = None /\ ~ begun
    BY DEF Typed, TypeOK, BegunOK
  <2>3. buffer = <<>>
    BY DEF FilesOK
  <2>4. \A h \in Hours : Encoded(h)' = Encoded(h)
    BY EncodedStands
  <2>5. QED
    BY <2>1, <2>2, <2>3, <2>4
<1>2. ASSUME NEW h \in Hours
      PROVE  ~ Open(h) /\ Pending(h) = <<>> /\ FileOK(h)
  BY <1>1 DEF Open, Pending, FilesOK
<1>3. CASE createNew(t)
  <2>1. ASSUME NEW h \in Hours, h # t
        PROVE  FileOK(h)'
    <3>1. /\ members'[h] = members[h] /\ h # file /\ h # file' /\ tainted \subseteq tainted'
          /\ h \in exists' <=> h \in exists
      BY <1>1, <1>3, <2>1 DEF createNew, Typed, TypeOK
    <3>2. QED
      BY <1>1, <3>1, OthersStand
  <2>3. ~ (gz = "ok" /\ begun)' => buffer' = <<>>
    BY <1>3 DEF createNew
  <2>4. \A h \in Hours : FileOK(h)'
    BY <1>1, <1>3, <2>1, NewFileOK
  <2>5. QED
    BY <2>3, <2>4 DEF FilesOK
<1>4. CASE createAppend(t) \/ createFails
  <2>1. /\ members' = members /\ exists' = exists /\ tainted' = tainted
        /\ buffer' = <<>> /\ begun' = FALSE /\ (file' = None \/ file' \in exists)
    BY <1>4 DEF createAppend, createFails, diskVars
  <2>2. ASSUME NEW h \in Hours
        PROVE  FileOK(h)'
    <3>1. ~ Open(h)' /\ Pending(h)' = <<>>
      BY <2>1 DEF Open, Pending
    <3>2. h \notin exists => file' # h
      BY <1>1, <2>1
    <3>3. QED
      BY <1>1, <1>2, <2>1, <3>1, <3>2, FileFrame
  <2>3. QED
    BY <2>1, <2>2 DEF FilesOK
<1>5. QED
  BY <1>3, <1>4 DEF createFile

(* The process dies: what gzip held is lost, and a member it was in is     *)
(* cut.                                                                    *)
LEMMA DieKeepsFiles ==
    ASSUME Typed, Typed', FilesOK, Die
    PROVE  FilesOK'
<1>1. /\ gz' = "nil" /\ file' = None /\ None \notin Hours /\ buffer' = <<>> /\ begun' = FALSE
      /\ members' = members /\ exists' = exists /\ log' = log
      /\ tainted' = (IF begun THEN tainted \cup {file} ELSE tainted)
      /\ \A h \in Hours : Encoded(h)' = Encoded(h) /\ Encoded(h) \in Seq(Items)
  BY NoneIsNoHour, EncodedStands, ItemsTyped DEF Die, diskVars, Hours
<1>2. ASSUME NEW h \in Hours
      PROVE  /\ ~ Open(h)' /\ Pending(h)' = <<>> /\ FileOK(h)
             /\ h # file' /\ h \in tainted => h \in tainted'
  BY <1>1 DEF Open, Pending, FilesOK
<1>3. ASSUME NEW h \in Hours
      PROVE  FileOK(h)'
  <2>1. CASE h = file /\ Open(h)
    <3> DEFINE none == <<>>
    <3>1. buffer \in Seq(Items) /\ Stream(h) \in Seq(Items) /\ h \in tainted' /\ h \in exists
      BY <1>1, <1>2, <2>1, ItemsTyped DEF Typed, TypeOK, Open, FileOK
    <3>2. /\ none \in Seq(Items) /\ buffer = buffer \o none /\ buffer = none \o buffer
          /\ Encoded(h) = Encoded(h) \o none /\ Stream(h) = Stream(h) \o none
      BY <1>1, <3>1, EmptyRight
    <3>3. Pending(h) = buffer /\ Stream(h)' = Stream(h)
      BY <1>1, <2>1 DEF Pending, Stream
    <3> HIDE DEF none
    <3>4. ~ ReadsOn(h)'
      <4>1. members[h] \in Seq(Members) /\ members[h] # <<>> /\ ~ members[h][Len(members[h])].sealed
        BY <1>2, <2>1 DEF Typed, TypeOK, BegunOK, Open, FileOK
      <4>2. Len(members[h]) \in 1 .. Len(members[h])
        BY <4>1
      <4>3. QED
        BY <1>1, <1>2, <4>1, <4>2 DEF ReadsOn, Sealed
    <3>5. Stream(h)' = IF ReadsOn(h) THEN Stream(h) \o none ELSE Stream(h)
      BY <3>2, <3>3, Zenon
    <3>6. QED
      BY <1>1, <1>2, <3>1, <3>2, <3>3, <3>4, <3>5, FileGrows
  <2>2. CASE h = file /\ ~ Open(h)
    <3>1. Pending(h) = <<>>
      BY <2>2 DEF Pending, Open, FilesOK
    <3>2. QED
      BY <1>1, <1>2, <2>2, <3>1, FileFrame
  <2>3. CASE h # file
    BY <1>1, <1>2, <2>3, OthersStand
  <2>4. QED
    BY <2>1, <2>2, <2>3
<1>4. QED
  BY <1>1, <1>3 DEF FilesOK

(* A step that leaves the files and the gzip writer alone keeps their      *)
(* invariant.                                                              *)
LEMMA FilesStand ==
    ASSUME FilesOK, UNCHANGED <<file, gz, begun, buffer, exists, members, log, tainted>>
    PROVE  FilesOK'
<1>1. ASSUME NEW h \in Hours
      PROVE  FileOK(h)'
  <2>1. FileOK(h)
    BY DEF FilesOK
  <2>2. FileOK(h)' <=> FileOK(h)
    BY EncodedStands, HeadStays
       DEF FileOK, Open, ReadsOn, Reads, Begins, Stream, Pending, Sealed
  <2>3. QED
    BY <2>1, <2>2
<1>2. QED
  BY <1>1 DEF FilesOK

(* The invariant holds when the program starts.                            *)
LEMMA FilesInit == Init => FilesOK
<1> SUFFICES ASSUME Init PROVE FilesOK
  OBVIOUS
<1>1. ASSUME NEW h \in Hours
      PROVE  FileOK(h)
  <2>1. members[h] = <<>> /\ h \notin exists /\ file # h /\ buffer = <<>> /\ gz = "nil"
    BY NoneIsNoHour DEF Init, Hours
  <2>2. Encoded(h) = <<>>
    BY SelectedEmpty DEF Encoded, Init
  <2>3. Stream(h) = <<>> /\ Pending(h) = <<>>
    BY <2>1, StreamEmpty DEF Stream, Pending
  <2>4. <<>> \in Seq(Items) /\ <<>> \in Heads /\ Stream(h) \o <<>> = <<>> \o Encoded(h)
    BY <2>2, <2>3 DEF Heads
  <2>5. Reads(h) /\ Begins(h)
    BY <2>1, <2>3, <2>4 DEF Reads, Begins
  <2>6. QED
    BY <2>1, <2>2, <2>5 DEF FileOK, Open
<1>2. QED
  BY <1>1 DEF FilesOK, Init

(* FilesOK is inductive.                                                   *)
LEMMA FilesStep ==
    ASSUME Typed, Typed', FilesOK, [Next]_vars
    PROVE  FilesOK'
<1>1. CASE Start \/ RotateCreates
  BY <1>1, CreateKeepsFiles DEF Start, RotateCreates, Typed, TypeOK, BegunOK
<1>2. CASE Write
  BY <1>2, WriteKeepsFiles
<1>3. CASE WriteFails
  BY <1>3, FailKeepsFiles DEF WriteFails
<1>4. CASE RotateCloses
  BY <1>4, CloseKeepsFiles DEF RotateCloses
<1>5. CASE RotateFails \/ WorkerEnds
  <2>1. CASE closeSucceeds
    BY <1>5, <2>1, CloseKeepsFiles DEF RotateFails, WorkerEnds
  <2>2. CASE gzipFails /\ UNCHANGED file
    BY <1>5, <2>2, FailKeepsFiles DEF RotateFails, WorkerEnds
  <2>3. CASE UNCHANGED <<gz, file, begun, buffer, members, tainted>>
    BY <1>5, <2>3, FilesStand DEF RotateFails, WorkerEnds
  <2>4. QED
    BY <1>5, <2>1, <2>2, <2>3 DEF RotateFails, WorkerEnds, closeFails
<1>6. CASE Die
  BY <1>6, DieKeepsFiles
<1>7. CASE HourPasses \/ UNCHANGED vars
  BY <1>7, FilesStand DEF HourPasses, vars, writerVars, diskVars
<1>8. QED
  BY <1>1, <1>2, <1>3, <1>4, <1>5, <1>6, <1>7 DEF Next, Down

-----------------------------------------------------------------------------
(* Files no kill and no failed write has touched.                          *)

(* The header is no record.                                                *)
LEMMA HeaderNoEntry == Hdr \notin Entries
<1>1. \A e \in Entries : e.file \in Hours
  BY DEF Entries
<1>2. Hdr.file = 0 /\ 0 \notin Hours
  BY LogBounds DEF Hdr, Hours
<1>3. QED
  BY <1>1, <1>2

(* A stream that begins with the header is the header and the rest.        *)
LEMMA HeaderFirst ==
    \A c \in Seq(Items) : Head(<<Hdr>> \o c) = Hdr /\ Tail(<<Hdr>> \o c) = c
BY HeaderIsItem, TailCons

(* What is joined to the end of a non-empty sequence does not change its   *)
(* head.                                                                   *)
LEMMA ItemsJoined ==
    \A s, p \in Seq(Items) : s # <<>> => Head(s \o p) = Head(s) /\ Tail(s \o p) = Tail(s) \o p
BY FirstJoined

(* The entries among a header and entries.                                 *)
LEMMA SelectedHeader ==
    ASSUME NEW c \in Seq(Entries)
    PROVE  Selected(<<Hdr>> \o c, Entries) = c
<1> DEFINE none == <<>>
           hd == <<Hdr>>
<1>1. hd = Append(none, Hdr) /\ none \o c = c
  OBVIOUS
<1>2. hd \in Seq(Items) /\ none \in Seq(Items) /\ Selected(none, Entries) = none
      /\ c \in Seq(Items)
  BY HeaderIsItem, SelectedEmpty DEF Items
<1>3. Selected(c, Entries) = c
  BY SelectedAll
<1> HIDE DEF none, hd
<1>4. Selected(hd, Entries) = none
  BY <1>1, <1>2, HeaderIsItem, HeaderNoEntry, SelectedAppend
<1>5. Selected(hd \o c, Entries) = Selected(hd, Entries) \o Selected(c, Entries)
  BY <1>2, SelectedConcat
<1>6. Selected(hd \o c, Entries) = c
  BY <1>1, <1>3, <1>4, <1>5, Zenon
<1>7. QED
  BY <1>6 DEF hd

(* Behind the header gzip holds entries only.                              *)
LEMMA HeldIsEntries ==
    ASSUME Typed, FilesOK, NEW h \in Hours, NEW q \in Seq(Entries),
           NEW s \in Seq(Items), q = s \o Pending(h)
    PROVE  Held(h) = Pending(h)
<1> DEFINE p == Pending(h)
<1>1. p \in Seq(Items) /\ q = s \o p
  BY ItemsTyped
<1> HIDE DEF p
<1>2. p \in Seq(Entries)
  BY <1>1, RightPartType
<1>3. Selected(p, Entries) = p
  BY <1>2, SelectedAll
<1>4. QED
  BY <1>3 DEF p, Held, Pending

(* What was encoded for an untainted file is what a reader decodes and     *)
(* what is still in memory.                                                *)
LEMMA CleanFileDecodes ==
    ASSUME Typed, FilesOK, NEW h \in Hours, h \notin tainted
    PROVE  Encoded(h) = Decoded(h) \o Held(h)
<1> DEFINE s == Stream(h)
           p == Pending(h)
           c == Encoded(h)
           none == <<>>
<1>1. FileOK(h) /\ s \in Seq(Items) /\ p \in Seq(Items) /\ c \in Seq(Items) /\ c \in Seq(Entries)
  BY ItemsTyped DEF FilesOK
<1>2. none \in Seq(Items) /\ none \o none = none
  OBVIOUS
<1>3. CASE h \notin exists
  <2>1. members[h] = <<>> /\ c = none /\ file # h
    BY <1>1, <1>3 DEF FileOK
  <2>2. s = none
    BY <2>1, StreamEmpty DEF Stream
  <2>3. Decoded(h) = none /\ Held(h) = none
    BY <2>1, <2>2 DEF Decoded, checkFormat, Held
  <2>4. QED
    BY <1>2, <2>1, <2>3
<1>4. CASE h \in exists
  <2>1. s \o p = <<Hdr>> \o c
    BY <1>1, <1>4 DEF FileOK, Reads
  <2>2. CASE s = none
    <3>1. Decoded(h) = none
      BY <2>2 DEF Decoded, checkFormat
    <3>2. p = <<Hdr>> \o c
      <4>1. none \o p = p
        BY <1>1
      <4>2. QED
        BY <2>1, <2>2, <4>1, Zenon
    <3>3. Selected(p, Entries) = c
      <4>1. Selected(<<Hdr>> \o c, Entries) = c
        <5> HIDE DEF c
        <5>1. QED
          BY <1>1, SelectedHeader
      <4>2. QED
        BY <3>2, <4>1, Zenon
    <3>4. Held(h) = c
      <4>1. h = file
        <5>1. <<Hdr>> \o c # <<>>
          BY <1>1, HeaderIsItem, TailCons
        <5>2. p # <<>>
          BY <3>2, <5>1, Zenon
        <5>3. QED
          BY <5>2 DEF Pending
      <4>2. QED
        BY <3>3, <4>1 DEF Held, Pending
    <3>5. none \o c = c
      BY <1>1
    <3>6. QED
      BY <3>1, <3>4, <3>5
  <2>3. CASE s # none
    <3>1. Head(s) = Hdr /\ Tail(s) \o p = c
      <4> HIDE DEF s, p, c
      <4>1. Head(s \o p) = Head(s) /\ Tail(s \o p) = Tail(s) \o p
        BY <1>1, <2>3, ItemsJoined, Zenon
      <4>2. Head(<<Hdr>> \o c) = Hdr /\ Tail(<<Hdr>> \o c) = c
        BY <1>1, HeaderFirst, Zenon
      <4>3. QED
        BY <2>1, <4>1, <4>2, Zenon
    <3>2. Decoded(h) = Tail(s)
      BY <2>3, <3>1 DEF Decoded, checkFormat
    <3>3. Held(h) = p
      <4>1. Tail(s) \in Seq(Items)
        BY <1>1, <2>3
      <4> HIDE DEF s, c
      <4>2. QED
        BY <1>1, <3>1, <4>1, HeldIsEntries
    <3>4. QED
      BY <3>1, <3>2, <3>3
  <2>4. QED
    BY <2>2, <2>3
<1>5. QED
  BY <1>3, <1>4

(* CleanFilesDecode: across rotations, restarts and appended members a     *)
(* clean file decodes to exactly what was encoded for it, less what gzip   *)
(* still holds.                                                            *)
THEOREM CleanFilesAlwaysDecode == Spec => []CleanFilesDecode
<1>1. Init => Typed /\ FilesOK
  BY TypedInit, FilesInit
<1>2. Typed /\ FilesOK /\ [Next]_vars => (Typed /\ FilesOK)'
  BY TypedStep, FilesStep
<1>3. Typed /\ FilesOK => CleanFilesDecode
  BY CleanFileDecodes DEF CleanFilesDecode
<1>4. QED
  BY <1>1, <1>2, <1>3, PTL DEF Spec

-----------------------------------------------------------------------------
(* What can be read stays readable.                                        *)

(* What a reader gets of a file only gets longer, and nothing is added to  *)
(* it any more when a member has been appended behind a cut.               *)
Grows(h) ==
    /\ \E w \in Seq(Items) : Stream(h)' = Stream(h) \o w
    /\ CutInside(h) => CutInside(h)' /\ Stream(h)' = Stream(h)

(* A file whose members did not change gives what it gave.                 *)
LEMMA StreamStands ==
    ASSUME Typed, NEW h \in Hours, members'[h] = members[h]
    PROVE  Grows(h)
<1> DEFINE s == Stream(h)
           none == <<>>
<1>1. s \in Seq(Items) /\ none \in Seq(Items)
  BY ItemsTyped
<1>2. s \o none = s
  BY <1>1
<1>3. Stream(h)' = s /\ (CutInside(h) => CutInside(h)')
  BY DEF Stream, CutInside
<1> HIDE DEF s, none
<1>4. Stream(h)' = s \o none
  BY <1>2, <1>3, Zenon
<1>5. \E w \in Seq(Items) : Stream(h)' = s \o w
  BY <1>1, <1>4
<1>6. QED
  BY <1>3, <1>5 DEF Grows, s

(* gzip's own member is the last: a cut that has a member behind it stays  *)
(* where it is, and what gzip adds is not read.                            *)
LEMMA CutKept ==
    ASSUME Typed, gz = "ok", NEW items \in Seq(Items), NEW sealed \in BOOLEAN,
           members' = OnDisk(OwnMember, items, sealed), NEW h \in Hours, h = file, CutInside(h)
    PROVE  CutInside(h)' /\ ~ ReadsOn(h)
<1> DEFINE ms == members[h]
           own == OwnMember
           x == [items |-> own[Len(own)].items \o items, sealed |-> sealed]
<1>1. /\ ms \in Seq(Members) /\ own \in Seq(Members) /\ own # <<>>
      /\ Len(ms) \in Nat /\ Len(own) \in Nat
  BY OwnMemberType DEF Typed, TypeOK
<1>2. PICK i \in 1 .. Len(ms) - 1 : ~ ms[i].sealed
  BY DEF CutInside
<1>3. Len(ms) <= Len(own) /\ own[i] = ms[i]
  <2>1. CASE begun
    BY <1>1, <2>1 DEF OwnMember
  <2>2. CASE ~ begun
    <3>1. own = Append(ms, NewMember)
      BY <2>2 DEF OwnMember
    <3> HIDE DEF own, ms
    <3>2. Len(own) = Len(ms) + 1 /\ own[i] = ms[i]
      BY <1>1, <1>2, <3>1
    <3>3. QED
      BY <1>1, <3>2
  <2>3. QED
    BY <2>1, <2>2
<1>4. members'[h] = [own EXCEPT ![Len(own)] = x]
  BY DEF OnDisk, Typed, TypeOK
<1> HIDE DEF own, ms, x
<1>5. /\ Len([own EXCEPT ![Len(own)] = x]) = Len(own)
      /\ i \in 1 .. Len(own) - 1
      /\ [own EXCEPT ![Len(own)] = x][i] = own[i]
  BY <1>1, <1>2, <1>3
<1>6. CutInside(h)'
  BY <1>2, <1>3, <1>4, <1>5 DEF CutInside
<1>7. ~ Sealed(ms, Len(ms)) /\ ~ Sealed(ms, Len(ms) - 1)
  BY <1>1, <1>2 DEF Sealed
<1>8. QED
  BY <1>6, <1>7 DEF ReadsOn, ms

(* What the gzip writer adds to its own member makes the file's stream     *)
(* longer, and no other's shorter.                                         *)
LEMMA PutsGrow ==
    ASSUME Typed, gz = "ok", NEW items \in Seq(Items), NEW sealed \in BOOLEAN,
           members' = OnDisk(OwnMember, items, sealed), NEW h \in Hours
    PROVE  Grows(h)
<1>1. /\ \A k \in Hours \ {file} : members'[k] = members[k]
      /\ StreamOf(members'[file]) = IF ReadsOn(file) THEN Stream(file) \o items ELSE Stream(file)
  BY Puts
<1>2. CASE h # file
  BY <1>1, <1>2, StreamStands
<1>3. CASE h = file
  <2> DEFINE s == Stream(h)
             none == <<>>
  <2>1. s \in Seq(Items) /\ none \in Seq(Items)
    BY ItemsTyped
  <2>2. s \o none = s
    BY <2>1
  <2>3. Stream(h)' = IF ReadsOn(file) THEN s \o items ELSE s
    BY <1>1, <1>3 DEF Stream
  <2> HIDE DEF s, none
  <2>4. Stream(h)' = s \o items \/ Stream(h)' = s \o none
    BY <2>2, <2>3, Zenon
  <2>5. CutInside(h) => CutInside(h)' /\ Stream(h)' = s
    BY <1>3, <2>3, CutKept
  <2>6. QED
    BY <2>1, <2>4, <2>5 DEF Grows, s
<1>4. QED
  BY <1>2, <1>3

(* Creating or opening a file takes nothing away from any file's stream,   *)
LEMMA CreateGrows ==
    ASSUME Typed, Typed', FilesOK, NEW t \in Hours, createFile(t), NEW h \in Hours
    PROVE  Grows(h)
<1>1. CASE createNew(t) /\ h = t
  <2>1. Stream(h)' \in Seq(Items)
    BY StreamType DEF Stream, Typed, TypeOK
  <2>2. Stream(h) = <<>> /\ ~ CutInside(h)
    <3>1. members[h] = <<>>
      BY <1>1 DEF createNew, FilesOK, FileOK
    <3>2. Len(members[h]) - 1 < 1
      BY <3>1
    <3>3. QED
      BY <3>1, <3>2, StreamEmpty DEF Stream, CutInside
  <2> DEFINE w == Stream(h)'
  <2>3. <<>> \o w = w
    BY <2>1
  <2>4. Stream(h)' = Stream(h) \o w
    BY <2>2, <2>3
  <2> HIDE DEF w
  <2>5. w \in Seq(Items)
    BY <2>1 DEF w
  <2>6. QED
    BY <2>2, <2>4, <2>5 DEF Grows
<1>2. CASE ~ (createNew(t) /\ h = t)
  <2>1. members'[h] = members[h]
    BY <1>2 DEF createFile, createNew, createAppend, createFails, diskVars, Typed, TypeOK
  <2>2. QED
    BY <2>1, StreamStands
<1>3. QED
  BY <1>1, <1>2

(* nor does a write that fails,                                            *)
LEMMA FailGrows ==
    ASSUME Typed, gzipFails, NEW h \in Hours
    PROVE  Grows(h)
<1>1. buffer \in Seq(Items) /\ gz = "ok"
  BY DEF gzipFails, Typed, TypeOK
<1>2. CASE UNCHANGED members
  BY <1>2, StreamStands
<1>3. ASSUME NEW k \in 0 .. Len(buffer),
             members' = OnDisk(OwnMember, FirstItems(buffer, k), FALSE)
      PROVE  Grows(h)
  <2>1. FirstItems(buffer, k) \in Seq(Items)
    BY <1>1, Slice DEF FirstItems
  <2>2. QED
    BY <1>1, <1>3, <2>1, PutsGrow
<1>4. QED
  BY <1>2, <1>3 DEF gzipFails

(* nor a close that succeeds.                                              *)
LEMMA CloseGrows ==
    ASSUME Typed, closeSucceeds, NEW h \in Hours
    PROVE  Grows(h)
<1>1. CASE gz = "ok"
  BY <1>1, PutsGrow DEF closeSucceeds, Completed, Typed, TypeOK
<1>2. CASE gz # "ok"
  <2>1. members' = members
    BY <1>2 DEF closeSucceeds, Completed
  <2>2. QED
    BY <2>1, StreamStands
<1>3. QED
  BY <1>1, <1>2

(* Every step of the writer and of the process.                            *)
LEMMA StreamsGrow ==
    ASSUME Typed, Typed', FilesOK, [Next]_vars, NEW h \in Hours
    PROVE  Grows(h)
<1>1. CASE Start \/ RotateCreates
  BY <1>1, CreateGrows DEF Start, RotateCreates, Typed, TypeOK
<1>2. CASE Write
  <2> DEFINE e == [file |-> file, n |-> Len(log) + 1]
             held == Append(buffer, e)
  <2>1. gz = "ok" /\ Len(log) < MaxRecords /\ buffer \in Seq(Items)
    BY <1>2 DEF Write, gzipWrite, Typed, TypeOK
  <2>2. e \in Items
    BY <2>1, EntryType DEF Items
  <2>3. PICK k \in 0 .. Len(held) : members' = OnDisk(OwnMember, SubSeq(held, 1, k), FALSE)
    BY <1>2 DEF Write, gzipWrite, FirstItems
  <2> HIDE DEF e
  <2>4. held \in Seq(Items)
    BY <2>1, <2>2
  <2> HIDE DEF held
  <2>5. SubSeq(held, 1, k) \in Seq(Items)
    BY <2>4, Slice
  <2>6. QED
    BY <2>1, <2>3, <2>5, PutsGrow
<1>3. CASE WriteFails
  BY <1>3, FailGrows DEF WriteFails
<1>4. CASE RotateCloses \/ RotateFails \/ WorkerEnds
  <2>1. CASE closeSucceeds
    BY <2>1, CloseGrows
  <2>2. CASE gzipFails
    BY <2>2, FailGrows
  <2>3. CASE UNCHANGED members
    BY <2>3, StreamStands
  <2>4. QED
    BY <1>4, <2>1, <2>2, <2>3 DEF RotateCloses, RotateFails, WorkerEnds, closeFails
<1>5. CASE Die \/ HourPasses \/ UNCHANGED vars
  BY <1>5, StreamStands DEF Die, HourPasses, vars, diskVars
<1>6. QED
  BY <1>1, <1>2, <1>3, <1>4, <1>5 DEF Next, Down

(* The left of two joined sequences is a beginning of the whole.           *)
LEMMA LeftIsBeginning ==
    \A a, b \in Seq(Items) : IsBeginning(a, a \o b)
<1>1. SUFFICES ASSUME NEW a \in Seq(Items), NEW b \in Seq(Items) PROVE IsBeginning(a, a \o b)
  BY Zenon
<1> DEFINE w == a \o b
<1>2. /\ w \in Seq(Items) /\ Len(a) <= Len(w) /\ Len(a) \in Nat /\ Len(w) \in Nat
      /\ \A i \in 1 .. Len(a) : w[i] = a[i]
  OBVIOUS
<1> HIDE DEF w
<1>3. SubSeq(w, 1, Len(a)) \in Seq(Items) /\ Len(SubSeq(w, 1, Len(a))) = Len(a)
      /\ \A i \in 1 .. Len(a) : SubSeq(w, 1, Len(a))[i] = a[i]
  BY <1>2
<1>4. a = SubSeq(w, 1, Len(a))
  <2> DEFINE v == SubSeq(w, 1, Len(a))
  <2>1. v \in Seq(Items) /\ Len(v) = Len(a) /\ \A i \in 1 .. Len(a) : v[i] = a[i]
    BY <1>3
  <2> HIDE DEF v
  <2>2. v = a
    BY <2>1, SeqEqual
  <2>3. QED
    BY <2>2 DEF v
<1>5. QED
  BY <1>2, <1>4 DEF IsBeginning, w

(* A file whose stream only grows decodes to a sequence that only grows.   *)
LEMMA DecodedGrows ==
    ASSUME Typed, Typed', NEW h \in Hours, Grows(h)
    PROVE  IsBeginning(Decoded(h), Decoded(h)')
<1> DEFINE s == Stream(h)
           t == Tail(s)
           none == <<>>
<1>1. s \in Seq(Items) /\ Stream(h)' \in Seq(Items) /\ none \in Seq(Items)
  BY StreamType DEF Stream, Typed, TypeOK
<1>2. PICK w \in Seq(Items) : Stream(h)' = s \o w
  BY DEF Grows
<1>3. Hdr' = Hdr
  BY HeadStays
<1>4. CASE checkFormat(h)
  <2>1. s # none /\ Head(s) = Hdr /\ Decoded(h) = t
    BY <1>4 DEF checkFormat, Decoded
  <2>2. t \in Seq(Items)
    BY <1>1, <2>1
  <2> DEFINE u == Stream(h)'
  <2>3. u = s \o w
    BY <1>2
  <2> HIDE DEF s
  <2>4. Head(s \o w) = Head(s) /\ Tail(s \o w) = Tail(s) \o w /\ s \o w # none
    BY <1>1, <2>1, FirstJoined
  <2> HIDE DEF u, none
  <2>5. Head(u) = Hdr /\ Tail(u) = t \o w /\ u # none
    BY <2>1, <2>3, <2>4, Zenon
  <2>6. Decoded(h)' = t \o w
    BY <1>3, <2>5 DEF Decoded, checkFormat, u, none
  <2> HIDE DEF t
  <2>7. IsBeginning(t, t \o w)
    BY <2>2, LeftIsBeginning, Zenon
  <2>8. QED
    BY <2>1, <2>6, <2>7, Zenon
<1>5. CASE ~ checkFormat(h)
  <2>1. Decoded(h) = none
    BY <1>5 DEF Decoded
  <2> DEFINE d == Decoded(h)'
  <2>2. d \in Seq(Items)
    <3> DEFINE u == Stream(h)'
    <3>1. u \in Seq(Items)
      BY <1>1
    <3> HIDE DEF u
    <3>2. u # <<>> => Tail(u) \in Seq(Items)
      BY <3>1
    <3>3. QED
      BY <1>1, <3>2 DEF Decoded, checkFormat, u
  <2> HIDE DEF d
  <2>3. none \o d = d
    BY <2>2
  <2> HIDE DEF none
  <2>4. IsBeginning(none, none \o d)
    BY <1>1, <2>2, LeftIsBeginning, Zenon
  <2>5. QED
    BY <2>1, <2>3, <2>4, Zenon DEF d
<1>6. QED
  BY <1>4, <1>5

(* DecodedOnlyGrows: no write, failed write, rotation, restart or kill     *)
(* takes back what the decoder could read of a file.                       *)
THEOREM DecodedNeverShrinks == Spec => DecodedOnlyGrows
<1>1. Init => Typed /\ FilesOK
  BY TypedInit, FilesInit
<1>2. Typed /\ FilesOK /\ [Next]_vars => (Typed /\ FilesOK)'
  BY TypedStep, FilesStep
<1>3. Typed /\ Typed' /\ FilesOK /\ [Next]_vars
      => [\A h \in Hours : IsBeginning(Decoded(h), Decoded(h)')]_vars
  BY StreamsGrow, DecodedGrows
<1>4. QED
  BY <1>1, <1>2, <1>3, PTL DEF Spec, DecodedOnlyGrows

-----------------------------------------------------------------------------
(* The decoder.                                                            *)

(* The records it has printed that stand as they were written.             *)
Whole == FirstItems(printed, at - 1)

(* What filePrint has read is the header and those records.  All that it   *)
(* has printed since is made up, and that only where a member has been     *)
(* appended behind a cut and all before the cut has been read.  With a     *)
(* whole record in bp there is one to print.                               *)
ReaderAt(h) ==
    /\ at \in 1 .. Len(printed) + 1 /\ Whole \in Seq(Items)
    /\ \E unread \in Seq(Items) : Stream(h) = (<<Hdr>> \o Whole) \o unread
    /\ \A i \in at .. Len(printed) : printed[i] = Garbage
    /\ at <= Len(printed) => CutInside(h) /\ ~ More(h)
    /\ result = "none" /\ got = Fields => More(h) \/ CutInside(h)

Printable == Items \cup {Garbage}

ReaderOK ==
    /\ decoding \in Hours \cup {None} /\ printed \in Seq(Printable)
    /\ decoding = None => printed = <<>> /\ got = 0
    /\ \A h \in Hours : decoding = h => ReaderAt(h)

(* What there is to print does not change.                                 *)
LEMMA PrintableStays == Printable' = Printable
BY DEF Printable, Items, Entries, Hdr, Hours

(* Where a reader stands in a stream of which it has read the header and   *)
(* some records.                                                           *)
LEMMA ReadPart ==
    ASSUME NEW p \in Seq(Items), NEW u \in Seq(Items), NEW s, s = (<<Hdr>> \o p) \o u
    PROVE  /\ <<Hdr>> \o p \in Seq(Items)
           /\ Len(s) = Len(p) + 1 + Len(u) /\ Len(u) \in Nat /\ Len(p) \in Nat
           /\ u # <<>> => s[Len(p) + 2] = Head(u)
<1> DEFINE a == <<Hdr>> \o p
<1>1. a \in Seq(Items) /\ Len(a) = Len(p) + 1 /\ Len(p) \in Nat
  BY HeaderIsItem
<1>2. s = a \o u
  OBVIOUS
<1> HIDE DEF a
<1>3. Len(s) = Len(a) + Len(u) /\ Len(u) \in Nat /\ u # <<>> => s[Len(a) + 1] = Head(u)
  BY <1>1, <1>2
<1>4. Len(a) + 1 = Len(p) + 2
  BY <1>1
<1>5. QED
  BY <1>1, <1>3, <1>4 DEF a

(* The first items of a sequence: how many they are, that all of them are  *)
(* the sequence, and that an item behind them is not among them.           *)
LEMMA FirstOfThem ==
    \A S : \A s \in Seq(S) :
        /\ FirstItems(s, Len(s)) = s /\ FirstItems(s, 0) = <<>>
        /\ \A k \in 0 .. Len(s) : Len(FirstItems(s, k)) = k
        /\ \A x \in S : \A k \in 0 .. Len(s) : FirstItems(Append(s, x), k) = FirstItems(s, k)
<1>1. SUFFICES ASSUME NEW S, NEW s \in Seq(S)
               PROVE  /\ FirstItems(s, Len(s)) = s /\ FirstItems(s, 0) = <<>>
                      /\ \A k \in 0 .. Len(s) : Len(FirstItems(s, k)) = k
                      /\ \A x \in S : \A k \in 0 .. Len(s) :
                            FirstItems(Append(s, x), k) = FirstItems(s, k)
  BY Zenon
<1>2. FirstItems(s, Len(s)) = s
  BY DEF FirstItems
<1>3. FirstItems(s, 0) = <<>>
  BY DEF FirstItems
<1>4. \A k \in 0 .. Len(s) : Len(FirstItems(s, k)) = k
  BY DEF FirstItems
<1>5. ASSUME NEW x \in S, NEW k \in 0 .. Len(s)
      PROVE  FirstItems(Append(s, x), k) = FirstItems(s, k)
  BY DEF FirstItems
<1>6. QED
  BY <1>2, <1>3, <1>4, <1>5

(* A reader that opens a file has printed nothing of it.                   *)
LEMMA ReaderOpens ==
    ASSUME Typed, ReaderOK, NEW h \in Hours, NewFileReader(h), UNCHANGED vars
    PROVE  ReaderOK'
<1>1. decoding = None /\ printed = <<>> /\ got = 0 /\ got' = 0 /\ printed' = <<>>
  BY DEF NewFileReader, ReaderOK, Ends
<1>2. CASE checkFormat(h) /\ decoding' = h /\ at' = 1
  <2> DEFINE s == Stream(h)
             hd == <<Hdr>>
             none == <<>>
  <2>1. s \in Seq(Items) /\ s # none /\ Head(s) = Hdr
    BY <1>2, ItemsTyped DEF checkFormat
  <2>2. hd \in Seq(Items) /\ none \in Seq(Items) /\ none \in Seq(Printable) /\ Len(none) = 0
    BY HeaderIsItem DEF Printable
  <2>3. hd \o none = hd
    BY <2>2, EmptyRight
  <2>4. <<Head(s)>> \o Tail(s) = s /\ Tail(s) \in Seq(Items)
    <3> HIDE DEF s
    <3>1. QED
      BY <2>1, ConsHeadTail
  <2>5. s = (hd \o none) \o Tail(s)
    BY <2>1, <2>3, <2>4, Zenon
  <2>6. Stream(h)' = s
    BY DEF vars, diskVars, Stream
  <2>7. Whole' = none
    <3>1. Whole' = FirstItems(none, 0)
      BY <1>1, <1>2 DEF Whole, FirstItems
    <3>2. QED
      BY <2>2, <3>1, FirstOfThem
  <2>8. ReaderAt(h)'
    <3>1. Stream(h)' = (<<Hdr>> \o Whole)' \o Tail(s)
      BY <2>5, <2>6, <2>7, HeadStays, Zenon
    <3>2. got' # Fields /\ at' = Len(printed') + 1 /\ Len(printed') = 0
      BY <1>1, <1>2, <2>2, FieldsAssumption
    <3>3. \E unread \in Seq(Items) : Stream(h)' = (<<Hdr>> \o Whole)' \o unread
      BY <2>4, <3>1
    <3>4. \A i \in at' .. Len(printed') : printed'[i] = Garbage
      BY <3>2
    <3>5. at' \in 1 .. Len(printed') + 1 /\ ~ (at' <= Len(printed')) /\ got' # Fields
      BY <3>2
    <3>6. Whole' \in Seq(Items')
      BY <2>2, <2>7, HeadStays
    <3>7. QED
      BY <3>3, <3>4, <3>5, <3>6, HeadStays, Zenon DEF ReaderAt
  <2>9. QED
    BY <1>1, <1>2, <2>2, <2>8, NoneIsNoHour, HeadStays, PrintableStays DEF ReaderOK, Hours
<1>3. CASE Ends("error")
  <2>1. decoding' = None /\ None \notin Hours
    BY <1>1, <1>3, NoneIsNoHour DEF Ends, Hours
  <2>2. printed' \in Seq(Printable')
    BY <1>1
  <2>3. QED
    BY <1>1, <2>1, <2>2 DEF ReaderOK, Hours
<1>4. QED
  BY <1>2, <1>3 DEF NewFileReader

(* A reader that prints a record prints the next one of the stream ...     *)
LEMMA ReaderPrints ==
    ASSUME Typed, ReaderOK, PrintRecord, More(decoding), UNCHANGED vars
    PROVE  ReaderOK'
<1>1. PICK h \in Hours : decoding = h
  BY DEF PrintRecord, Reading, ReaderOK
<1>2. /\ printed \in Seq(Printable) /\ More(h) /\ got' = 0 /\ decoding' = h
      /\ printed' = Append(printed, Stream(h)[at + 1])
      /\ at' = at + 1
  BY <1>1 DEF PrintRecord, Reading, ReaderOK
<1> DEFINE s == Stream(h)
           hd == <<Hdr>>
           p == printed
<1>3. Stream(h)' = s
  BY DEF vars, diskVars, Stream
<1>4. at = Len(p) + 1 /\ Len(p) \in Nat /\ at < Len(s) /\ Whole \in Seq(Items)
  BY <1>1, <1>2 DEF ReaderOK, ReaderAt, More
<1>5. Whole = p /\ p \in Seq(Items)
  <2>1. Whole = FirstItems(p, Len(p))
    BY <1>4 DEF Whole
  <2>2. QED
    BY <1>2, <1>4, <2>1, FirstOfThem
<1>6. PICK u \in Seq(Items) : s = (hd \o p) \o u
  BY <1>1, <1>5 DEF ReaderOK, ReaderAt
<1> HIDE DEF s
<1>7. /\ hd \o p \in Seq(Items)
      /\ Len(s) = Len(p) + 1 + Len(u) /\ Len(u) \in Nat
      /\ u # <<>> => s[Len(p) + 2] = Head(u)
  BY <1>5, <1>6, ReadPart
<1>8. u # <<>> /\ at + 1 = Len(p) + 2
  <2>1. Len(u) # 0
    BY <1>4, <1>7
  <2>2. QED
    BY <1>4, <2>1
<1>9. printed' = Append(p, Head(u)) /\ Head(u) \in Items /\ Tail(u) \in Seq(Items)
  BY <1>2, <1>7, <1>8 DEF s
<1> DEFINE x == Head(u)
           t == Tail(u)
<1>10. Append(hd \o p, x) \o t = (hd \o p) \o u
  <2> DEFINE a == hd \o p
  <2>1. a \in Seq(Items)
    BY <1>7
  <2> HIDE DEF a
  <2>2. Append(a, Head(u)) \o Tail(u) = a \o u
    BY <1>8, <2>1, MovesOver
  <2>3. QED
    BY <2>2 DEF a
<1>11. hd \o Append(p, x) = Append(hd \o p, x)
  <2>1. hd \in Seq(Items) /\ p \in Seq(Items) /\ x \in Items
    BY <1>5, <1>9, HeaderIsItem
  <2> HIDE DEF hd, p, x
  <2>2. QED
    BY <2>1, ConcatAppend
<1>12. Append(p, x) \in Seq(Items) /\ Len(Append(p, x)) = Len(p) + 1
  BY <1>5, <1>9
<1> HIDE DEF hd, x, t
<1>13. s = (hd \o Append(p, x)) \o t
  BY <1>6, <1>10, <1>11, Zenon
<1>14. Whole' = Append(p, x) /\ printed' = Append(p, x)
  <2>1. printed' = Append(p, x)
    BY <1>9 DEF x
  <2>2. at' - 1 = Len(printed')
    BY <1>2, <1>4, <1>12, <2>1
  <2>3. Whole' = FirstItems(Append(p, x), Len(Append(p, x)))
    BY <2>1, <2>2 DEF Whole, FirstItems
  <2>4. QED
    BY <1>12, <2>1, <2>3, FirstOfThem
<1>15. ReaderAt(h)'
  <2>1. Stream(h)' = (<<Hdr>> \o Whole)' \o t
    BY <1>3, <1>13, <1>14, HeadStays, Zenon DEF hd
  <2>2. at' = Len(printed') + 1 /\ Len(printed') \in Nat /\ got' # Fields
    BY <1>2, <1>4, <1>12, <1>14, FieldsAssumption
  <2>3. t \in Seq(Items) /\ Whole' \in Seq(Items)
    BY <1>9, <1>12, <1>14 DEF t
  <2>4. \E unread \in Seq(Items) : Stream(h)' = (<<Hdr>> \o Whole)' \o unread
    BY <2>1, <2>3
  <2>5. \A i \in at' .. Len(printed') : printed'[i] = Garbage
    BY <2>2
  <2>6. at' \in 1 .. Len(printed') + 1 /\ ~ (at' <= Len(printed')) /\ got' # Fields
    BY <2>2
  <2>7. QED
    BY <2>3, <2>4, <2>5, <2>6, HeadStays, Zenon DEF ReaderAt
<1>16. printed' \in Seq(Printable)
  BY <1>12, <1>14 DEF Printable
<1>17. QED
  BY <1>2, <1>15, <1>16, NoneIsNoHour, HeadStays, PrintableStays DEF ReaderOK, Hours

(* ... or, behind a cut that has a member behind it, one that is made up.  *)
LEMMA ReaderMakesUp ==
    ASSUME Typed, ReaderOK, PrintRecord, ~ More(decoding), UNCHANGED vars
    PROVE  ReaderOK'
<1>1. PICK h \in Hours : decoding = h
  BY DEF PrintRecord, Reading, ReaderOK
<1>2. /\ printed \in Seq(Printable) /\ ~ More(h) /\ got' = 0 /\ decoding' = h
      /\ result = "none" /\ got = Fields
      /\ printed' = Append(printed, Garbage) /\ at' = at
  BY <1>1 DEF PrintRecord, Reading, ReaderOK
<1>3. ReaderAt(h) /\ CutInside(h)
  BY <1>1, <1>2 DEF ReaderOK, ReaderAt
<1>4. /\ Garbage \in Printable /\ Append(printed, Garbage) \in Seq(Printable)
      /\ Len(printed) \in Nat /\ Len(printed') = Len(printed) + 1
      /\ \A i \in 1 .. Len(printed) : printed'[i] = printed[i]
      /\ printed'[Len(printed) + 1] = Garbage
  BY <1>2 DEF Printable
<1>5. Stream(h)' = Stream(h) /\ CutInside(h)' /\ ~ More(h)'
  BY <1>2, <1>3 DEF vars, diskVars, Stream, CutInside, More
<1>6. Whole' = Whole
  <2>1. at \in Nat /\ at - 1 \in 0 .. Len(printed)
    BY <1>3, <1>4 DEF ReaderAt
  <2>2. Whole' = FirstItems(Append(printed, Garbage), at - 1)
    BY <1>2 DEF Whole, FirstItems
  <2>3. QED
    BY <1>2, <1>4, <2>1, <2>2, FirstOfThem DEF Whole
<1>7. \A i \in at' .. Len(printed') : printed'[i] = Garbage
  <2>1. ASSUME NEW i \in at .. Len(printed) + 1
        PROVE  printed'[i] = Garbage
    <3>1. CASE i = Len(printed) + 1
      BY <1>4, <3>1
    <3>2. CASE i # Len(printed) + 1
      <4>1. at \in Nat /\ at >= 1
        BY <1>3, <1>4 DEF ReaderAt
      <4>2. i \in 1 .. Len(printed) /\ i \in at .. Len(printed)
        BY <1>4, <3>2, <4>1
      <4>3. printed[i] = Garbage
        BY <1>3, <4>2 DEF ReaderAt
      <4>4. QED
        BY <1>4, <4>2, <4>3
    <3>3. QED
      BY <3>1, <3>2
  <2>2. QED
    BY <1>2, <1>4, <2>1
<1>8. ReaderAt(h)'
  <2>1. \E unread \in Seq(Items) : Stream(h)' = (<<Hdr>> \o Whole)' \o unread
    BY <1>3, <1>5, <1>6, HeadStays DEF ReaderAt
  <2>2. at' \in 1 .. Len(printed') + 1 /\ Whole' \in Seq(Items) /\ got' # Fields
    BY <1>2, <1>3, <1>4, <1>6, FieldsAssumption DEF ReaderAt
  <2>3. QED
    BY <1>5, <1>7, <2>1, <2>2, HeadStays DEF ReaderAt
<1>9. QED
  BY <1>2, <1>4, <1>8, NoneIsNoHour, HeadStays, PrintableStays DEF ReaderOK, Hours

(* The reader's other steps print nothing.                                 *)
LEMMA ReaderGoesOn ==
    ASSUME Typed, ReaderOK, UNCHANGED vars,
           DecodeField \/ FormatPanics \/ DecodeFails \/ UNCHANGED decoderVars
    PROVE  ReaderOK'
<1>1. /\ decoding' = decoding /\ at' = at /\ printed' = printed
      /\ result' = "none" => result = "none"
      /\ decoding = None => got' = got
  BY DEF DecodeField, FormatPanics, DecodeFails, Reading, Ends, decoderVars
<1>2. ASSUME NEW h \in Hours, decoding' = h
      PROVE  ReaderAt(h)'
  <2>1. ReaderAt(h)
    BY <1>1, <1>2 DEF ReaderOK
  <2>2. Stream(h)' = Stream(h) /\ CutInside(h)' = CutInside(h)
    BY DEF vars, diskVars, Stream, CutInside
  <2>3. Whole' = Whole /\ More(h)' = More(h)
    BY <1>1, <2>2 DEF Whole, FirstItems, More
  <2>4. result' = "none" /\ got' = Fields => More(h) \/ CutInside(h)
    <3>1. CASE DecodeField
      <4>1. More(h) \/ CutInside(h) \/ got + 1 < Fields
        BY <1>1, <1>2, <3>1 DEF DecodeField
      <4>2. got' = got + 1
        BY <3>1 DEF DecodeField
      <4>3. QED
        BY <4>1, <4>2, FieldsAssumption
    <3>2. CASE ~ DecodeField
      BY <1>1, <2>1, <3>2 DEF FormatPanics, DecodeFails, Ends, decoderVars, ReaderAt
    <3>3. QED
      BY <3>1, <3>2
  <2>5. \E unread \in Seq(Items) : Stream(h)' = (<<Hdr>> \o Whole)' \o unread
    BY <2>1, <2>2, <2>3, HeadStays DEF ReaderAt
  <2>6. QED
    BY <1>1, <2>1, <2>2, <2>3, <2>4, <2>5, HeadStays DEF ReaderAt
<1>3. QED
  BY <1>1, <1>2, HeadStays, PrintableStays DEF ReaderOK

(* The writer's steps leave what the reader has read a beginning of the    *)
(* stream, and a cut behind which it makes things up where it is.          *)
LEMMA WriterGoesOn ==
    ASSUME Typed, Typed', FilesOK, ReaderOK, [Next]_vars, UNCHANGED decoderVars
    PROVE  ReaderOK'
<1>1. /\ decoding' = decoding /\ at' = at /\ printed' = printed
      /\ result' = result /\ got' = got /\ printed \in Seq(Printable) /\ Whole' = Whole
  BY DEF decoderVars, ReaderOK, Whole, FirstItems
<1>2. ASSUME NEW h \in Hours, decoding' = h
      PROVE  ReaderAt(h)'
  <2> DEFINE s == Stream(h)
             a == <<Hdr>> \o Whole
  <2>1. ReaderAt(h)
    BY <1>1, <1>2 DEF ReaderOK
  <2>2. PICK u \in Seq(Items) : s = a \o u
    BY <2>1 DEF ReaderAt
  <2>3. Grows(h)
    BY StreamsGrow
  <2>4. PICK w \in Seq(Items) : Stream(h)' = s \o w
    BY <2>3 DEF Grows
  <2>5. a \in Seq(Items) /\ s \in Seq(Items)
    BY <2>1, HeaderIsItem, ItemsTyped DEF ReaderAt
  <2>6. Len(Stream(h)') = Len(s) + Len(w) /\ Len(s) \in Nat /\ Len(w) \in Nat
    <3> DEFINE t == Stream(h)'
    <3>1. t = s \o w
      BY <2>4
    <3> HIDE DEF t, s
    <3>2. QED
      BY <2>5, <3>1 DEF t
  <2>7. at \in Nat /\ at' = at
    BY <1>1, <2>1 DEF ReaderAt
  <2>8. More(h) => More(h)'
    BY <2>6, <2>7 DEF More
  <2>9. CutInside(h) => CutInside(h)' /\ (More(h)' <=> More(h))
    BY <2>3, <2>7 DEF Grows, More
  <2> HIDE DEF s, a
  <2>10. a \o (u \o w) = (a \o u) \o w
    <3>1. Grouped(a, u, w)
      BY <2>5, ItemsConcat
    <3>2. QED
      BY <3>1 DEF Grouped
  <2>11. Stream(h)' = a \o (u \o w)
    BY <2>2, <2>4, <2>10, Zenon
  <2>12. u \o w \in Seq(Items)
    OBVIOUS
  <2>13. Stream(h)' = (<<Hdr>> \o Whole)' \o (u \o w)
    BY <1>1, <2>11, HeadStays, Zenon DEF a
  <2>14. at' <= Len(printed') => CutInside(h)' /\ ~ More(h)'
    BY <1>1, <2>1, <2>9 DEF ReaderAt
  <2>15. result' = "none" /\ got' = Fields => More(h)' \/ CutInside(h)'
    BY <1>1, <2>1, <2>8, <2>9 DEF ReaderAt
  <2>16. /\ at' \in 1 .. Len(printed') + 1 /\ Whole' \in Seq(Items)
         /\ \A i \in at' .. Len(printed') : printed'[i] = Garbage
    BY <1>1, <2>1 DEF ReaderAt
  <2>17. QED
    BY <2>12, <2>13, <2>14, <2>15, <2>16, HeadStays DEF ReaderAt
<1>3. QED
  BY <1>1, <1>2, HeadStays, PrintableStays DEF ReaderOK

DecoderOK == Typed /\ FilesOK /\ ReaderOK

(* The invariant of writer and reader together holds at the start,         *)
LEMMA DecoderOKInit == DecoderInit => DecoderOK
<1>1. DecoderInit => ReaderOK
  <2>1. <<>> \in Seq(Printable)
    OBVIOUS
  <2>2. QED
    BY <2>1, NoneIsNoHour DEF DecoderInit, ReaderOK, Hours
<1>2. QED
  BY <1>1, TypedInit, FilesInit DEF DecoderInit, DecoderOK

(* and after every step of either.                                         *)
LEMMA DecoderOKStep == DecoderOK /\ [DecoderNext]_allVars => DecoderOK'
<1> SUFFICES ASSUME DecoderOK, [DecoderNext]_allVars PROVE DecoderOK'
  OBVIOUS
<1>1. Typed /\ FilesOK /\ ReaderOK /\ [Next]_vars
  BY DEF DecoderOK, DecoderNext, allVars
<1>2. Typed' /\ FilesOK'
  BY <1>1, TypedStep, FilesStep
<1>3. ReaderOK'
  <2>1. CASE filePrint /\ UNCHANGED vars
    <3>1. CASE PrintRecord
      BY <1>1, <2>1, <3>1, ReaderPrints, ReaderMakesUp
    <3>2. CASE ~ PrintRecord
      BY <1>1, <2>1, <3>2, ReaderOpens, ReaderGoesOn DEF filePrint
    <3>3. QED
      BY <3>1, <3>2
  <2>2. CASE UNCHANGED decoderVars
    BY <1>1, <1>2, <2>2, WriterGoesOn
  <2>3. QED
    BY <2>1, <2>2 DEF DecoderNext, allVars
<1>4. QED
  BY <1>2, <1>3 DEF DecoderOK

-----------------------------------------------------------------------------
(* What is printed was encoded.                                            *)

(* The records the decoder has printed of a file that stand as written are *)
(* a beginning of what was encoded for it.                                 *)
LEMMA PrintedWasEncoded ==
    ASSUME DecoderOK, NEW h \in Hours, decoding = h
    PROVE  \E rest \in Seq(Items) : Encoded(h) = Whole \o rest
<1> DEFINE p == Whole
           c == Encoded(h)
           hd == <<Hdr>>
<1>1. p \in Seq(Items) /\ c \in Seq(Items) /\ c \in Seq(Entries) /\ hd \in Seq(Items)
  BY ItemsTyped, HeaderIsItem DEF DecoderOK, ReaderOK, ReaderAt
<1>2. PICK u \in Seq(Items) : Stream(h) = (hd \o p) \o u
  BY DEF DecoderOK, ReaderOK, ReaderAt
<1>3. PICK f \in Heads, r \in Seq(Items) : Stream(h) \o r = f \o c
  BY DEF DecoderOK, FilesOK, FileOK, Begins
<1> HIDE DEF p, c, hd
<1>4. hd \o p \in Seq(Items) /\ p \o u \in Seq(Items) /\ u \o r \in Seq(Items)
      /\ p \o (u \o r) \in Seq(Items)
  BY <1>1
<1>5. hd \o (p \o (u \o r)) = f \o c
  <2>1. Joined(hd, p \o (u \o r), (hd \o p) \o u, r)
    BY <1>1, PartsJoined
  <2>2. QED
    BY <1>2, <1>3, <2>1, Zenon DEF Joined
<1> DEFINE q == p \o (u \o r)
<1>6. Head(hd \o q) = Hdr /\ Tail(hd \o q) = q /\ hd \o q # <<>>
  <2>1. q \in Seq(Items)
    BY <1>4
  <2> HIDE DEF q
  <2>2. QED
    BY <2>1, HeaderIsItem, TailCons DEF hd
<1>7. f = hd
  <2>1. SUFFICES ASSUME f = <<>> PROVE FALSE
    BY DEF Heads, hd
  <2>2. <<>> \o c = c
    BY <1>1
  <2>3. hd \o q = c
    BY <1>5, <2>1, <2>2, Zenon
  <2>4. c # <<>> /\ Head(c) = Hdr
    BY <1>6, <2>3, Zenon
  <2>5. Head(c) \in Entries
    BY <1>1, <2>4
  <2>6. QED
    BY <2>4, <2>5, HeaderNoEntry
<1>8. Tail(hd \o c) = c
  BY <1>1, HeaderIsItem, TailCons DEF hd
<1>9. c = p \o (u \o r)
  BY <1>5, <1>6, <1>7, <1>8, Zenon
<1>10. QED
  BY <1>4, <1>9 DEF p, c

(* PrintsWhatWasEncoded: whatever the proxy writes, rotates, loses or      *)
(* starts anew in the meantime, and wherever a member has been cut, the    *)
(* output is a beginning of what was encoded for the file; records nobody  *)
(* encoded follow it only where a member has been appended behind a cut.   *)
THEOREM DecoderPrintsWhatWasEncoded == DecoderSpec => []PrintsWhatWasEncoded
<1>1. DecoderOK => PrintsWhatWasEncoded
  <2> SUFFICES ASSUME DecoderOK, decoding # None
               PROVE  \E n \in 0 .. Len(printed) :
                         /\ IsBeginning(FirstItems(printed, n), Encoded(decoding))
                         /\ \A i \in n + 1 .. Len(printed) : printed[i] = Garbage
                         /\ n < Len(printed) => CutInside(decoding)
    BY DEF PrintsWhatWasEncoded
  <2>1. PICK h \in Hours : decoding = h
    BY DEF DecoderOK, ReaderOK
  <2>2. PICK rest \in Seq(Items) : Encoded(h) = Whole \o rest
    BY <2>1, PrintedWasEncoded
  <2>3. ReaderAt(h) /\ printed \in Seq(Printable)
    BY <2>1 DEF DecoderOK, ReaderOK
  <2>4. IsBeginning(Whole, Encoded(decoding))
    <3>1. Whole \in Seq(Items)
      BY <2>3 DEF ReaderAt
    <3>2. IsBeginning(Whole, Whole \o rest)
      BY <3>1, LeftIsBeginning, Zenon
    <3>3. QED
      BY <2>1, <2>2, <3>2, Zenon
  <2> DEFINE n == at - 1
  <2>5. Len(printed) \in Nat /\ at \in Nat /\ n \in 0 .. Len(printed) /\ n + 1 = at
    BY <2>3 DEF ReaderAt
  <2>6. \A i \in n + 1 .. Len(printed) : printed[i] = Garbage
    BY <2>3, <2>5 DEF ReaderAt
  <2>7. n < Len(printed) => CutInside(decoding)
    BY <2>1, <2>3, <2>5 DEF ReaderAt
  <2>8. QED
    BY <2>4, <2>5, <2>6, <2>7 DEF Whole
<1>2. QED
  BY DecoderOKInit, DecoderOKStep, <1>1, PTL DEF DecoderSpec

-----------------------------------------------------------------------------
(* A clean end.                                                            *)

(* A decoder at the end of a finished file has printed all that was        *)
(* encoded for it.                                                         *)
LEMMA NothingLeft ==
    ASSUME DecoderOK, NEW h \in Hours, decoding = h, AtEOF(h), ~ More(h)
    PROVE  printed = Encoded(h)
<1>1. FileOK(h) /\ members[h] \in Seq(Members)
  BY DEF DecoderOK, Typed, TypeOK, FilesOK
<1>2. ~ Open(h)
  <2>1. SUFFICES ASSUME Open(h) PROVE FALSE
    OBVIOUS
  <2>2. members[h] # <<>>
    BY <2>1 DEF Open, DecoderOK, Typed, BegunOK
  <2>3. Len(members[h]) \in DOMAIN members[h]
    BY <1>1, <2>2
  <2>4. QED
    BY <1>1, <2>1, <2>3 DEF FileOK, AtEOF
<1>3. ReadsOn(h) /\ Pending(h) = <<>> /\ ~ CutInside(h)
  <2>1. \A i \in 1 .. Len(members[h]) : members[h][i].sealed
    BY <1>1 DEF AtEOF
  <2>2. ~ CutInside(h)
    BY <1>1, <2>1 DEF CutInside
  <2>3. QED
    BY <1>2, <2>1, <2>2 DEF ReadsOn, Sealed, Pending, Open, DecoderOK, FilesOK
<1>4. printed = Whole /\ at = Len(printed) + 1 /\ printed \in Seq(Items)
  <2>1. at = Len(printed) + 1 /\ Len(printed) \in Nat /\ Whole \in Seq(Items)
    BY <1>3 DEF DecoderOK, ReaderOK, ReaderAt
  <2>2. Whole = FirstItems(printed, Len(printed)) /\ printed \in Seq(Printable)
    BY <2>1 DEF Whole, DecoderOK, ReaderOK
  <2>3. QED
    BY <2>1, <2>2, FirstOfThem
<1> DEFINE p == printed
           c == Encoded(h)
           s == Stream(h)
           hd == <<Hdr>>
           none == <<>>
<1>5. /\ p \in Seq(Items) /\ c \in Seq(Items) /\ c \in Seq(Entries) /\ hd \in Seq(Items)
      /\ s \in Seq(Items)
  BY <1>4, ItemsTyped, HeaderIsItem DEF DecoderOK
<1>6. PICK u \in Seq(Items) : s = (hd \o p) \o u
  BY <1>4 DEF DecoderOK, ReaderOK, ReaderAt
<1>7. at = Len(p) + 1 /\ ~ (at < Len(s))
  BY <1>4 DEF More
<1>8. PICK f \in Heads : s \o none = f \o c
  BY <1>1, <1>3 DEF FileOK, Reads
<1> HIDE DEF p, c, s
<1>9. s \o none = s
  BY <1>5
<1> HIDE DEF none
<1>10. u = <<>>
  <2>1. Len(s) = Len(p) + 1 + Len(u) /\ Len(u) \in Nat /\ Len(p) \in Nat
    BY <1>5, <1>6, ReadPart
  <2>2. Len(u) = 0
    BY <1>7, <2>1
  <2>3. QED
    BY <2>2
<1> HIDE DEF hd
<1>11. hd \o p = f \o c
  <2>1. (hd \o p) \o <<>> = hd \o p
    <3> DEFINE a == hd \o p
    <3>1. a \in Seq(Items)
      BY <1>5
    <3> HIDE DEF a
    <3>2. a \o <<>> = a
      BY <3>1
    <3>3. QED
      BY <3>2 DEF a
  <2>2. QED
    BY <1>6, <1>8, <1>9, <1>10, <2>1, Zenon
<1>12. Head(hd \o p) = Hdr /\ Tail(hd \o p) = p /\ hd \o p # <<>>
  BY <1>5, HeaderIsItem, TailCons DEF hd
<1>13. f = hd
  <2>1. SUFFICES ASSUME f = <<>> PROVE FALSE
    BY DEF Heads, hd
  <2>2. <<>> \o c = c
    BY <1>5
  <2>3. hd \o p = c
    BY <1>11, <2>1, <2>2, Zenon
  <2>4. c # <<>> /\ Head(c) = Hdr
    BY <1>12, <2>3, Zenon
  <2>5. Head(c) \in Entries
    BY <1>5, <2>4
  <2>6. QED
    BY <2>4, <2>5, HeaderNoEntry
<1>14. Tail(hd \o c) = c
  BY <1>5, HeaderIsItem, TailCons DEF hd
<1>15. p = c
  BY <1>11, <1>12, <1>13, <1>14, Zenon
<1>16. QED
  BY <1>15 DEF p, c

(* CleanEndMeansAll: filePrint returns nil only when it has printed every  *)
(* record encoded for the file so far, so that a cut never passes for the  *)
(* end of the log.                                                         *)
THEOREM CleanEndsAreComplete == DecoderSpec => CleanEndMeansAll
<1>1. DecoderOK /\ [DecoderNext]_allVars
      => [result # "nil" /\ result' = "nil" => printed' = Encoded(decoding)]_allVars
  <2> SUFFICES ASSUME DecoderOK, [DecoderNext]_allVars, result # "nil", result' = "nil"
               PROVE  printed' = Encoded(decoding)
    OBVIOUS
  <2>1. DecodeFails
    BY DEF DecoderNext, allVars, decoderVars, filePrint, NewFileReader, DecodeField,
           PrintRecord, FormatPanics, Ends
  <2>2. AtEOF(decoding) /\ ~ More(decoding) /\ printed' = printed /\ decoding # None
    BY <2>1 DEF DecodeFails, Ends, Reading
  <2>3. PICK h \in Hours : decoding = h
    BY <2>2 DEF DecoderOK, ReaderOK
  <2>4. printed = Encoded(h)
    BY <2>2, <2>3, NothingLeft
  <2>5. QED
    BY <2>2, <2>3, <2>4
<1>2. QED
  BY DecoderOKInit, DecoderOKStep, <1>1, PTL DEF DecoderSpec, CleanEndMeansAll
=============================================================================
