# A TLA+ model of mysql8-audit-proxy

mysql8-audit-proxy stands between MySQL clients and MySQL servers. It forwards
what a client sends, keeps a compressed audit log of it, and serves a small
"user table" that says which login goes to which server with which password.
These modules model the program from its Go source (`src/`), check the models
with TLC on small instances, and prove with TLAPS, for every size, all their safety
properties but one.

Contents: 1 the system, 2 the modules, 3 the runs, 4 fairness, 5 the proofs,
6 the findings, 7 assumptions and what is left out, 8 the plan.

## 1. The system

### Inventory

| Component | Source | State it keeps | Operations |
|---|---|---|---|
| **Session worker** | `pkg/mysqlproxy/sendtask.go` | the buffer it fills (`sp`), its place in the loop | `Worker`, `writeBufferAndSend`, `sendState` |
| **Buffer pool, channel** | `sendtask.go`, `log/auditlogwriter.go` | `dataPool`, `dataChannel` (1000 slots), closed or not | `GetSendPacket`, `PutSendPacket`, `PushToLogChannel`, `CloseChannel` |
| **Log writer** | `log/auditlogwriter.go` | the record being encoded | `LogWriteWorker`, `receiveAndWrite`, `writeDataToFile` |
| **Log files** | `log/auditlogwriter.go`, `log/log.go` | `file`, `gzipWriter`, the files on disk | `createFile`, `closeFile`, the ticker's rotation |
| **Log decoder** | `log/filereader.go`, `sendpacket/`, `cmd/mysql8-audit-log-decoder` | its place in a file | `NewFileReader`, `filePrint`, `formatPacket` |
| **Process, accept loop** | `main.go`, `proxysrv.go` | `ctx`, the listener, two goroutines in a WaitGroup | listen, accept, interrupt, `CloseChannel`, `cancel`, exit |
| **User table** | `serverconfig/serverconfig.go`, `userprovider.go` | `config.json`, the shared `serverIndex` and `mu` | `GetConfig`, `Insert`, `Update`, `Delete`, `Select`, `GetPassword`, `PutConfig` |
| **Administrator's SQL** | `serverconfig/sqlparse.go` | `ParsedQuery`: flat lists of columns and values | `Enter`, `Leave`, `columnsToConfig`, `whereColumnsToConfig`, ... |
| **Administrator's session** | `serverconfig/confighandler.go` | `res`, `err`, `db`, kept from statement to statement | `HandleQuery`, `UseDB` |
| **Session setup** | `proxysrv.go`, `userprovider.go` | target user, address, credentials | `sessionWorker`, `getTargetInfo`, `ConnectToMySQL` |
| **Relay** | `clntsess.go`, `timeoutnet/`, `sendtask.go` | parent and child contexts, deadlines | `Proxy`, `TimeoutReader`, `TimeoutWriter` |
| Certificates, packaging, test client | `generatepem/`, `pack/`, `test/` | none | not part of the program's logic |

### How the parts interact

`main` starts two goroutines: the accept loop (`ProxySrv.Start`) and
`LogWriteWorker`. Every accepted connection becomes a goroutine,
`sessionWorker`: it authenticates the client against the user table, then either
serves an administrator (statements go through the parser and the visitor of
`sqlparse.go` to the `Manager`) or connects to the target and starts the two
directions of a proxy session. The direction from client to target is
`SendTask.Worker`. It takes a `*SendPacket` from a `sync.Pool`, reads a packet
into it, writes the packet to the target, pushes the pointer on the channel and
forgets it. The log writer takes the pointer off, encodes the record through
gzip into the current file, and puts the buffer back in the pool. So one buffer
passes between any two sessions and the writer with no lock but the channel's
and the pool's.

The stop is the other interaction. `os.Interrupt` cancels `ctx`; the accept loop
ends; its goroutine then closes the channel, while sessions may still be
pushing, and cancels `pctx`. `main` waits for its two goroutines and for no
session.

### What is hard here

* the hand-over of buffers between goroutines (who may write in it, and when);
* a `select` with several ready cases at every push and every turn of the writer;
* the order of the stop: cancel, close, drain, the deferred records of sessions;
* errors that stick: `compress/gzip` repeats its first error for ever,
  `closeFile` returns before it resets anything, `createFile` leaves nil;
* the log over several lives of the process: members without trailer, files
  without header, a second member in one file;
* a `Manager` that many goroutines share: each call has a `Config` of its own but
  all rebuild one index, `insert` writes a map under a read lock, and the file is
  truncated before it is written, perhaps between two reads of another call;
* errors that count as the ordinary case: a `config.json` that cannot be opened is
  taken for one that is not there;
* reads cut anywhere by deadlines, a stop that reaches a parent context before its
  child, two directions that end each other;
* a decoder that may read a file which is still written, or was cut;
* statements flattened to lists, where the meaning of a WHERE clause depends on
  the order in which the parser's tree is visited.

`PROJECT.json` lists each hazard at its line with the properties that watch it.

### What makes each component correct

* *Pipeline*: a buffer has one owner; a session's log is a beginning of connect,
  packet 1, packet 2, ..., disconnect; what a target received is in the log or on
  its way there; a stop ends the process.
* *Files and decoder*: what was encoded can be decoded, in order, without gaps;
  nothing readable becomes unreadable; files are rotated.
* *User table*: statements are atomic and durable before they are acknowledged,
  as long as the file can be opened; no account gets another's password, as long as
  nobody writes the file while it is read; callers do not block each other.
* *SQL*: a statement does what it says or is refused; the answer to a change is
  about that change.
* *Session setup*: a session goes to the server its login names, as the user it
  names, with the password of the account it was authenticated for.
* *Relay*: each peer gets a beginning of what the other sent; the log has what
  the target has; when one direction ends both do, and the connections are closed
  after that.

## 2. The modules

```
AuditTrail  <--refines--  AuditPipeline  --uses-->  AuditSink  <--refines--  LogFile
UserTable   <--refines--  ConfigStore                                           ^
                               ^                                             extends
                            extends                                             |
                          SessionSetup          Relay       AdminSQL        LogDecoder
```

For a component `X` there is `X.tla` (state and actions), `XProperties.tla` (what
must hold), `MCX.tla` with its `.cfg` files (instances for TLC) and `XProofs.tla`; the
proofs about `LogDecoder` stand with those about the files it reads, in
`LogFileProofs`. `UserTableProofs` has the refinement of `UserTable` by
`ConfigStore`. `Selections` is the selection of elements of a sequence as a
recursive function, used wherever one component filters a list and a proof must
say what remains; `SequenceLemmas` has what the proofs need of sequences and
recursion. In the component modules a definition whose name begins
with `Slip` is *not* the code: it is a plausible mistake in the definition that
follows it (a dropped assignment, a swapped order, an extra case). Each one,
put in the place of the real definition, makes TLC report a violation of the
property that `PROJECT.json` names beside it.

**AuditPipeline** has one action per step between two points at which another
goroutine can be seen.

| In the model | In the code |
|---|---|
| `spc[s]`, `hand[s]` | where `sessionWorker`/`Worker` is; `sp` |
| `buf[b]`, `pool`, `Unreferenced(b)` | `*SendPacket`, `sync.Pool`; what `dataPool.New` may return, garbage included |
| `chan`, `closed` | `dataChannel` |
| `wpc`, `wbuf` | `LogWriteWorker` and `receiveAndWrite`; `data` |
| `Connect`, `PushConnect`, `Disconnect`, `PushDisconnect` | `sendState` before and at its push |
| `LoopGets`, `ReadPacket`/`ReadEnds`, `Forward`/`WriteFails`, `PushPacket`/`PushPacketFails`, `Finish` | the loop of `Worker` and its deferred function |
| `Sent`, `Cancelled`, `SendPanics` | the cases of `PushToLogChannel`'s select |
| `WriterCheck`, `WriterCancelled`, `WriterReceive`, `WriterDrained`, `WriterTick`, `WriterEncode`, `WriterPanics`, `WriterEnds` | the two selects, `writeDataToFile` with its Put, a nil `gzipWriter`, the deferred `closeFile` |
| `Listen`, `ListenFails`, `AcceptEnds`, `CloseChannel`, `Cancel`, `Interrupt`, `Exit` | `ProxySrv.Start`, the goroutines of `main`, `signal.NotifyContext`, `wg.Wait` |

A record is whose it is, its `State` field and the number of the packet in it.
A pooled buffer keeps what it held, so a missing reset shows.

**AuditTrail** is the pipeline's promise: submitted records are written
unchanged, once, in order, until the log breaks.
**AuditSink** is the log file as the writer sees it: `open`, `broken`, `none`,
with the outcomes `closeFile`, `createFile` and an encoding may have.

**LogFile** is the real file: gzip members with the items that reached the disk,
whether the trailer did, what gzip still holds, the clock's hour that names the
file, kill, restart, failed writes at any point. A rotation names the file after
the time of its tick (auditlogwriter.go:124, 129), which may have waited in the
ticker's channel while the hour went by: `tick`, between `since`, when the tick
before it was received, and `now`. `StreamOf` is what gzip's reader gets of a list of
members that stands as it was written: it goes on to the next one only behind a
trailer. `Decoded(h)` is the part of that behind a version header. It implements
`AuditSink`.

**LogDecoder** is `mysql8-audit-log-decoder` at work on one of those files,
composed with `LogFile`: between any two of its reads the proxy may write, rotate,
die or start again. `NewFileReader` opens a file and checks the version header; a
file with nothing else may be refused, since gzip may return `io.EOF` with the
header's bytes and `checkFormat` takes any error for a failure (log.go:17-20).
`DecodeField` reads the next field into the `SendPacket` all records share,
`PrintRecord` prints it when all fields are there; `DecodeFails` is the error of a
read, which `filePrint` takes for the end of the log only when it is `io.EOF`;
`FormatPanics` is the slice of length -1 in `formatPacket`. Has a member been appended
behind one that was cut (`CutInside`), deflate goes on over its bytes: the record at
the cut may be completed and others follow it, none of which was ever encoded.
`Garbage` stands for each of those.

**ConfigStore** is `serverconfig.Manager` with every call split where another
goroutine can act: the two rebuilds of the index, the reads of the file, the
section under `mu.RLock`, the truncation and the write. `GetConfig` may go five ways:

| In the model | In the code |
|---|---|
| `ReadFile` | the file is missing (serverconfig.go:90-92), does not parse (94-96), or is read to the end of its text at once |
| `OpenFails` | `os.Open` fails on a file that is there, for want of a descriptor or of the right to read it: the default configuration, as for a missing one (90-92); `sight` is "blind" |
| `ReadPart`, `ReadRest` | a text longer than the 512 bytes `json.Decoder` reads first (94), with no write of the file in between |
| `ReadPart`, `ReadTorn` | another call has truncated or written the file in between (112-117, `Torn`), and the first part of the old text and the rest of the new one parse: any of `Splices` |
| `ReadPart`, `ReadBroken` | the two do not parse: the default |

`Splices` are rows of the old text, perhaps one row joined of both, and the rows that
follow in the new one. The joined row (`Joined`) has the name of either and the other's
password, or one that was cut. The Key stands at the end of the text and comes from the
new one; so the rows of the old text may all have become unreadable, which is the
password `Garbled`. `mixed` remembers that a call has put two texts together. From then
on a login may find a password that is shorter than a nonce (`DecryptPanics`) and a
change a Key that AES refuses (`EncryptFails`). The parameter `Clients`
is one goroutine in the runs about a single administrator and two in those about
overlaps; `AloneSpec` leaves out what needs a second goroutine, the crashes and the
reads of two texts with what follows from them (`IndexIsOfConfig`). The loop of
`update` is the recursive function in `UpdateLoop`, one turn of it `UpdateRow`: it goes
by the shared index, and without WHERE over rows that earlier turns have changed.

**UserTable** is the atomic, durable table `ConfigStore` promises to one caller,
with what a cut-short write may cost (the table falls back to the initial
administrator), what a rename does to the stored password (it is encrypted once more;
`enc` counts), and the weaker promise for a table that is there and cannot be opened
(`blind`): the statement goes by the default table, and a change puts what it makes of
that in the place of the table.

**SessionSetup** is `sessionWorker` between the handshake and the relay, composed
with `ConfigStore`: `Handshake` is the library's call of `GetCredential`,
`Authenticated` takes the login apart (`getTargetInfo`, `getUserPass`, `addPort`),
`Lookup` and `Fetched` are the second call of `GetCredential`, for a login without
a password in it, `Administers` is `HandleCommand`. Names are sequences of words
and separators; `Readings` of `SessionSetupProperties` puts them together from their
parts, without the code's splitting. `proven` and `touched` are history: the row the
client was authenticated with, and whether its session may not have seen one file all
the time, because it was written since, could not be opened or was read in two halves.

**Relay** is one session from `Proxy` to the end, at the size of the units a read
may return. `up` is where `Worker` is, `dn` the goroutine of `io.Copy`; `ctx` and
`cctx` are the two contexts. Its client's units are numbered, and 0 (`Stale`) is
what a pooled buffer held before, so a unit that is lost, repeated, moved or not
the client's shows in `out`, `logged` or `back`.

| In the model | In the code |
|---|---|
| `LoopEnds`, `LoopGets`, `Push` | the loop of `Worker` |
| `ReadStarts`, `ReadData`, `ReadTimesOut`, `ReadFails`, `PartEnds` | `TimeoutReader.Read` and the switch of `readFullMysqlPacket`, for the header and then for the data |
| `WriteStarts`, `Write`, `WriteFails` | `TimeoutWriter.Write`: its look at `cctx`, then the connection's `Write` |
| `CopyReadStarts` ... `CopyWriteFails` | `TimeoutReader.WriteTo` |
| `Leave`, `CopyLeaves`, `CloseTarget`, `CloseClient` | `cancel`, `wg.Wait`, `TargetMysql.Close`, the deferred closes of `sessionWorker` |
| `Stop`, `Propagate` | an interrupt closes `ctx.Done()`; its child is cancelled a moment later |

**AdminSQL** visits a statement node by node as `ParsedQuery.Enter`/`Leave` do
and turns the lists into rows; around that, `configHandler` keeps `res` and `err`
from one statement to the next and answers with them. A statement begins with
what an earlier one left. An INSERT has rows of any lengths, as the parser accepts
them; what the visitor gets of them is one list (`Values`). `AdminSQLProperties` gives
the statements their meaning (`Holding`, `InsertMeans`, `UpdateMeans`, `SelectMeans`)
independently of the lists.

## 3. The runs

| Run | Instance | Shows |
|---|---|---|
| `pipeline` | 2 sessions, 3 buffers, 1 slot, 1 packet each | `TypeOK`, `ExclusiveBuffers`, `WellFormedTrail`, `NoOperationUnaudited`, `CrashCause`, `ImplementsTrail` for interleaved sessions |
| `pipeline_live` | 1 session, 3 buffers, 2 slots, 2 packets, `LiveSpec` | `ShutdownCompletes`, `EventuallyLogged`, `EventuallyDisconnected`; `WellFormedTrail` and `ImplementsTrail` for a longer trail and a channel longer than one |
| `logfile` | 2 hours, 3 records of 2 fields, 4 openings, a decoder that makes up at most 2 records | `TypeOK`, `CleanFilesDecode`, `DecodedOnlyGrows`, `ImplementsSink` of the files; `PrintsWhatWasEncoded` and `CleanEndMeansAll` of the decoder |
| `user_table` | 1 caller, 5 calls out of 15, `AloneSpec` | `TypeOK`, `IndexIsOfConfig`, `ImplementsUserTable` |
| `user_table_overlap` | 2 sessions, a client's and an administrator's or any other pair, 3 calls out of 4 statements and 4 logins | `SessionsGoWhereTheirLoginSays`, `PasswordsStayWithTheirUsers`, `AcknowledgedChangesAreWhole`, `CallersWaitForRunners` |
| `admin_sql` | every statement of a grammar with two levels of WHERE, after any earlier answer | `TypeOK`, `PlainStatementsAreObeyed`, `UnclearStatementsAreRefused`, `AnswersAreTrue` |
| `relay` | packets of 3 and 1 units (header 1), reads of any size, 2 answers, `LiveSpec` | `TypeOK`, `EveryPacketFits`, `TargetGetsStream`, `LoggedIsForwarded`, `ClientGetsStream`, `ClosedLast`, `SessionEnds`, `EveryPacketForwarded`, `AnswersArrive` |
| `exit_loses_records`, `restart_unreadable`, `rotation_stops`, `user_table_race`, `where_misread` | small | one finding each (section 6) |

### The bounds, and why they are enough

* *Sessions, buffers.* Two sessions and the writer are the three parties that can
  share a buffer. Three buffers let each hold one; a fourth adds no new sharing,
  and the proofs cover any number. Sessions and buffers are symmetric; symmetry
  is used in the runs without liveness properties.
* *Channel.* One slot makes "full" ordinary; two, in `pipeline_live`, make the
  order of queued buffers matter.
* *Packets.* `MaxPackets` bounds a session. With its two state records a session
  of two packets sends four records through two slots.
* *Log files.* Two hours, four openings and three records give: two members in
  one file, a rotation, a failed member followed by a good one, a kill with
  records in the buffer, and a second file. Two fields let a cut fall between
  records and inside one. One record made up behind a cut and then another, perhaps with
  the proxy writing in between, are all the ways there are to go on (`MaxGarbage`).
* *User table.* Five calls are enough to insert, rename into a twin, update it,
  delete it and look. The statements name four users, one of which is a pattern
  that matches another's name. With two sessions three calls overlap with the
  truncation and the write of one in the other's two reads, and one call is left to
  read what a torn read has written back. A file is read in at most two parts; a third
  (from 1536 bytes on) would join three texts, which `mixed` says as well.
* *Relay.* A header of one unit and a largest body of two give a packet that comes
  in one, two or three reads and one that has no data; four units are two packets
  of those kinds, and more. `Chunk` is two, so an answer may fill a buffer or not.
* *SQL.* WHERE clauses are up to two comparisons (`=`, `<>`, or a `match` node
  such as LIKE or IN) joined by AND or OR, or one under NOT, over both columns
  and four values; INSERTs have up to two rows of one to three values for none
  to two columns, an unknown one included.

Deadlock is checked everywhere except in `admin_sql` and its finding, where a
statement that has been answered is the end of the behaviour. `Ended` in
`AuditPipeline` and `Down` in `LogFile` are the process that is over and nobody
starts again, `Over` in `Relay` the session that is.

## 4. Fairness

`AuditPipeline!LiveSpec`. The Go scheduler runs every goroutine that can run:
weak fairness of the writer, of the accept goroutine, of `Exit`, and of what a
session does without its client. A select chooses among ready cases at random,
so `WriterReceive`, which is ready again and again beside the ticker, is taken:
strong fairness. Senders blocked on a channel are woken in the order they came:
strong fairness of `Push(s)`. Nothing is assumed of clients and targets: a
session may read for ever, and `Accept`, `ReadPacket` and `ReadEnds` are not fair.

`LogFile!TickingSpec`. The ticker fires again and again and the writer's select
takes it at some time: weak fairness of the rotation's steps.

`ConfigStore` and `SessionSetup` state no fairness. That a call of the `Manager` is
answered is argued from a safety property: `CallersWaitForRunners` says that a call
either has a next step or waits at `mu` for one that holds it and has; the steps of a
call are finitely many, and `sync.RWMutex` lets a waiting writer pass before readers
that come later. Clients, targets and handshakes have no deadline, and nothing is said
of them.

`Relay!LiveSpec`. Every read and write has a deadline, so a direction that runs
always comes to its next step: weak fairness of each of the two, and of the
cancellation of a child context. Nothing is assumed of the peers, who may be
silent for ever; a `Push` that waits for the log's channel moves because the
writer does (`EventuallyLogged`).

## 5. The proofs

Every theorem holds for every value of the constants that these assumptions allow.
TLC evaluates them in the runs.

| Module | Assumptions |
|---|---|
| `AuditPipeline` | `CapAssumption`: the channel has a slot; `MaxPacketsAssumption`: the bound is a natural number; `NoneAssumption`: nil is neither a buffer nor a session |
| `LogFile`, `LogDecoder` | `LogBounds`: there is an hour, the bounds are natural numbers; `NoneIsNoHour`; `FieldsAssumption`: a record has a field; `GarbageAssumption`: a record that is made up is none that was encoded |
| `ConfigStore` | `TableAssumption`: the initial administrator and password are among the users and passwords, no value is none of them, `Garbled` is a password that is not the initial one, the bound is a natural number; `StatementsAssumption`: the fields of the calls have their types, an INSERT's passwords are encrypted before they are stored, and none is what an unreadable one stands for |
| `SessionSetup` | `WordsAssumption`: what stands between the separators of a login is not a separator; `FirstRowsAssumption`: `config.json` at the start is one that calls may have left |
| `AdminSQL` | `ClausesAssumption`: a WHERE clause is a finite tree, that is, `Nesting` gives each a depth greater than its parts'; `StatementsAssumption`: SET has a value for every column and INSERT rows and no WHERE, as in SQL's grammar; `TableAssumption`: rows have a user and a password |
| `Relay` | `RelayAssumption`: the sizes are natural numbers, a header has at least one unit and announces at most `MaxBody` |

| Theorem | Module | Says |
|---|---|---|
| `TypeCorrect` | `AuditPipelineProofs` | `TypeOK`, and program counters agree with the buffers held |
| `BuffersAreExclusive` | `AuditPipelineProofs` | a buffer is never in two places |
| `CrashesExplained` | `AuditPipelineProofs` | the process panics for no reason but the two of `CrashCause` |
| `NothingUnaudited` | `AuditPipelineProofs` | while the proxy serves, what a target has received is in the log or on its way there |
| `TrailsAreWellFormed` | `AuditPipelineProofs` | the log of a session is a beginning of connect, its packets in order, disconnect |
| `PipelineImplementsTrail` | `AuditPipelineProofs` | the pipeline implements `AuditTrail` |
| `LogFileTypeCorrect` | `LogFileProofs` | `TypeOK` of `LogFile`: `file` and `gzipWriter` are nil together |
| `LogFileImplementsSink` | `LogFileProofs` | `LogFile` implements what `AuditPipeline` assumes of its log file |
| `CleanFilesAlwaysDecode` | `LogFileProofs` | a file that no kill and no failed write touched decodes to what was encoded, less what gzip holds |
| `DecodedNeverShrinks` | `LogFileProofs` | no step takes back what could be decoded |
| `DecoderPrintsWhatWasEncoded` | `LogFileProofs` | the decoder prints a beginning of what was encoded; made-up records follow it only where a member stands behind a cut |
| `CleanEndsAreComplete` | `LogFileProofs` | a decoder that ends without an error has printed all of it and nothing made up |
| `TypeCorrect` | `ConfigStoreProofs` | `TypeOK` of `ConfigStore`: nothing is stored in plain text |
| `PasswordsStay` | `ConfigStoreProofs` | no overlap of calls joins one user's name and another's password, unless a call has read two halves of different texts |
| `ChangesAreWhole` | `ConfigStoreProofs` | an acknowledged INSERT or DELETE is on file as a whole |
| `OneCallersIndex` | `ConfigStoreProofs` | the index is that of a lone caller's rows, and no UPDATE of its panics |
| `StoreImplementsUserTable` | `UserTableProofs` | used by one caller, the store implements `UserTable`, failing opens included |
| `SessionsKeepPasswords`, `SessionChangesAreWhole` | `SessionSetupProofs` | the two of `ConfigStore`, below sessions that log in and administer |
| `SessionsConnectWell` | `SessionSetupProofs` | a session goes to the user, host and port its login names, with an account it stands for or none, the very one it proved to be if it saw one file |
| `StatementsAreTyped` | `AdminSQLProofs` | `TypeOK` of `AdminSQL`: a statement is answered after its last node, and a WHERE that was entered is left |
| `PlainStatementsStayObeyed` | `AdminSQLProofs` | a plain statement does what it says, in whatever order its parts are visited |
| `UnclearStatementsStayRefused` | `AdminSQLProofs` | other comparisons, unknown columns and a number of values that is no multiple of the columns' are refused, under any WHERE |
| `AnswersStayTrue` | `AdminSQLProofs` | the answer to a change is about that change |
| `RelayTypeCorrect`, `PacketsFitTheirBuffers` | `RelayProofs` | `TypeOK` of `Relay`; no packet is longer than a pooled buffer |
| `TargetGetsTheStream` | `RelayProofs` | the target's connection took the client's bytes in order, but for one last packet of a stop |
| `LogFollowsTheTarget` | `RelayProofs` | the log has what the target has, but for the packet in hand |
| `ClientGetsTheStream` | `RelayProofs` | the client's connection took the target's bytes in order |
| `ConnectionsCloseLast` | `RelayProofs` | no connection is closed under a direction that is at work |

`OneCallersIndex` and `StoreImplementsUserTable` assume that there is one client; the
run `user_table_race` shows why. The two about `ConfigStore` alone that the table
repeats for sessions rest on one invariant, stated for any set of calls.

The line of argument for the pipeline:

* `Typed == TypeOK /\ HandsOK` is inductive. `HandsOK` says at which program
  counters a session or the writer holds a buffer; without it nobody can tell
  that a push sends a buffer and not nil.
* `ExclusiveBuffers` is inductive beside `Typed`. Its proof has a lemma for each
  way a buffer can move: taken from the pool (or allocated), sent, let go,
  received, put back. The lemma about taking rests on `Unreferenced`: what the
  pool does not hold and the allocator returns is referred to by nobody.
* `LifeOK` explains `CrashCause`: no session exists before the listener does, and
  the channel is closed only after the accept loop ended, hence after `ctx`.
* `NoOperationUnaudited` is not inductive: that the record pushed *is* the packet
  forwarded last must be known before the push. `FilledOK` says what the buffer
  in a session's hand holds while it reads, writes and pushes. Exclusiveness
  keeps it true: no other goroutine writes in that buffer. The four `Way` lemmas
  then follow a record from the hand to the channel, the writer and the log, and
  `ServedBefore` says that a failed log, a cancelled `ctx` and an ended process
  stay so.
* For the refinement the abstract `pending` is the writer's buffer, if it has
  one, followed by the channel, each replaced by its contents. A send is
  `Submit`, an encoding `Commit`, a failing one `Discard`, and the first failure
  of the file at a rotation `Break`; `ExclusiveBuffers` makes every other step a
  stutter, since no step writes in a buffer that is pending.
* `WellFormedTrail` speaks of the log; its invariant, `StagesOK`, of the log followed
  by what is pending: `Journey(s)`, the part of it that session `s` pushed. Each
  stage of a session says what its journey is (`StageOK`): nothing before the
  connect record, `Told(s, n)` in the loop. A send appends to it, the writer only
  moves the line between log and pending, and once a failed log has dropped a
  record no stage says anything: then the log does not grow any more.

What recursive functions compute is proved by induction over lengths, as a statement
about sets (`Induction` and `SeqInduction` of `SequenceLemmas`): the library's
induction theorems have an operator as parameter. `Iteration` gives a recursion on
`0 .. n` its solution and `IterationUnique` says it is the only one; from them
come the recursions of `Selected`, `StreamOf` and `UpdateLoop`.
An equation between sequences that a proof instantiates stands behind a name
(`Grouped`, `Joined`, `Alike`, `Selects`, `Longer`): a proof cites the lemma in one
step and expands the name in the next, and every leaf stays well inside the provers'
default time.

For `LogFile`: `TypeOK` is inductive beside
`BegunOK` (a member that gzip has begun exists in the file; a process that is
down or between `closeFile` and `createFile` has no gzip writer), and every
action is one of `AuditSink`'s or leaves `SinkState` and `log` as they are.

`CleanFilesDecode` is not inductive: what a reader gets of a file depends on all its
members. `FilesOK` says of each file whether a reader comes to the place where gzip
writes next (`ReadsOn`); if it does, what it gets followed by what gzip holds is the
header and all that was encoded (`Reads`), if not, what it gets is a beginning of
that (`Begins`). A clean file is always read on, a cut one never again, which is also
why no step takes anything back.

For `LogDecoder`, whose steps are the proxy's or its own: `ReaderOK` says that the
header and the printed records before the reader's place (`Whole`) are what the stream
begins with, and that all it has printed since is made up, behind a cut with a member
after it. `Grows` keeps that true under every step of the proxy: a stream only gets
longer, and where a member stands behind a cut neither the cut nor the stream changes
any more (`CutKept`), so no encoded record can follow a made-up one. A clean
end is possible only where the reader has come to the end of the last member, behind
its trailer; by `FilesOK` that stream is all that was encoded.

For `ConfigStore`:

* `StoreOK` types every row, on file, in a caller's hands or in an answer, with
  `Owned`: a name and a password that `MayHave` allows. `MayHave` is a closure (of who
  may come to have a password, by the statements), so an UPDATE that writes where a
  stale index leads keeps it as long as it writes the row it read. A read of two texts
  does not keep it, so `Owned` is claimed as long as no call has made one (`mixed`); that
  rows are typed is claimed of every splice.
* `WholeOK` says what a caller has in hand before it writes: every row of its INSERT,
  no row its DELETE chose. Others cannot touch it, since each has its own `Config`.
* `OwnIndex`, for one caller: the index is `IndexOf(conf)` from the second
  `makeIndex` on. With it the loop of `update` never leaves the rows.
* For the refinement `OwnTable` relates the caller's `Config` to the abstract table:
  equal to it, or to the default for a call that could not open the file, until the
  change, its `Effect` after it. One lemma per loop says that it
  computes what `UserTable` says; for `update` it is an induction over the turns,
  under `HasNoTwins`, that the rows before the turn are changed and the others not.
  `Change` is the step that truncates the file, `CutShort` a write that fails.

For `SessionSetup`: the store below keeps `StoreOK` for the calls of sessions.
`SessionOK` says of a session that the call it waits for asks for its own login
(`AsksOwn`), that what it was answered is an account that name stands for, and that,
as long as the session is not `touched`, it is what the file says now
(`GoesBy`): so the second call of `GetCredential` has the answer of the first.
`TakenApart` says that the code's splitting of a login gives back the parts it was put
together from.

For `AdminSQL`:

* `Leads(q, ns, r)`: a visit of the nodes `ns` leads from the lists `q` to the lists
  `r`. `Inv` is that the lists `p` are on the way: there are nodes left which lead to
  lists that are `Final` for the statement, and then comes `LeaveFunc`; or that has
  been, with such lists. `Final` knows the lists exactly for a clause of at most one
  comparison; for any other it knows that no column the statement names is missing
  and that the visit is outside of WHERE again.
* That every order of visit leads there (`VisitsLead`) is an induction over the
  length of the lists and over the nesting of the clause: `ClauseInduction`, and
  `WalkIs`, `HoldingIs`, which say that the two recursive functions over clauses
  obey their equations.
* The values of an INSERT's rows are one list by a recursion over the rows
  (`Flattens`); for rows of the columns' length the list cut again gives them back
  (`Tabled`), which is what a plain INSERT needs.
* With the final lists known, the theorem about plain statements is one lemma per kind
  that the row algorithm computes what the statement means (`PlainInsert`,
  `PlainUpdate`, `PlainSelect`, `PlainDelete`); where each column is named once, the
  last assignment to it is the only one (`AssignedFills`).
* A DELETE goes by the names of the rows it chose. By password it deletes what it says
  only while no two rows have one name (`NoTwins`), which the property says.

For `Relay`:

* `TypeOK` and `EveryPacketFits` are inductive together. `Announced` bounds what a
  header, stale bytes included, can say, and `Capacity` is that and the header.
* `ClientGetsStream` needs `CopyInv`: what `WriteTo` holds is what comes next, and
  outside its write nothing is held.
* `ClosedLast` needs `ClosingInv`: which of the two program counters says that
  the other direction has been waited for.
* `TargetGetsStream` needs `ForwardInv`, which has two cases. `Clean`: the units
  of the slice so far are the next of the client's, and what is out is what was
  read before this packet. `Torn`: `ctx` is done and the packet in hand, or the last
  one out, has stale units; then no packet follows, since `LoopEnds` is the only
  step of the loop. That is why one packet can be wrong, and why only one.
* `LoggedIsForwarded` is inductive beside the types.

Only model-checked: liveness (`ShutdownCompletes`, `EventuallyLogged`,
`EventuallyDisconnected`, `SessionEnds`, `EveryPacketForwarded`, `AnswersArrive`), and
`CallersWaitForRunners`, which speaks of ENABLED: both are out of the prover's reach.

## 6. The findings

Five things the repository says of the program are not so; each has a run whose
counterexample shows how.

1. `exit_loses_records`. README.md:11 promises a log of the operations received.
   After an interrupt the writer leaves at its next look at `ctx`
   (auditlogwriter.go:140) with records on the channel, and a push may choose its
   `ctx.Done()` case: packets the target has are never logged.
2. `restart_unreadable`. After a kill (SIGTERM is not handled) or a failed write,
   a restart in the same hour appends a complete member behind an incomplete one,
   or to a file without version header (auditlogwriter.go:68): the decoder takes its
   bytes for more of the incomplete one, or refuses the file.
3. `rotation_stops`. gzip keeps its first error, `closeFile` returns it before it
   resets `gzipWriter` (auditlogwriter.go:94), so after one failed write no
   rotation succeeds and every record is dropped.
4. `user_table_race`. serverconfig.go:143 refuses a user who exists. Its check
   reads an index which another goroutine's login may have rebuilt from the
   default configuration (serverconfig.go:88): the user is inserted twice.
5. `where_misread`. "where only supports equal operation" (sqlparse.go:197), but
   only the operator entered last is looked at, and LIKE and IN set none:
   `WHERE User LIKE 'u1'` chooses every row, `AND` and `OR` choose by the last
   comparison, NOT is ignored.

The models show more that nothing in the repository denies:

* the two panics of `CrashCause`, the one of an empty statement (sqlparse.go:124)
  and the one of a field list without a zero byte (decoder, main.go:125);
* lost updates between two administrators;
* an INSERT whose rows have different lengths that even out: the values of all rows are
  one list, cut by the number of columns (sqlparse.go:142), so `VALUES
  ('a'),('b','c','d')` is accepted as the rows a, b and c, d. The error of
  sqlparse.go:148 comes only when there is a remainder;
* a SELECT that succeeds is answered with the error of an earlier SELECT, and a
  statement without a handler with the last answer (confighandler.go:63), which is
  how `AnswersAreTrue` states it;
* between the close of `ctx.Done()` and the cancellation of its child, one packet
  filled up with bytes of a pooled buffer can go to the target and the log
  (sendtask.go:101): the second half of `TargetGetsStream`;
* a client that closes its half of the connection loses the answers that are on
  their way, since the end of its stream cancels the other direction;
* a login whose row was changed, or whose file was being written or could not be
  opened, after it was authenticated connects with the new password, that of another
  account its name stands for, or with none (proxysrv.go:116);
* a statement whose call cannot open `config.json` (serverconfig.go:90-92) is made on
  the default configuration, and a change then replaces the table: `UserTable`'s `blind`;
* a call that reads `config.json` while another writes it may take one user's name and
  another's password for a row (serverconfig.go:94), and write it back: `mixed`;
* behind a cut member the decoder may print records nobody encoded before it reports
  the error: `Garbage`.

## 7. Assumptions, and what is left out

* The machine does not lose power: what `write(2)` took stays, so there is no
  fsync in `LogFile`. A read that runs into an incomplete gzip member is an error.
* A packet is read and forwarded as a whole in `AuditPipeline`; the read and
  `TimeoutWriter`'s look at `ctx` are one step, and a torn packet appears as
  `ReadEnds`. `Relay` has the steps inside, for one session and without the pool:
  its `Push` is the one of `AuditPipeline`. There an administrator's session
  appears as `SetupEnds`: it touches neither the pool nor the channel.
* What deflate makes of a gzip member that was appended behind a cut one is any
  number of fields and of records (`Garbage`) up to the bound, then an error; that it
  might be, by chance, a record that was encoded, the version header or a member whose
  checksum is right is left out, and so is the memory a made-up length may ask for. How
  `formatPacket` words a record is left out.
* A unit of `Relay` stands for some bytes: the header is at least one unit, and
  a read may return any number of units that fit its slice.
* The handler's nested statements (`INSERT ... SELECT`) are outside the grammar of
  `AdminSQL`. A parse error, an empty text and a statement of another kind are in.
* Encryption in `ConfigStore` is a count. A call that reads the file at once gets the
  key and the rows written together; one that has read two texts has the key of the
  second, and as rows carry no key, whether the rows of the first can still be
  decrypted with it is a choice (`Unreadable`). A name that was cut inside is taken
  for one of the two it was joined of. A user's pattern is the set of names it matches.
* An empty `config.json` stands for any that does not parse. A text of which a failed
  write left a part is read at once. What a longer earlier write leaves behind the end
  of a shorter one is decoded by nobody but a call that had begun the longer one, and
  there it is what an earlier second read would have given. `touched` counts a read of
  two texts even where their rows are equal, since every text has nonces of its own.
* WHERE chooses by the User column in `ConfigStore`; `AdminSQL` has both columns.
* The SQL parser, gzip, `sync.Pool`, the runtime and the operating system are
  modelled from how this code uses them. The order in which the parser's tree
  holds the parts of a statement is left open.
* In `UserTable` an `UPDATE` is exact only while no two rows have one name. An
  earlier `UPDATE` can rename a row to a name in use, and then the index leads
  both to the last of them.
* Not modelled: certificate generation (calls into crypto libraries, no state),
  packaging, the load generator (`src/test`), environment settings,
  `log/errorreader.go` and the debug helpers of `clntsess.go` (unused).

## 8. The plan

Done, in order of importance: `AuditSink`, `AuditTrail`, `AuditPipeline`;
`LogFile`; `ConfigStore` under `UserTable`; `AdminSQL` with the handler; `Relay`;
`SessionSetup` over `ConfigStore`; `LogDecoder` over `LogFile`; the reads of
`config.json` in parts; INSERTs with rows of any lengths; records made up behind a cut.

What is left:

1. `Relay` and `AuditPipeline` in one: several relays over one pool and one
   channel, where a blocked push also holds up the answers of its session's end.
2. Nested statements in `AdminSQL`, with the parser's order of a subquery.
3. Configuration errors that end `main` before it serves.
