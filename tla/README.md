# A TLA+ model of clickhouse-bulk

clickhouse-bulk accepts INSERTs over HTTP, batches them by query, and posts the
batches to ClickHouse. What makes it hard is what happens between the `200` to the
client and the rows in ClickHouse: a write-ahead log, an in-memory collector with
timers, a queue with one worker per target, a spool of files for failed batches
that is replayed in the background, and a shutdown that is to drain all of them.
The modules here model these parts from the Go source under `src/`, TLC checks them on
small instances, and TLAPS proves the safety of all of them for instances of every size.

## The system

| Component | State | Operations | Interaction | Hard because |
|---|---|---|---|---|
| Journal (`journal.go`) | `wal.jsonl`, `ack.jsonl`; `nextID`, `acked`, `pendingCount`, the WAL writer | open, append, ack, replay, compact, close | `writeHandler` appends before 200; the worker and synchronous inserts ack; startup replays into the collector | a crash between any two file operations; each of them may fail; ids start again from what a file holds |
| Collector (`collector.go`) | map of tables; each: rows, journal ids, counter, timer, `lastUpdate` | Push, PushOpaque, timer flush, CleanTables, `/debug/tables-clean`, FlushAll | hands batches to the sender | read lock traded for the write lock; `doFlush` gives the table's lock up in the middle; tables leave the map while others hold them |
| Clickhouse sender (`clickhouse.go`) | queue, WaitGroup, servers with `Bad` and `LastRequest` | Send, Run, SendQuery with its retry loop, Dump, WaitFlush | acks the journal; writes to the dumper; used by the worker, by synchronous inserts and by the replays | two mutexes taken in two orders; `Bad` written without a lock; a failed POST may have stored the rows |
| FileDumper (`dump.go`) | files of `dump_dir` and `failed/`, `DumpNum`, `LockedFiles` | Dump, prune, ProcessNextDump, moveToFailed, ReplayFailed | replays through the sender's SendQuery | names stand for age; half-written files; deletion fails after the send; restarts |
| Synchronous inserts (`sync_insert.go`) | none | append, SendQuery, Dump, ack, answer | past the queue, beside the worker | which failures keep the journal entry |
| Shutdown and wiring (`server.go`, `main.go`) | the goroutines of main and of the signal, the listener, a context | Shutdown, SafeQuit, exit | reads queue and tables, waits for the WaitGroup, closes the journal | who exits first; what is in nobody's queue |
| Dual sender (`dual_sender.go`) | two senders | Send to live, then to backup; Empty, WaitFlush of both | live acks the journal, backup does not; synchronous inserts copy to backup | a process that ends between the two halves of Send; whose queue counts at shutdown |
| Rate limiter (`rate_limiter.go`) | tokens, last refill | Wait | once in every `SendQuery` of worker, replays and synchronous inserts, before its first POST | the mutex is given up to sleep: waiters overtake each other |
| Intake (`writeHandler`, `decompress.go`, `opaque.go`, `ParseQuery`) | none; one request at a time | read under a limit, decompress, route, answer | chooses between journal and collector, synchronous send, and proxy | arithmetic at the limits; decisions taken twice, by different readers of the same query |

Response headers, configuration, metrics, the status page and the load-test support keep no state over
time and are not modelled.

What makes each part correct: the journal loses no accepted insert, resurrects no acked one and
counts its backlog exactly; the collector neither strands nor doubles an insert, and a batch acks
the inserts it carries and no others; the sender acks only what is stored or dumped, fails over to each server once, and gets
through its queue; the backup misses no more than is documented; the limiter keeps its rate and starves
nobody for good; a request goes on whole, or is refused, and by the way it asked for; the dumper overwrites nothing it promised to keep, sends no file twice in a
process, keeps its bound and replays everything; the shutdown ends and leaves nothing behind.

## The modules

* `Journal.tla` models `journal.go` and the process around it. Every method holds `j.mu` to its
  end, so one runs at a time (`pc`); `Ack` and `compactLocked` are split where the process may
  die or an operation fail: after each line of `ack.jsonl`, after the rename (`CompactRename`),
  the reopening (`CompactReopen`) and the reset of `ack.jsonl` (`CompactReset`). A WAL line is its id
  and its insert; `tail` says whether the last line is torn, and a line appended to a torn
  one is lost to the scanner. `Crash` empties the memory and leaves the disk. `held`
  and `retained` stand for the pipeline behind the journal.
* `DurableAccept.tla` is what the journal promises, in three actions: accept an insert, store some,
  settle some that are stored. `Journal` implements it with `accepted` the inserts answered 200 and
  `outstanding` those a restart would replay; so does `Shutdown`, with everything from the handler to the worker around it.
* `JournalProofs.tla` holds the theorems about `Journal`.
* `Collector.tla` models `collector.go`: `c.mu` as reader set and writer, each critical
  section of `Table.mu` as one step, and what `doFlush` took out of a table as its goroutine's
  local (`taken`), sent in a later step. Time passes in ticks, and never past a due timer.
  `CollectorProofs.tla` holds its theorems.
* `Clickhouse.tla` models one sender with its dumper as the goroutines see them: the worker `run`,
  synchronous inserts, the loop `replay` and the `operator` of `/debug/replay-failed`, each with its
  step, request, server and answer. `cmu` and `dmu` are the two mutexes, modelled as held where a
  goroutine waits while it holds one. A POST is answered below 400, 400 to 501, or the
  connection fails or the answer is 502 and up, in which case the rows may be stored all the same. `Dump` writes its file
  and prunes to `max_dump_files` in one step, as it does under `d.mu`; which dump is the oldest is free here, and `pruned` remembers
  what was removed. `Rest` lets `down_timeout` pass for the server unused for longest at any time, whoever is posting.
  `unacked` and `kept` stand for the log lines of a failed Ack and a failed dump, `tried` for the servers a call has POSTed to lately.
  `ClickhouseProofs.tla` holds its theorems.
* `FileDumper.tla` models the files: their names, the order of the names as strings (with the
  base of the numerals a constant, so that "10 before 9" happens with three files), pruning,
  `failed/`, both replays, half-written files and restarts. `FileDumperProofs.tla` holds its theorems.
* `Shutdown.tla` composes short forms of the handler, a table with its timer, the queue and the
  worker with the goroutines of `main` and of the signal and with `SafeQuit`, step by step.
  `ShutdownProofs.tla` holds its theorems.
* `DualWrite.tla` composes short forms of all of these around `DualSender`: handlers, the journal as its
  unacked lines, the table, the two halves of `Send`, both queues and workers, the steps of a synchronous
  insert, `SafeQuit`, the end of a process at any point, and the restart that replays the journal to both.
  What a ClickHouse stored is not told from what waits in its `dump_dir`; `SafeQuit`'s deadline and `main`'s early exit
  are `Crash`.
* `DualWriteProofs.tla` holds its theorems.
* `RateLimiter.tla` models `Wait` as what happens between two sleeps; time is a tick that ages everything, tokens
  are counted in ticks of refill. `passed` records the ages of the
  last returns of `Wait`, that is of the calls of `SendQuery`.
* `RateLimiterProofs.tla` holds its theorems.
* `Intake.tla` follows one request through `readRequestBody`, `decompressRequestBody`, `shouldOpaqueInsert`,
  `ParseQuery` and `wantsSyncInsert` to its answer. A body is its size, an integer of the width `MaxInt`, whose arithmetic
  wraps (`Wrap`). A query is what each of the code's searches finds in it: `queryFromParams` in the params, `ParseQuery`'s own
  search for `query=` in the same text, the body's first 256 bytes, its first line, and what follows VALUES or FORMAT. `IsInsert` is what ClickHouse
  makes of the same request, and the properties compare the two. `IntakeProofs.tla` holds its theorems.
* `MC*.tla` name the instances; each `.cfg` is one run.

Definitions whose comment begins with "Mutant" are not part of the specification: each is a
plausible bug in the definition that follows it, and shows that a property notices.

## The runs

| Run | Checks | Shows |
|---|---|---|
| `journal` | TypeOK, Durable, NoResurrection, FreshIDs, PendingCountExact, ImplementsDurableAccept, EventuallyStored | three inserts, one whose line exceeds 64 KiB, `max_journal_pending` = 2, failing writes, fsyncs, acks and compactions, crashes anywhere; an accepted insert is stored, or its batch was given up and waits for a restart; and the step refinement of `DurableAccept` |
| `journal_long` | NeverFatal | violated, see below |
| `collector` | TypeOK, Conserved, BatchAcksItsRows, OneTimerPerTable, EverySent | pushes to two keys, an opaque insert, timers, `/debug/tables-clean`, FlushAll, CleanTables at the limit `clean_interval = flush_interval`; the timers send what no threshold does |
| `clickhouse_safe` | TypeOK, AckedUnlessLogged, Conserved, FlushedWhenDone, NoServerTwice, SettlesUnlessCrossed | worker, synchronous insert, loop and operator on two servers, `max_dump_files` = 1, `down_timeout` passing at any moment of a POST, files that cannot be written or removed |
| `clickhouse_deadlock` | EveryRequestSettles | violated, see below |
| `filedumper_safe` | TypeOK, DumpedIsSafe, PendingBounded, LoopSendsOnce, EverySent | three dumps of both kinds, limit 2, every fault, a restart |
| `shutdown_safe` | TypeOK, JournaledSurvives, EarlyReachTheWorker, Exits | both ways to end, three inserts, the journal on |
| `shutdown_main` | DrainedAtExit | violated, see below |
| `ratelimiter` | TypeOK, WithinBucket, EveryoneGetsThrough | worker, replay and synchronous insert share a bucket of two tokens; calls recorded over four tokens' time |
| `dualwrite` | TypeOK, AcceptedIsSafe, BackupMisses, SyncReachesBackupAfterLive, EarlyReachBoth, EventuallyDelivered | a batched insert and a synchronous opaque one, both dumps may fail, two ends of the process |
| `intake` | TypeOK, BodyIsWhole, LimitHolds, StatementDecides | every request, whole, damaged or encoded twice, and every place a statement may be found in or missed, against every configuration |
| `intake_select` | QueriesAreProxied | violated, see below |

**Bounds.** Two or three inserts are enough for what the properties tell apart: one
in flight, one torn or failing, one that meets the leftovers of the others. With `CompactMinAcks` = 2 an
Ack compacts or does not; the five seconds after which it compacts anyway are
a free choice. `FlushCount` 3 with inserts of one and two rows is reached and stepped over; p3's table
reaches no threshold and only its timer flushes it. `MaxTables` 2 or 3 lets a key lose its table and get another. The numerals of
base 3 sort wrongly at the third dump as those of base 10 do at the tenth. `MaxClock` bounds the restarts
of the dumper: one meets the files of another process, which is what names are about. Two servers
make the failover and the retry loop happen; one is enough for the violated run of the sender. With `max_dump_files` 1 and up to two dumps, `Dump` prunes
another's dump or its own; the violated run has no limit, so that the lock order alone is to blame. `"ack"` among the `Faults` is left to the theorems. A bucket
of two and three callers make one sleeper lose its token to another; four recorded calls are twice the bucket, and the
theorem has them all. `dualwrite` has one insert of each kind, of which one may be in the table, a queue and a worker
while the other is synchronous; the synchronous one is opaque so that its replay goes past the table; two ends of
the process make one restart meet what another left. Sizes of `intake` are integers of five bits (`MaxInt` = 15):
four times the limit fits for 3, wraps below the limit for 6, wraps above it for 11, and for 15 one more is negative. No
run replaces a definition.

**Deadlock.** A run says `CHECK_DEADLOCK FALSE` where the system may stop: all inserts given
and settled, the request answered, the process exited, or, in `Clickhouse`, the circular wait that is a finding of its own.

**Fairness.** Weak fairness for a goroutine that only waits for itself: the worker, the timers, the
startup, the steps inside a method that holds its mutex, a POST (the client has a timeout).
Strong fairness for a goroutine that waits for a mutex others take again
and again: Go's mutex hands itself to a waiter of more than a millisecond. None for clients,
crashes, faults or operators. `EventuallyStored` assumes that crashes stop; the clock bounds the restarts of
the dumper. `EverySent` also assumes that ClickHouse, asked again and again, accepts at last: a dump it refuses
for ever stays first and holds up the rest. The model lets `down_timeout` pass during any POST and
for any server, so that a failed server may be taken back before a call has tried the others, and a call may go round for ever. `SettlesUnlessCrossed` therefore assumes `Brisk`: from
some time on, no server that a call has tried rests before that call is over. The code justifies it when `connect_timeout` (10 s), which ends a POST,
times the number of servers is below `down_timeout` (60 s), as by default with up to five servers, waits for the mutexes apart; with more, or with other settings, the assumption may fail, and without it TLC finds `EveryRequestSettles`
violated. What holds with no such assumption is `NoServerTwice`: within `down_timeout` one call POSTs to no server twice. In `RateLimiter` time passes and a goroutine whose sleep is
over runs; no more is assumed, and in particular no order among sleepers, so `EveryoneGetsThrough` is about
a caller the others stop overtaking. In `DualWrite` a supervisor starts the process again, and `MaxEnds`
bounds how often it ends.

## What the violated runs show

Each states what the documentation or a comment says, and TLC finds the behaviour of the code that
breaks it.

* `journal_long`: a WAL line over 64 KiB is written and acknowledged, and every later start fails
  in `scanMaxID`, whose Scanner has the default buffer. (`RISKS.md`: the journal survives a restart.)
* `clickhouse_deadlock`: `Dump` holds `c.mu` and waits for `d.mu`; a replay holds `d.mu` and waits
  for `c.mu` in `GetNextServer`. The worker and the loop stand still for ever.
* `intake_select`: `shouldOpaqueInsert` ends with a test for a binary format that does not ask for INSERT. `SELECT ...
  FORMAT Native` is journaled, sent to live and to backup, and answered with an empty 200; `CLIENT_COMPATIBILITY.md:15`
  and `DUAL_WRITE.md:29` have it proxied to live. `StatementDecides` (`TakenForInsert`) shows that there is one other way in which a query is
  taken for an insert: a body beside it that begins with INSERT, when `opaque_insert`, `batch_formats` or an octet-stream type has the code look.
* `shutdown_main`: on a signal `srv.Start` returns at once, `main` calls `os.Exit(0)`, and the drain
  is cut off. The end-to-end test passes `runServer` an `exit` that does not exit.

The passing runs tell how far each hazard reaches: with the journal no way to end the process loses an
accepted insert (`JournaledSurvives`); without it `SafeQuit` loses at most the worker's batch of what
was in the tables and the queue (`EarlyReachTheWorker`); the sender acks
only what is stored or dumped even when dumps fail, but for the dumps `max_dump_files` prunes and for synchronous inserts (`AckedUnlessLogged`), and the circle of locks
and calls that outlast `down_timeout` for ever are all that keeps a request from settling (`SettlesUnlessCrossed`). With a backup, no failure of backup costs live anything (`AcceptedIsSafe`).

Modelling the code showed more than these. What follows has no run of its own: a constant, an assumption
or an exception in a property, named here, stands for it:

* `Faults` with `"startup"` (`server.go:396`): when the compaction at startup fails, which is only logged, the
  next line may be glued to the torn tail, or masked by an old ack, and `Durable` is violated.
* `CleanInterval` below `FlushInterval` (`collector.go:194`): CleanTables drops a table with rows in it, and
  `Conserved` is violated.
* `Kind` of `Clickhouse` (`clickhouse.go:193`): 500 and 501 are dumped as errors of the client, which
  the loop moves to `failed/`; `DUAL_WRITE.md:94` has 5xx replayed.
* `ReadFails`, `ProcessRefused` (`dump.go:436`): a dump of kind 1 refused with 4xx at its replay stays as it is, is
  posted again at every tick and comes before all later names; `README.md:20` says no infinite retry.
* `Dump` of `FileDumper` (`dump.go:167`), `DumpFile` of `Clickhouse` (`dump.go:130`): pruning goes by name, and kind 1 sorts before
  kind 2, 10 before 9, so that `Dump` may remove the very file it has just written. It returns nil all the same, and the journal is acked: with `max_dump_files` set, what
  is acked may be nowhere (`pruned`). `RISKS.md:52` and `:103` name the loss of pending dumps; the comment at `clickhouse.go:148` has the entries cleared "once data is durably stored (ClickHouse or dump_dir)".
* `PostDown` (`clickhouse.go:270-288`): the token of `send_max_rps` is taken once per `SendQuery`, and the POSTs that fail over to the other
  servers take none: with n servers down, n POSTs go out on one token. `CONFIG.md:50` says "Max POSTs/s to live", `DUAL_WRITE.md:83`
  "sustained POSTs per second". `WithinBucket` is about the calls.
* `AckJournal` (`clickhouse.go:153`): a failed Ack is only logged; the batch is then stored or dumped, and sent once more after a restart.
* `Restart` of `FileDumper` (`dump.go:107`) is in a later second: in the same second, names repeat and dumps
  of the process before are overwritten.
* `QuitSender`, `QuitCollector` (`server.go:297`): both are empty while the worker sends the last batch, and
  `SafeQuit` returns without `WaitFlush`; hence the exception in `EarlyReachTheWorker`.
* `QuitWait` (`server.go:309`): `WaitFlush` is not bound by the deadline.
* `SyncFails`, `AckedUnlessLogged` (`sync_insert.go:113`): a synchronous insert whose dump cannot be written is acked in
  the journal, while the log line before says "journal entries retained"; its client has an error.
* `gaps` of `DualWrite` (`dual_sender.go:23`): live's worker acks by itself, so that what backup has only in memory is
  gone with the process; so is the copy of a synchronous insert before its `Send`.
* `EveryoneGetsThrough` (`rate_limiter.go:54`): while others keep coming, a waiter may be overtaken for ever, for no
  one is served in order. `Interval` is cut to whole nanoseconds, and a sleep is a millisecond or more: with
  a burst of 1 and `send_max_rps` above 1000, a waiter is held to 1000 a second.
* `LimitHolds` (`decompress.go:217`): a body that is not compressed may have four times `max_request_bytes`,
  for the limit proper is tested by the decompression only.
* `BodyIsWhole` (`decompress.go:195`, `:222`): at the largest int64 `limit+1` is negative and every body reads as empty; an
  opaque insert with its query in the params is then answered 200 without its rows.
* `BodyIsWhole` (`decompress.go:178`): a body that ends inside the header of a native block counts as complete.
* `Layered` (`decompress.go:58`): only the coding that `Content-Encoding` names first is undone. `identity, gzip` is not decompressed at all, `gzip, gzip` keeps a
  layer, and in both cases the compressed body goes on as a plain one; `BodyIsWhole` names it as an exception.
* `MayBeJoined`: binary rows are batched, trimmed and joined as text when FORMAT is not on the first line of the body (`opaque.go:98`) or stands in the body behind a query in the params (`opaque.go:92`), when more than 256 bytes of white space
  precede the INSERT (`opaque.go:62`), and in every binary format that the pattern of `opaque.go:11` does not name, as `RowBinaryWithNames`, `MsgPack` or `Avro`, when
  `batch_formats` is not set. With `batch_formats` set, `application/octet-stream` is not looked at.
* `NotSeen`: an INSERT is proxied, not journaled, when it stands behind white space or `+` in the params (`collector.go:379`); when an escape in it is bad (`collector.go:395`); when
  the first `query=` in the params is an empty one with the INSERT in the body, or the end of another name, as in `wait_end_of_query=1` (`collector.go:377`); and when a body says
  `FORMAT VALUES(..)` with no white space behind (`collector.go:432`), where `Parse` finds neither statement nor rows.
* `HasContent` (`collector.go:459`): an INSERT with neither VALUES nor FORMAT is answered 500.

## What is proved

By TLAPS.

**The journal** (`JournalProofs.tla`), for every set of inserts, every limit and every combination of faults:

* `TypeCorrect`: `Spec => []TypeOK`. The WAL stays finite (`FiniteStep`), which the type of the
  counters needs.

and, assuming only that the compaction at startup does not fail (`"startup" \notin Faults`),

* `NothingAcceptedIsLost`: `Spec => []Durable`,
* `NothingSettledReturns`: `Spec => []NoResurrection`,
* `NextIDIsFresh`: `Spec => []FreshIDs`,
* `Refinement`: `Spec => ImplementsDurableAccept`,
* `BacklogIsCounted`: `Spec => []PendingCountExact`.

The assumption is needed: with `"startup"` in `Faults`, TLC finds `Durable` violated.

None of the invariants is inductive. `IInv` adds: lines differ in ids and inserts (`Distinct`); memory and
disk agree on what is acked (`AcksAgree`), which holds because `Ack` writes the file before
the map and compaction empties both; an ack masks a line only when its insert is stored
(`MaskedIsStored`), the heart of `Durable`; what is on its way is still in the WAL (`InFlight`); a
working writer is at the start of a line (`NotTorn`), which is what the startup compaction is for;
where a compaction is and what it has established (`Compacting`); each insert is in the WAL once
(`Once`). `InvStep` has one step per action. The refinement follows from `IInv` action by action:
`Append` accepts, the first step of `Ack` stores, `AckOne` settles, all others stutter, the compaction
because it keeps what is replayable. `BacklogIsCounted` needs an invariant of its own, `Counted`: there is a set of replayable lines
that has `pendingCount` elements and everything in flight, lacks only lines that were answered 500, and is all of
them when the file has just been opened. An append adds to it, an ack takes from it, a line whose fsync failed stays outside.

**The pipeline with a backup** (`DualWriteProofs.tla`), for every finite set of inserts, whichever of them are opaque or
synchronous, whatever dumps fail and however often the process ends:

* `TypeCorrect`: `Spec => []TypeOK`,
* `AcceptedStaysSafe`: `Spec => []AcceptedIsSafe`,
* `BackupMissesNoMore`: `Spec => []BackupMisses`,
* `SyncAfterLive`: `Spec => []SyncReachesBackupAfterLive`,
* `SafeQuitDrainsBoth`: `Spec => EarlyReachBoth`.

The inductive invariant adds where each promise changes hands: a batch whose worker is done is safe at its target
(`DoneIsSafe`), which is why live's ack may drop its lines; a handler that waits for live has not answered, and live has
what it accepted (`SyncPending`); what is in live's queue or its worker's hand, and a synchronous insert at its last step, has been
given to backup, or `gaps` and `kept` have it (`LiveIsCopied`, `SyncIsCopied`), so that no ack runs ahead of the copy; and a
synchronous insert on the way of the batched ones was replayed (`SyncOrigin`).
`Handover` states what the sets these parts speak of may gain and lose in a step of a running process; `BackupGrows` that backup
loses nothing but to `gaps`; each part then has a lemma of its own.
`SafeQuitDrainsBoth` rests on a second invariant, `BothGet`: each target gets what the other has queued. What waits for live has been
given to backup or is half sent; what is half sent, or waits for backup, has been given to live; and what SafeQuit noted and the table
no longer holds has been given to both. `Onward` says what a step may do to these sets.

**The rate limiter** (`RateLimiterProofs.tla`), for every rate, burst, number of goroutines and window:

* `TypeCorrect`: `Spec => []TypeOK`,
* `CallsWithinBucket`: `Spec => []WithinBucket`: of the calls of `SendQuery`, each of which may POST to every server on its one token.

The invariant adds `Accounted`: the tokens that are left, with those of every window of calls that ends now, are at most the bucket
and what was refilled since; that is what a call may add a token's worth to.

**The collector** (`CollectorProofs.tla`), for every finite set of inserts, any keys, tables, `flush_count` and `flush_interval`:

* `TypeCorrect`: `Spec => []TypeOK`, by which no table rests with `flush_count` rows,
* `BatchesAckTheirRows`: `Spec => []BatchAcksItsRows`,
* `TimersFollowTables`: `Spec => []OneTimerPerTable`,

and, assuming that the cleaner is off or no faster than the timers (`CleanerIsSlower`),

* `NothingIsStranded`: `Spec => []Conserved`.

The invariant has each insert in one place (`Placed`, over tables, goroutines and batches), a batch only in the hand of a goroutine between its
`doFlush` and its `Send` (`Takers`), and whoever is in `Add` holding `c.mu`, its table in the map (`Locks`). A second invariant, `Reached`, is
what needs the assumption: a table with rows is in the map and its last insert is no older than its timer, unless a
Push is inside it; so what `CleanTables` finds aged holds nothing. Without the assumption TLC finds `Conserved` violated.

**The sender** (`ClickhouseProofs.tla`), for any finite sets of requests and servers, any `max_dump_files`, with or without each replay, whatever fails:

* `AckedIsDurable`: `Spec => []AckedUnlessLogged`,
* `NothingVanishes`: `Spec => []Conserved`,
* `WaitFlushWaits`: `Spec => []FlushedWhenDone`,
* `FailsOverOnce`: `Spec => NoServerTwice`,
* `TypeCorrect`: `Spec => []TypeOK`, by which the WaitGroup never counts more than the requests.

The first two name what they do not promise: dumps that `max_dump_files` has pruned, and those that could not be written.

The invariant adds that a writer about to ack has its request stored, dumped, pruned or logged, and that a reader about to remove a dump has its rows in ClickHouse
(`OkIsSafe`): that is why a replay may remove the dump a request was acked for; and that what was given is queued, in a
writer's hand or settled (`Tracked`). `FailsOverOnce` needs `Tries`: of the servers a goroutine that chooses has tried, each is bad and has not rested. `TypeCorrect` rests on a second one, `Bookkeeping`: the order of the servers stays a permutation of
them (`Ordered`); a request is given once, queued once and dumped once (`Fresh`); a request has one dump, and the dump a replay reads is not
locked by itself nor still on the operator's list (`Dumps`), so that a replay removes the file it has read and no other.

**The dumper** (`FileDumperProofs.tla`), for any finite set of requests, any `max_dump_files`, numerals of any base, whatever fails and any number
of restarts:

* `TypeCorrect`: `Spec => []TypeOK`,
* `DumpsStaySafe`: `Spec => []DumpedIsSafe`,
* `DirStaysBounded`: `Spec => []PendingBounded`,
* `NothingIsSentTwice`: `Spec => []LoopSendsOnce`.

The invariant has every name stamped with a second and a number the dumper has passed, and each name on one file, so that a new file and a file moved
to `failed/` overwrite nothing; and what the loop has sent and could not remove is passed over by `First`. Three facts about operators carry
it. Numerals are injective (`Numeral` is a recursive function on numbers; a least pair of numbers with the same
numeral leads to a smaller one). A nonempty finite set of files has a first name (`FirstExists`): least
elements come from the well-foundedness of finite sets of numbers, not from an induction over data. And `Leading` picks exactly as
many files as it is asked for (`LeadingCount`), so that a pruning removes the excess and no more.

**The shutdown** (`ShutdownProofs.tla`), for every finite set of inserts and any `flush_count`, with or without the journal:

* `TypeCorrect`: `Spec => []TypeOK`, by which the WaitGroup counts the queue and the worker's batch,
* `NoAnswerIsLost`: `Spec => []JournaledSurvives`,
* `SafeQuitDrains`: `Spec => []EarlyReachTheWorker`,
* `HandedOverOnce`: `Spec => []InOnePlace`,

and, with the journal (`Journaled`),

* `Refinement`: `Spec => DurablyAccepts`, which is `DurableAccept` with the unacked lines of the WAL outstanding.

The invariant adds that `SafeQuit` starts once, after the listener has closed (`QuitsOnce`), and that what it found stays in the queue, with the
worker or safe, and has left the queue once it was seen empty (`EarlyIsQueued`). The refinement needs that what is on its way to
ClickHouse is in the WAL (`Owed`), and for that `InOnePlace`: an insert is in the table, one flush, one batch of the queue or the worker's
hand, and in no two of them, so that the ack of a batch drops no line another batch still needs. An answer accepts, the worker's `Store` stores a
batch and its `Ack` settles it, all else stutters. `InOnePlace`, `Owed` and `DurablyAccepts` stand in `ShutdownProofs.tla`; no run lists them.

**The intake** (`IntakeProofs.tla`), for integers of every width (`MaxInt` any odd number), any limits and sizes within it, and every request:

* `TypeCorrect`: `Spec => []TypeOK`,
* `BodyStaysWhole`: `Spec => []BodyIsWhole`,
* `LimitIsKept`: `Spec => []LimitHolds`,
* `StatementIsFollowed`: `Spec => []StatementDecides`.

The arithmetic rests on `FourTimesIsLess`: four times a limit is even however it wraps, so it is never `MaxInt`, and `limit+1` of
what `CompressedLimit` returns does not wrap. The invariant adds that a body that was read is whole (`ReadWhole`) and
that the way taken is the one the code's searches lead to (`RoutedAs`). `StatementIsFollowed` compares that with what ClickHouse makes of the request; each exception it allows was seen
to be needed by TLC: without any one of them the property is violated.

Model-checked only: liveness (`EventuallyStored`, `EverySent`, `SettlesUnlessCrossed`, `Exits`, `EveryoneGetsThrough`,
`EventuallyDelivered`) and fairness, which are beyond the prover. Every other property of a passing run is the subject of a theorem. `DualWrite` is not
shown to implement `DurableAccept`: the last step of a synchronous insert acks and answers at once, and acks lines whose insert
is stored nowhere when its client gets an error.

## What is not modelled

The loss of written data in a power failure: a crash here is the death of the process, so the missing
`fsync` of the compacted file is outside the model. The text of batches and dumps, and so the loss of
the content type in a dump. How the text of a query is cut into params and content: rows that hold the words VALUES or FORMAT themselves, several spaces behind FORMAT, several
`query=` in the params, or one in capitals (which ClickHouse does not know either); the libraries that decode bodies, and a second coding over native blocks, which counts as damage to them. The memory of the process: queues are unbounded, as in
the code. A torn line of `ack.jsonl` (`journal.go:275`): in `AckFails` and at
a crash the line of an id is there whole or not at all. A line of some 20 bytes that were written in part would be read back as its first digits, which are another id (`journal.go:101`). A second `SafeQuit` (`server.go:412`), by a signal that arrives while `main` runs its own after the listener failed: `Signal` needs a
listener. A dump that cannot be written in `Shutdown`: its `Store` stands for ClickHouse or the dump, and `DualWrite` has the failing one. `Shutdown` also takes a worker to end its batch,
which the circle of locks would prevent: `WaitFlush` would then wait for ever. What the dumper prunes later is outside `DualWrite` and `Shutdown`. Panics other than the one of an append without a writer.

Response headers are copied, the configuration is read once at the start, metrics, logs and the status page are read by nobody
in the process: they have no behaviour over time that a model could get wrong.

## Plan

Done: the journal, the collector, the sender, the dumper, the shutdown, the pipeline with a backup, the rate limiter and the intake, checked and
proved. What would come next: an abstract specification of the sender's queue (each batch sent once, in order) that the detailed sender and
the short forms of `Shutdown` and `DualWrite` implement; and one of the spool, as the sender sees the dumper.
