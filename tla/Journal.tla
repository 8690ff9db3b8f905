------------------------------ MODULE Journal ------------------------------
(***************************************************************************)
(* The write-ahead log of journal.go: wal.jsonl and ack.jsonl on disk, the *)
(* Journal object in memory, and the process that opens, serves, crashes   *)
(* and reopens them.                                                       *)
(*                                                                         *)
(* Every method holds j.mu from its first line to its last, so a method    *)
(* that leaves the disk in an intermediate state is split into the steps   *)
(* between which the process can die, and "pc" says which of them runs.    *)
(*                                                                         *)
(* Abstractions.  A line of the WAL is its id and the insert it carries;   *)
(* ids grow along the file, so a set of lines is the file.  A crash is the *)
(* death of the process: what write(2) accepted survives it.  The tail of  *)
(* a line may be cut by a crash or by a failed write ("tail"); the lines   *)
(* of ack.jsonl, at most 21 bytes, are written whole.                      *)
(***************************************************************************)
EXTENDS Integers, FiniteSets

CONSTANTS
  Records,         \* the inserts clients submit, each submitted once
  LongRecords,     \* whose WAL line exceeds bufio.MaxScanTokenSize (64 KiB)
  HugeRecords,     \* whose WAL line exceeds the 1 MiB replay buffer
  MaxPending,      \* max_journal_pending; 0 is unlimited
  CompactMinAcks,  \* journalCompactMinAcks
  Faults           \* the I/O operations that may fail, out of FaultKinds

FaultKinds == {"write", "sync", "ack", "compact", "startup"}

ASSUME JournalAssumption ==
  /\ HugeRecords \subseteq LongRecords
  /\ LongRecords \subseteq Records
  /\ MaxPending \in Nat
  /\ CompactMinAcks \in Nat \ {0}
  /\ Faults \subseteq FaultKinds

VARIABLES
  \* wal.jsonl (the lines a scanner can decode), whether its last line lacks
  \* its newline, and the ids in ack.jsonl: what a crash leaves behind
  wal, tail, ackFile,
  \* the fields of Journal
  nextID, acked, pendingCount, acksSinceCompact, writer,
  \* the process, the step it is in while it holds j.mu, the caller of a
  \* running compaction, and the locals of Ack: what is left of ids, ackedNew
  phase, pc, caller, batch, ackedNew,
  \* the pipeline behind the journal: lines in memory on their way to live
  \* ClickHouse, and lines whose send and dump both failed
  held, retained,
  \* history: the answer each insert got, the inserts stored durably outside
  \* the journal, and those whose Ack has written its line
  reply, stored, settled

disk == <<wal, tail, ackFile>>
memory == <<nextID, acked, pendingCount, acksSinceCompact, writer>>
call == <<pc, caller, batch, ackedNew>>
pipeline == <<held, retained>>
history == <<reply, stored, settled>>
vars == <<disk, memory, phase, call, pipeline, history>>

Line == [id : Nat, rec : Records]
Phases == {"down", "loaded", "replayed", "serving", "closed", "fatal"}
Steps == {"free", "acking", "compacting", "renamed", "reopened"}
Callers == {"none", "ack", "startup", "close"}
Replies == {"none", "200", "500", "503", "aborted"}

Ids(lines) == {l.id : l \in lines}
Recs(lines) == {l.rec : l \in lines}
Unacked(lines, ids) == {l \in lines : l.id \notin ids}

\* What ReplayUnacked of a process started now would replay.
Replayable == Unacked(wal, ackFile)
Accepted == {r \in Records : reply[r] = "200"}
Live == phase \notin {"down", "fatal"}
Allowed(op) == op \in Faults

\* A scanner with the default buffer fails on such a file, one with the
\* 1 MiB buffer only on a huge line.
HasLong(lines) == \E l \in lines : l.rec \in LongRecords
HasHuge(lines) == \E l \in lines : l.rec \in HugeRecords

Init ==
  /\ wal = {} /\ tail = "whole" /\ ackFile = {}
  /\ nextID = 0 /\ acked = {} /\ pendingCount = 0
  /\ acksSinceCompact = 0 /\ writer = "nil"
  /\ phase = "down"
  /\ pc = "free" /\ caller = "none" /\ batch = {} /\ ackedNew = 0
  /\ held = {} /\ retained = {}
  /\ reply = [r \in Records |-> "none"]
  /\ stored = {} /\ settled = {}
-----------------------------------------------------------------------------
(* Startup: NewJournal, ReplayUnacked, Compact; then HTTP is served.       *)

\* loadAcked, openWAL (which scans for the largest id), countPending.  A line
\* longer than the scanner's buffer makes NewJournal fail and the process exit.
NewJournal ==
  /\ phase = "down"
  /\ IF HasLong(wal)
     THEN phase' = "fatal" /\ UNCHANGED memory
     ELSE /\ phase' = "loaded"
          /\ \E n \in {0} \cup Ids(wal) :
               (\A i \in Ids(wal) : i <= n) /\ nextID' = n
          /\ acked' = ackFile
          /\ pendingCount' = Cardinality(Replayable)
          /\ acksSinceCompact' = 0
          /\ writer' = "ok"
  /\ UNCHANGED <<disk, call, pipeline, history>>

\* Mutant: the WAL is opened, and nothing read back.
ReplayNothing ==
  /\ phase = "loaded"
  /\ phase' = "replayed"
  /\ UNCHANGED <<disk, memory, call, pipeline, history>>

ReplayUnacked ==
  /\ phase = "loaded"
  /\ phase' = "replayed"
  /\ held' = Unacked(wal, acked)
  /\ UNCHANGED <<disk, memory, call, retained, history>>

\* Mutant: the startup does not compact.
StartupWithoutCompact ==
  /\ phase = "replayed" /\ pc = "free"
  /\ phase' = "serving"
  /\ UNCHANGED <<disk, memory, call, pipeline, history>>

StartupCompact ==
  /\ phase = "replayed" /\ pc = "free"
  /\ pc' = "compacting" /\ caller' = "startup"
  /\ UNCHANGED <<disk, memory, phase, batch, ackedNew, pipeline, history>>
-----------------------------------------------------------------------------
(* Append, called by the HTTP handlers; the answer is the handler's.       *)

\* Whether the handler may append: the pending limit, when there is one.
BacklogFull == MaxPending > 0 /\ pendingCount >= MaxPending

Submits(r) ==
  /\ phase \in {"serving", "closed"} /\ pc = "free"
  /\ reply[r] = "none"

Answers(r, answer) == reply' = [reply EXCEPT ![r] = answer]

AppendRefused(r) ==
  /\ Submits(r) /\ BacklogFull
  /\ Answers(r, "503")
  /\ UNCHANGED <<disk, memory, phase, call, pipeline, stored, settled>>

\* The line is written and flushed, then the client is answered and the insert
\* handed to the collector.  After a torn line the new one is glued to its
\* remains and no scanner will decode it.
AppendLine(r) ==
  /\ wal' = IF tail = "torn" THEN wal ELSE wal \cup {[id |-> nextID + 1, rec |-> r]}
  /\ tail' = "whole"
  /\ UNCHANGED ackFile

Append(r) ==
  /\ Submits(r) /\ ~BacklogFull /\ writer = "ok"
  /\ nextID' = nextID + 1
  /\ AppendLine(r)
  /\ pendingCount' = pendingCount + 1
  /\ held' = held \cup {[id |-> nextID + 1, rec |-> r]}
  /\ Answers(r, "200")
  /\ UNCHANGED <<acked, acksSinceCompact, writer, phase, call, retained,
                 stored, settled>>

\* Mutant: the line is counted before it is written.
AppendWriteFailsCounted(r) ==
  /\ Submits(r) /\ ~BacklogFull /\ writer = "ok" /\ Allowed("write")
  /\ nextID' = nextID + 1
  /\ pendingCount' = pendingCount + 1
  /\ tail' \in {tail, "torn"}
  /\ writer' = "failed"
  /\ Answers(r, "500")
  /\ UNCHANGED <<wal, ackFile, acked, acksSinceCompact, phase, call, pipeline,
                 stored, settled>>

\* write(2) fails, possibly after part of the line: bufio.Writer keeps the
\* error and returns it from every later call.
AppendWriteFails(r) ==
  /\ Submits(r) /\ ~BacklogFull /\ writer = "ok" /\ Allowed("write")
  /\ nextID' = nextID + 1
  /\ tail' \in {tail, "torn"}
  /\ writer' = "failed"
  /\ Answers(r, "500")
  /\ UNCHANGED <<wal, ackFile, acked, pendingCount, acksSinceCompact, phase,
                 call, pipeline, stored, settled>>

\* journal_fsync: the line is in the file, its fsync fails.
AppendSyncFails(r) ==
  /\ Submits(r) /\ ~BacklogFull /\ writer = "ok" /\ Allowed("sync")
  /\ nextID' = nextID + 1
  /\ AppendLine(r)
  /\ Answers(r, "500")
  /\ UNCHANGED <<acked, pendingCount, acksSinceCompact, writer, phase, call,
                 pipeline, stored, settled>>

\* The kept error of a failed writer, or the panic of a nil one.
AppendWithoutWriter(r) ==
  /\ Submits(r) /\ ~BacklogFull /\ writer # "ok"
  /\ nextID' = nextID + 1
  /\ Answers(r, IF writer = "failed" THEN "500" ELSE "aborted")
  /\ UNCHANGED <<disk, acked, pendingCount, acksSinceCompact, writer, phase,
                 call, pipeline, stored, settled>>

\* The process dies while the line is on its way: none of it, part of it or
\* all of it is in the file, and the client gets no answer.
Down ==
  /\ phase' = "down"
  /\ nextID' = 0 /\ acked' = {} /\ pendingCount' = 0
  /\ acksSinceCompact' = 0 /\ writer' = "nil"
  /\ pc' = "free" /\ caller' = "none" /\ batch' = {} /\ ackedNew' = 0
  /\ held' = {} /\ retained' = {}

CrashInAppend(r) ==
  /\ Submits(r) /\ ~BacklogFull /\ writer = "ok"
  /\ \/ wal' = wal /\ tail' = "torn" /\ UNCHANGED ackFile
     \/ AppendLine(r)
  /\ Answers(r, "aborted")
  /\ Down
  /\ UNCHANGED <<stored, settled>>
-----------------------------------------------------------------------------
(* Ack, called once a batch is in live ClickHouse or in dump_dir.          *)

\* ids of one batch, each a line still held in memory.
AckBegin(T) ==
  /\ pc = "free" /\ phase \in {"replayed", "serving", "closed"}
  /\ T # {}
  /\ held' = held \ T
  /\ batch' = T
  /\ stored' = stored \cup Recs(T)
  /\ pc' = "acking" /\ ackedNew' = 0
  /\ UNCHANGED <<disk, memory, phase, caller, retained, reply, settled>>

AckOne(t) ==
  /\ pc = "acking"
  /\ batch' = batch \ {t}
  /\ IF t.id \in acked
     THEN UNCHANGED <<ackFile, acked, pendingCount, ackedNew, settled>>
     ELSE /\ ackFile' = ackFile \cup {t.id}
          /\ acked' = acked \cup {t.id}
          /\ pendingCount' = pendingCount - 1
          /\ ackedNew' = ackedNew + 1
          /\ settled' = settled \cup {t.rec}
  /\ UNCHANGED <<wal, tail, nextID, acksSinceCompact, writer, phase, pc,
                 caller, held, retained, reply, stored>>

\* Opening or writing ack.jsonl fails: Ack returns, and nothing acks the rest
\* of the batch in the life of this process.
AckFails ==
  /\ pc = "acking" /\ Allowed("ack") /\ batch # {}
  /\ pc' = "free" /\ batch' = {} /\ ackedNew' = 0
  /\ retained' = retained \cup batch
  /\ UNCHANGED <<disk, memory, phase, caller, held, history>>

\* Mutant: Ack counts its acks away from the next compaction.
AckEndCountsDown ==
  /\ pc = "acking" /\ batch = {}
  /\ acksSinceCompact' = acksSinceCompact - ackedNew
  /\ ackedNew' = 0 /\ pc' = "free"
  /\ UNCHANGED <<disk, nextID, acked, pendingCount, writer, phase, batch,
                 caller, pipeline, history>>

\* The end of Ack and maybeCompactLocked, whose journalCompactMinInterval may
\* have passed at any time.
CompactionDue == ackedNew > 0 /\ acksSinceCompact + ackedNew >= CompactMinAcks

AckEnd ==
  /\ pc = "acking" /\ batch = {}
  /\ acksSinceCompact' = acksSinceCompact + ackedNew
  /\ ackedNew' = 0
  /\ \/ pc' = "free" /\ (~CompactionDue \/ Allowed("ack")) /\ UNCHANGED caller
     \/ pc' = "compacting" /\ ackedNew > 0 /\ caller' = "ack"
  /\ UNCHANGED <<disk, nextID, acked, pendingCount, writer, phase, batch,
                 pipeline, history>>

\* Mutant: the worker acks a batch whether or not its dump was written.
GiveUpButAck(T) ==
  /\ phase \in {"replayed", "serving", "closed"} /\ pc = "free"
  /\ T # {}
  /\ held' = held \ T
  /\ batch' = T /\ pc' = "acking" /\ ackedNew' = 0
  /\ UNCHANGED <<disk, memory, phase, caller, retained, history>>

\* Send and dump failed: the worker acks nothing and forgets the batch.
GiveUp(T) ==
  /\ phase \in {"replayed", "serving", "closed"}
  /\ T # {}
  /\ held' = held \ T
  /\ retained' = retained \cup T
  /\ UNCHANGED <<disk, memory, phase, call, history>>
-----------------------------------------------------------------------------
(* compactLocked, under the lock of its caller.                            *)

CompactMayFail ==
  \/ caller = "startup" /\ Allowed("startup")
  \/ caller # "startup" /\ Allowed("compact")

\* What the caller does when compactLocked returns: Ack and the startup return
\* its error to a log line, Close keeps the files open if there was one.
CompactReturns(err) ==
  /\ pc' = "free" /\ caller' = "none"
  /\ phase' = CASE caller = "startup" -> "serving"
                [] caller = "close" /\ ~err -> "closed"
                [] OTHER -> phase

\* Flushing the old writer, reading the WAL or writing wal.jsonl.tmp fails; or
\* the rename does, when the old file is closed already.
CompactFails ==
  /\ pc = "compacting"
  /\ \/ /\ writer = "failed" \/ HasHuge(wal) \/ CompactMayFail
        /\ UNCHANGED writer
     \/ /\ writer # "failed" /\ ~HasHuge(wal) /\ CompactMayFail
        /\ writer' = "nil"
  /\ CompactReturns(TRUE)
  /\ UNCHANGED <<disk, nextID, acked, pendingCount, acksSinceCompact, batch,
                 ackedNew, pipeline, history>>

\* Mutant: the rewritten WAL keeps the lines already acked.
CompactRenameAll ==
  /\ pc = "compacting" /\ writer # "failed" /\ ~HasHuge(wal)
  /\ tail' = "whole"
  /\ writer' = "nil"
  /\ pc' = "renamed"
  /\ UNCHANGED <<wal, ackFile, nextID, acked, pendingCount, acksSinceCompact,
                 phase, caller, batch, ackedNew, pipeline, history>>

CompactRename ==
  /\ pc = "compacting" /\ writer # "failed" /\ ~HasHuge(wal)
  /\ wal' = Unacked(wal, acked) /\ tail' = "whole"
  /\ writer' = "nil"
  /\ pc' = "renamed"
  /\ UNCHANGED <<ackFile, nextID, acked, pendingCount, acksSinceCompact,
                 phase, caller, batch, ackedNew, pipeline, history>>

\* openWAL scans the new file with the default buffer.
CompactReopenFails ==
  /\ pc = "renamed" /\ HasLong(wal)
  /\ CompactReturns(TRUE)
  /\ UNCHANGED <<disk, memory, batch, ackedNew, pipeline, history>>

CompactReopen ==
  /\ pc = "renamed" /\ ~HasLong(wal)
  /\ \E n \in {nextID} \cup Ids(wal) :
       (\A i \in {nextID} \cup Ids(wal) : i <= n) /\ nextID' = n
  /\ writer' = "ok"
  /\ acked' = {}
  /\ pendingCount' = Cardinality(wal)
  /\ acksSinceCompact' = 0
  /\ pc' = "reopened"
  /\ UNCHANGED <<disk, phase, caller, batch, ackedNew, pipeline, history>>

\* resetAckFileLocked, and for Close the closing of the files.
CompactReset ==
  /\ pc = "reopened"
  /\ ackFile' = {}
  /\ CompactReturns(FALSE)
  /\ writer' = IF caller = "close" THEN "nil" ELSE writer
  /\ UNCHANGED <<wal, tail, nextID, acked, pendingCount, acksSinceCompact,
                 batch, ackedNew, pipeline, history>>

CompactResetFails ==
  /\ pc = "reopened" /\ CompactMayFail
  /\ CompactReturns(TRUE)
  /\ UNCHANGED <<disk, memory, batch, ackedNew, pipeline, history>>
-----------------------------------------------------------------------------
\* The deferred Close of runServer and shutdownJournal both call it, while
\* handlers and senders may still be running.
Close ==
  /\ phase \in {"serving", "closed"} /\ pc = "free"
  /\ pc' = "compacting" /\ caller' = "close"
  /\ UNCHANGED <<disk, memory, phase, batch, ackedNew, pipeline, history>>

Crash ==
  /\ phase # "down"
  /\ Down
  /\ UNCHANGED <<disk, history>>

Next ==
  \/ NewJournal \/ ReplayUnacked \/ StartupCompact
  \/ \E r \in Records :
       \/ AppendRefused(r) \/ Append(r) \/ AppendWriteFails(r)
       \/ AppendSyncFails(r) \/ AppendWithoutWriter(r) \/ CrashInAppend(r)
  \/ \E T \in SUBSET held : AckBegin(T) \/ GiveUp(T)
  \/ \E t \in batch : AckOne(t)
  \/ AckFails \/ AckEnd
  \/ CompactFails \/ CompactRename \/ CompactReopenFails \/ CompactReopen
  \/ CompactReset \/ CompactResetFails
  \/ Close \/ Crash

Spec == Init /\ [][Next]_vars

\* A supervisor restarts the process, its one startup thread runs, a thread
\* that holds j.mu goes on, and the worker that holds a batch ends with it.
Fairness ==
  /\ WF_vars(NewJournal) /\ WF_vars(ReplayUnacked) /\ WF_vars(StartupCompact)
  /\ WF_vars(\E T \in SUBSET held : AckBegin(T) \/ GiveUp(T))
  /\ WF_vars(\E t \in batch : AckOne(t))
  /\ WF_vars(AckEnd)
  /\ WF_vars(CompactRename \/ CompactFails)
  /\ WF_vars(CompactReopen \/ CompactReopenFails)
  /\ WF_vars(CompactReset \/ CompactResetFails)

LiveSpec == Spec /\ Fairness
-----------------------------------------------------------------------------
\* The types of the variables of journal.go and of the process around it.
TypeOK ==
  /\ wal \in SUBSET Line /\ tail \in {"whole", "torn"} /\ ackFile \in SUBSET Nat
  /\ nextID \in Nat /\ acked \in SUBSET Nat /\ pendingCount \in Int
  /\ acksSinceCompact \in Nat /\ writer \in {"ok", "failed", "nil"}
  /\ phase \in Phases /\ pc \in Steps /\ caller \in Callers
  /\ batch \in SUBSET Line /\ ackedNew \in Nat
  /\ held \in SUBSET Line /\ retained \in SUBSET Line
  /\ reply \in [Records -> Replies]
  /\ stored \in SUBSET Records /\ settled \in SUBSET Records

\* An insert answered 200 is in live ClickHouse or dump_dir, or a restart
\* would replay it: in every state, between any two steps of a compaction,
\* an Ack or a startup.
Durable == Accepted \subseteq stored \cup Recs(Replayable)

\* Once Ack has written the line of an insert, no restart replays it, though
\* compaction resets ack.jsonl and a restart may reuse ids.
NoResurrection == settled \cap Recs(Replayable) = {}

\* pendingCount, kept by increments and decrements, is the number of lines a
\* restart would replay, so that max_journal_pending bounds the real backlog.
\* Only a line whose fsync failed, which is in the file, may be uncounted
\* until the next compaction or startup counts the lines again.
PendingCountExact ==
  (Live /\ pc = "free") =>
    /\ pendingCount <= Cardinality(Replayable)
    /\ pendingCount >= Cardinality({l \in Replayable : reply[l.rec] # "500"})

\* The next id is new to both files: otherwise a line of the old ack.jsonl
\* would mask a new insert.
FreshIDs ==
  phase \in {"serving", "closed"} =>
    /\ \A l \in wal : l.id <= nextID
    /\ \A i \in ackFile \cup acked : i <= nextID

\* A restart can always open the WAL the previous run left.
NeverFatal == phase # "fatal"

\* If the process does not crash forever, and can open the WAL, an insert
\* answered 200 is stored, or its batch was given up by send and dump and waits
\* for the next restart: none is forgotten in the WAL by the restart that
\* should have replayed it.
EventuallyStored ==
  <>[](phase \notin {"down", "fatal"}) =>
    \A r \in Records : reply[r] = "200" ~> r \in stored \cup Recs(retained)

\* The journal implements durable acceptance.
Abstract == INSTANCE DurableAccept WITH
  Inserts <- Records, accepted <- Accepted, outstanding <- Recs(Replayable)
ImplementsDurableAccept == Abstract!Spec
=============================================================================
