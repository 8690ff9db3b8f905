----------------------------- MODULE DualWrite -----------------------------
(***************************************************************************)
(* The whole pipeline with a backup: the handlers of server.go and         *)
(* sync_insert.go, the journal, the collector, DualSender, the two senders *)
(* with their dumps, SafeQuit, and the restart that replays the journal.   *)
(*                                                                         *)
(* Covered is how they fit together: who sends what to whom, who acks, and *)
(* what a process that ends takes with it.  The parts have modules of      *)
(* their own and are short here: the journal is the set of its unacked     *)
(* lines and never fails, the collector is one table, a flush takes the    *)
(* table and gives it to live in one step, a queue is a set of batches, and *)
(* what a ClickHouse has stored is not told from what waits in its         *)
(* dump_dir, except for the answer to a synchronous insert.                *)
(***************************************************************************)
EXTENDS Integers, FiniteSets

CONSTANTS
  Inserts,
  Opaque,    \* those that go past the table
  Synced,    \* those whose handler waits for live
  Faults,    \* the targets whose dump_dir may not be writable
  MaxEnds    \* bound: how often the process ends

Targets == {"live", "backup"}
\* The goroutines in DualSender.Send: a timer (or a Push that fills the table),
\* SafeQuit, and a PushOpaque for each opaque insert.
Flushers == {"timer", "quit"} \cup Opaque

ASSUME DualWriteAssumption ==
  /\ IsFiniteSet(Inserts)
  /\ Opaque \subseteq Inserts /\ Synced \subseteq Inserts
  /\ {"timer", "quit"} \cap Opaque = {}
  /\ Faults \subseteq Targets /\ MaxEnds \in Nat

VARIABLES
  \* on disk and outside: the unacked lines of the WAL, and the inserts in each
  \* ClickHouse or its dump_dir
  wal, safe,
  \* in memory: inserts on their way to Push, the table, the batches that went
  \* to live and not yet to backup, the queues, the workers, the steps of the
  \* synchronous inserts
  pushing, table, half, queued, worker, sync,
  \* whether the process runs, how often it ended, where SafeQuit is
  up, ends, quit,
  \* history: the answers, the inserts whose dump could not be written, those
  \* replayed from the journal, those the end of a process took from backup,
  \* those in the table or a queue when SafeQuit began, the synchronous ones
  \* live accepted
  reply, kept, replayed, gaps, early, took

outside == <<wal, safe>>
intake == <<pushing, table>>
senders == <<half, queued, worker>>
process == <<up, ends, quit>>
history == <<reply, kept, replayed, gaps, early, took>>
vars == <<outside, intake, senders, sync, process, history>>

Idle == [batch |-> {}, step |-> "idle"]
\* What only the memory of the process holds for backup.
BackupMemory ==
  (UNION queued["backup"]) \cup worker["backup"].batch
  \cup (UNION {half[f] : f \in Flushers}) \cup {i \in Synced : sync[i] = "copy"}

NoBatches == [f \in Flushers |-> {}]
NoQueues == [t \in Targets |-> {}]
NoWork == [t \in Targets |-> Idle]
NoSync == [i \in Synced |-> "none"]

Init ==
  /\ wal = {}
  /\ safe = [t \in Targets |-> {}]
  /\ pushing = {} /\ table = {} /\ half = NoBatches
  /\ queued = NoQueues /\ worker = NoWork /\ sync = NoSync /\ quit = "no"
  /\ up = TRUE /\ ends = 0
  /\ reply = [i \in Inserts |-> "none"]
  /\ kept = [t \in Targets |-> {}] /\ replayed = {} /\ gaps = {}
  /\ early = {} /\ took = {}
-----------------------------------------------------------------------------
(* The handlers, and the way into the queues.                              *)

Accepts(i) ==
  /\ up /\ quit = "no" /\ reply[i] = "none"
  /\ wal' = wal \cup {i}

\* Append, go Push or go PushOpaque, 200.
AcceptAsync(i) ==
  /\ i \notin Synced /\ Accepts(i)
  /\ pushing' = pushing \cup {i}
  /\ reply' = [reply EXCEPT ![i] = "200"]
  /\ UNCHANGED <<safe, table, senders, sync, process, kept, replayed, gaps, early, took>>

\* Push, of a batched insert or of the line of a synchronous one.
Push(i) ==
  /\ i \in pushing \ Opaque
  /\ pushing' = pushing \ {i} /\ table' = table \cup {i}
  /\ UNCHANGED <<outside, senders, sync, process, history>>

\* Mutant: an empty table is sent like any other.
SendLiveAny(f, batch) ==
  /\ half[f] = {}
  /\ queued' = [queued EXCEPT !["live"] = @ \cup {batch}]
  /\ half' = [half EXCEPT ![f] = batch]

\* DualSender.Send, first half: live.Send, by goroutine f.
SendLive(f, batch) ==
  /\ half[f] = {} /\ batch # {}
  /\ queued' = [queued EXCEPT !["live"] = @ \cup {batch}]
  /\ half' = [half EXCEPT ![f] = batch]

\* Mutant: a batch goes to backup only while live has nothing else to do.
SendBackupIfQuiet(f) ==
  /\ half[f] # {}
  /\ queued' = IF Cardinality(queued["live"]) > 1 THEN queued
               ELSE [queued EXCEPT !["backup"] = @ \cup {half[f]}]
  /\ half' = [half EXCEPT ![f] = {}]
  /\ UNCHANGED <<outside, intake, worker, sync, process, history>>

\* Second half: backup.Send of a copy.
SendBackup(f) ==
  /\ half[f] # {}
  /\ queued' = [queued EXCEPT !["backup"] = @ \cup {half[f]}]
  /\ half' = [half EXCEPT ![f] = {}]
  /\ UNCHANGED <<outside, intake, worker, sync, process, history>>

PushOpaque(i) ==
  /\ i \in pushing \cap Opaque
  /\ pushing' = pushing \ {i}
  /\ SendLive(i, {i})
  /\ UNCHANGED <<outside, table, worker, sync, process, history>>

Flush(f) ==
  /\ f = "timer" \/ quit = "loop"
  /\ SendLive(f, table)
  /\ table' = {}
  /\ UNCHANGED <<outside, pushing, worker, sync, process, history>>
-----------------------------------------------------------------------------
(* The worker of each target.                                              *)

Works(t, step) == worker' = [worker EXCEPT ![t].step = step]

Saved(t, batch) == safe' = [safe EXCEPT ![t] = @ \cup batch]

Poll(t, batch) ==
  /\ worker[t] = Idle /\ batch \in queued[t]
  /\ queued' = [queued EXCEPT ![t] = @ \ {batch}]
  /\ worker' = [worker EXCEPT ![t] = [batch |-> batch, step |-> "post"]]
  /\ UNCHANGED <<outside, intake, half, sync, process, history>>

\* The POST is accepted, or it fails and Dump writes the batch.
Settle(t) ==
  /\ worker[t].step = "post"
  /\ Saved(t, worker[t].batch)
  /\ Works(t, "done")
  /\ UNCHANGED <<wal, intake, half, queued, sync, process, history>>

\* Both fail: the journal keeps the entries.
DumpFails(t) ==
  /\ worker[t].step = "post" /\ t \in Faults
  /\ kept' = [kept EXCEPT ![t] = @ \cup worker[t].batch]
  /\ worker' = [worker EXCEPT ![t] = Idle]
  /\ UNCHANGED <<outside, intake, half, queued, sync, process, reply, replayed, gaps, early, took>>

\* Mutant: the backup sender has the journal as well.
AckByBoth(t) ==
  /\ worker[t].step = "done"
  /\ wal' = wal \ worker[t].batch
  /\ worker' = [worker EXCEPT ![t] = Idle]
  /\ UNCHANGED <<safe, intake, half, queued, sync, process, history>>

\* ackJournal, which does nothing for backup: only live has the journal.
Ack(t) ==
  /\ worker[t].step = "done"
  /\ wal' = IF t = "live" THEN wal \ worker[t].batch ELSE wal
  /\ worker' = [worker EXCEPT ![t] = Idle]
  /\ UNCHANGED <<safe, intake, half, queued, sync, process, history>>

-----------------------------------------------------------------------------
(* Synchronous inserts: straight to live, beside its queue.                *)

Syncs(i, step) == sync' = [sync EXCEPT ![i] = step]

AcceptSync(i) ==
  /\ i \in Synced /\ sync[i] = "none" /\ Accepts(i)
  /\ Syncs(i, "post")
  /\ UNCHANGED <<safe, intake, senders, process, history>>

SyncAccepted(i) ==
  /\ sync[i] = "post"
  /\ Saved("live", {i}) /\ took' = took \cup {i}
  /\ Syncs(i, "copy")
  /\ UNCHANGED <<wal, intake, senders, process, reply, kept, replayed, gaps, early>>

SyncCopies(i) ==
  /\ sync[i] = "copy"
  /\ queued' = [queued EXCEPT !["backup"] = @ \cup {{i}}]
  /\ Syncs(i, "accepted")
  /\ UNCHANGED <<outside, intake, half, worker, process, history>>

\* finishSyncInsert dumps what live did not take; if it cannot, it goes on.
SyncDumps(i) ==
  \/ /\ Saved("live", {i})
     /\ UNCHANGED kept
  \/ /\ "live" \in Faults
     /\ kept' = [kept EXCEPT !["live"] = @ \cup {i}]
     /\ UNCHANGED safe

\* Mutant: the backup gets a copy whatever live says.
SyncFailsCopied(i) ==
  /\ sync[i] = "post"
  /\ SyncDumps(i)
  /\ queued' = [queued EXCEPT !["backup"] = @ \cup {{i}}]
  /\ Syncs(i, "refused")
  /\ UNCHANGED <<wal, intake, half, worker, process, reply, replayed, gaps, early, took>>

SyncFails(i) ==
  /\ sync[i] = "post"
  /\ SyncDumps(i)
  /\ Syncs(i, "refused")
  /\ UNCHANGED <<wal, intake, senders, process, reply, replayed, gaps, early, took>>

\* The ack, in any case, and the answer.
SyncAnswers(i) ==
  /\ sync[i] \in {"accepted", "refused"}
  /\ wal' = wal \ {i}
  /\ reply' = [reply EXCEPT ![i] = IF sync[i] = "accepted" THEN "200" ELSE "error"]
  /\ Syncs(i, "none")
  /\ UNCHANGED <<safe, intake, senders, process, kept, replayed, gaps, early, took>>
-----------------------------------------------------------------------------
(* How the process ends and starts again.                                  *)

\* The memory is gone, and with it what backup had only there.
Ends ==
  /\ pushing' = {} /\ table' = {} /\ half' = NoBatches
  /\ queued' = NoQueues /\ worker' = NoWork /\ sync' = NoSync /\ quit' = "no"
  /\ up' = FALSE /\ ends' = ends + 1
  /\ gaps' = gaps \cup (BackupMemory \ (wal \cup safe["backup"]))
  /\ reply' = [i \in Inserts |->
                 IF i \in Synced /\ sync[i] # "none" THEN "aborted" ELSE reply[i]]
  /\ early' = {}
  /\ UNCHANGED <<outside, kept, replayed, took>>

\* A crash, main's exit before SafeQuit is through, or SafeQuit's deadline.
Crash == up /\ ends < MaxEnds /\ Ends

QuitTo(step) == /\ quit' = step
                /\ UNCHANGED <<outside, intake, senders, sync, up, ends, reply,
                               kept, replayed, gaps, took>>

\* SafeQuit, when srv.Start has returned.  Its loop ends when both queues and
\* the table are empty; otherwise it flushes the table and waits for live and
\* then for backup.
QuitBegin ==
  /\ up /\ quit = "no" /\ ends < MaxEnds
  /\ early' = table \cup UNION (queued["live"] \cup queued["backup"])
  /\ QuitTo("loop")

\* Mutant: the queue of live speaks for both.
EmptyLive == queued["live"] = {}

Empty == queued["live"] = {} /\ queued["backup"] = {}

Done(t) == queued[t] = {} /\ worker[t] = Idle

Waits(from, to) == quit = from /\ QuitTo(to) /\ UNCHANGED early

QuitWait == ~Empty /\ table = {} /\ half["quit"] = {} /\ Waits("loop", "live")

QuitWaitLive == Done("live") /\ Waits("live", "backup")

QuitWaitBackup == Done("backup") /\ Waits("backup", "loop")

Exit == quit = "loop" /\ Empty /\ table = {} /\ half["quit"] = {} /\ Ends

\* Mutant: the journal is opened and not replayed.
RestartEmpty ==
  /\ ~up /\ up' = TRUE
  /\ UNCHANGED <<outside, intake, senders, sync, ends, quit, history>>

\* NewJournal and ReplayUnacked, through the collector to both targets.
Restart ==
  /\ ~up /\ up' = TRUE
  /\ pushing' = wal /\ replayed' = replayed \cup wal
  /\ UNCHANGED <<outside, table, senders, sync, ends, quit, reply, kept, gaps, early, took>>
-----------------------------------------------------------------------------
Work(t) ==
  \/ \E batch \in queued[t] : Poll(t, batch)
  \/ Settle(t) \/ DumpFails(t) \/ Ack(t)

SyncStep(i) == SyncAccepted(i) \/ SyncCopies(i) \/ SyncFails(i) \/ SyncAnswers(i)

Quit == QuitWait \/ QuitWaitLive \/ QuitWaitBackup \/ Flush("quit") \/ SendBackup("quit") \/ Exit

Next ==
  \/ \E i \in Inserts : AcceptAsync(i) \/ AcceptSync(i) \/ Push(i) \/ PushOpaque(i)
  \/ \E f \in Flushers \ {"quit"} : SendBackup(f)
  \/ Flush("timer") \/ \E t \in Targets : Work(t)
  \/ \E i \in Synced : SyncStep(i)
  \/ QuitBegin \/ Quit \/ Crash \/ Restart

Spec == Init /\ [][Next]_vars

\* Goroutines run, POSTs return, and a supervisor starts the process again.
Fairness ==
  /\ \A i \in Inserts : WF_vars(Push(i) \/ PushOpaque(i))
  /\ \A f \in Flushers \ {"quit"} : WF_vars(SendBackup(f))
  /\ WF_vars(Flush("timer")) /\ WF_vars(Quit) /\ WF_vars(Restart)
  /\ \A t \in Targets : WF_vars(Work(t))
  /\ \A i \in Synced : WF_vars(SyncStep(i))

LiveSpec == Spec /\ Fairness
-----------------------------------------------------------------------------
\* The types of the variables.
TypeOK ==
  /\ wal \subseteq Inserts
  /\ safe \in [Targets -> SUBSET Inserts]
  /\ pushing \subseteq Inserts /\ table \subseteq Inserts \ Opaque
  /\ half \in [Flushers -> SUBSET Inserts]
  /\ queued \in [Targets -> SUBSET ((SUBSET Inserts) \ {{}})]
  /\ worker \in [Targets -> [batch : SUBSET Inserts,
                             step : {"idle", "post", "done"}]]
  /\ sync \in [Synced -> {"none", "post", "copy", "accepted", "refused"}]
  /\ up \in BOOLEAN /\ ends \in 0 .. MaxEnds
  /\ quit \in {"no", "loop", "live", "backup"}
  /\ reply \in [Inserts -> {"none", "200", "error", "aborted"}]
  /\ kept \in [Targets -> SUBSET Inserts]
  /\ replayed \subseteq Inserts /\ gaps \subseteq Inserts /\ took \subseteq Synced

Answered == {i \in Inserts : reply[i] = "200"}

\* An insert answered 200 is in the journal until it is in live ClickHouse or
\* in live's dump_dir, whatever backup does with it, and wherever the process
\* ends (DUAL_WRITE.md).
AcceptedIsSafe == Answered \subseteq wal \cup safe["live"]

\* What backup can miss of the inserts answered 200: what was in its memory
\* when the process ended and live had acked it, and what its dump_dir refused.
BackupMisses ==
  Answered \subseteq wal \cup BackupMemory \cup safe["backup"] \cup gaps \cup kept["backup"]

\* Backup gets a synchronous insert only after live took it, unless a restart
\* found it in the journal, which sends it to both.
SyncReachesBackupAfterLive ==
  Synced \cap (BackupMemory \cup safe["backup"]) \subseteq took \cup replayed

\* When SafeQuit ends the process, what it found in the table or in a queue
\* has got through both queues: all of it is in each target or its dump_dir,
\* except a batch the worker is sending or DualSender.Send is in the middle of.
EarlyReachBoth ==
  [][Exit => \A t \in Targets :
       early \subseteq safe[t] \cup kept[t] \cup worker[t].batch
                      \cup UNION {half[f] : f \in Flushers}]_vars

\* Every insert answered 200 gets to each target or its dump_dir, but for the
\* exceptions above and what live's dump_dir refused.
EventuallyDelivered ==
  \A i \in Inserts :
    reply[i] = "200" ~> /\ i \in safe["live"] \cup kept["live"]
                        /\ i \in safe["backup"] \cup kept["backup"] \cup gaps
=============================================================================
