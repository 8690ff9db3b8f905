-------------------------- MODULE DualWriteProofs --------------------------
(***************************************************************************)
(* Proofs about DualWrite for every set of inserts, however many of them   *)
(* are opaque or synchronous, whichever dump_dir fails, and however often  *)
(* the process ends: an insert answered 200 is never without the journal   *)
(* or live, and what backup may miss of it is what BackupMisses names.     *)
(***************************************************************************)
EXTENDS DualWrite, TLAPS

-----------------------------------------------------------------------------
(* The inductive invariant, in named parts.                                *)

\* SafeQuit begins only below the bound on ends.
QuitBounded == quit # "no" => up /\ ends < MaxEnds

\* What a worker is about to ack is safe at its target.
DoneIsSafe == \A t \in Targets : worker[t].step = "done" => worker[t].batch \subseteq safe[t]

\* A handler that waits for live has not answered, and live has what it accepted.
SyncPending ==
  \A i \in Synced :
    /\ sync[i] # "none" => reply[i] # "200"
    /\ sync[i] \in {"copy", "accepted"} => i \in safe["live"]

\* What backup has, will get, or is known to miss.
BackupHas == BackupMemory \cup safe["backup"] \cup gaps \cup kept["backup"]

\* DualSender gives backup what it gave live, before any ack of live's.
LiveIsCopied == (UNION queued["live"]) \cup worker["live"].batch \subseteq BackupHas

SyncIsCopied == \A i \in Synced : sync[i] = "accepted" => i \in BackupHas

\* A synchronous insert is on the way of the others only when it was replayed.
SyncOrigin ==
  /\ Synced \cap (pushing \cup table \cup UNION {half[f] : f \in Flushers}) \subseteq replayed
  /\ {i \in Synced : sync[i] = "copy"} \subseteq took

IInv == /\ TypeOK /\ QuitBounded /\ DoneIsSafe /\ SyncPending /\ LiveIsCopied
        /\ SyncIsCopied /\ AcceptedIsSafe /\ BackupMisses
        /\ SyncOrigin /\ SyncReachesBackupAfterLive
-----------------------------------------------------------------------------
LEMMA InitIInv == Init => IInv
  BY DualWriteAssumption
  DEF Init, IInv, TypeOK, QuitBounded, DoneIsSafe, SyncPending, BackupHas, BackupMemory,
      LiveIsCopied, SyncIsCopied, AcceptedIsSafe, BackupMisses, SyncOrigin,
      SyncReachesBackupAfterLive, Answered, Targets, Flushers,
      NoBatches, NoQueues, NoWork, NoSync, Idle

LEMMA MemoryType == TypeOK => BackupMemory \subseteq Inserts
<1> SUFFICES ASSUME TypeOK PROVE BackupMemory \subseteq Inserts
  OBVIOUS
<1>1. UNION queued["backup"] \subseteq Inserts
  <2>1. queued["backup"] \in SUBSET ((SUBSET Inserts) \ {{}})
    BY DEF TypeOK, Targets
  <2>2. QED
    BY <2>1
<1>2. worker["backup"].batch \subseteq Inserts
  BY DEF TypeOK, Targets
<1>3. UNION {half[f] : f \in Flushers} \subseteq Inserts
  BY DEF TypeOK
<1>4. {i \in Synced : sync[i] = "copy"} \subseteq Inserts
  BY DualWriteAssumption
<1>5. QED
  BY <1>1, <1>2, <1>3, <1>4, Zenon DEF BackupMemory

\* A batch more in the queue of one target.
LEMMA QueueType ==
  ASSUME TypeOK, NEW t \in Targets, NEW b \in (SUBSET Inserts) \ {{}},
         queued' = [queued EXCEPT ![t] = @ \cup {b}]
  PROVE  queued' \in [Targets -> SUBSET ((SUBSET Inserts) \ {{}})]
<1>1. queued \in [Targets -> SUBSET ((SUBSET Inserts) \ {{}})]
  BY DEF TypeOK
<1>2. queued[t] \in SUBSET ((SUBSET Inserts) \ {{}})
  BY <1>1
<1>3. {b} \in SUBSET ((SUBSET Inserts) \ {{}})
  BY Zenon
<1>4. queued[t] \cup {b} \in SUBSET ((SUBSET Inserts) \ {{}})
  BY <1>2, <1>3, Zenon
<1>5. QED
  BY <1>1, <1>4, Zenon

LEMMA TypeStep == TypeOK /\ QuitBounded /\ [Next]_vars => (TypeOK /\ QuitBounded)'
<1> SUFFICES ASSUME TypeOK, QuitBounded, [Next]_vars PROVE (TypeOK /\ QuitBounded)'
  OBVIOUS
<1> USE DualWriteAssumption DEF TypeOK, QuitBounded, Targets, Flushers, outside, intake, senders, process, history
<1>1. ASSUME NEW i \in Inserts, AcceptAsync(i) \/ Push(i) PROVE (TypeOK /\ QuitBounded)'
  BY <1>1 DEF AcceptAsync, Accepts, Push
<1>2. ASSUME NEW i \in Inserts, PushOpaque(i) PROVE (TypeOK /\ QuitBounded)'
<2>1. {i} # {} /\ {i} \in SUBSET Inserts /\ i \in Flushers
  BY <1>2 DEF PushOpaque
<2>2. queued' \in [Targets -> SUBSET ((SUBSET Inserts) \ {{}})]
  BY <1>2, <2>1, QueueType DEF PushOpaque, SendLive
<2>3. half' \in [Flushers -> SUBSET Inserts]
  BY <1>2, <2>1 DEF PushOpaque, SendLive
<2>4. QED
  BY <1>2, <2>2, <2>3 DEF PushOpaque
<1>3. ASSUME NEW i \in Inserts, AcceptSync(i) PROVE (TypeOK /\ QuitBounded)'
  BY <1>3 DEF AcceptSync, Accepts, Syncs
<1>4. ASSUME NEW f \in Flushers, SendBackup(f) PROVE (TypeOK /\ QuitBounded)'
<2>1. half[f] \in SUBSET Inserts
  OBVIOUS
<2>2. queued' \in [Targets -> SUBSET ((SUBSET Inserts) \ {{}})]
  BY <1>4, <2>1, QueueType DEF SendBackup
<2>3. QED
  BY <1>4, <2>2 DEF SendBackup
<1>5. ASSUME NEW f \in Flushers, Flush(f) PROVE (TypeOK /\ QuitBounded)'
<2>1. table \in SUBSET Inserts
  OBVIOUS
<2>2. queued' \in [Targets -> SUBSET ((SUBSET Inserts) \ {{}})]
  BY <1>5, <2>1, QueueType DEF Flush, SendLive
<2>3. half' \in [Flushers -> SUBSET Inserts]
  BY <1>5, <2>1 DEF Flush, SendLive
<2>4. QED
  BY <1>5, <2>2, <2>3 DEF Flush
<1>6. ASSUME NEW t \in Targets, NEW batch \in queued[t], Poll(t, batch) PROVE (TypeOK /\ QuitBounded)'
  BY <1>6 DEF Poll, Idle
<1>7. ASSUME NEW t \in Targets, Settle(t) PROVE (TypeOK /\ QuitBounded)'
  BY <1>7 DEF Settle, Saved, Works
<1>8. ASSUME NEW t \in Targets, DumpFails(t) \/ Ack(t) PROVE (TypeOK /\ QuitBounded)'
  BY <1>8 DEF DumpFails, Ack, Idle
<1>9. ASSUME NEW i \in Synced, SyncAccepted(i) PROVE (TypeOK /\ QuitBounded)'
  BY <1>9 DEF SyncAccepted, Saved, Syncs
<1>10. ASSUME NEW i \in Synced, SyncCopies(i) PROVE (TypeOK /\ QuitBounded)'
<2>1. {i} \in SUBSET Inserts /\ {i} # {}
  OBVIOUS
<2>2. queued' \in [Targets -> SUBSET ((SUBSET Inserts) \ {{}})]
  BY <1>10, <2>1, QueueType DEF SyncCopies
<2>3. QED
  BY <1>10, <2>2 DEF SyncCopies, Syncs
<1>11. ASSUME NEW i \in Synced, SyncFails(i) PROVE (TypeOK /\ QuitBounded)'
  BY <1>11 DEF SyncFails, SyncDumps, Saved, Syncs
<1>12. ASSUME NEW i \in Synced, SyncAnswers(i) PROVE (TypeOK /\ QuitBounded)'
  BY <1>12 DEF SyncAnswers, Syncs
<1>13. CASE QuitBegin \/ QuitWait \/ QuitWaitLive \/ QuitWaitBackup
  BY <1>13 DEF QuitBegin, QuitWait, QuitWaitLive, QuitWaitBackup, Waits, QuitTo
<1>14. CASE (Crash \/ Exit)
<2>1. Ends /\ ends < MaxEnds
  BY <1>14 DEF Crash, Exit
<2>2. gaps' \subseteq Inserts
  BY <2>1, MemoryType DEF Ends
<2>3. reply' \in [Inserts -> {"none", "200", "error", "aborted"}]
  BY <2>1 DEF Ends
<2>4. worker' \in [Targets -> [batch : SUBSET Inserts, step : {"idle", "post", "done"}]]
  BY <2>1 DEF Ends, NoWork, Idle
<2>5. half' \in [Flushers -> SUBSET Inserts]
      /\ queued' \in [Targets -> SUBSET ((SUBSET Inserts) \ {{}})]
      /\ sync' \in [Synced -> {"none", "post", "copy", "accepted", "refused"}]
  BY <2>1 DEF Ends, NoBatches, NoQueues, NoSync
<2>6. ends' \in 0 .. MaxEnds
  BY <2>1 DEF Ends
<2>7. /\ pushing' = {} /\ table' = {} /\ quit' = "no" /\ up' = FALSE
      /\ UNCHANGED <<wal, safe, kept, replayed, took>>
  BY <2>1 DEF Ends
<2>8. QED
  BY <2>2, <2>3, <2>4, <2>5, <2>6, <2>7
<1>15. CASE Restart
  BY <1>15 DEF Restart
<1>16. CASE UNCHANGED vars
  BY <1>16 DEF vars
<1>17. QED
  BY <1>1, <1>2, <1>3, <1>4, <1>5, <1>6, <1>7, <1>8, <1>9, <1>10, <1>11, <1>12, <1>13, <1>14,
     <1>15, <1>16
  DEF Next, Work, SyncStep, Quit

LEMMA SafeStep ==
  TypeOK /\ DoneIsSafe /\ SyncPending /\ AcceptedIsSafe /\ [Next]_vars
    => (DoneIsSafe /\ SyncPending /\ AcceptedIsSafe)'
<1> SUFFICES ASSUME TypeOK, DoneIsSafe, SyncPending, AcceptedIsSafe, [Next]_vars
             PROVE  (DoneIsSafe /\ SyncPending /\ AcceptedIsSafe)'
  OBVIOUS
<1> DEFINE Goal == (DoneIsSafe /\ SyncPending /\ AcceptedIsSafe)'
<1> USE DualWriteAssumption DEF TypeOK, DoneIsSafe, SyncPending, AcceptedIsSafe, Answered,
      Targets, outside, intake, senders, process, history
<1>1. ASSUME NEW i \in Inserts, AcceptAsync(i) \/ Push(i) \/ PushOpaque(i) PROVE Goal
  BY <1>1 DEF AcceptAsync, Accepts, Push, PushOpaque, SendLive
<1>2. ASSUME NEW i \in Inserts, AcceptSync(i) PROVE Goal
  BY <1>2 DEF AcceptSync, Accepts, Syncs
<1>3. ASSUME NEW f \in Flushers, SendBackup(f) \/ Flush(f) PROVE Goal
  BY <1>3 DEF SendBackup, Flush, SendLive
<1>4. ASSUME NEW t \in Targets, NEW batch \in queued[t], Poll(t, batch) PROVE Goal
  BY <1>4 DEF Poll, Idle
<1>5. ASSUME NEW t \in Targets, Settle(t) PROVE Goal
  BY <1>5 DEF Settle, Saved, Works
<1>6. ASSUME NEW t \in Targets, DumpFails(t) \/ Ack(t) PROVE Goal
  BY <1>6 DEF DumpFails, Ack, Idle
<1>7. ASSUME NEW i \in Synced, SyncAccepted(i) PROVE Goal
  BY <1>7 DEF SyncAccepted, Saved, Syncs
<1>8. ASSUME NEW i \in Synced, SyncCopies(i) PROVE Goal
  BY <1>8 DEF SyncCopies, Syncs
<1>9. ASSUME NEW i \in Synced, SyncFails(i) PROVE Goal
  BY <1>9 DEF SyncFails, SyncDumps, Saved, Syncs
<1>10. ASSUME NEW i \in Synced, SyncAnswers(i) PROVE Goal
  BY <1>10 DEF SyncAnswers, Syncs
<1>11. CASE QuitBegin \/ QuitWait \/ QuitWaitLive \/ QuitWaitBackup
  BY <1>11 DEF QuitBegin, QuitWait, QuitWaitLive, QuitWaitBackup, Waits, QuitTo
<1>12. CASE Crash \/ Exit
  BY <1>12 DEF Crash, Exit, Ends, NoWork, NoSync, Idle
<1>13. CASE Restart
  BY <1>13 DEF Restart
<1>14. CASE UNCHANGED vars
  BY <1>14 DEF vars
<1>15. QED
  BY <1>1, <1>2, <1>3, <1>4, <1>5, <1>6, <1>7, <1>8, <1>9, <1>10, <1>11, <1>12, <1>13, <1>14
  DEF Next, Work, SyncStep, Quit, Flushers

LEMMA UnionAdd == \A S, b : UNION (S \cup {b}) = (UNION S) \cup b
  OBVIOUS

\* As long as the process goes on, nothing that backup has gets lost.
LEMMA BackupGrows ==
  ASSUME TypeOK, DoneIsSafe, [Next]_vars, ~Ends
  PROVE  BackupHas \subseteq BackupHas'
<1> DEFINE Goal == BackupHas \subseteq BackupHas'
<1> USE DualWriteAssumption DEF TypeOK, BackupHas, BackupMemory,
      Targets, outside, intake, senders, process, history
<1>1. ASSUME NEW i \in Inserts, AcceptAsync(i) \/ Push(i) PROVE Goal
  BY <1>1 DEF AcceptAsync, Accepts, Push
<1>2. ASSUME NEW i \in Inserts, PushOpaque(i) PROVE Goal
  BY <1>2 DEF PushOpaque, SendLive
<1>3. ASSUME NEW i \in Inserts, AcceptSync(i) PROVE Goal
  BY <1>3 DEF AcceptSync, Accepts, Syncs
<1>4. ASSUME NEW f \in Flushers, SendBackup(f) PROVE Goal
  BY <1>4 DEF SendBackup
<1>5. ASSUME NEW f \in Flushers, Flush(f) PROVE Goal
  BY <1>5 DEF Flush, SendLive
<1>6. ASSUME NEW t \in Targets, NEW batch \in queued[t], Poll(t, batch) PROVE Goal
  BY <1>6 DEF Poll, Idle
<1>7. ASSUME NEW t \in Targets, Settle(t) PROVE Goal
  BY <1>7 DEF Settle, Saved, Works
<1>8. ASSUME NEW t \in Targets, DumpFails(t) PROVE Goal
  BY <1>8 DEF DumpFails, Idle
<1>9. ASSUME NEW t \in Targets, Ack(t) PROVE Goal
  BY <1>9 DEF Ack, Idle, DoneIsSafe
<1>10. ASSUME NEW i \in Synced, SyncAccepted(i) PROVE Goal
  BY <1>10 DEF SyncAccepted, Saved, Syncs
<1>11. ASSUME NEW i \in Synced, SyncCopies(i) PROVE Goal
  <2>1. queued'["backup"] = queued["backup"] \cup {{i}}
    BY <1>11 DEF SyncCopies
  <2>2. UNION queued'["backup"] = (UNION queued["backup"]) \cup {i}
    <3>1. UNION (queued["backup"] \cup {{i}}) = (UNION queued["backup"]) \cup {i}
      BY UnionAdd, Zenon
    <3>2. QED
      BY <2>1, <3>1
  <2>3. \A j \in Synced : sync[j] = "copy" => j = i \/ sync'[j] = "copy"
    BY <1>11 DEF SyncCopies, Syncs
  <2>4. QED
    BY <1>11, <2>2, <2>3 DEF SyncCopies
<1>12. ASSUME NEW i \in Synced, SyncFails(i) PROVE Goal
  BY <1>12 DEF SyncFails, SyncDumps, Saved, Syncs
<1>13. ASSUME NEW i \in Synced, SyncAnswers(i) PROVE Goal
  BY <1>13 DEF SyncAnswers, Syncs
<1>14. CASE QuitBegin \/ QuitWait \/ QuitWaitLive \/ QuitWaitBackup
  BY <1>14 DEF QuitBegin, QuitWait, QuitWaitLive, QuitWaitBackup, Waits, QuitTo
<1>15. CASE Restart
  BY <1>15 DEF Restart
<1>16. CASE UNCHANGED vars
  BY <1>16 DEF vars
<1>17. QED
  BY <1>1, <1>2, <1>3, <1>4, <1>5, <1>6, <1>7, <1>8, <1>9, <1>10, <1>11, <1>12, <1>13, <1>14,
     <1>15, <1>16
  DEF Next, Work, SyncStep, Quit, Flushers, Crash, Exit

\* What live has in hand, and what waits for its last step.
Live == (UNION queued["live"]) \cup worker["live"].batch
Pending == {i \in Synced : sync[i] = "accepted"}

\* What live gets new is in the middle of DualSender.Send, a synchronous insert
\* that goes on was given to backup, and the journal gives up only what was.
LEMMA Handover ==
  ASSUME TypeOK, SyncPending, [Next]_vars, ~Ends
  PROVE  /\ Live' \subseteq Live \cup UNION {half'[f] : f \in Flushers}
         /\ Pending' \subseteq Pending \cup UNION queued'["backup"]
         /\ Answered' \subseteq (Answered \ (wal \ wal')) \cup wal' \cup Live \cup Pending
<1> DEFINE Goal == /\ Live' \subseteq Live \cup UNION {half'[f] : f \in Flushers}
                   /\ Pending' \subseteq Pending \cup UNION queued'["backup"]
                   /\ Answered' \subseteq (Answered \ (wal \ wal')) \cup wal' \cup Live \cup Pending
<1> USE DualWriteAssumption DEF TypeOK, Live, Pending, Answered,
      Targets, outside, intake, senders, process, history
<1>1. ASSUME NEW i \in Inserts, AcceptAsync(i) \/ Push(i) PROVE Goal
  BY <1>1 DEF AcceptAsync, Accepts, Push
<1>2. ASSUME NEW i \in Inserts, PushOpaque(i) PROVE Goal
  BY <1>2 DEF PushOpaque, SendLive, Flushers
<1>3. ASSUME NEW i \in Inserts, AcceptSync(i) PROVE Goal
  BY <1>3 DEF AcceptSync, Accepts, Syncs
<1>4. ASSUME NEW f \in Flushers, SendBackup(f) PROVE Goal
  BY <1>4 DEF SendBackup
<1>5. ASSUME NEW f \in Flushers, Flush(f) PROVE Goal
  BY <1>5 DEF Flush, SendLive
<1>6. ASSUME NEW t \in Targets, NEW batch \in queued[t], Poll(t, batch) PROVE Goal
  BY <1>6 DEF Poll, Idle
<1>7. ASSUME NEW t \in Targets, Settle(t) PROVE Goal
  BY <1>7 DEF Settle, Saved, Works
<1>8. ASSUME NEW t \in Targets, DumpFails(t) \/ Ack(t) PROVE Goal
  BY <1>8 DEF DumpFails, Ack, Idle
<1>9. ASSUME NEW i \in Synced, SyncAccepted(i) \/ SyncFails(i) PROVE Goal
  BY <1>9 DEF SyncAccepted, SyncFails, SyncDumps, Saved, Syncs
<1>10. ASSUME NEW i \in Synced, SyncCopies(i) PROVE Goal
  BY <1>10 DEF SyncCopies, Syncs
<1>11. ASSUME NEW i \in Synced, SyncAnswers(i) PROVE Goal
  BY <1>11 DEF SyncAnswers, Syncs, SyncPending
<1>12. CASE QuitBegin \/ QuitWait \/ QuitWaitLive \/ QuitWaitBackup
  BY <1>12 DEF QuitBegin, QuitWait, QuitWaitLive, QuitWaitBackup, Waits, QuitTo
<1>13. CASE Restart
  BY <1>13 DEF Restart
<1>14. CASE UNCHANGED vars
  BY <1>14 DEF vars
<1>15. QED
  BY <1>1, <1>2, <1>3, <1>4, <1>5, <1>6, <1>7, <1>8, <1>9, <1>10, <1>11, <1>12, <1>13, <1>14
  DEF Next, Work, SyncStep, Quit, Flushers, Crash, Exit

LEMMA CopyStep ==
  IInv /\ [Next]_vars => (LiveIsCopied /\ SyncIsCopied /\ BackupMisses)'
<1> SUFFICES ASSUME IInv, [Next]_vars PROVE (LiveIsCopied /\ SyncIsCopied /\ BackupMisses)'
  OBVIOUS
<1>1. CASE Ends
  <2>1. LiveIsCopied'
    BY <1>1 DEF Ends, NoQueues, NoWork, Idle, LiveIsCopied, Targets
  <2>2. SyncIsCopied'
    BY <1>1 DEF Ends, NoSync, SyncIsCopied
  <2>3. Answered' \subseteq Answered
    BY <1>1 DEF Ends, Answered
  <2>4. QED
    BY <1>1, <2>1, <2>2, <2>3 DEF IInv, Ends, BackupMisses, outside
<1>2. CASE ~Ends
  <2>1. BackupHas \subseteq BackupHas'
    BY <1>2, BackupGrows DEF IInv
  <2>2. /\ Live' \subseteq Live \cup UNION {half'[f] : f \in Flushers}
        /\ Pending' \subseteq Pending \cup UNION queued'["backup"]
        /\ Answered' \subseteq (Answered \ (wal \ wal')) \cup wal' \cup Live \cup Pending
    BY <1>2, Handover DEF IInv
  <2>3. UNION {half'[f] : f \in Flushers} \subseteq BackupHas' /\ UNION queued'["backup"] \subseteq BackupHas'
    BY DEF BackupHas, BackupMemory
  <2>4. Live \subseteq BackupHas /\ Pending \subseteq BackupHas /\ Answered \subseteq wal \cup BackupHas
    BY DEF IInv, LiveIsCopied, SyncIsCopied, BackupMisses, BackupHas, Live, Pending
  <2>5. /\ Live' \subseteq BackupHas' /\ Pending' \subseteq BackupHas'
        /\ Answered' \subseteq wal' \cup BackupHas'
    BY <2>1, <2>2, <2>3, <2>4
  <2>6. QED
    BY <2>5 DEF LiveIsCopied, SyncIsCopied, BackupMisses, BackupHas, Live, Pending
<1>3. QED
  BY <1>1, <1>2

LEMMA OriginStep ==
  ASSUME TypeOK, SyncOrigin, SyncReachesBackupAfterLive, [Next]_vars
  PROVE  (SyncOrigin /\ SyncReachesBackupAfterLive)'
<1> DEFINE Goal == (SyncOrigin /\ SyncReachesBackupAfterLive)'
<1> USE DualWriteAssumption DEF TypeOK, SyncOrigin, SyncReachesBackupAfterLive, BackupMemory,
      Targets, outside, intake, senders, process, history
<1>1. ASSUME NEW i \in Inserts, AcceptAsync(i) \/ Push(i) PROVE Goal
  BY <1>1 DEF AcceptAsync, Accepts, Push
<1>2. ASSUME NEW i \in Inserts, PushOpaque(i) PROVE Goal
  BY <1>2 DEF PushOpaque, SendLive, Flushers
<1>3. ASSUME NEW i \in Inserts, AcceptSync(i) PROVE Goal
  BY <1>3 DEF AcceptSync, Accepts, Syncs
<1>4. ASSUME NEW f \in Flushers, SendBackup(f) PROVE Goal
  BY <1>4 DEF SendBackup
<1>5. ASSUME NEW f \in Flushers, Flush(f) PROVE Goal
  BY <1>5 DEF Flush, SendLive
<1>6. ASSUME NEW t \in Targets, NEW batch \in queued[t], Poll(t, batch) PROVE Goal
  BY <1>6 DEF Poll, Idle
<1>7. ASSUME NEW t \in Targets, Settle(t) PROVE Goal
  BY <1>7 DEF Settle, Saved, Works
<1>8. ASSUME NEW t \in Targets, DumpFails(t) \/ Ack(t) PROVE Goal
  BY <1>8 DEF DumpFails, Ack, Idle
<1>9. ASSUME NEW i \in Synced, SyncAccepted(i) \/ SyncFails(i) PROVE Goal
  BY <1>9 DEF SyncAccepted, SyncFails, SyncDumps, Saved, Syncs
<1>10. ASSUME NEW i \in Synced, SyncCopies(i) PROVE Goal
  BY <1>10 DEF SyncCopies, Syncs
<1>11. ASSUME NEW i \in Synced, SyncAnswers(i) PROVE Goal
  BY <1>11 DEF SyncAnswers, Syncs
<1>12. CASE QuitBegin \/ QuitWait \/ QuitWaitLive \/ QuitWaitBackup
  BY <1>12 DEF QuitBegin, QuitWait, QuitWaitLive, QuitWaitBackup, Waits, QuitTo
<1>13. CASE Crash \/ Exit
  BY <1>13 DEF Crash, Exit, Ends, NoBatches, NoQueues, NoWork, NoSync, Idle
<1>14. CASE Restart
  BY <1>14 DEF Restart
<1>15. CASE UNCHANGED vars
  BY <1>15 DEF vars
<1>16. QED
  BY <1>1, <1>2, <1>3, <1>4, <1>5, <1>6, <1>7, <1>8, <1>9, <1>10, <1>11, <1>12, <1>13, <1>14, <1>15
  DEF Next, Work, SyncStep, Quit, Flushers

LEMMA InvStep == IInv /\ [Next]_vars => IInv'
  BY TypeStep, SafeStep, CopyStep, OriginStep DEF IInv

\* The inductive invariant holds in every reachable state.
THEOREM Invariance == Spec => []IInv
<1>1. Init => IInv
  BY InitIInv
<1>2. IInv /\ [Next]_vars => IInv'
  BY InvStep
<1>3. QED
  BY <1>1, <1>2, PTL DEF Spec

\* The types of the variables hold for every set of inserts.
THEOREM TypeCorrect == Spec => []TypeOK
  BY Invariance, PTL DEF IInv

\* An insert answered 200 is in the journal, or in live or its dump_dir: only
\* live's worker and the handlers of synchronous inserts ack, after live has it.
THEOREM AcceptedStaysSafe == Spec => []AcceptedIsSafe
  BY Invariance, PTL DEF IInv

\* Backup misses of them only what BackupMisses names: DualSender.Send gives it
\* every batch before live's worker can ack one and the process end.
THEOREM BackupMissesNoMore == Spec => []BackupMisses
  BY Invariance, PTL DEF IInv

\* Backup gets a synchronous insert after live took it, or from a replay: it is
\* on the way of the others only when a restart put it there.
THEOREM SyncAfterLive == Spec => []SyncReachesBackupAfterLive
  BY Invariance, PTL DEF IInv
-----------------------------------------------------------------------------
(* What SafeQuit found reaches both targets.                               *)

\* What target t has, or has in its queue or its worker's hand.
Mem(t) == (UNION queued[t]) \cup worker[t].batch \cup safe[t] \cup kept[t]
Half == UNION {half[f] : f \in Flushers}
Backlog == (UNION queued["backup"]) \cup worker["backup"].batch

\* Each target gets what the other has in its queue, and both what was early.
BothGet ==
  /\ Live \subseteq Mem("backup") \cup Half
  /\ Half \cup Backlog \subseteq Mem("live")
  /\ early \subseteq table \cup Mem("live")
  /\ early \subseteq table \cup Half \cup Mem("backup")

\* What the steps of a running process do to these sets.
LEMMA Onward ==
  ASSUME TypeOK, DoneIsSafe, SyncPending, [Next]_vars, ~Ends
  PROVE  /\ Mem("live") \subseteq Mem("live")'
         /\ Mem("backup") \cup Half \subseteq Mem("backup")' \cup Half'
         /\ table \subseteq table' \cup Half'
         /\ Half' \subseteq Half \cup UNION queued'["live"]
         /\ Backlog' \subseteq Backlog \cup Half \cup safe["live"]
<1> DEFINE Goal == /\ Mem("live") \subseteq Mem("live")'
                   /\ Mem("backup") \cup Half \subseteq Mem("backup")' \cup Half'
                   /\ table \subseteq table' \cup Half'
                   /\ Half' \subseteq Half \cup UNION queued'["live"]
                   /\ Backlog' \subseteq Backlog \cup Half \cup safe["live"]
<1> USE DualWriteAssumption DEF TypeOK, Mem, Half, Backlog,
      Targets, outside, intake, senders, process, history
<1>1. ASSUME NEW i \in Inserts, AcceptAsync(i) \/ Push(i) PROVE Goal
  BY <1>1 DEF AcceptAsync, Accepts, Push
<1>2. ASSUME NEW i \in Inserts, PushOpaque(i) PROVE Goal
  BY <1>2 DEF PushOpaque, SendLive, Flushers
<1>3. ASSUME NEW i \in Inserts, AcceptSync(i) PROVE Goal
  BY <1>3 DEF AcceptSync, Accepts, Syncs
<1>4. ASSUME NEW f \in Flushers, SendBackup(f) PROVE Goal
  BY <1>4 DEF SendBackup
<1>5. ASSUME NEW f \in Flushers, Flush(f) PROVE Goal
  BY <1>5 DEF Flush, SendLive
<1>6. ASSUME NEW t \in Targets, NEW batch \in queued[t], Poll(t, batch) PROVE Goal
  BY <1>6 DEF Poll, Idle
<1>7. ASSUME NEW t \in Targets, Settle(t) PROVE Goal
  BY <1>7 DEF Settle, Saved, Works
<1>8. ASSUME NEW t \in Targets, DumpFails(t) PROVE Goal
  BY <1>8 DEF DumpFails, Idle
<1>9. ASSUME NEW t \in Targets, Ack(t) PROVE Goal
  BY <1>9 DEF Ack, Idle, DoneIsSafe
<1>10. ASSUME NEW i \in Synced, SyncAccepted(i) \/ SyncFails(i) PROVE Goal
  BY <1>10 DEF SyncAccepted, SyncFails, SyncDumps, Saved, Syncs
<1>11. ASSUME NEW i \in Synced, SyncCopies(i) PROVE Goal
  BY <1>11 DEF SyncCopies, Syncs, SyncPending
<1>12. ASSUME NEW i \in Synced, SyncAnswers(i) PROVE Goal
  BY <1>12 DEF SyncAnswers, Syncs
<1>13. CASE QuitBegin \/ QuitWait \/ QuitWaitLive \/ QuitWaitBackup
  BY <1>13 DEF QuitBegin, QuitWait, QuitWaitLive, QuitWaitBackup, Waits, QuitTo
<1>14. CASE Restart
  BY <1>14 DEF Restart
<1>15. CASE UNCHANGED vars
  BY <1>15 DEF vars
<1>16. QED
  BY <1>1, <1>2, <1>3, <1>4, <1>5, <1>6, <1>7, <1>8, <1>9, <1>10, <1>11, <1>12, <1>13, <1>14,
     <1>15
  DEF Next, Work, SyncStep, Quit, Flushers, Crash, Exit

LEMMA InitBothGet == Init => BothGet
  BY DEF Init, BothGet, Live, Half, Backlog, Mem, Targets, NoBatches, NoQueues, NoWork, Idle

LEMMA BothGetStep == IInv /\ BothGet /\ [Next]_vars => BothGet'
<1> SUFFICES ASSUME IInv, BothGet, [Next]_vars PROVE BothGet'
  OBVIOUS
<1>1. CASE Ends
  BY <1>1 DEF Ends, BothGet, Live, Half, Backlog, Targets, NoBatches, NoQueues, NoWork, Idle
<1>2. CASE ~Ends
  <2>1. /\ Mem("live") \subseteq Mem("live")'
        /\ Mem("backup") \cup Half \subseteq Mem("backup")' \cup Half'
        /\ table \subseteq table' \cup Half'
        /\ Half' \subseteq Half \cup UNION queued'["live"]
        /\ Backlog' \subseteq Backlog \cup Half \cup safe["live"]
    BY <1>2, Onward DEF IInv
  <2>2. Live' \subseteq Live \cup Half'
    BY <1>2, Handover DEF IInv, Half
  <2>3. UNION queued'["live"] \subseteq Mem("live")' /\ safe["live"] \subseteq Mem("live")
    BY DEF Mem
  <2>4. /\ Live' \subseteq Mem("backup")' \cup Half'
        /\ Half' \cup Backlog' \subseteq Mem("live")'
    BY <2>1, <2>2, <2>3 DEF BothGet
  <2>5. early' = early \/ early' = table \cup UNION (queued["live"] \cup queued["backup"])
    <3>1. CASE QuitBegin
      BY <3>1 DEF QuitBegin
    <3>2. CASE ~QuitBegin
      BY <3>2, <1>2 DEF Next, AcceptAsync, Accepts, Push, PushOpaque, AcceptSync, SendBackup,
         Flush, Work, Poll, Settle, DumpFails, Ack, SyncStep, SyncAccepted, SyncCopies,
         SyncFails, SyncAnswers, QuitWait, QuitWaitLive, QuitWaitBackup, Waits, Quit, Crash,
         Exit, Restart, vars, outside, intake, senders, process, history
    <3>3. QED
      BY <3>1, <3>2
  <2>6. /\ UNION (queued["live"] \cup queued["backup"]) \subseteq Live \cup Backlog
        /\ Live \subseteq Mem("live") /\ Backlog \subseteq Mem("backup")
    BY DEF Live, Backlog, Mem
  <2>7. early' \subseteq table \cup Mem("live")
    BY <2>5, <2>6 DEF BothGet
  <2>8. early' \subseteq table \cup Half \cup Mem("backup")
    BY <2>5, <2>6 DEF BothGet
  <2>9. /\ early' \subseteq table' \cup Mem("live")'
        /\ early' \subseteq table' \cup Half' \cup Mem("backup")'
    BY <2>1, <2>4, <2>7, <2>8
  <2>10. QED
    BY <2>4, <2>9 DEF BothGet
<1>3. QED
  BY <1>1, <1>2

\* When SafeQuit ends the process, what it found in the table or in a queue has
\* got through the queues of both targets, but for a batch in hand: QuitBegin's
\* flush and the waits for live and for backup leave nothing behind.
THEOREM SafeQuitDrainsBoth == Spec => EarlyReachBoth
<1> DEFINE Drained == \A t \in Targets :
             early \subseteq safe[t] \cup kept[t] \cup worker[t].batch
                            \cup UNION {half[f] : f \in Flushers}
<1>1. BothGet /\ Exit => Drained
  <2> SUFFICES ASSUME BothGet, Exit PROVE Drained
    OBVIOUS
  <2>1. table = {} /\ queued["live"] = {} /\ queued["backup"] = {}
    BY DEF Exit, Empty
  <2>2. /\ Mem("live") = worker["live"].batch \cup safe["live"] \cup kept["live"]
        /\ Mem("backup") = worker["backup"].batch \cup safe["backup"] \cup kept["backup"]
    BY <2>1 DEF Mem
  <2>3. QED
    BY <2>1, <2>2 DEF BothGet, Half, Targets
<1>2. BothGet /\ [Next]_vars => [Exit => Drained]_vars
  BY <1>1
<1>3. Spec => []BothGet
  BY InitBothGet, BothGetStep, Invariance, PTL DEF Spec
<1>4. QED
  BY <1>2, <1>3, PTL DEF Spec, EarlyReachBoth
=============================================================================
