--------------------------- MODULE JournalProofs ---------------------------
(***************************************************************************)
(* Proofs about Journal for every set of records and every limit.  The     *)
(* types hold whatever fails.  The other theorems assume that the startup  *)
(* compaction succeeds: runServer only logs its error, and an insert can   *)
(* then be lost, as TLC finds with "startup" in Faults.                   *)
(***************************************************************************)
EXTENDS Journal, FiniteSetTheorems, TLAPS

-----------------------------------------------------------------------------
(* The inductive invariant, in named parts.                                *)

Serving == phase \in {"serving", "closed"}

Finite == IsFiniteSet(wal)

\* Lines of the WAL differ in their ids and in their inserts.
Distinct == \A l, m \in wal : (l.id = m.id \/ l.rec = m.rec) => l = m

\* Only a running process that has replayed has anything in flight, or is
\* inside a method.
Quiet ==
  phase \in {"down", "fatal", "loaded"} =>
    held = {} /\ batch = {} /\ pc = "free"

\* Memory and disk agree on which lines of the WAL are acked.
AcksAgree ==
  Live => \A l \in wal : l.id \in acked <=> l.id \in ackFile

\* ack.jsonl masks a line only when its insert is stored.
MaskedIsStored == \A l \in wal : l.id \in ackFile => l.rec \in stored

\* What is in flight is still in the WAL; what is being acked is stored.
InFlight ==
  /\ held \cup batch \subseteq Replayable
  /\ held \cap batch = {}
  /\ Recs(batch) \subseteq stored
  /\ batch # {} => pc = "acking"

\* A writer that works is at the start of a line.
NotTorn ==
  /\ (Serving /\ writer = "ok") => tail = "whole"
  /\ pc \in {"renamed", "reopened"} => tail = "whole"

\* Until the process serves, no step of the startup can fail.
StartupSafe ==
  phase \in {"loaded", "replayed"} => writer # "failed" /\ ~HasLong(wal)

\* Where a compaction is, and what it has established.
Compacting ==
  /\ pc \in {"compacting", "renamed", "reopened"} =>
       CASE caller = "startup" -> phase = "replayed"
         [] caller = "close" -> Serving
         [] OTHER -> TRUE
  /\ pc \in {"renamed", "reopened"} => \A l \in wal : l.id \notin ackFile
  /\ pc = "reopened" => /\ acked = {} /\ writer = "ok"
                        /\ \A l \in wal : l.id <= nextID

\* An insert reaches the WAL once, and is masked from its Ack on.
Once ==
  /\ \A l \in wal : reply[l.rec] # "none"
  /\ \A r \in settled \cup stored : reply[r] # "none"
  /\ \A l \in wal : l.rec \in settled => l.id \in ackFile

Rest ==
  /\ Finite /\ Distinct /\ Quiet /\ AcksAgree /\ MaskedIsStored /\ InFlight
  /\ FreshIDs /\ NotTorn /\ StartupSafe /\ Compacting /\ Once /\ Durable

IInv == TypeOK /\ Rest
-----------------------------------------------------------------------------
LEMMA TypeInit == Init => TypeOK
BY JournalAssumption DEF Init, TypeOK, Line, Phases, Steps, Callers, Replies

LEMMA TypeStep ==
  ASSUME TypeOK, IsFiniteSet(wal), [Next]_vars
  PROVE  TypeOK'
<1> USE JournalAssumption
    DEF TypeOK, Line, Phases, Steps, Callers, Replies, disk, memory, call,
        pipeline, history
<1>1. CASE NewJournal
  <2>1. Cardinality(Replayable) \in Nat
    BY FS_Subset, FS_CardinalityType DEF Replayable, Unacked
  <2>2. CASE HasLong(wal)
    BY <1>1, <2>2 DEF NewJournal
  <2>3. CASE ~HasLong(wal)
    <3>1. Ids(wal) \subseteq Nat
      BY DEF Ids
    <3>2. nextID' \in Nat
      BY <1>1, <2>3, <3>1 DEF NewJournal
    <3>3. /\ phase' = "loaded" /\ acked' = ackFile /\ writer' = "ok"
          /\ pendingCount' = Cardinality(Replayable) /\ acksSinceCompact' = 0
          /\ UNCHANGED <<disk, call, pipeline, history>>
      BY <1>1, <2>3 DEF NewJournal
    <3>4. QED
      BY <2>1, <3>2, <3>3
  <2>4. QED
    BY <2>2, <2>3
<1>2. CASE ReplayUnacked
  BY <1>2 DEF ReplayUnacked, Unacked
<1>3. CASE StartupCompact
  BY <1>3 DEF StartupCompact
<1>4. ASSUME NEW r \in Records, AppendRefused(r) PROVE TypeOK'
  BY <1>4 DEF AppendRefused, Submits, Answers
<1>5. ASSUME NEW r \in Records, Append(r) PROVE TypeOK'
  BY <1>5 DEF Append, Submits, Answers, AppendLine
<1>6. ASSUME NEW r \in Records, AppendWriteFails(r) PROVE TypeOK'
  BY <1>6 DEF AppendWriteFails, Submits, Answers
<1>7. ASSUME NEW r \in Records, AppendSyncFails(r) PROVE TypeOK'
  BY <1>7 DEF AppendSyncFails, Submits, Answers, AppendLine
<1>8. ASSUME NEW r \in Records, AppendWithoutWriter(r) PROVE TypeOK'
  BY <1>8 DEF AppendWithoutWriter, Submits, Answers
<1>9. ASSUME NEW r \in Records, CrashInAppend(r) PROVE TypeOK'
  <2>1. wal' \in SUBSET Line /\ tail' \in {"whole", "torn"} /\ ackFile' = ackFile
    BY <1>9 DEF CrashInAppend, AppendLine
  <2>2. QED
    BY <1>9, <2>1 DEF CrashInAppend, Answers, Down
<1>10. ASSUME NEW T \in SUBSET held, AckBegin(T) PROVE TypeOK'
  BY <1>10 DEF AckBegin, Recs
<1>11. ASSUME NEW T \in SUBSET held, GiveUp(T) PROVE TypeOK'
  BY <1>11 DEF GiveUp
<1>12. ASSUME NEW t \in batch, AckOne(t) PROVE TypeOK'
  <2>1. t.id \in Nat /\ t.rec \in Records
    OBVIOUS
  <2>2. CASE t.id \in acked
    BY <1>12, <2>2 DEF AckOne
  <2>3. CASE t.id \notin acked
    <3>1. batch' \in SUBSET Line /\ settled' \in SUBSET Records
      BY <1>12, <2>1, <2>3 DEF AckOne
    <3>2. ackFile' \in SUBSET Nat /\ acked' \in SUBSET Nat
      BY <1>12, <2>1, <2>3 DEF AckOne
    <3>3. pendingCount' \in Int /\ ackedNew' \in Nat
      BY <1>12, <2>3 DEF AckOne
    <3>4. QED
      BY <1>12, <3>1, <3>2, <3>3 DEF AckOne
  <2>4. QED
    BY <2>2, <2>3
<1>13. CASE AckFails
  BY <1>13 DEF AckFails
<1>14. CASE AckEnd
  BY <1>14 DEF AckEnd
<1>15. CASE CompactFails
  BY <1>15 DEF CompactFails, CompactReturns
<1>16. CASE CompactRename
  BY <1>16 DEF CompactRename, Unacked
<1>17. CASE CompactReopenFails
  BY <1>17 DEF CompactReopenFails, CompactReturns
<1>18. CASE CompactReopen
  <2>1. Cardinality(wal) \in Nat
    BY FS_CardinalityType
  <2>2. QED
    BY <1>18, <2>1 DEF CompactReopen, Ids
<1>19. CASE CompactReset
  BY <1>19 DEF CompactReset, CompactReturns
<1>20. CASE CompactResetFails
  BY <1>20 DEF CompactResetFails, CompactReturns
<1>21. CASE Close
  BY <1>21 DEF Close
<1>22. CASE Crash
  BY <1>22 DEF Crash, Down
<1>23. CASE UNCHANGED vars
  BY <1>23 DEF vars
<1>24. QED
  BY <1>1, <1>2, <1>3, <1>4, <1>5, <1>6, <1>7, <1>8, <1>9, <1>10, <1>11,
     <1>12, <1>13, <1>14, <1>15, <1>16, <1>17, <1>18, <1>19, <1>20, <1>21,
     <1>22, <1>23
   DEF Next

LEMMA InvStep ==
  ASSUME "startup" \notin Faults, TypeOK, TypeOK', Rest, [Next]_vars
  PROVE  Rest'
<1> USE JournalAssumption
    DEF TypeOK, Line, Phases, Steps, Callers, Rest, disk, memory, call,
        pipeline, history
<1>1. CASE NewJournal
  <2>1. Compacting'
    BY <1>1 DEF NewJournal, Ids, Compacting, Serving, Quiet
  <2>2. Finite' /\ Distinct' /\ Quiet' /\ AcksAgree'
    BY <1>1
     DEF NewJournal, Ids, Finite, Distinct, Quiet, AcksAgree, Live
  <2>3. MaskedIsStored' /\ InFlight' /\ FreshIDs' /\ NotTorn'
    BY <1>1
     DEF NewJournal, Ids, MaskedIsStored, InFlight, Replayable, Unacked,
     Recs, FreshIDs, NotTorn, Serving
  <2>4. StartupSafe' /\ Once' /\ Durable'
    BY <1>1
     DEF NewJournal, Ids, StartupSafe, HasLong, Once, Durable, Accepted,
     Recs, Replayable, Unacked
  <2>5. QED
    BY <2>1, <2>2, <2>3, <2>4
<1>2. CASE ReplayUnacked
  <2>1. InFlight'
    BY <1>2
     DEF ReplayUnacked, Unacked, InFlight, Replayable, Recs, Quiet,
     AcksAgree, Live
  <2>2. Finite' /\ Distinct' /\ Quiet' /\ AcksAgree'
    BY <1>2
     DEF ReplayUnacked, Unacked, Finite, Distinct, Quiet, AcksAgree, Live
  <2>3. MaskedIsStored' /\ FreshIDs' /\ NotTorn' /\ StartupSafe'
    BY <1>2
     DEF ReplayUnacked, Unacked, MaskedIsStored, FreshIDs, NotTorn, Serving,
     StartupSafe, HasLong
  <2>4. Compacting' /\ Once' /\ Durable'
    BY <1>2
     DEF ReplayUnacked, Unacked, Compacting, Serving, Once, Durable,
     Accepted, Recs, Replayable
  <2>5. QED
    BY <2>1, <2>2, <2>3, <2>4
<1>3. CASE StartupCompact
  <2>1. Finite' /\ Distinct' /\ Quiet' /\ AcksAgree'
    BY <1>3
     DEF StartupCompact, Finite, Distinct, Quiet, AcksAgree, Live
  <2>2. MaskedIsStored' /\ InFlight' /\ FreshIDs' /\ NotTorn'
    BY <1>3
     DEF StartupCompact, MaskedIsStored, InFlight, Replayable, Unacked, Recs,
     FreshIDs, NotTorn, Serving
  <2>3. StartupSafe' /\ Compacting' /\ Once' /\ Durable'
    BY <1>3
     DEF StartupCompact, StartupSafe, HasLong, Compacting, Serving, Once,
     Durable, Accepted, Recs, Replayable, Unacked
  <2>4. QED
    BY <2>1, <2>2, <2>3
<1>4. ASSUME NEW r \in Records, AppendRefused(r) PROVE Rest'
  <2>1. Finite' /\ Distinct' /\ Quiet' /\ AcksAgree'
    BY <1>4
     DEF AppendRefused, Submits, Answers, Finite, Distinct, Quiet, AcksAgree,
     Live
  <2>2. MaskedIsStored' /\ InFlight' /\ FreshIDs' /\ NotTorn'
    BY <1>4
     DEF AppendRefused, Submits, Answers, MaskedIsStored, InFlight,
     Replayable, Unacked, Recs, FreshIDs, NotTorn, Serving
  <2>3. StartupSafe' /\ Compacting' /\ Once' /\ Durable'
    BY <1>4
     DEF AppendRefused, Submits, Answers, StartupSafe, HasLong, Compacting,
     Serving, Once, Durable, Accepted, Recs, Replayable, Unacked
  <2>4. QED
    BY <2>1, <2>2, <2>3
<1>5. ASSUME NEW r \in Records, Append(r) PROVE Rest'
  <2>1. Finite'
    BY <1>5, FS_AddElement DEF Append, AppendLine, Finite
  <2>2. Distinct'
    BY <1>5
     DEF Append, Submits, Answers, AppendLine, Distinct, FreshIDs, Once
  <2>3. AcksAgree'
    BY <1>5
     DEF Append, Submits, Answers, AppendLine, AcksAgree, Live, FreshIDs
  <2>4. MaskedIsStored'
    BY <1>5
     DEF Append, Submits, Answers, AppendLine, MaskedIsStored, FreshIDs
  <2>5. InFlight'
    BY <1>5
     DEF Append, Submits, Answers, AppendLine, InFlight, Replayable, Unacked,
     Recs, FreshIDs, NotTorn, Serving
  <2>6. Durable'
    <3>1. Replayable \subseteq Replayable'
      BY <1>5, <2>3 DEF Append, Submits, AppendLine, Replayable, Unacked
    <3>2. r \in Recs(Replayable')
      <4> DEFINE new == [id |-> nextID + 1, rec |-> r]
      <4>1. new \in wal'
        BY <1>5 DEF Append, Submits, AppendLine, NotTorn, Serving
      <4>2. nextID + 1 \notin ackFile'
        BY <1>5 DEF Append, Submits, AppendLine, FreshIDs
      <4>3. new.id = nextID + 1 /\ new.rec = r
        OBVIOUS
      <4> HIDE DEF new
      <4>4. QED
        BY <4>1, <4>2, <4>3 DEF Replayable, Unacked, Recs
    <3>3. Accepted' \subseteq Accepted \cup {r}
      BY <1>5 DEF Append, Answers, Accepted
    <3>4. QED
      BY <1>5, <3>1, <3>2, <3>3 DEF Append, Durable, Recs
  <2>7. Quiet' /\ FreshIDs' /\ NotTorn' /\ StartupSafe'
    BY <1>5
     DEF Append, Submits, Answers, AppendLine, Quiet, FreshIDs, NotTorn,
     Serving, StartupSafe, HasLong
  <2>8. Compacting' /\ Once'
    BY <1>5
     DEF Append, Submits, Answers, AppendLine, Compacting, Serving, Once
  <2>9. QED
    BY <2>1, <2>2, <2>3, <2>4, <2>5, <2>6, <2>7, <2>8
<1>6. ASSUME NEW r \in Records, AppendWriteFails(r) PROVE Rest'
  <2>1. Finite' /\ Distinct' /\ Quiet' /\ AcksAgree'
    BY <1>6
     DEF AppendWriteFails, Submits, Answers, Allowed, Finite, Distinct,
     Quiet, AcksAgree, Live
  <2>2. MaskedIsStored' /\ InFlight' /\ FreshIDs' /\ NotTorn'
    BY <1>6
     DEF AppendWriteFails, Submits, Answers, Allowed, MaskedIsStored,
     InFlight, Replayable, Unacked, Recs, FreshIDs, NotTorn, Serving
  <2>3. StartupSafe' /\ Compacting' /\ Once' /\ Durable'
    BY <1>6
     DEF AppendWriteFails, Submits, Answers, Allowed, StartupSafe, HasLong,
     Compacting, Serving, Once, Durable, Accepted, Recs, Replayable, Unacked
  <2>4. QED
    BY <2>1, <2>2, <2>3
<1>7. ASSUME NEW r \in Records, AppendSyncFails(r) PROVE Rest'
  <2>1. Finite'
    BY <1>7, FS_AddElement DEF AppendSyncFails, AppendLine, Finite
  <2>2. Distinct'
    BY <1>7
     DEF AppendSyncFails, Submits, Answers, AppendLine, Allowed, Distinct,
     FreshIDs, Once
  <2>3. AcksAgree'
    BY <1>7
     DEF AppendSyncFails, Submits, Answers, AppendLine, Allowed, AcksAgree,
     Live, FreshIDs
  <2>4. MaskedIsStored'
    BY <1>7
     DEF AppendSyncFails, Submits, Answers, AppendLine, Allowed,
     MaskedIsStored, FreshIDs
  <2>5. Quiet' /\ InFlight' /\ FreshIDs' /\ NotTorn'
    BY <1>7
     DEF AppendSyncFails, Submits, Answers, AppendLine, Allowed, Quiet,
     InFlight, Replayable, Unacked, Recs, FreshIDs, NotTorn, Serving
  <2>6. StartupSafe' /\ Compacting' /\ Once' /\ Durable'
    BY <1>7
     DEF AppendSyncFails, Submits, Answers, AppendLine, Allowed, StartupSafe,
     HasLong, Compacting, Serving, Once, Durable, Accepted, Recs, Replayable,
     Unacked
  <2>7. QED
    BY <2>1, <2>2, <2>3, <2>4, <2>5, <2>6
<1>8. ASSUME NEW r \in Records, AppendWithoutWriter(r) PROVE Rest'
  <2>1. Finite' /\ Distinct' /\ Quiet' /\ AcksAgree'
    BY <1>8
     DEF AppendWithoutWriter, Submits, Answers, Finite, Distinct, Quiet,
     AcksAgree, Live
  <2>2. MaskedIsStored' /\ InFlight' /\ FreshIDs' /\ NotTorn'
    BY <1>8
     DEF AppendWithoutWriter, Submits, Answers, MaskedIsStored, InFlight,
     Replayable, Unacked, Recs, FreshIDs, NotTorn, Serving
  <2>3. StartupSafe' /\ Compacting' /\ Once' /\ Durable'
    BY <1>8
     DEF AppendWithoutWriter, Submits, Answers, StartupSafe, HasLong,
     Compacting, Serving, Once, Durable, Accepted, Recs, Replayable, Unacked
  <2>4. QED
    BY <2>1, <2>2, <2>3
<1>9. ASSUME NEW r \in Records, CrashInAppend(r) PROVE Rest'
  <2>1. Finite'
    <3>1. IsFiniteSet(wal \cup {[id |-> nextID + 1, rec |-> r]})
      BY FS_AddElement DEF Finite
    <3>2. QED
      BY <1>9, <3>1 DEF CrashInAppend, AppendLine, Finite
  <2>2. Distinct'
    BY <1>9
     DEF CrashInAppend, Submits, Answers, AppendLine, Down, Distinct,
     FreshIDs, Once
  <2>3. MaskedIsStored'
    BY <1>9
     DEF CrashInAppend, Submits, Answers, AppendLine, Down, MaskedIsStored,
     FreshIDs
  <2>4. Quiet' /\ AcksAgree' /\ InFlight' /\ FreshIDs'
    BY <1>9
     DEF CrashInAppend, Submits, Answers, AppendLine, Down, Quiet, AcksAgree,
     Live, InFlight, Replayable, Unacked, Recs, FreshIDs
  <2>5. NotTorn' /\ StartupSafe' /\ Compacting' /\ Once'
    BY <1>9
     DEF CrashInAppend, Submits, Answers, AppendLine, Down, NotTorn, Serving,
     StartupSafe, HasLong, Compacting, Once
  <2>6. Durable'
    BY <1>9
     DEF CrashInAppend, Submits, Answers, AppendLine, Down, Durable,
     Accepted, Recs, Replayable, Unacked
  <2>7. QED
    BY <2>1, <2>2, <2>3, <2>4, <2>5, <2>6
<1>10. ASSUME NEW T \in SUBSET held, AckBegin(T) PROVE Rest'
  <2>1. Once'
    BY <1>10 DEF AckBegin, Once, InFlight, Replayable, Unacked, Recs
  <2>2. Finite' /\ Distinct' /\ Quiet' /\ AcksAgree'
    BY <1>10 DEF AckBegin, Finite, Distinct, Quiet, AcksAgree, Live
  <2>3. MaskedIsStored' /\ InFlight' /\ FreshIDs' /\ NotTorn'
    BY <1>10
     DEF AckBegin, MaskedIsStored, InFlight, Replayable, Unacked, Recs,
     FreshIDs, NotTorn, Serving
  <2>4. StartupSafe' /\ Compacting' /\ Durable'
    BY <1>10
     DEF AckBegin, StartupSafe, HasLong, Compacting, Serving, Durable,
     Accepted, Recs, Replayable, Unacked
  <2>5. QED
    BY <2>1, <2>2, <2>3, <2>4
<1>11. ASSUME NEW T \in SUBSET held, GiveUp(T) PROVE Rest'
  <2>1. Finite' /\ Distinct' /\ Quiet' /\ AcksAgree'
    BY <1>11 DEF GiveUp, Finite, Distinct, Quiet, AcksAgree, Live
  <2>2. MaskedIsStored' /\ InFlight' /\ FreshIDs' /\ NotTorn'
    BY <1>11
     DEF GiveUp, MaskedIsStored, InFlight, Replayable, Unacked, Recs,
     FreshIDs, NotTorn, Serving
  <2>3. StartupSafe' /\ Compacting' /\ Once' /\ Durable'
    BY <1>11
     DEF GiveUp, StartupSafe, HasLong, Compacting, Serving, Once, Durable,
     Accepted, Recs, Replayable, Unacked
  <2>4. QED
    BY <2>1, <2>2, <2>3
<1>12. ASSUME NEW t \in batch, AckOne(t) PROVE Rest'
  <2>1. MaskedIsStored'
    BY <1>12
     DEF AckOne, MaskedIsStored, InFlight, Replayable, Unacked, Recs,
     Distinct
  <2>2. InFlight'
    BY <1>12 DEF AckOne, InFlight, Replayable, Unacked, Recs, Distinct
  <2>3. FreshIDs'
    BY <1>12 DEF AckOne, FreshIDs, InFlight, Replayable, Unacked, Recs
  <2>4. Once'
    BY <1>12
     DEF AckOne, Once, InFlight, Replayable, Unacked, Recs, Distinct, Quiet,
     AcksAgree, Live
  <2>5. Durable'
    BY <1>12
     DEF AckOne, Durable, Accepted, Recs, Replayable, Unacked, InFlight,
     Distinct
  <2>6. Finite' /\ Distinct' /\ Quiet' /\ AcksAgree'
    BY <1>12 DEF AckOne, Finite, Distinct, Quiet, AcksAgree, Live
  <2>7. NotTorn' /\ StartupSafe' /\ Compacting'
    BY <1>12
     DEF AckOne, NotTorn, Serving, StartupSafe, HasLong, Compacting
  <2>8. QED
    BY <2>1, <2>2, <2>3, <2>4, <2>5, <2>6, <2>7
<1>13. CASE AckFails
  <2>1. Finite' /\ Distinct' /\ Quiet' /\ AcksAgree'
    BY <1>13
     DEF AckFails, Allowed, Finite, Distinct, Quiet, AcksAgree, Live
  <2>2. MaskedIsStored' /\ InFlight' /\ FreshIDs' /\ NotTorn'
    BY <1>13
     DEF AckFails, Allowed, MaskedIsStored, InFlight, Replayable, Unacked,
     Recs, FreshIDs, NotTorn, Serving
  <2>3. StartupSafe' /\ Compacting' /\ Once' /\ Durable'
    BY <1>13
     DEF AckFails, Allowed, StartupSafe, HasLong, Compacting, Serving, Once,
     Durable, Accepted, Recs, Replayable, Unacked
  <2>4. QED
    BY <2>1, <2>2, <2>3
<1>14. CASE AckEnd
  <2>1. Finite' /\ Distinct' /\ Quiet' /\ AcksAgree'
    BY <1>14
     DEF AckEnd, Allowed, Finite, Distinct, Quiet, AcksAgree, Live
  <2>2. MaskedIsStored' /\ InFlight' /\ FreshIDs' /\ NotTorn'
    BY <1>14
     DEF AckEnd, Allowed, MaskedIsStored, InFlight, Replayable, Unacked,
     Recs, FreshIDs, NotTorn, Serving
  <2>3. StartupSafe' /\ Compacting' /\ Once' /\ Durable'
    BY <1>14
     DEF AckEnd, Allowed, StartupSafe, HasLong, Compacting, Serving, Once,
     Durable, Accepted, Recs, Replayable, Unacked
  <2>4. QED
    BY <2>1, <2>2, <2>3
<1>15. CASE CompactFails
  <2>1. phase' = phase /\ pc' = "free"
    BY <1>15
     DEF CompactFails, CompactReturns, CompactMayFail, Allowed, HasHuge,
     HasLong, StartupSafe, Compacting
  <2>2. Finite' /\ Distinct' /\ Quiet' /\ AcksAgree'
    BY <1>15, <2>1
     DEF CompactFails, CompactReturns, HasHuge, CompactMayFail, Finite,
     Distinct, Quiet, AcksAgree, Live
  <2>3. MaskedIsStored' /\ InFlight' /\ FreshIDs' /\ NotTorn'
    BY <1>15, <2>1
     DEF CompactFails, CompactReturns, HasHuge, CompactMayFail,
     MaskedIsStored, InFlight, Replayable, Unacked, Recs, FreshIDs, NotTorn,
     Serving
  <2>4. StartupSafe' /\ Compacting' /\ Once' /\ Durable'
    BY <1>15, <2>1
     DEF CompactFails, CompactReturns, HasHuge, CompactMayFail, StartupSafe,
     HasLong, Compacting, Serving, Once, Durable, Accepted, Recs, Replayable,
     Unacked
  <2>5. QED
    BY <2>1, <2>2, <2>3, <2>4
<1>16. CASE CompactRename
  <2>1. wal' \subseteq wal /\ pc' = "renamed"
    BY <1>16 DEF CompactRename, Unacked
  <2>2. Finite'
    BY <2>1, FS_Subset DEF Finite
  <2>3. InFlight'
    BY <1>16, <2>1
     DEF CompactRename, HasHuge, Unacked, InFlight, Replayable, Recs, Quiet,
     AcksAgree, Live
  <2>4. Compacting'
    BY <1>16, <2>1
     DEF CompactRename, HasHuge, Unacked, Compacting, Serving, Quiet,
     AcksAgree, Live
  <2>5. Durable'
    BY <1>16, <2>1
     DEF CompactRename, HasHuge, Unacked, Durable, Accepted, Recs,
     Replayable, Quiet, AcksAgree, Live, MaskedIsStored
  <2>6. Distinct' /\ Quiet' /\ AcksAgree' /\ MaskedIsStored'
    BY <1>16, <2>1
     DEF CompactRename, HasHuge, Unacked, Distinct, Quiet, AcksAgree, Live,
     MaskedIsStored
  <2>7. FreshIDs' /\ NotTorn' /\ StartupSafe' /\ Once'
    BY <1>16, <2>1
     DEF CompactRename, HasHuge, Unacked, FreshIDs, NotTorn, Serving,
     StartupSafe, HasLong, Once
  <2>8. QED
    BY <2>1, <2>2, <2>3, <2>4, <2>5, <2>6, <2>7
<1>17. CASE CompactReopenFails
  <2>1. phase' = phase /\ pc' = "free"
    BY <1>17
     DEF CompactReopenFails, CompactReturns, StartupSafe, Compacting
  <2>2. Finite' /\ Distinct' /\ Quiet' /\ AcksAgree'
    BY <1>17, <2>1
     DEF CompactReopenFails, CompactReturns, Finite, Distinct, Quiet,
     AcksAgree, Live
  <2>3. MaskedIsStored' /\ InFlight' /\ FreshIDs' /\ NotTorn'
    BY <1>17, <2>1
     DEF CompactReopenFails, CompactReturns, MaskedIsStored, InFlight,
     Replayable, Unacked, Recs, FreshIDs, NotTorn, Serving
  <2>4. StartupSafe' /\ Compacting' /\ Once' /\ Durable'
    BY <1>17, <2>1
     DEF CompactReopenFails, CompactReturns, StartupSafe, HasLong,
     Compacting, Serving, Once, Durable, Accepted, Recs, Replayable, Unacked
  <2>5. QED
    BY <2>1, <2>2, <2>3, <2>4
<1>18. CASE CompactReopen
  <2>1. AcksAgree'
    BY <1>18
     DEF CompactReopen, Ids, AcksAgree, Live, Compacting, Serving
  <2>2. Compacting'
    <3>1. \A l \in wal : l.id <= nextID'
      BY <1>18 DEF CompactReopen, Ids
    <3>2. QED
      BY <1>18, <3>1 DEF CompactReopen, Compacting, Serving
  <2>3. Finite' /\ Distinct'
    BY <1>18 DEF CompactReopen, Ids, Finite, Distinct
  <2>4. Quiet' /\ MaskedIsStored'
    BY <1>18 DEF CompactReopen, Ids, Quiet, MaskedIsStored
  <2>5. InFlight' /\ FreshIDs'
    BY <1>18
     DEF CompactReopen, Ids, InFlight, Replayable, Unacked, Recs, FreshIDs
  <2>6. NotTorn' /\ StartupSafe'
    BY <1>18
     DEF CompactReopen, Ids, NotTorn, Serving, StartupSafe, HasLong
  <2>7. Once' /\ Durable'
    BY <1>18
     DEF CompactReopen, Ids, Once, Durable, Accepted, Recs, Replayable,
     Unacked
  <2>8. QED
    BY <2>1, <2>2, <2>3, <2>4, <2>5, <2>6, <2>7
<1>19. CASE CompactReset
  <2>1. AcksAgree'
    BY <1>19
     DEF CompactReset, CompactReturns, AcksAgree, Live, Compacting, Serving
  <2>2. FreshIDs'
    BY <1>19
     DEF CompactReset, CompactReturns, FreshIDs, Compacting, Serving
  <2>3. Once'
    BY <1>19
     DEF CompactReset, CompactReturns, Once, Compacting, Serving
  <2>4. Finite' /\ Distinct' /\ Quiet' /\ MaskedIsStored'
    BY <1>19
     DEF CompactReset, CompactReturns, Finite, Distinct, Quiet,
     MaskedIsStored
  <2>5. InFlight' /\ NotTorn' /\ StartupSafe' /\ Compacting'
    BY <1>19
     DEF CompactReset, CompactReturns, InFlight, Replayable, Unacked, Recs,
     NotTorn, Serving, StartupSafe, HasLong, Compacting
  <2>6. Durable'
    BY <1>19
     DEF CompactReset, CompactReturns, Durable, Accepted, Recs, Replayable,
     Unacked
  <2>7. QED
    BY <2>1, <2>2, <2>3, <2>4, <2>5, <2>6
<1>20. CASE CompactResetFails
  <2>1. phase' = phase /\ pc' = "free"
    BY <1>20
     DEF CompactResetFails, CompactReturns, CompactMayFail, Allowed
  <2>2. Finite' /\ Distinct' /\ Quiet' /\ AcksAgree'
    BY <1>20, <2>1
     DEF CompactResetFails, CompactReturns, CompactMayFail, Finite, Distinct,
     Quiet, AcksAgree, Live
  <2>3. MaskedIsStored' /\ InFlight' /\ FreshIDs' /\ NotTorn'
    BY <1>20, <2>1
     DEF CompactResetFails, CompactReturns, CompactMayFail, MaskedIsStored,
     InFlight, Replayable, Unacked, Recs, FreshIDs, NotTorn, Serving
  <2>4. StartupSafe' /\ Compacting' /\ Once' /\ Durable'
    BY <1>20, <2>1
     DEF CompactResetFails, CompactReturns, CompactMayFail, StartupSafe,
     HasLong, Compacting, Serving, Once, Durable, Accepted, Recs, Replayable,
     Unacked
  <2>5. QED
    BY <2>1, <2>2, <2>3, <2>4
<1>21. CASE Close
  <2>1. Finite' /\ Distinct' /\ Quiet' /\ AcksAgree'
    BY <1>21 DEF Close, Finite, Distinct, Quiet, AcksAgree, Live
  <2>2. MaskedIsStored' /\ InFlight' /\ FreshIDs' /\ NotTorn'
    BY <1>21
     DEF Close, MaskedIsStored, InFlight, Replayable, Unacked, Recs,
     FreshIDs, NotTorn, Serving
  <2>3. StartupSafe' /\ Compacting' /\ Once' /\ Durable'
    BY <1>21
     DEF Close, StartupSafe, HasLong, Compacting, Serving, Once, Durable,
     Accepted, Recs, Replayable, Unacked
  <2>4. QED
    BY <2>1, <2>2, <2>3
<1>22. CASE Crash
  <2>1. Finite' /\ Distinct' /\ Quiet' /\ AcksAgree'
    BY <1>22 DEF Crash, Down, Finite, Distinct, Quiet, AcksAgree, Live
  <2>2. MaskedIsStored' /\ InFlight' /\ FreshIDs' /\ NotTorn'
    BY <1>22
     DEF Crash, Down, MaskedIsStored, InFlight, Replayable, Unacked, Recs,
     FreshIDs, NotTorn, Serving
  <2>3. StartupSafe' /\ Compacting' /\ Once' /\ Durable'
    BY <1>22
     DEF Crash, Down, StartupSafe, HasLong, Compacting, Serving, Once,
     Durable, Accepted, Recs, Replayable, Unacked
  <2>4. QED
    BY <2>1, <2>2, <2>3
<1>23. CASE UNCHANGED vars
  <2>1. Finite' /\ Distinct' /\ Quiet' /\ AcksAgree'
    BY <1>23 DEF vars, Finite, Distinct, Quiet, AcksAgree, Live
  <2>2. MaskedIsStored' /\ InFlight' /\ FreshIDs' /\ NotTorn'
    BY <1>23
     DEF vars, MaskedIsStored, InFlight, Replayable, Unacked, Recs, FreshIDs,
     NotTorn, Serving
  <2>3. StartupSafe' /\ Compacting' /\ Once' /\ Durable'
    BY <1>23
     DEF vars, StartupSafe, HasLong, Compacting, Serving, Once, Durable,
     Accepted, Recs, Replayable, Unacked
  <2>4. QED
    BY <2>1, <2>2, <2>3
<1>24. QED
  BY <1>1, <1>2, <1>3, <1>4, <1>5, <1>6, <1>7, <1>8, <1>9, <1>10, <1>11,
     <1>12, <1>13, <1>14, <1>15, <1>16, <1>17, <1>18, <1>19, <1>20, <1>21,
     <1>22, <1>23
   DEF Next

\* The inductive invariant.
LEMMA Inductive ==
  ASSUME "startup" \notin Faults
  PROVE  Spec => []IInv
<1>1. Init => IInv
  <2>1. IsFiniteSet({})
    BY FS_EmptySet
  <2>2. QED
    BY <2>1, TypeInit DEF Init, IInv, Rest, Finite, Distinct, Quiet, AcksAgree,
       Live, MaskedIsStored, InFlight, Replayable, Unacked, Recs, FreshIDs,
       NotTorn, Serving, StartupSafe, Compacting, Once, Durable, Accepted
<1>2. IInv /\ [Next]_vars => IInv'
  BY TypeStep, InvStep DEF IInv, Rest, Finite
<1>3. QED
  BY <1>1, <1>2, PTL DEF Spec

-----------------------------------------------------------------------------
\* The WAL only ever gains one line, or loses some.
LEMMA FiniteStep ==
  ASSUME IsFiniteSet(wal), [Next]_vars
  PROVE  IsFiniteSet(wal')
<1>1. \/ wal' \subseteq wal
      \/ \E r \in Records : wal' = wal \cup {[id |-> nextID + 1, rec |-> r]}
  <2> USE DEF disk, memory, call, pipeline, history
  <2>1. ASSUME NEW r \in Records,
               AppendRefused(r) \/ Append(r) \/ AppendWriteFails(r)
                 \/ AppendSyncFails(r) \/ AppendWithoutWriter(r) \/ CrashInAppend(r)
        PROVE  \/ wal' \subseteq wal
               \/ wal' = wal \cup {[id |-> nextID + 1, rec |-> r]}
    BY <2>1 DEF AppendRefused, Append, AppendWriteFails, AppendSyncFails,
       AppendWithoutWriter, CrashInAppend, AppendLine
  <2>2. CASE NewJournal \/ ReplayUnacked \/ StartupCompact \/ Close \/ Crash
    BY <2>2 DEF NewJournal, ReplayUnacked, StartupCompact, Close, Crash
  <2>3. CASE \E T \in SUBSET held : AckBegin(T) \/ GiveUp(T)
    BY <2>3 DEF AckBegin, GiveUp
  <2>4. CASE (\E t \in batch : AckOne(t)) \/ AckFails \/ AckEnd
    BY <2>4 DEF AckOne, AckFails, AckEnd
  <2>5. CASE CompactFails \/ CompactReopenFails \/ CompactReopen
               \/ CompactReset \/ CompactResetFails
    BY <2>5 DEF CompactFails, CompactReopenFails, CompactReopen, CompactReset,
       CompactResetFails
  <2>6. CASE CompactRename
    BY <2>6 DEF CompactRename, Replayable, Unacked
  <2>7. CASE UNCHANGED vars
    BY <2>7 DEF vars
  <2>8. QED
    BY <2>1, <2>2, <2>3, <2>4, <2>5, <2>6, <2>7 DEF Next
<1>2. CASE wal' \subseteq wal
  BY <1>2, FS_Subset
<1>3. CASE \E r \in Records : wal' = wal \cup {[id |-> nextID + 1, rec |-> r]}
  BY <1>3, FS_AddElement
<1>4. QED
  BY <1>1, <1>2, <1>3

\* Every variable of the journal keeps its type, whatever fails.
THEOREM TypeCorrect == Spec => []TypeOK
<1>1. Init => TypeOK /\ IsFiniteSet(wal)
  <2>1. IsFiniteSet({})
    BY FS_EmptySet
  <2>2. QED
    BY <2>1, TypeInit DEF Init
<1>2. TypeOK /\ IsFiniteSet(wal) /\ [Next]_vars => (TypeOK /\ IsFiniteSet(wal))'
  BY TypeStep, FiniteStep
<1>3. QED
  BY <1>1, <1>2, PTL DEF Spec

\* An insert answered 200 is stored, or its line is in the WAL and unmasked,
\* in every state a crash can leave.
THEOREM NothingAcceptedIsLost ==
  ASSUME "startup" \notin Faults
  PROVE  Spec => []Durable
<1>1. IInv => Durable
  BY DEF IInv, Rest
<1>2. QED
  BY <1>1, Inductive, PTL

\* No restart replays an insert whose Ack was written, even if its id is in
\* use again.
THEOREM NothingSettledReturns ==
  ASSUME "startup" \notin Faults
  PROVE  Spec => []NoResurrection
<1>1. IInv => NoResurrection
  BY DEF IInv, Rest, Once, NoResurrection, Recs, Replayable, Unacked
<1>2. QED
  BY <1>1, Inductive, PTL

\* While the process serves, the next id is new to wal.jsonl and ack.jsonl.
THEOREM NextIDIsFresh ==
  ASSUME "startup" \notin Faults
  PROVE  Spec => []FreshIDs
<1>1. IInv => FreshIDs
  BY DEF IInv, Rest
<1>2. QED
  BY <1>1, Inductive, PTL

-----------------------------------------------------------------------------
(* The count of the lines a restart would replay.                          *)

\* pendingCount counts some of those lines: every line in flight, and every
\* line of the file when it has just been opened.  The client of a line it
\* leaves out was answered 500.
Counts(C) ==
  /\ pendingCount = Cardinality(C)
  /\ held \cup batch \subseteq C
  /\ phase = "loaded" => C = Replayable
  /\ \A l \in Replayable \ C : reply[l.rec] = "500"

Counted == Live => \E C \in SUBSET Replayable : Counts(C)

LEMMA ReplayableFinite ==
  ASSUME Rest, NEW C \in SUBSET Replayable
  PROVE  IsFiniteSet(C) /\ IsFiniteSet(Replayable) /\ Cardinality(C) \in Nat
BY FS_Subset, FS_CardinalityType DEF Rest, Finite, Replayable, Unacked

\* A step that leaves the count and the lines to replay alone, and puts none
\* of them in flight.
LEMMA CountKept ==
  ASSUME Counted, Live, Replayable' = Replayable, pendingCount' = pendingCount,
         held' \cup batch' \subseteq held \cup batch,
         phase' = "loaded" => phase = "loaded",
         \A l \in Replayable : reply[l.rec] = "500" => reply'[l.rec] = "500"
  PROVE  Counted'
<1>1. PICK C \in SUBSET Replayable : Counts(C)
  BY DEF Counted
<1>2. C \in SUBSET Replayable' /\ Counts(C)'
  BY <1>1 DEF Counts
<1>3. QED
  BY <1>2 DEF Counted

\* The count is taken anew.
LEMMA CountTaken ==
  ASSUME pendingCount' = Cardinality(Replayable'), (held \cup batch)' \subseteq Replayable'
  PROVE  Counted'
<1>1. Counts(Replayable)'
  BY DEF Counts
<1>2. QED
  BY <1>1 DEF Counted

LEMMA CountDown == phase' \in {"down", "fatal"} => Counted'
BY DEF Counted, Live

LEMMA AppendCounted ==
  ASSUME TypeOK, Rest, Rest', Counted, NEW r \in Records, Append(r) \/ AppendSyncFails(r)
  PROVE  Counted'
<1>0. PICK new : new = [id |-> nextID + 1, rec |-> r]
  OBVIOUS
<1> USE DEF disk, memory, call, pipeline, history
<1>1. /\ Serving /\ writer = "ok" /\ AppendLine(r) /\ reply[r] = "none"
      /\ phase' = phase /\ batch' = batch
  BY DEF Append, AppendSyncFails, Submits, Serving
<1>2. Live /\ phase \notin {"loaded"}
  BY <1>1 DEF Serving, Live
<1>3. PICK C \in SUBSET Replayable : Counts(C)
  BY <1>2 DEF Counted
<1>4. new \in Line /\ new.id = nextID + 1 /\ new.rec = r
  BY <1>0 DEF Line, TypeOK
<1>5. new \notin wal /\ nextID + 1 \notin ackFile
  BY <1>1, <1>4 DEF TypeOK, Line, Rest, FreshIDs, Serving
<1>6. Replayable' = Replayable \cup {new} /\ new \notin Replayable
  BY <1>0, <1>1, <1>4, <1>5 DEF AppendLine, Rest, NotTorn, Replayable, Unacked
<1>7. \A l \in Replayable : l.rec # r
  BY <1>1 DEF Rest, Once, Replayable, Unacked
<1>8. CASE Append(r)
  <2>1. Cardinality(C \cup {new}) = Cardinality(C) + 1
    BY <1>6, ReplayableFinite, FS_AddElement
  <2>2. pendingCount' = pendingCount + 1 /\ held' = held \cup {new}
    BY <1>0, <1>8 DEF Append
  <2>3. \A l \in Replayable : reply'[l.rec] = reply[l.rec]
    BY <1>7, <1>8 DEF Append, Answers, TypeOK, Line, Replayable, Unacked
  <2>4. Counts(C \cup {new})'
    BY <1>1, <1>2, <1>3, <1>6, <2>1, <2>2, <2>3 DEF Counts
  <2>5. QED
    BY <1>6, <2>4 DEF Counted
<1>9. CASE AppendSyncFails(r)
  <2>1. pendingCount' = pendingCount /\ held' = held
    BY <1>9 DEF AppendSyncFails
  <2>2. reply'[new.rec] = "500" /\ \A l \in Replayable : reply'[l.rec] = reply[l.rec]
    BY <1>4, <1>7, <1>9 DEF AppendSyncFails, Answers, TypeOK, Line, Replayable, Unacked
  <2>3. Counts(C)'
    BY <1>1, <1>2, <1>3, <1>6, <2>1, <2>2 DEF Counts
  <2>4. QED
    BY <1>6, <2>3 DEF Counted
<1>10. QED
  BY <1>8, <1>9

LEMMA AckCounted ==
  ASSUME TypeOK, Rest, Rest', Counted, NEW t \in batch, AckOne(t)
  PROVE  Counted'
<1> USE DEF disk, memory, call, pipeline, history
<1>1. Live /\ phase # "loaded" /\ phase' = phase /\ reply' = reply
      /\ held' = held /\ batch' = batch \ {t}
  BY DEF AckOne, Rest, Quiet, Live
<1>2. t \in Replayable /\ t \notin held /\ t.id \notin acked
  BY <1>1 DEF Rest, InFlight, Replayable, Unacked, AcksAgree
<1>3. PICK C \in SUBSET Replayable : Counts(C)
  BY <1>1 DEF Counted
<1>4. Replayable' = Replayable \ {t} /\ pendingCount' = pendingCount - 1
  BY <1>2 DEF AckOne, Replayable, Unacked, Rest, Distinct
<1>5. t \in C
  BY <1>3 DEF Counts
<1>6. Cardinality(C \ {t}) = Cardinality(C) - 1
  BY <1>5, ReplayableFinite, FS_RemoveElement
<1>7. Counts(C \ {t})'
  BY <1>1, <1>2, <1>3, <1>4, <1>6 DEF Counts
<1>8. QED
  BY <1>4, <1>7 DEF Counted

LEMMA CountedStep ==
  ASSUME "startup" \notin Faults, TypeOK, Rest, Rest', Counted, [Next]_vars
  PROVE  Counted'
<1> USE DEF disk, memory, call, pipeline, history
<1>1. CASE NewJournal
  <2>1. CASE HasLong(wal)
    BY <1>1, <2>1, CountDown DEF NewJournal
  <2>2. CASE ~HasLong(wal)
    <3>1. Replayable' = Replayable /\ pendingCount' = Cardinality(Replayable)
      BY <1>1, <2>2 DEF NewJournal, Replayable
    <3>2. QED
      BY <1>1, <3>1, CountTaken DEF NewJournal, Rest, Quiet
  <2>3. QED
    BY <2>1, <2>2
<1>2. CASE ReplayUnacked
  <2>1. /\ Replayable' = Replayable /\ Live /\ pendingCount' = pendingCount
        /\ phase = "loaded"
    BY <1>2 DEF ReplayUnacked, Replayable, Live
  <2>2. (held \cup batch)' \subseteq Replayable'
    BY DEF Rest, InFlight
  <2>3. pendingCount = Cardinality(Replayable)
    BY <2>1 DEF Counted, Counts
  <2>4. QED
    BY <2>1, <2>2, <2>3, CountTaken
<1>3. CASE StartupCompact \/ Close
  BY <1>3, CountKept DEF StartupCompact, Close, Replayable, Live
<1>4. ASSUME NEW r \in Records,
             AppendRefused(r) \/ AppendWriteFails(r) \/ AppendWithoutWriter(r)
      PROVE  Counted'
  <2>1. /\ Serving /\ UNCHANGED <<wal, ackFile, pendingCount, phase, held, batch>>
        /\ reply[r] = "none" /\ \E a \in Replies : Answers(r, a)
    BY <1>4 DEF AppendRefused, AppendWriteFails, AppendWithoutWriter, Submits, Replies,
                Serving
  <2>2. Live /\ Replayable' = Replayable
    BY <2>1 DEF Serving, Live, Replayable
  <2>3. \A l \in Replayable : reply[l.rec] = "500" => reply'[l.rec] = "500"
    BY <2>1 DEF Answers, TypeOK, Line, Replayable, Unacked
  <2>4. QED
    BY <2>1, <2>2, <2>3, CountKept
<1>5. ASSUME NEW r \in Records, Append(r) \/ AppendSyncFails(r) PROVE Counted'
  BY <1>5, AppendCounted
<1>6. ASSUME NEW r \in Records, CrashInAppend(r) PROVE Counted'
  BY <1>6, CountDown DEF CrashInAppend, Down
<1>7. ASSUME NEW T \in SUBSET held, AckBegin(T) \/ GiveUp(T) PROVE Counted'
  <2>1. /\ UNCHANGED <<wal, ackFile, pendingCount, phase, reply>> /\ Live
        /\ held' \cup batch' \subseteq held \cup batch
    BY <1>7 DEF AckBegin, GiveUp, Live
  <2>2. QED
    BY <2>1, CountKept DEF Replayable
<1>8. ASSUME NEW t \in batch, AckOne(t) PROVE Counted'
  BY <1>8, AckCounted
<1>9. CASE AckFails \/ AckEnd
  <2>1. /\ UNCHANGED <<wal, ackFile, pendingCount, phase, reply>> /\ Live
        /\ held' \cup batch' \subseteq held \cup batch
    BY <1>9 DEF AckFails, AckEnd, Live, Rest, Quiet
  <2>2. QED
    BY <2>1, CountKept DEF Replayable
<1>10. CASE CompactFails \/ CompactReopenFails \/ CompactResetFails
  <2>1. /\ UNCHANGED <<wal, ackFile, pendingCount, held, batch, reply>> /\ Live
        /\ phase' # "loaded"
    BY <1>10 DEF CompactFails, CompactReopenFails, CompactResetFails, CompactReturns,
                 Live, Rest, Quiet
  <2>2. QED
    BY <2>1, CountKept DEF Replayable
<1>11. CASE CompactRename
  <2>1. /\ UNCHANGED <<ackFile, pendingCount, held, batch, reply, phase>> /\ Live
        /\ wal' = Unacked(wal, acked)
    BY <1>11 DEF CompactRename, Live, Rest, Quiet
  <2>2. Replayable' = Replayable
    BY <2>1 DEF Replayable, Unacked, Rest, AcksAgree
  <2>3. QED
    BY <2>1, <2>2, CountKept
<1>12. CASE CompactReopen
  <2>1. wal' = wal /\ ackFile' = ackFile /\ pendingCount' = Cardinality(wal)
    BY <1>12 DEF CompactReopen
  <2>2. Replayable' = wal
    BY <1>12, <2>1 DEF CompactReopen, Rest, Compacting, Replayable, Unacked
  <2>3. QED
    BY <2>1, <2>2, CountTaken DEF Rest, InFlight
<1>13. CASE CompactReset
  <2>1. /\ UNCHANGED <<wal, pendingCount, held, batch, reply>> /\ Live
        /\ phase' # "loaded" /\ ackFile' = {}
    BY <1>13 DEF CompactReset, CompactReturns, Live, Rest, Quiet
  <2>2. Replayable' = Replayable
    BY <1>13, <2>1 DEF CompactReset, Rest, Compacting, Replayable, Unacked
  <2>3. QED
    BY <2>1, <2>2, CountKept
<1>14. CASE Crash
  BY <1>14, CountDown DEF Crash, Down
<1>15. CASE UNCHANGED vars
  BY <1>15, CountKept, CountDown DEF vars, Replayable, Live, Phases, TypeOK, Counted, Counts
<1>16. QED
  BY <1>1, <1>2, <1>3, <1>4, <1>5, <1>6, <1>7, <1>8, <1>9, <1>10, <1>11, <1>12,
     <1>13, <1>14, <1>15
   DEF Next

LEMMA CountedInvariant ==
  ASSUME "startup" \notin Faults
  PROVE  Spec => [](IInv /\ Counted)
<1>1. Init => Counted
  BY DEF Init, Counted, Live
<1>2. IInv /\ IInv' /\ Counted /\ [Next]_vars => Counted'
  BY CountedStep DEF IInv
<1>3. QED
  BY <1>1, <1>2, Inductive, PTL DEF Spec

\* pendingCount, which AppendIfAllowed compares with max_journal_pending, is
\* the number of lines a restart would replay, but for lines whose fsync
\* failed, through every Ack, compaction and restart.
THEOREM BacklogIsCounted ==
  ASSUME "startup" \notin Faults
  PROVE  Spec => []PendingCountExact
<1>1. IInv /\ Counted => PendingCountExact
  <2> SUFFICES ASSUME IInv, Counted, Live
               PROVE  /\ pendingCount <= Cardinality(Replayable)
                      /\ pendingCount >= Cardinality({l \in Replayable : reply[l.rec] # "500"})
    BY DEF PendingCountExact
  <2> DEFINE Sure == {l \in Replayable : reply[l.rec] # "500"}
  <2>1. PICK C \in SUBSET Replayable : Counts(C)
    BY DEF Counted
  <2>2. Sure \subseteq C
    BY <2>1 DEF Counts
  <2> HIDE DEF Sure
  <2>3. Cardinality(C) <= Cardinality(Replayable) /\ Cardinality(Sure) <= Cardinality(C)
    BY <2>2, ReplayableFinite, FS_Subset DEF IInv
  <2>4. QED
    BY <2>1, <2>3 DEF Counts, Sure
<1>2. QED
  BY <1>1, CountedInvariant, PTL

-----------------------------------------------------------------------------
(* The journal implements DurableAccept.                                   *)

LEMMA NewLine ==
  ASSUME TypeOK, Rest, Serving, writer = "ok", NEW r \in Records, AppendLine(r)
  PROVE  Recs(Replayable') = Recs(Replayable) \cup {r}
<1> DEFINE new == [id |-> nextID + 1, rec |-> r]
<1>1. new.id \notin ackFile
  BY DEF TypeOK, Rest, FreshIDs, Serving
<1>2. Replayable' = Replayable \cup {new}
  BY <1>1 DEF AppendLine, Rest, NotTorn, Replayable, Unacked
<1>3. new.rec = r
  OBVIOUS
<1> HIDE DEF new
<1>4. QED
  BY <1>2, <1>3 DEF Recs

LEMMA StepRefines ==
  ASSUME IInv, [Next]_vars
  PROVE  [Abstract!Next]_(Abstract!vars)
<1> USE DEF IInv, TypeOK, Rest, Line, Serving, disk, memory, call, pipeline,
            history
<1>1. CASE NewJournal
  BY <1>1 DEF NewJournal, Replayable, Accepted, Abstract!vars
<1>2. CASE ReplayUnacked
  BY <1>2 DEF ReplayUnacked, Replayable, Accepted, Abstract!vars
<1>3. CASE StartupCompact
  BY <1>3 DEF StartupCompact, Replayable, Accepted, Abstract!vars
<1>4. ASSUME NEW r \in Records, AppendRefused(r) PROVE [Abstract!Next]_(Abstract!vars)
  BY <1>4
   DEF AppendRefused, Submits, Answers, Replayable, Accepted, Abstract!vars
<1>5. ASSUME NEW r \in Records, Append(r) PROVE [Abstract!Next]_(Abstract!vars)
  <2>1. Abstract!Accept(r)
    <3>1. r \notin Accepted \cup Recs(Replayable) \cup stored
      BY <1>5 DEF Append, Submits, Accepted, Recs, Replayable, Unacked, Once
    <3>2. Recs(Replayable') = Recs(Replayable) \cup {r}
      BY <1>5, NewLine DEF Append, Submits
    <3>3. Accepted' = Accepted \cup {r} /\ stored' = stored
      BY <1>5 DEF Append, Answers, Accepted, Replies
    <3>4. QED
      BY <3>1, <3>2, <3>3 DEF Abstract!Accept
  <2>2. QED
    BY <2>1 DEF Abstract!Next
<1>6. ASSUME NEW r \in Records, AppendWriteFails(r) PROVE [Abstract!Next]_(Abstract!vars)
  BY <1>6
   DEF AppendWriteFails, Submits, Answers, Replayable, Accepted,
     Abstract!vars
<1>7. ASSUME NEW r \in Records, AppendSyncFails(r) PROVE [Abstract!Next]_(Abstract!vars)
  <2>1. Abstract!Accept(r)
    <3>1. r \notin Accepted \cup Recs(Replayable) \cup stored
      BY <1>7 DEF AppendSyncFails, Submits, Accepted, Recs, Replayable, Unacked, Once
    <3>2. Recs(Replayable') = Recs(Replayable) \cup {r}
      BY <1>7, NewLine DEF AppendSyncFails, Submits
    <3>3. Accepted' = Accepted /\ stored' = stored
      BY <1>7 DEF AppendSyncFails, Submits, Answers, Accepted
    <3>4. QED
      BY <3>1, <3>2, <3>3 DEF Abstract!Accept
  <2>2. QED
    BY <2>1 DEF Abstract!Next
<1>8. ASSUME NEW r \in Records, AppendWithoutWriter(r) PROVE [Abstract!Next]_(Abstract!vars)
  BY <1>8
   DEF AppendWithoutWriter, Submits, Answers, Replayable, Accepted,
     Abstract!vars
<1>9. ASSUME NEW r \in Records, CrashInAppend(r) PROVE [Abstract!Next]_(Abstract!vars)
  <2>1. Accepted' = Accepted /\ stored' = stored
    BY <1>9 DEF CrashInAppend, Submits, Answers, Accepted
  <2>2. CASE wal' = wal /\ ackFile' = ackFile
    BY <2>1, <2>2 DEF Abstract!vars, Replayable
  <2>3. CASE AppendLine(r)
    <3>1. r \notin Accepted \cup Recs(Replayable) \cup stored
      BY <1>9 DEF CrashInAppend, Submits, Accepted, Recs, Replayable, Unacked, Once
    <3>2. Recs(Replayable') = Recs(Replayable) \cup {r}
      BY <1>9, <2>3, NewLine DEF CrashInAppend, Submits
    <3>3. Abstract!Accept(r)
      BY <2>1, <3>1, <3>2 DEF Abstract!Accept
    <3>4. QED
      BY <3>3 DEF Abstract!Next
  <2>4. QED
    BY <1>9, <2>2, <2>3 DEF CrashInAppend
<1>10. ASSUME NEW T \in SUBSET held, AckBegin(T) PROVE [Abstract!Next]_(Abstract!vars)
  <2>1. Recs(T) \subseteq Recs(Replayable)
    BY DEF InFlight, Recs
  <2>2. Abstract!Store(Recs(T))
    BY <1>10, <2>1 DEF AckBegin, Replayable, Accepted, Abstract!Store
  <2>3. Recs(T) \subseteq Records
    BY DEF Recs
  <2>4. QED
    BY <2>2, <2>3 DEF Abstract!Next
<1>11. ASSUME NEW T \in SUBSET held, GiveUp(T) PROVE [Abstract!Next]_(Abstract!vars)
  BY <1>11 DEF GiveUp, Replayable, Accepted, Abstract!vars
<1>12. ASSUME NEW t \in batch, AckOne(t) PROVE [Abstract!Next]_(Abstract!vars)
  <2>1. Accepted' = Accepted /\ stored' = stored
    BY <1>12 DEF AckOne, Accepted
  <2>2. CASE t.id \in acked
    BY <1>12, <2>1, <2>2 DEF AckOne, Replayable, Abstract!vars
  <2>3. CASE t.id \notin acked
    <3>1. t \in wal /\ t.rec \in stored
      BY DEF InFlight, Replayable, Unacked, Recs
    <3>2. Replayable' = Replayable \ {t}
      BY <1>12, <2>3, <3>1 DEF AckOne, Replayable, Unacked, Distinct
    <3>3. \A l \in Replayable : l.rec = t.rec => l = t
      BY <3>1 DEF Replayable, Unacked, Distinct
    <3>4. Recs(Replayable') = Recs(Replayable) \ {t.rec}
      BY <3>2, <3>3 DEF Recs
    <3>5. Abstract!Settle({t.rec})
      BY <2>1, <3>1, <3>4 DEF Abstract!Settle
    <3>6. QED
      BY <3>1, <3>5 DEF Abstract!Next
  <2>4. QED
    BY <2>2, <2>3
<1>13. CASE AckFails
  BY <1>13 DEF AckFails, Replayable, Accepted, Abstract!vars
<1>14. CASE AckEnd
  BY <1>14 DEF AckEnd, Replayable, Accepted, Abstract!vars
<1>15. CASE CompactFails
  BY <1>15 DEF CompactFails, Replayable, Accepted, Abstract!vars
<1>16. CASE CompactRename
  <2>1. Live
    BY <1>16 DEF CompactRename, Quiet, Live
  <2>2. Replayable' = Replayable
    BY <1>16, <2>1 DEF CompactRename, Replayable, Unacked, AcksAgree
  <2>3. QED
    BY <1>16, <2>2 DEF CompactRename, Accepted, Abstract!vars
<1>17. CASE CompactReopenFails
  BY <1>17 DEF CompactReopenFails, Replayable, Accepted, Abstract!vars
<1>18. CASE CompactReopen
  BY <1>18 DEF CompactReopen, Replayable, Accepted, Abstract!vars
<1>19. CASE CompactReset
  <2>1. Replayable' = Replayable
    BY <1>19 DEF CompactReset, Replayable, Unacked, Compacting
  <2>2. QED
    BY <1>19, <2>1 DEF CompactReset, Accepted, Abstract!vars
<1>20. CASE CompactResetFails
  BY <1>20 DEF CompactResetFails, Replayable, Accepted, Abstract!vars
<1>21. CASE Close
  BY <1>21 DEF Close, Replayable, Accepted, Abstract!vars
<1>22. CASE Crash
  BY <1>22 DEF Crash, Down, Replayable, Accepted, Abstract!vars
<1>23. CASE UNCHANGED vars
  BY <1>23 DEF vars, Replayable, Accepted, Abstract!vars
<1>24. QED
  BY <1>1, <1>2, <1>3, <1>4, <1>5, <1>6, <1>7, <1>8, <1>9, <1>10, <1>11,
     <1>12, <1>13, <1>14, <1>15, <1>16, <1>17, <1>18, <1>19, <1>20, <1>21,
     <1>22, <1>23
   DEF Next

\* The journal, with its compactions, its partial Acks and its crashes,
\* implements durable acceptance.
THEOREM Refinement ==
  ASSUME "startup" \notin Faults
  PROVE  Spec => ImplementsDurableAccept
<1>1. Init => Abstract!Init
  BY DEF Init, Abstract!Init, Accepted, Recs, Replayable, Unacked
<1>2. IInv /\ [Next]_vars => [Abstract!Next]_(Abstract!vars)
  BY StepRefines
<1>3. QED
  BY <1>1, <1>2, Inductive, PTL DEF Spec, ImplementsDurableAccept, Abstract!Spec
=============================================================================
