--------------------------- MODULE ShutdownProofs ---------------------------
(***************************************************************************)
(* Proofs about Shutdown for any finite number of inserts and any          *)
(* flush_count, with or without the journal, whatever ends the server.     *)
(***************************************************************************)
EXTENDS Shutdown, SequenceTheorems, TLAPS

-----------------------------------------------------------------------------
(* The inductive invariant, in named parts.                                *)

\* The worker acks what is safe, and rests without a batch.
WorkerIsSafe ==
  /\ worker = "acking" => batch \subseteq safe
  /\ worker = "idle" => batch = {}

\* SafeQuit starts once, after the listener has closed.
QuitsOnce ==
  /\ listening => quit = "off" /\ signal = "waiting"
  /\ signal = "shutdown" => quit = "off"

\* What was early stays in the queue, with the worker or safe; when the queue
\* was seen empty, it has left the queue.
EarlyIsQueued ==
  /\ quit \in {"off", "flush"} => early = {}
  /\ early \subseteq safe \cup batch \cup Queued
  /\ quit = "collector" => early \subseteq safe \cup batch

IInv == /\ TypeOK /\ WorkerIsSafe /\ QuitsOnce
        /\ JournaledSurvives /\ EarlyIsQueued /\ EarlyReachTheWorker
-----------------------------------------------------------------------------
(* The queue.                                                              *)

Batches == (SUBSET Inserts) \ {{}}

LEMMA Appended ==
  ASSUME NEW q \in Seq(Batches), NEW b \in Batches
  PROVE  /\ Append(q, b) \in Seq(Batches) /\ Len(Append(q, b)) = Len(q) + 1
         /\ UNION ToSet(Append(q, b)) = (UNION ToSet(q)) \cup b
<1> DEFINE r == Append(q, b)
<1>1. /\ r \in Seq(Batches) /\ Len(r) = Len(q) + 1 /\ Len(q) \in Nat
      /\ \A i \in 1..Len(q) : r[i] = q[i]
      /\ r[Len(q) + 1] = b
  BY AppendProperties, LenProperties
<1>2. DOMAIN q = 1..Len(q) /\ DOMAIN r = 1..(Len(q) + 1)
  BY <1>1, LenProperties
<1> HIDE DEF r
<1>3. ToSet(q) \cup {b} \subseteq ToSet(r)
  BY <1>1, <1>2 DEF ToSet
<1>4. ASSUME NEW x \in ToSet(r) PROVE x \in ToSet(q) \cup {b}
  <2>1. PICK i \in 1..(Len(q) + 1) : x = r[i]
    BY <1>2 DEF ToSet
  <2>2. i \in 1..Len(q) \/ i = Len(q) + 1
    BY <1>1
  <2>3. QED
    BY <2>1, <2>2, <1>1, <1>2 DEF ToSet
<1>5. UNION ToSet(r) = (UNION ToSet(q)) \cup b
  BY <1>3, <1>4
<1>6. QED
  BY <1>1, <1>5 DEF r

LEMMA Polled ==
  ASSUME NEW q \in Seq(Batches), q # <<>>
  PROVE  /\ Head(q) \in Batches /\ Tail(q) \in Seq(Batches) /\ Len(Tail(q)) = Len(q) - 1
         /\ UNION ToSet(q) \subseteq Head(q) \cup UNION ToSet(Tail(q))
<1> DEFINE r == Tail(q)
<1>1. /\ Head(q) \in Batches /\ r \in Seq(Batches) /\ Len(r) = Len(q) - 1
      /\ Len(q) \in Nat \ {0}
      /\ \A i \in 1..Len(r) : r[i] = q[i + 1]
  BY HeadTailProperties, EmptySeq
<1>2. DOMAIN q = 1..Len(q) /\ DOMAIN r = 1..(Len(q) - 1) /\ Head(q) = q[1]
  BY <1>1, LenProperties
<1> HIDE DEF r
<1>3. ASSUME NEW x \in ToSet(q) PROVE x = Head(q) \/ x \in ToSet(r)
  <2>1. PICK i \in 1..Len(q) : x = q[i]
    BY <1>2 DEF ToSet
  <2>2. i = 1 \/ (i - 1 \in 1..(Len(q) - 1) /\ (i - 1) + 1 = i)
    BY <1>1
  <2>3. CASE i = 1
    BY <2>1, <2>3, <1>2
  <2>4. CASE i - 1 \in 1..(Len(q) - 1) /\ (i - 1) + 1 = i
    BY <2>1, <2>4, <1>1, <1>2 DEF ToSet
  <2>5. QED
    BY <2>2, <2>3, <2>4
<1>4. UNION ToSet(q) \subseteq Head(q) \cup UNION ToSet(r)
  BY <1>3
<1>5. QED
  BY <1>1, <1>4 DEF r

LEMMA Emptied == UNION ToSet(<<>>) = {}
  BY DEF ToSet

LEMMA InitIInv == Init => IInv
<1> SUFFICES ASSUME Init PROVE IInv
  OBVIOUS
<1> USE DEF Init
<1>1. wg = Len(queue) + IF worker = "idle" THEN 0 ELSE 1
  OBVIOUS
<1>2. queue \in Seq(Batches)
  BY EmptySeq
<1>3. TypeOK
  BY <1>1, <1>2 DEF TypeOK, Flushers, Batches
<1>4. QED
  BY <1>3 DEF IInv, WorkerIsSafe, QuitsOnce, JournaledSurvives, EarlyIsQueued,
              EarlyReachTheWorker
-----------------------------------------------------------------------------
(* The steps.                                                              *)

\* What the steps that do not touch the queue keep of it.
LEMMA InsertingStep ==
  ASSUME IInv,
         \/ \E i \in Inserts : Request(i) \/ Answer(i) \/ Refuse(i) \/ Push(i)
         \/ TimerFires
  PROVE  IInv'
<1> USE DEF inserting, sender, environment, ending, history
<1>1. ASSUME NEW i \in Inserts, Request(i) \/ Refuse(i) PROVE IInv'
  <2>1. TypeOK'
    BY <1>1 DEF IInv, TypeOK, Request, Refuse
  <2>2. QED
    BY <1>1, <2>1 DEF IInv, WorkerIsSafe, QuitsOnce, JournaledSurvives, EarlyIsQueued,
                      EarlyReachTheWorker, Request, Refuse, Queued
<1>2. ASSUME NEW i \in Inserts, Answer(i) PROVE IInv'
  <2>1. TypeOK'
    BY <1>2 DEF IInv, TypeOK, Answer
  <2>2. JournaledSurvives'
    BY <1>2 DEF IInv, JournaledSurvives, Answer
  <2>3. QED
    BY <1>2, <2>1, <2>2 DEF IInv, WorkerIsSafe, QuitsOnce, EarlyIsQueued,
                            EarlyReachTheWorker, Answer, Queued
<1>3. ASSUME NEW i \in Inserts, Push(i) PROVE IInv'
  <2>1. TypeOK'
    BY <1>3 DEF IInv, TypeOK, Push, Flushers
  <2>2. QED
    BY <1>3, <2>1 DEF IInv, WorkerIsSafe, QuitsOnce, JournaledSurvives, EarlyIsQueued,
                      EarlyReachTheWorker, Push, Queued
<1>4. ASSUME TimerFires PROVE IInv'
  <2>1. TypeOK'
    BY <1>4 DEF IInv, TypeOK, TimerFires, Flushers
  <2>2. QED
    BY <1>4, <2>1 DEF IInv, WorkerIsSafe, QuitsOnce, JournaledSurvives, EarlyIsQueued,
                      EarlyReachTheWorker, TimerFires, Queued
<1>5. QED
  BY <1>1, <1>2, <1>3, <1>4

LEMMA SendStep == ASSUME IInv, NEW f \in Flushers, Send(f) PROVE IInv'
<1> USE DEF inserting, sender, environment, ending, history
<1> DEFINE b == taken[f]
<1>1. b \in Batches /\ queue \in Seq(Batches)
  BY DEF Send, IInv, TypeOK, Batches
<1>2. /\ queue' \in Seq(Batches) /\ Len(queue') = Len(queue) + 1
      /\ Queued' = Queued \cup b
  BY <1>1, Appended DEF Send, Queued
<1>3. Len(queue) \in Nat
  BY <1>1, LenProperties
<1>4. wg' = Len(queue') + IF worker' = "idle" THEN 0 ELSE 1
  BY <1>2, <1>3 DEF Send, IInv, TypeOK
<1>5. TypeOK'
  BY <1>2, <1>4 DEF IInv, TypeOK, Send, Batches
<1>6. QED
  BY <1>2, <1>5 DEF IInv, WorkerIsSafe, QuitsOnce, JournaledSurvives, EarlyIsQueued,
                    EarlyReachTheWorker, Send

LEMMA WorkerStep == ASSUME IInv, Worker PROVE IInv'
<1> USE DEF inserting, sender, environment, ending, history
<1>1. queue \in Seq(Batches) /\ Len(queue) \in Nat
  BY LenProperties DEF IInv, TypeOK, Batches
<1>2. ASSUME Poll PROVE IInv'
  <2>1. /\ batch' \in Batches /\ queue' \in Seq(Batches) /\ Len(queue') = Len(queue) - 1
        /\ Queued \subseteq batch' \cup Queued'
    BY <1>1, <1>2, Polled DEF Poll, Queued
  <2>2. wg' = Len(queue') + IF worker' = "idle" THEN 0 ELSE 1
    BY <1>1, <1>2, <2>1 DEF IInv, TypeOK, Poll
  <2>3. TypeOK'
    BY <1>2, <2>1, <2>2 DEF IInv, TypeOK, Poll, Batches
  <2>4. batch = {}
    BY <1>2 DEF IInv, WorkerIsSafe, Poll
  <2>5. EarlyIsQueued' /\ EarlyReachTheWorker'
    BY <1>2, <2>1, <2>4 DEF IInv, EarlyIsQueued, EarlyReachTheWorker, Poll
  <2>6. QED
    BY <1>2, <2>3, <2>5 DEF IInv, WorkerIsSafe, QuitsOnce, JournaledSurvives, Poll
<1>3. ASSUME Store PROVE IInv'
  <2>1. wg' = Len(queue') + IF worker' = "idle" THEN 0 ELSE 1
    BY <1>3 DEF IInv, TypeOK, Store
  <2>2. TypeOK'
    BY <1>3, <2>1 DEF IInv, TypeOK, Store
  <2>3. QED
    BY <1>3, <2>2 DEF IInv, WorkerIsSafe, QuitsOnce, JournaledSurvives, EarlyIsQueued,
                      EarlyReachTheWorker, Store, Queued
<1>4. ASSUME Ack PROVE IInv'
  <2>1. wg' = Len(queue') + IF worker' = "idle" THEN 0 ELSE 1
    BY <1>1, <1>4 DEF IInv, TypeOK, Ack
  <2>2. TypeOK'
    BY <1>4, <2>1 DEF IInv, TypeOK, Ack
  <2>3. batch \subseteq safe
    BY <1>4 DEF IInv, WorkerIsSafe, Ack
  <2>4. QED
    BY <1>4, <2>2, <2>3 DEF IInv, WorkerIsSafe, QuitsOnce, JournaledSurvives,
                            EarlyIsQueued, EarlyReachTheWorker, Ack, Queued
<1>5. QED
  BY <1>2, <1>3, <1>4 DEF Worker

\* The steps of main, of the signal and of the clocks.
LEMMA EndingStep ==
  ASSUME IInv,
         \/ Main \/ Signal \/ CtxExpires \/ ListenFails \/ Deadline
         \/ ShutdownReturns \/ QuitCloses \/ QuitExits
  PROVE  IInv'
<1> USE DEF inserting, sender, environment, ending, history
<1>1. UNCHANGED <<inserting, sender, history>> /\ timedOut' = timedOut
  BY DEF Main, StartReturns, MainCloses, MainExits, Signal, CtxExpires, ListenFails,
         Deadline, ShutdownReturns, QuitCloses, QuitExits
<1>2. TypeOK'
  <2>1. wg' = Len(queue') + IF worker' = "idle" THEN 0 ELSE 1
    BY <1>1 DEF IInv, TypeOK
  <2>2. /\ listening' \in BOOLEAN /\ ctxDone' \in BOOLEAN /\ journalOpen' \in BOOLEAN
        /\ main' \in {"serving", "returned", "closed", "quitting"}
        /\ signal' \in {"waiting", "shutdown", "quitting"}
        /\ late' \in BOOLEAN
    BY DEF IInv, TypeOK, Main, StartReturns, MainCloses, MainExits, Signal, CtxExpires,
           ListenFails, Deadline, ShutdownReturns, QuitCloses, QuitExits
  <2>3. quit' = quit \/ quit' = "flush" \/ quit' = "exit"
    BY DEF Main, StartReturns, MainCloses, MainExits, Signal, CtxExpires,
           ListenFails, Deadline, ShutdownReturns, QuitCloses, QuitExits, SafeQuit
  <2>4. /\ quitter' \in {"main", "signal", quitter}
        /\ exited' \in {"main", quitter, exited}
    BY DEF Main, StartReturns, MainCloses, MainExits, Signal, CtxExpires,
           ListenFails, Deadline, ShutdownReturns, QuitCloses, QuitExits, SafeQuit
  <2>5. QED
    BY <1>1, <2>1, <2>2, <2>3, <2>4 DEF IInv, TypeOK
<1>3. QuitsOnce'
  BY DEF IInv, TypeOK, QuitsOnce, Main, StartReturns, MainCloses, MainExits, Signal,
         CtxExpires, ListenFails, Deadline, ShutdownReturns, QuitCloses, QuitExits, SafeQuit
<1>4. \/ quit' = quit
      \/ quit = "off" /\ quit' = "flush"
      \/ quit = "close" /\ quit' = "exit"
  BY DEF IInv, QuitsOnce, Main, StartReturns, MainCloses, MainExits, Signal,
         CtxExpires, ListenFails, Deadline, ShutdownReturns, QuitCloses, QuitExits, SafeQuit
<1>5. EarlyIsQueued' /\ EarlyReachTheWorker'
  BY <1>1, <1>4 DEF IInv, EarlyIsQueued, EarlyReachTheWorker, Queued
<1>6. QED
  BY <1>1, <1>2, <1>3, <1>5 DEF IInv, WorkerIsSafe, JournaledSurvives

\* FlushAll takes the table to the queue and counts the batch.
LEMMA FlushAllStep ==
  ASSUME TypeOK, FlushAll, worker' = worker
  PROVE  /\ table' \subseteq Inserts /\ queue' \in Seq(Batches)
         /\ wg' = Len(queue') + IF worker' = "idle" THEN 0 ELSE 1
         /\ Queued' = table \cup Queued
<1>1. queue \in Seq(Batches) /\ Len(queue) \in Nat
  BY LenProperties DEF TypeOK, Batches
<1>2. CASE table = {}
  BY <1>1, <1>2 DEF FlushAll, TypeOK, Queued, Batches
<1>3. CASE table # {}
  <2>1. table \in Batches
    BY <1>3 DEF TypeOK, Batches
  <2>2. /\ Append(queue, table) \in Seq(Batches)
        /\ Len(Append(queue, table)) = Len(queue) + 1
        /\ UNION ToSet(Append(queue, table)) = (UNION ToSet(queue)) \cup table
    BY <1>1, <2>1, Appended
  <2>3. table' = {} /\ queue' = Append(queue, table) /\ wg' = wg + 1
    BY <1>3 DEF FlushAll
  <2>4. wg' = Len(queue') + IF worker' = "idle" THEN 0 ELSE 1
    BY <1>1, <2>2, <2>3 DEF TypeOK
  <2>5. Queued' = table \cup Queued
    BY <2>2, <2>3 DEF Queued
  <2>6. QED
    BY <2>2, <2>3, <2>4, <2>5
<1>4. QED
  BY <1>2, <1>3

LEMMA QuitStep ==
  ASSUME IInv, QuitFlush \/ QuitSender \/ QuitCollector \/ QuitBody \/ QuitWait
  PROVE  IInv'
<1> USE DEF inserting, sender, environment, ending, history
<1>1. ASSUME QuitFlush \/ (QuitBody /\ ~late) PROVE IInv'
  <2>1. FlushAll /\ worker' = worker /\ batch' = batch /\ safe' = safe /\ wal' = wal
    BY <1>1 DEF QuitFlush, QuitBody, Quits
  <2>2. /\ table' \subseteq Inserts /\ queue' \in Seq(Batches)
        /\ wg' = Len(queue') + IF worker' = "idle" THEN 0 ELSE 1
        /\ Queued' = table \cup Queued
    BY <2>1, FlushAllStep DEF IInv
  <2>3. Queued \subseteq Inserts
    <3>1. ASSUME NEW s \in ToSet(queue) PROVE s \subseteq Inserts
      BY LenProperties DEF IInv, TypeOK, ToSet
    <3>2. QED
      BY <3>1 DEF Queued
  <2>4. early' \subseteq Inserts
    BY <1>1, <2>3 DEF IInv, TypeOK, QuitFlush, QuitBody
  <2>5. TypeOK'
    BY <1>1, <2>2, <2>4 DEF IInv, TypeOK, QuitFlush, QuitBody, Quits, Batches
  <2>6. EarlyIsQueued' /\ EarlyReachTheWorker'
    BY <1>1, <2>1, <2>2 DEF IInv, EarlyIsQueued, EarlyReachTheWorker, QuitFlush, QuitBody,
                            Quits
  <2>7. QED
    BY <1>1, <2>1, <2>5, <2>6 DEF IInv, WorkerIsSafe, QuitsOnce, JournaledSurvives,
                                  QuitFlush, QuitBody, Quits
<1>2. ASSUME QuitSender \/ QuitCollector \/ QuitWait \/ (QuitBody /\ late) PROVE IInv'
  <2>1. /\ UNCHANGED <<inserting, sender, environment, history>>
        /\ UNCHANGED <<main, signal, quitter, late, exited>>
    BY <1>2 DEF QuitSender, QuitCollector, QuitWait, QuitBody, Quits
  <2>2. TypeOK'
    <3>1. wg' = Len(queue') + IF worker' = "idle" THEN 0 ELSE 1
      BY <2>1 DEF IInv, TypeOK
    <3>2. /\ quit' \in {"sender", "collector", "body", "close"}
          /\ timedOut' \in BOOLEAN
      BY <1>2 DEF IInv, TypeOK, QuitSender, QuitCollector, QuitWait, QuitBody, Quits
    <3>3. QED
      BY <2>1, <3>1, <3>2 DEF IInv, TypeOK
  <2>3. QuitsOnce'
    BY <1>2, <2>1 DEF IInv, QuitsOnce, QuitSender, QuitCollector, QuitWait, QuitBody, Quits
  <2>4. EarlyIsQueued' /\ EarlyReachTheWorker'
    <3>1. CASE QuitSender
      BY <3>1, <2>1, Emptied DEF IInv, EarlyIsQueued, EarlyReachTheWorker, Queued,
                                 QuitSender, Quits
    <3>2. CASE QuitCollector
      BY <3>2, <2>1 DEF IInv, EarlyIsQueued, EarlyReachTheWorker, Queued, QuitCollector,
                        Quits
    <3>3. CASE QuitWait \/ (QuitBody /\ late)
      BY <3>3, <2>1 DEF IInv, EarlyIsQueued, EarlyReachTheWorker, Queued, QuitWait,
                        QuitBody, Quits
    <3>4. QED
      BY <1>2, <3>1, <3>2, <3>3
  <2>5. QED
    BY <2>1, <2>2, <2>3, <2>4 DEF IInv, WorkerIsSafe, JournaledSurvives
<1>3. QED
  BY <1>1, <1>2

LEMMA IInvStep == IInv /\ [Next]_vars => IInv'
<1> SUFFICES ASSUME IInv, [Next]_vars PROVE IInv'
  OBVIOUS
<1>1. CASE UNCHANGED vars
  BY <1>1 DEF vars, inserting, sender, environment, ending, history, IInv, TypeOK,
              WorkerIsSafe, QuitsOnce, JournaledSurvives, EarlyIsQueued,
              EarlyReachTheWorker, Queued
<1>2. CASE Next
  BY <1>2, InsertingStep, SendStep, WorkerStep, EndingStep, QuitStep DEF Next, Quitter
<1>3. QED
  BY <1>1, <1>2

\* The inductive invariant holds in every reachable state.
THEOREM Invariance == Spec => []IInv
<1>1. QED
  BY InitIInv, IInvStep, PTL DEF Spec

-----------------------------------------------------------------------------
(* The theorems.                                                           *)

\* The WaitGroup counts the queue and the worker's batch whatever main, the
\* signal goroutine and SafeQuit do meanwhile (TypeOK, and conn.wg of
\* clickhouse.go).
THEOREM TypeCorrect == Spec => []TypeOK
<1>1. IInv => TypeOK
  BY DEF IInv
<1>2. QED
  BY Invariance, <1>1, PTL

\* With the journal every insert answered 200 is in ClickHouse, in a dump or in
\* the WAL whoever ends the process, and whenever (runServer and SafeQuit).
THEOREM NoAnswerIsLost == Spec => []JournaledSurvives
<1>1. IInv => JournaledSurvives
  BY DEF IInv
<1>2. QED
  BY Invariance, <1>1, PTL

\* A SafeQuit within its deadline has left nothing of what it found in the
\* table or the queue (the loop of SafeQuit over the sender and the collector).
THEOREM SafeQuitDrains == Spec => []EarlyReachTheWorker
<1>1. IInv => EarlyReachTheWorker
  BY DEF IInv
<1>2. QED
  BY Invariance, <1>1, PTL
-----------------------------------------------------------------------------
(* The process implements DurableAccept: what is owed is in the WAL, and   *)
(* an insert is in one place, so that an ack drops no other batch's lines. *)

Abstract == INSTANCE DurableAccept WITH
  Inserts <- Inserts, accepted <- answered, outstanding <- wal, stored <- safe

DurablyAccepts == Abstract!Spec

Pushing == {i \in Inserts : request[i] = "push"}
Arrived == {i \in Inserts : request[i] = "done"}

Disjoint(q) == \A j, k \in DOMAIN q : j # k => q[j] \cap q[k] = {}

\* An insert that has reached the table is in one place.
InOnePlace ==
  /\ table \cup Queued \cup batch \subseteq Arrived
  /\ table \cap Queued = {} /\ table \cap batch = {} /\ Queued \cap batch = {}
  /\ \A f \in Flushers : /\ taken[f] \subseteq Arrived
                         /\ taken[f] \cap (table \cup Queued \cup batch) = {}
  /\ \A f, h \in Flushers : f # h => taken[f] \cap taken[h] = {}
  /\ Disjoint(queue)

\* Only a request that was appended is answered, logged or stored; what is on
\* its way to ClickHouse is in the WAL.
Owed ==
  /\ answered \cup safe \cup wal \subseteq Pushing \cup Arrived
  /\ Journaled =>
       /\ Pushing \cup table \cup Queued \subseteq wal
       /\ \A f \in Flushers : taken[f] \subseteq wal
       /\ worker = "sending" => batch \subseteq wal

Paths == InOnePlace /\ Owed

LEMMA AppendedDisjoint ==
  ASSUME NEW q \in Seq(Batches), NEW b \in Batches, Disjoint(q),
         b \cap UNION ToSet(q) = {}
  PROVE  Disjoint(Append(q, b))
<1> DEFINE r == Append(q, b)
<1>1. /\ Len(r) = Len(q) + 1 /\ Len(q) \in Nat /\ r \in Seq(Batches)
      /\ \A i \in 1..Len(q) : r[i] = q[i]
      /\ r[Len(q) + 1] = b
  BY AppendProperties, LenProperties
<1>2. DOMAIN q = 1..Len(q) /\ DOMAIN r = 1..(Len(q) + 1)
  BY <1>1, LenProperties
<1> HIDE DEF r
<1>3. \A i \in 1..Len(q) : q[i] \cap b = {}
  BY <1>2 DEF ToSet
<1>4. ASSUME NEW j \in DOMAIN r, NEW k \in DOMAIN r, j # k
      PROVE  r[j] \cap r[k] = {}
  <2>1. /\ j \in 1..Len(q) \/ j = Len(q) + 1
        /\ k \in 1..Len(q) \/ k = Len(q) + 1
    BY <1>1, <1>2
  <2>2. CASE j \in 1..Len(q) /\ k \in 1..Len(q)
    BY <1>1, <1>2, <1>4, <2>2 DEF Disjoint
  <2>3. CASE j \in 1..Len(q) /\ k = Len(q) + 1
    BY <1>1, <1>3, <2>3
  <2>4. CASE j = Len(q) + 1 /\ k \in 1..Len(q)
    BY <1>1, <1>3, <2>4
  <2>5. QED
    BY <1>4, <2>1, <2>2, <2>3, <2>4
<1>5. QED
  BY <1>4 DEF Disjoint, r

LEMMA PolledDisjoint ==
  ASSUME NEW q \in Seq(Batches), q # <<>>, Disjoint(q)
  PROVE  /\ Disjoint(Tail(q)) /\ Head(q) \cap UNION ToSet(Tail(q)) = {}
         /\ Head(q) \cup UNION ToSet(Tail(q)) \subseteq UNION ToSet(q)
<1> DEFINE r == Tail(q)
<1>1. /\ Len(r) = Len(q) - 1 /\ Len(q) \in Nat \ {0} /\ r \in Seq(Batches)
      /\ \A i \in 1..Len(r) : r[i] = q[i + 1]
  BY HeadTailProperties, EmptySeq
<1>2. DOMAIN q = 1..Len(q) /\ DOMAIN r = 1..(Len(q) - 1) /\ Head(q) = q[1]
  BY <1>1, LenProperties
<1> HIDE DEF r
<1>3. \A i \in DOMAIN r : i + 1 \in DOMAIN q /\ i + 1 # 1 /\ r[i] = q[i + 1]
  BY <1>1, <1>2
<1>4. 1 \in DOMAIN q
  BY <1>1, <1>2
<1>5. Disjoint(r)
  <2>1. \A j, k \in DOMAIN r : j # k => j + 1 # k + 1
    BY <1>2
  <2>2. QED
    BY <1>3, <2>1 DEF Disjoint
<1>6. \A i \in DOMAIN r : q[1] \cap r[i] = {}
  BY <1>3, <1>4 DEF Disjoint
<1>7. QED
  BY <1>2, <1>3, <1>4, <1>5, <1>6 DEF ToSet, r

LEMMA InitPaths == Init => Paths
<1> SUFFICES ASSUME Init PROVE Paths
  OBVIOUS
<1> USE DEF Init
<1>1. Queued = {} /\ Disjoint(queue)
  BY Emptied DEF Queued, Disjoint
<1>2. QED
  BY <1>1 DEF Paths, InOnePlace, Owed, Pushing, Arrived, Flushers

\* Whatever moves neither an insert nor a promise keeps the paths.
LEMMA PathsKept ==
  ASSUME Paths, UNCHANGED <<request, table, taken, queue, batch, answered, safe, wal>>,
         worker' = "sending" => worker = "sending"
  PROVE  Paths'
<1>1. Queued' = Queued /\ Pushing' = Pushing /\ Arrived' = Arrived
  BY DEF Queued, Pushing, Arrived
<1>2. Disjoint(queue)'
  BY DEF Paths, InOnePlace, Disjoint
<1>3. QED
  BY <1>1, <1>2 DEF Paths, InOnePlace, Owed

\* The handler, Push and the timer.
LEMMA InsertingPaths ==
  ASSUME TypeOK, Paths,
         \/ \E i \in Inserts : Request(i) \/ Answer(i) \/ Refuse(i) \/ Push(i)
         \/ TimerFires
  PROVE  Paths'
<1> USE DEF inserting, sender, environment, ending, history
<1>1. UNCHANGED <<queue, batch, worker, safe>>
  BY DEF Request, Answer, Refuse, Push, TimerFires
<1>2. Queued' = Queued /\ Disjoint(queue)'
  BY <1>1 DEF Queued, Disjoint, Paths, InOnePlace
<1>3. ASSUME NEW i \in Inserts, Request(i) \/ Refuse(i) PROVE Paths'
  <2>1. UNCHANGED <<table, taken, answered, wal>>
    BY <1>3 DEF Request, Refuse
  <2>2. Pushing' = Pushing /\ Arrived \subseteq Arrived'
    BY <1>3 DEF TypeOK, Request, Refuse, Pushing, Arrived
  <2>3. QED
    BY <1>1, <1>2, <2>1, <2>2 DEF Paths, InOnePlace, Owed
<1>4. ASSUME NEW i \in Inserts, Answer(i) PROVE Paths'
  <2>1. UNCHANGED <<table, taken>> /\ answered' = answered \cup {i}
    BY <1>4 DEF Answer
  <2>2. wal' \subseteq wal \cup {i} /\ (Journaled => wal' = wal \cup {i})
    BY <1>4 DEF Answer
  <2>3. Pushing' = Pushing \cup {i} /\ Arrived' = Arrived
    BY <1>4 DEF TypeOK, Answer, Pushing, Arrived
  <2>4. QED
    BY <1>1, <1>2, <2>1, <2>2, <2>3 DEF Paths, InOnePlace, Owed
<1>5. ASSUME NEW i \in Inserts, Push(i) PROVE Paths'
  <2>1. UNCHANGED <<answered, wal>>
    BY <1>5 DEF Push
  <2>2. Pushing' = Pushing \ {i} /\ Arrived' = Arrived \cup {i}
    BY <1>5 DEF TypeOK, Push, Pushing, Arrived
  <2>3. i \in Pushing /\ i \notin Arrived
    BY <1>5 DEF Push, Pushing, Arrived
  <2>4. /\ \A f \in Flushers : /\ taken'[f] \subseteq taken[f] \cup table \cup {i}
                               /\ f # i => taken'[f] = taken[f]
        /\ \/ table' = {}
           \/ table' = table \cup {i} /\ taken' = taken
        /\ table' = {} \/ taken' = taken
        /\ table' \subseteq table \cup {i}
        /\ i \in Flushers /\ (taken' = taken \/ taken'[i] = table \cup {i})
    BY <1>5 DEF TypeOK, Push, Flushers
  <2>5. \A f \in Flushers : i \notin taken[f]
    BY <2>3 DEF Paths, InOnePlace
  <2>6. i \notin table \cup Queued \cup batch
    BY <2>3 DEF Paths, InOnePlace
  <2>7. \A f, h \in Flushers : f # h => taken'[f] \cap taken'[h] = {}
    BY <2>4, <2>5, <2>6 DEF Paths, InOnePlace
  <2>8. \A f \in Flushers : /\ taken'[f] \subseteq Arrived'
                            /\ taken'[f] \cap (table' \cup Queued' \cup batch') = {}
    BY <1>1, <1>2, <2>2, <2>4, <2>5, <2>6 DEF Paths, InOnePlace
  <2>9. InOnePlace'
    BY <1>1, <1>2, <2>2, <2>4, <2>6, <2>7, <2>8 DEF Paths, InOnePlace
  <2>10. Owed'
    BY <1>1, <1>2, <2>1, <2>2, <2>3, <2>4 DEF Paths, Owed
  <2>11. QED
    BY <2>9, <2>10 DEF Paths
<1>6. CASE TimerFires
  <2>1. UNCHANGED <<answered, wal>> /\ Pushing' = Pushing /\ Arrived' = Arrived
    BY <1>6 DEF TimerFires, Pushing, Arrived
  <2>2. /\ table' = {} /\ "timer" \in Flushers /\ taken'["timer"] = table
        /\ \A f \in Flushers : f # "timer" => taken'[f] = taken[f]
    BY <1>6 DEF TypeOK, TimerFires, Flushers
  <2>3. InOnePlace'
    BY <1>1, <1>2, <2>1, <2>2 DEF Paths, InOnePlace
  <2>4. Owed'
    BY <1>1, <1>2, <2>1, <2>2 DEF Paths, Owed
  <2>5. QED
    BY <2>3, <2>4 DEF Paths
<1>7. QED
  BY <1>3, <1>4, <1>5, <1>6

LEMMA SendPaths == ASSUME TypeOK, Paths, NEW f \in Flushers, Send(f) PROVE Paths'
<1> USE DEF inserting, sender, environment, ending, history
<1> DEFINE b == taken[f]
<1>1. b \in Batches /\ queue \in Seq(Batches)
  BY DEF Send, TypeOK, Batches
<1>2. Queued' = Queued \cup b
  BY <1>1, Appended DEF Send, Queued
<1>3. Disjoint(queue)'
  <2>1. Disjoint(queue) /\ b \cap UNION ToSet(queue) = {}
    BY DEF Paths, InOnePlace, Queued
  <2>2. Disjoint(Append(queue, b))
    BY <1>1, <2>1, AppendedDisjoint
  <2>3. QED
    BY <2>2 DEF Send, Disjoint
<1>4. /\ UNCHANGED <<request, table, batch, worker, answered, safe, wal>>
      /\ taken'[f] = {} /\ \A h \in Flushers : h # f => taken'[h] = taken[h]
  BY DEF Send, TypeOK
<1>5. Pushing' = Pushing /\ Arrived' = Arrived
  BY <1>4 DEF Pushing, Arrived
<1>6. InOnePlace'
  BY <1>2, <1>3, <1>4, <1>5 DEF Paths, InOnePlace
<1>7. Owed'
  BY <1>2, <1>4, <1>5 DEF Paths, Owed
<1>8. QED
  BY <1>6, <1>7 DEF Paths

LEMMA WorkerPaths == ASSUME TypeOK, WorkerIsSafe, Paths, Worker PROVE Paths'
<1> USE DEF inserting, sender, environment, ending, history
<1>1. /\ UNCHANGED <<request, table, taken, answered>>
      /\ Pushing' = Pushing /\ Arrived' = Arrived
  BY DEF Worker, Poll, Store, Ack, Pushing, Arrived
<1>2. CASE Poll
  <2>1. queue \in Seq(Batches) /\ queue # <<>>
    BY <1>2 DEF Poll, TypeOK, Batches
  <2>2. Disjoint(queue)'
    BY <1>2, <2>1, PolledDisjoint DEF Poll, Paths, InOnePlace, Disjoint
  <2>3. batch' \cap Queued' = {} /\ batch' \cup Queued' \subseteq Queued
    BY <1>2, <2>1, PolledDisjoint DEF Poll, Queued, Paths, InOnePlace
  <2>4. safe' = safe /\ wal' = wal
    BY <1>2 DEF Poll
  <2>5. InOnePlace'
    BY <1>1, <2>2, <2>3 DEF Paths, InOnePlace
  <2>6. Owed'
    BY <1>1, <2>3, <2>4 DEF Paths, Owed
  <2>7. QED
    BY <2>5, <2>6 DEF Paths
<1>3. CASE Store
  <2>1. Queued' = Queued /\ Disjoint(queue)' /\ batch' = batch
    BY <1>3 DEF Store, Queued, Paths, InOnePlace, Disjoint
  <2>2. safe' = safe \cup batch /\ wal' = wal /\ worker' # "sending"
    BY <1>3 DEF Store
  <2>3. QED
    BY <1>1, <2>1, <2>2 DEF Paths, InOnePlace, Owed
<1>4. CASE Ack
  <2>1. Queued' = Queued /\ Disjoint(queue)' /\ batch' = {}
    BY <1>4 DEF Ack, Queued, Paths, InOnePlace, Disjoint
  <2>2. /\ safe' = safe /\ wal \ batch \subseteq wal' /\ wal' \subseteq wal
        /\ worker' # "sending"
    BY <1>4 DEF Ack
  <2>3. InOnePlace'
    BY <1>1, <2>1 DEF Paths, InOnePlace
  <2>4. Pushing \cap batch = {}
    BY DEF Paths, InOnePlace, Pushing, Arrived
  <2>5. Owed'
    BY <1>1, <2>1, <2>2, <2>4 DEF Paths, InOnePlace, Owed
  <2>6. QED
    BY <2>3, <2>5 DEF Paths
<1>5. QED
  BY <1>2, <1>3, <1>4 DEF Worker

\* SafeQuit's FlushAll takes the table to the queue.
LEMMA FlushAllPaths ==
  ASSUME TypeOK, Paths, FlushAll,
         UNCHANGED <<request, taken, batch, worker, answered, safe, wal>>
  PROVE  Paths'
<1>1. CASE table = {}
  BY <1>1, PathsKept DEF FlushAll
<1>2. CASE table # {}
  <2>1. table \in Batches /\ queue \in Seq(Batches)
    BY <1>2 DEF TypeOK, Batches
  <2>2. table' = {} /\ queue' = Append(queue, table)
    BY <1>2 DEF FlushAll
  <2>3. Disjoint(queue)'
    <3>1. Disjoint(Append(queue, table))
      BY <2>1, AppendedDisjoint DEF Paths, InOnePlace, Queued
    <3>2. QED
      BY <2>2, <3>1 DEF Disjoint
  <2>4. Queued' = Queued \cup table
    BY <2>1, <2>2, Appended DEF Queued
  <2>5. Pushing' = Pushing /\ Arrived' = Arrived
    BY DEF Pushing, Arrived
  <2>6. InOnePlace'
    BY <2>2, <2>3, <2>4, <2>5 DEF Paths, InOnePlace
  <2>7. Owed'
    BY <2>2, <2>4, <2>5 DEF Paths, Owed
  <2>8. QED
    BY <2>6, <2>7 DEF Paths
<1>3. QED
  BY <1>1, <1>2

LEMMA PathsStep == ASSUME TypeOK, WorkerIsSafe, Paths, [Next]_vars PROVE Paths'
<1> USE DEF inserting, sender, environment, ending, history
<1>1. CASE \/ Main \/ Signal \/ CtxExpires \/ ListenFails \/ Deadline
           \/ ShutdownReturns \/ QuitCloses \/ QuitExits \/ UNCHANGED vars
  BY <1>1, PathsKept
  DEF Main, StartReturns, MainCloses, MainExits, Signal, CtxExpires, ListenFails,
      Deadline, ShutdownReturns, QuitCloses, QuitExits, vars
<1>2. CASE QuitSender \/ QuitCollector \/ QuitWait \/ (QuitBody /\ late)
  BY <1>2, PathsKept DEF QuitSender, QuitCollector, QuitWait, QuitBody, Quits
<1>3. CASE QuitFlush \/ (QuitBody /\ ~late)
  BY <1>3, FlushAllPaths DEF QuitFlush, QuitBody, Quits
<1>4. QED
  BY <1>1, <1>2, <1>3, InsertingPaths, SendPaths, WorkerPaths DEF Next, Quitter

LEMMA PathsInvariant == Spec => []Paths
<1>1. IInv => TypeOK /\ WorkerIsSafe
  BY DEF IInv
<1>2. QED
  BY InitPaths, PathsStep, Invariance, <1>1, PTL DEF Spec

\* Each step accepts one insert, stores or settles a batch, or does nothing.
LEMMA StepRefines ==
  ASSUME IInv, Paths, Journaled, [Next]_vars
  PROVE  [Abstract!Next]_(Abstract!vars)
<1> USE DEF inserting, sender, environment, ending, history
<1>1. ASSUME NEW i \in Inserts, Answer(i) PROVE Abstract!Next
  <2>1. i \notin answered \cup wal \cup safe
    BY <1>1 DEF Answer, Paths, Owed, Pushing, Arrived
  <2>2. Abstract!Accept(i)
    BY <1>1, <2>1 DEF Answer, Abstract!Accept
  <2>3. QED
    BY <2>2 DEF Abstract!Next
<1>2. CASE Store
  <2>1. batch \subseteq wal /\ batch \in SUBSET Inserts
    BY <1>2 DEF Store, Paths, Owed, IInv, TypeOK
  <2>2. Abstract!Store(batch)
    BY <1>2, <2>1 DEF Store, Abstract!Store
  <2>3. QED
    BY <2>1, <2>2 DEF Abstract!Next
<1>3. CASE Ack
  <2>1. batch \subseteq safe /\ batch \in SUBSET Inserts
    BY <1>3 DEF Ack, IInv, WorkerIsSafe, TypeOK
  <2>2. Abstract!Settle(batch) \/ UNCHANGED Abstract!vars
    BY <1>3, <2>1 DEF Ack, Abstract!Settle, Abstract!vars
  <2>3. QED
    BY <2>1, <2>2 DEF Abstract!Next
<1>4. CASE \/ \E i \in Inserts : Request(i) \/ Refuse(i) \/ Push(i)
           \/ TimerFires \/ \E f \in Flushers : Send(f)
           \/ Poll \/ UNCHANGED vars
  BY <1>4 DEF Request, Refuse, Push, TimerFires, Send, Poll, vars, Abstract!vars
<1>5. CASE Main \/ Quitter \/ Signal \/ CtxExpires \/ ListenFails \/ Deadline
  BY <1>5 DEF Main, StartReturns, MainCloses, MainExits, Signal, CtxExpires, ListenFails,
              Deadline, Quitter, ShutdownReturns, QuitCloses, QuitExits, QuitFlush,
              QuitSender, QuitCollector, QuitBody, QuitWait, Quits, Abstract!vars
<1>6. QED
  BY <1>1, <1>2, <1>3, <1>4, <1>5 DEF Next, Worker

\* An insert is handed to the worker once, whichever of Push, the timer and
\* SafeQuit flush the table, and whichever goroutines meet (doFlush, FlushAll).
THEOREM HandedOverOnce == Spec => []InOnePlace
<1>1. Paths => InOnePlace
  BY DEF Paths
<1>2. QED
  BY PathsInvariant, <1>1, PTL

\* With the journal, the handler, the table, the worker and SafeQuit implement
\* durable acceptance, as the journal alone does.
THEOREM Refinement ==
  ASSUME Journaled
  PROVE  Spec => DurablyAccepts
<1>1. Init => Abstract!Init
  BY DEF Init, Abstract!Init
<1>2. IInv /\ Paths /\ [Next]_vars => [Abstract!Next]_(Abstract!vars)
  BY StepRefines
<1>3. QED
  BY <1>1, <1>2, Invariance, PathsInvariant, PTL DEF Spec, DurablyAccepts, Abstract!Spec
=============================================================================
