-------------------------- MODULE ClickhouseProofs --------------------------
(***************************************************************************)
(* Proofs about Clickhouse for any finite sets of requests and servers,    *)
(* with or without each of the replays, whatever fails.                    *)
(***************************************************************************)
EXTENDS Clickhouse, SequenceTheorems, FiniteSetTheorems, TLAPS

-----------------------------------------------------------------------------
(* The inductive invariant, in named parts.                                *)

Safe == stored \cup Saved(files) \cup pruned \cup (kept \cap Synced)

\* The types the proofs use; the WaitGroup counts the queue and Run's request.
Typed ==
  /\ queue \in Seq(Queued)
  /\ wg = Len(queue) + IF at["run"] = "idle" THEN 0 ELSE 1
  /\ at \in [Goroutines -> Steps]
  /\ job \in [Goroutines -> Requests \cup {NoOne}]
  /\ files \subseteq File

\* What a writer has in hand, and which steps a reader takes.
Hands ==
  /\ at["run"] # "idle" => job["run"] \in Queued
  /\ \A r \in Synced : at[r] # "idle" => job[r] = r /\ r \in given
  /\ \A g \in Readers : at[g] \notin {"dump", "end"}

\* A writer acks what is safe, a reader removes what is stored.
OkIsSafe ==
  /\ \A g \in Writers : at[g] = "ok" => job[g] \in Safe
  /\ \A g \in Readers : at[g] = "ok" => job[g] \in stored

\* What the journal was asked to let go of is safe.
AckIsSafe == acked \cup unacked \subseteq Safe

\* A writer that is done with a request has acked it, or the log says why not.
EndIsSettled == \A g \in Writers : at[g] = "end" => job[g] \in Settled

\* What was given is queued, in a writer's hand, or settled.
Tracked ==
  \A r \in given : \/ r \in ToSet(queue) \/ r \in Settled
                   \/ \E g \in Writers : at[g] # "idle" /\ job[g] = r

IInv == Typed /\ Hands /\ OkIsSafe /\ EndIsSettled /\ AckIsSafe /\ Tracked
-----------------------------------------------------------------------------
(* The queue, and the dumps.                                               *)

LEMMA Names ==
  /\ Goroutines = Writers \cup Readers /\ Writers \cap Readers = {}
  /\ "run" \in Writers /\ "run" \notin Synced /\ Synced \subseteq Writers
  /\ NoOne \notin Requests /\ Queued \cap Synced = {}
  /\ Queued \subseteq Requests /\ Synced \subseteq Requests
  BY ClickhouseAssumption DEF Goroutines, Writers, Requests

LEMMA Appended ==
  ASSUME NEW q \in Seq(Queued), NEW r \in Queued
  PROVE  /\ Append(q, r) \in Seq(Queued) /\ Len(Append(q, r)) = Len(q) + 1
         /\ ToSet(q) \cup {r} \subseteq ToSet(Append(q, r))
<1> DEFINE a == Append(q, r)
<1>1. /\ a \in Seq(Queued) /\ Len(a) = Len(q) + 1 /\ Len(q) \in Nat
      /\ \A i \in 1..Len(q) : a[i] = q[i]
      /\ a[Len(q) + 1] = r
  BY AppendProperties, LenProperties
<1>2. DOMAIN q = 1..Len(q) /\ DOMAIN a = 1..(Len(q) + 1)
  BY <1>1, LenProperties
<1> HIDE DEF a
<1>3. ToSet(q) \cup {r} \subseteq ToSet(a)
  BY <1>1, <1>2 DEF ToSet
<1>4. QED
  BY <1>1, <1>3 DEF a

LEMMA Polled ==
  ASSUME NEW q \in Seq(Queued), q # <<>>
  PROVE  /\ Head(q) \in Queued /\ Tail(q) \in Seq(Queued) /\ Len(Tail(q)) = Len(q) - 1
         /\ ToSet(q) \subseteq {Head(q)} \cup ToSet(Tail(q))
<1> DEFINE r == Tail(q)
<1>1. /\ Head(q) \in Queued /\ r \in Seq(Queued) /\ Len(r) = Len(q) - 1
      /\ Len(q) \in Nat \ {0}
      /\ \A i \in 1..Len(r) : r[i] = q[i + 1]
  BY HeadTailProperties, EmptySeq
<1>2. DOMAIN q = 1..Len(q) /\ DOMAIN r = 1..(Len(q) - 1) /\ Head(q) = q[1]
  BY <1>1, LenProperties
<1> HIDE DEF r
<1>3. ASSUME NEW x \in ToSet(q) PROVE x = Head(q) \/ x \in ToSet(r)
  <2>1. PICK i \in 1..Len(q) : x = q[i]
    BY <1>2 DEF ToSet
  <2>2. i = 1 \/ (i - 1 \in 1..(Len(q) - 1) /\ (i - 1) + 1 = i)
    BY <1>1
  <2>3. CASE i = 1
    BY <2>1, <2>3, <1>2
  <2>4. CASE i - 1 \in 1..(Len(q) - 1) /\ (i - 1) + 1 = i
    BY <2>1, <2>4, <1>1, <1>2 DEF ToSet
  <2>5. QED
    BY <2>2, <2>3, <2>4
<1>4. QED
  BY <1>1, <1>3 DEF r

LEMMA InitIInv == Init => IInv
<1> SUFFICES ASSUME Init PROVE IInv
  OBVIOUS
<1>1. Typed
  BY Names, EmptySeq DEF Init, Typed, Steps
<1>2. QED
  BY <1>1, Names DEF Init, IInv, Hands, OkIsSafe, EndIsSettled, AckIsSafe, Tracked
-----------------------------------------------------------------------------
(* The steps.                                                              *)

\* A goroutine goes from one step of its work to the next.
LEMMA Moves ==
  ASSUME IInv, NEW g \in Goroutines, NEW s \in Steps \ {"idle"},
         at[g] # "idle", at' = [at EXCEPT ![g] = s],
         UNCHANGED <<given, queue, wg, job>>,
         files' \subseteq File, stored \subseteq stored', Safe \subseteq Safe',
         acked' \cup unacked' \subseteq Safe', Settled \subseteq Settled',
         g \in Readers => s \notin {"dump", "end"},
         g \in Writers /\ s = "ok" => job[g] \in Safe',
         g \in Readers /\ s = "ok" => job[g] \in stored',
         g \in Writers /\ s = "end" => job[g] \in Settled'
  PROVE  IInv'
<1>1. Typed'
  BY Names DEF IInv, Typed
<1>2. Hands'
  BY Names DEF IInv, Typed, Hands
<1>3. OkIsSafe'
  BY Names DEF IInv, Typed, OkIsSafe
<1>4. EndIsSettled'
  BY Names DEF IInv, Typed, EndIsSettled
<1>5. Tracked'
  BY Names DEF IInv, Typed, Tracked
<1>6. AckIsSafe'
  BY DEF AckIsSafe, Safe
<1>7. QED
  BY <1>1, <1>2, <1>3, <1>4, <1>5, <1>6 DEF IInv

\* A goroutine has no request any more.
LEMMA LetsGo ==
  ASSUME IInv, NEW g \in Goroutines, NEW s \in {"idle", "next"}, Leaves(g, s),
         UNCHANGED <<given, queue>>,
         files' \subseteq File, stored \subseteq stored', Safe \subseteq Safe',
         acked' \cup unacked' \subseteq Safe', Settled \subseteq Settled',
         g \in Writers => s = "idle" /\ job[g] \in Settled',
         wg' = IF g = "run" /\ at[g] # "idle" THEN wg - 1 ELSE wg
  PROVE  IInv'
<1> USE DEF Leaves, Goes
<1>1. Typed'
  <2>1. Len(queue) \in Nat
    BY LenProperties DEF IInv, Typed
  <2>2. wg' = Len(queue') + IF at'["run"] = "idle" THEN 0 ELSE 1
    <3>1. CASE g = "run"
      BY <2>1, <3>1, Names DEF IInv, Typed
    <3>2. CASE g # "run"
      BY <2>1, <3>2, Names DEF IInv, Typed
    <3>3. QED
      BY <3>1, <3>2
  <2>3. QED
    BY <2>2, Names DEF IInv, Typed, Steps
<1>2. Hands'
  BY Names DEF IInv, Typed, Hands
<1>3. OkIsSafe'
  BY Names DEF IInv, Typed, OkIsSafe
<1>4. EndIsSettled'
  BY Names DEF IInv, Typed, EndIsSettled
<1>5. Tracked'
  BY Names DEF IInv, Typed, Tracked
<1>6. AckIsSafe'
  BY DEF AckIsSafe, Safe
<1>7. QED
  BY <1>1, <1>2, <1>3, <1>4, <1>5, <1>6 DEF IInv

\* A goroutine starts on a request.
LEMMA Starts ==
  ASSUME IInv, NEW g \in Goroutines, NEW r \in Requests,
         at[g] \in {"idle", "next"}, Goes(g, "choose"), job' = [job EXCEPT ![g] = r],
         g \in Readers \/ at[g] = "idle",
         g = "run" => r \in Queued, g \in Synced => r = g,
         given' = given \cup (IF g \in Synced THEN {r} ELSE {}),
         ToSet(queue) \subseteq ToSet(queue') \cup (IF g = "run" THEN {r} ELSE {}),
         queue' \in Seq(Queued), Len(queue') = Len(queue) - (IF g = "run" THEN 1 ELSE 0),
         UNCHANGED <<wg, files, acked, unacked, stored, kept, pruned>>
  PROVE  IInv'
<1> USE DEF Goes
<1>1. Typed'
  <2>1. Len(queue) \in Nat
    BY LenProperties DEF IInv, Typed
  <2>2. wg' = Len(queue') + IF at'["run"] = "idle" THEN 0 ELSE 1
    <3>1. CASE g = "run"
      BY <2>1, <3>1, Names DEF IInv, Typed
    <3>2. CASE g # "run"
      BY <2>1, <3>2, Names DEF IInv, Typed
    <3>3. QED
      BY <3>1, <3>2
  <2>3. QED
    BY <2>2, Names DEF IInv, Typed, Steps
<1>2. Hands'
  BY Names DEF IInv, Typed, Hands
<1>3. OkIsSafe'
  BY Names DEF IInv, Typed, OkIsSafe, Safe
<1>4. EndIsSettled'
  BY Names DEF IInv, Typed, EndIsSettled, Settled
<1>5. Tracked'
  <2> SUFFICES ASSUME NEW x \in given'
               PROVE  \/ x \in ToSet(queue') \/ x \in Settled'
                      \/ \E h \in Writers : at'[h] # "idle" /\ job'[h] = x
    BY DEF Tracked
  <2>1. g \in Writers => at'[g] # "idle" /\ job'[g] = r
    BY Names DEF IInv, Typed
  <2>2. CASE x \in given
    BY <2>1, <2>2, Names DEF IInv, Typed, Tracked, Settled
  <2>3. CASE x \notin given
    BY <2>1, <2>3, Names
  <2>4. QED
    BY <2>2, <2>3
<1>6. AckIsSafe'
  BY DEF IInv, AckIsSafe, Safe
<1>7. QED
  BY <1>1, <1>2, <1>3, <1>4, <1>5, <1>6 DEF IInv

LEMMA SendStep == ASSUME IInv, NEW r \in Requests, Send(r) PROVE IInv'
<1> USE DEF sending, servers, locks, goroutines, dumps, history
<1>1. queue' \in Seq(Queued) /\ Len(queue') = Len(queue) + 1 /\ Len(queue) \in Nat
      /\ ToSet(queue) \cup {r} \subseteq ToSet(queue')
  BY Appended, LenProperties DEF Send, IInv, Typed
<1>2. Typed'
  <2>1. wg' = Len(queue') + IF at'["run"] = "idle" THEN 0 ELSE 1
    BY <1>1 DEF Send, IInv, Typed
  <2>2. QED
    BY <1>1, <2>1 DEF Send, IInv, Typed
<1>3. Tracked'
  BY <1>1 DEF Send, IInv, Tracked, Settled
<1>4. QED
  BY <1>2, <1>3
  DEF Send, IInv, Hands, OkIsSafe, EndIsSettled, AckIsSafe, Safe, Settled

LEMMA PollStep == ASSUME IInv, Poll PROVE IInv'
<1> USE DEF sending, servers, locks, goroutines, dumps, history
<1>1. /\ Head(queue) \in Queued /\ queue' \in Seq(Queued) /\ Len(queue') = Len(queue) - 1
      /\ ToSet(queue) \subseteq {Head(queue)} \cup ToSet(queue')
  BY Polled DEF Poll, IInv, Typed
<1>2. QED
  BY <1>1, Starts, Names DEF Poll

LEMMA SyncInsertStep == ASSUME IInv, NEW r \in Requests, SyncInsert(r) PROVE IInv'
<1> USE DEF sending, servers, locks, goroutines, dumps, history
<1>1. r \in Synced /\ r \in Goroutines /\ r # "run" /\ r \notin Readers
  BY Names DEF SyncInsert
<1>2. at[r] = "idle"
  BY <1>1 DEF SyncInsert, IInv, Hands
<1>3. Len(queue) \in Nat
  BY LenProperties DEF IInv, Typed
<1>4. /\ Goes(r, "choose") /\ job' = [job EXCEPT ![r] = r] /\ given' = given \cup {r}
      /\ UNCHANGED <<queue, wg, files, acked, unacked, stored, kept, pruned>>
  BY DEF SyncInsert
<1>5. queue' \in Seq(Queued) /\ Len(queue') = Len(queue) - 0
  BY <1>3, <1>4 DEF IInv, Typed
<1>6. QED
  BY <1>1, <1>2, <1>4, <1>5, Starts

LEMMA AckedIsSafe == IInv => acked \cup unacked \subseteq Safe /\ files \subseteq File
  BY DEF IInv, Typed, AckIsSafe, Safe

LEMMA QueryStep ==
  ASSUME IInv, NEW g \in Goroutines,
         GetNextServer(g) \/ PostDown(g) \/ \E a \in Answers : PostAnswered(g, a)
  PROVE  IInv'
<1> USE DEF sending, servers, locks, goroutines, dumps, history
<1>1. CASE GetNextServer(g)
  <2>1. PICK s \in {"failed", "post"} : Goes(g, s)
    BY <1>1 DEF GetNextServer
  <2>2. UNCHANGED <<given, queue, wg, job, files, acked, unacked, stored, kept, pruned>>
    BY <1>1 DEF GetNextServer
  <2>3. at[g] # "idle" /\ Safe' = Safe /\ Settled' = Settled
    BY <1>1, <2>2 DEF GetNextServer, Safe, Settled
  <2>4. QED
    BY <2>1, <2>2, <2>3, Moves, AckedIsSafe, Names DEF Goes, Steps
<1>2. CASE PostDown(g)
  <2>1. /\ at[g] # "idle" /\ Goes(g, "choose") /\ stored \subseteq stored'
        /\ UNCHANGED <<given, queue, wg, job, files, acked, unacked, kept, pruned>>
    BY <1>2 DEF PostDown
  <2>2. Safe \subseteq Safe' /\ Settled' = Settled
    BY <2>1 DEF Safe, Settled
  <2>3. QED
    BY <2>1, <2>2, Moves, AckedIsSafe, Names DEF Goes, Steps
<1>3. ASSUME NEW a \in Answers, PostAnswered(g, a) PROVE IInv'
  <2>1. /\ at[g] # "idle" /\ stored \subseteq stored'
        /\ UNCHANGED <<given, queue, wg, job, files, acked, unacked, kept, pruned>>
    BY <1>3 DEF PostAnswered
  <2>2. \/ Goes(g, "ok") /\ job[g] \in stored'
        \/ Goes(g, "failed")
    BY <1>3 DEF PostAnswered
  <2>3. Safe \subseteq Safe' /\ stored' \subseteq Safe' /\ Settled' = Settled
    BY <2>1 DEF Safe, Settled
  <2>4. QED
    BY <2>1, <2>2, <2>3, Moves, AckedIsSafe, Names DEF Goes, Steps
<1>4. QED
  BY <1>1, <1>2, <1>3

\* What Dump prunes it has logged, its own file included.
LEMMA Dumped ==
  ASSUME IInv, NEW g \in Goroutines, DumpFile(g)
  PROVE  /\ at[g] = "dump" /\ g \in Writers /\ Goes(g, "ok")
         /\ UNCHANGED <<given, queue, wg, job, acked, unacked, stored, kept>>
         /\ files' \subseteq File
         /\ Saved(files) \cup pruned \cup {job[g]} \subseteq Saved(files') \cup pruned'
         /\ Saved(files') \subseteq Saved(files) \cup {job[g]}
         /\ pruned' \subseteq pruned \cup Saved(files) \cup {job[g]}
<1> DEFINE new == [req |-> job[g], kind |-> Kind(answer[g]), in |-> "dump_dir"]
<1>1. /\ at[g] = "dump" /\ Goes(g, "ok")
      /\ UNCHANGED <<given, queue, wg, job, acked, unacked, stored, kept>>
  BY DEF DumpFile, sending
<1>2. PICK P : /\ P \subseteq Pending \cup {new}
               /\ files' = (files \cup {new}) \ P /\ pruned' = pruned \cup Saved(P)
  BY DEF DumpFile, Prunes
<1>3. g \in Writers
  BY <1>1, Names DEF IInv, Hands
<1>4. job[g] \in Requests
  BY <1>1, <1>3 DEF IInv, Hands, Writers, Requests
<1>5. new \in File /\ new.req = job[g]
  BY <1>4 DEF File, Kind
<1> HIDE DEF new
<1>6. P \subseteq files \cup {new}
  BY <1>2 DEF Pending
<1>7. files' \subseteq File
  BY <1>2, <1>5 DEF IInv, Typed
<1>8. Saved(files') \cup Saved(P) = Saved(files) \cup {job[g]}
  BY <1>2, <1>5, <1>6 DEF Saved
<1>9. QED
  BY <1>1, <1>2, <1>3, <1>7, <1>8

LEMMA WriterStep ==
  ASSUME IInv, NEW g \in Goroutines,
         DumpLock(g) \/ DumpFile(g) \/ DumpFails(g) \/ AckJournal(g) \/ Finish(g)
  PROVE  IInv'
<1> USE DEF sending, servers, locks, goroutines, dumps, history
<1>1. CASE DumpLock(g)
  <2>1. /\ at[g] # "idle" /\ Goes(g, "dump") /\ g \in Writers
        /\ UNCHANGED <<given, queue, wg, job, files, acked, unacked, stored, kept, pruned>>
    BY <1>1 DEF DumpLock
  <2>2. Safe' = Safe /\ Settled' = Settled
    BY <2>1 DEF Safe, Settled
  <2>3. QED
    BY <2>1, <2>2, Moves, AckedIsSafe, Names DEF Goes, Steps
<1>2. CASE DumpFile(g)
  <2>1. Safe \subseteq Safe' /\ job[g] \in Safe' /\ Settled' = Settled
    BY <1>2, Dumped DEF Safe, Settled
  <2>2. QED
    BY <1>2, <2>1, Dumped, Moves, AckedIsSafe, Names DEF Goes, Steps
<1>3. CASE DumpFails(g)
  <2>1. /\ at[g] # "idle" /\ g \in Writers /\ kept' = kept \cup {job[g]}
        /\ UNCHANGED <<given, queue, wg, job, files, acked, unacked, stored, pruned>>
    BY <1>3, Names DEF DumpFails, IInv, Hands
  <2>2. g # "run" => job[g] \in Synced
    BY <2>1 DEF IInv, Hands, Writers
  <2>3. Safe \subseteq Safe' /\ Settled \subseteq Settled' /\ job[g] \in Settled'
    BY <2>1 DEF Safe, Settled
  <2>4. \/ Goes(g, "ok") /\ job[g] \in Safe'
        \/ Goes(g, "end")
    BY <1>3, <2>1, <2>2 DEF DumpFails, Safe
  <2>5. QED
    BY <2>1, <2>3, <2>4, Moves, AckedIsSafe, Names DEF Goes, Steps
<1>4. CASE AckJournal(g)
  <2>1. /\ at[g] = "ok" /\ g \in Writers
        /\ \/ acked' = acked \cup {job[g]} /\ unacked' = unacked
           \/ acked' = acked /\ unacked' = unacked \cup {job[g]}
        /\ UNCHANGED <<given, queue, wg, files, stored, kept, pruned>>
    BY <1>4 DEF AckJournal
  <2>2. Safe' = Safe /\ job[g] \in Safe
    BY <2>1 DEF Safe, IInv, OkIsSafe
  <2>3. Settled \subseteq Settled' /\ job[g] \in Settled' /\ acked' \cup unacked' \subseteq Safe'
    BY <2>1, <2>2, AckedIsSafe DEF Settled
  <2>4. CASE g = "run"
    <3>1. Goes(g, "end") /\ job' = job
      BY <1>4, <2>4 DEF AckJournal
    <3>2. QED
      BY <2>1, <2>2, <2>3, <3>1, Moves, AckedIsSafe, Names DEF Goes, Steps
  <2>5. CASE g # "run"
    <3>1. Leaves(g, "idle")
      BY <1>4, <2>5 DEF AckJournal
    <3>2. QED
      BY <2>1, <2>2, <2>3, <2>5, <3>1, LetsGo, AckedIsSafe
  <2>6. QED
    BY <2>4, <2>5
<1>5. CASE Finish(g)
  <2>1. /\ Leaves(g, "idle") /\ g = "run" /\ at[g] = "end" /\ wg' = wg - 1
        /\ UNCHANGED <<given, queue, files, acked, unacked, stored, kept, pruned>>
    BY <1>5 DEF Finish
  <2>2. Safe' = Safe /\ Settled' = Settled
    BY <2>1 DEF Safe, Settled
  <2>3. job[g] \in Settled'
    BY <2>1, <2>2, Names DEF IInv, EndIsSettled
  <2>4. QED
    BY <2>1, <2>2, <2>3, LetsGo, AckedIsSafe
<1>6. QED
  BY <1>1, <1>2, <1>3, <1>4, <1>5

\* The end of one file, with or without its removal.
LEMMA EndsStep ==
  ASSUME IInv, NEW g \in Readers, at[g] \in {"ok", "failed"}, Ends(g),
         UNCHANGED <<given, queue, wg, acked, unacked, stored, kept, pruned>>,
         files' \subseteq File, Safe \subseteq Safe'
  PROVE  IInv'
<1>1. g \in Goroutines /\ g \notin Writers /\ g # "run"
  BY Names
<1>2. PICK t \in {"idle", "next"} : Leaves(g, t)
  BY DEF Ends
<1>3. Settled' = Settled
  BY DEF Settled
<1>4. QED
  BY <1>1, <1>2, <1>3, LetsGo, AckedIsSafe

LEMMA ReaderStep ==
  ASSUME IInv, NEW g \in Goroutines, ReadSent(g) \/ ReadNotRemoved(g) \/ ReadFails(g)
  PROVE  IInv'
<1> USE DEF sending, servers, locks, goroutines, dumps, history
<1>1. /\ g \in Readers /\ at[g] \in {"ok", "failed"} /\ Ends(g)
      /\ UNCHANGED <<given, queue, wg, acked, unacked, stored, kept, pruned>>
      /\ files' \subseteq files
  BY DEF ReadSent, ReadNotRemoved, ReadFails
<1>2. Safe \subseteq Safe'
  <2>1. CASE ReadSent(g)
    <3>1. job[g] \in stored
      BY <1>1, <2>1 DEF ReadSent, IInv, OkIsSafe
    <3>2. \A f \in files \ files' : f.req = job[g]
      BY <2>1 DEF ReadSent, Read
    <3>3. QED
      BY <1>1, <3>1, <3>2 DEF Safe, Saved
  <2>2. CASE ReadNotRemoved(g) \/ ReadFails(g)
    BY <2>2 DEF ReadNotRemoved, ReadFails, Safe
  <2>3. QED
    BY <2>1, <2>2
<1>3. QED
  BY <1>1, <1>2, EndsStep, AckedIsSafe

\* The starts and ends of the two replays.
LEMMA ReplayStep ==
  ASSUME IInv,
         \/ \E f \in files : MoveToFailed(f) \/ ProcessNextDump(f) \/ ReplayFailedNext(f)
         \/ ReplayFailed \/ ReplayFailedEnd
  PROVE  IInv'
<1> USE DEF sending, servers, locks, goroutines, dumps, history
<1>1. ASSUME NEW f \in files, MoveToFailed(f) PROVE IInv'
  <2>1. /\ UNCHANGED <<given, queue, wg, at, job, acked, unacked, stored, kept, pruned>>
        /\ files' = (files \ {f}) \cup {[f EXCEPT !.in = "failed"]}
    BY <1>1 DEF MoveToFailed
  <2>2. f \in File /\ [f EXCEPT !.in = "failed"] \in File
        /\ [f EXCEPT !.in = "failed"].req = f.req
    BY AckedIsSafe DEF File
  <2>3. files' \subseteq File /\ Saved(files) \subseteq Saved(files')
    BY <2>1, <2>2, AckedIsSafe DEF Saved
  <2>4. QED
    BY <2>1, <2>3 DEF IInv, Typed, Hands, OkIsSafe, EndIsSettled, AckIsSafe,
                      Tracked, Safe, Settled
<1>2. ASSUME NEW f \in files, ProcessNextDump(f) \/ ReplayFailedNext(f) PROVE IInv'
  <2>1. PICK g \in Readers : /\ at[g] \in {"idle", "next"} /\ Goes(g, "choose")
                             /\ job' = [job EXCEPT ![g] = f.req]
    BY <1>2 DEF ProcessNextDump, ReplayFailedNext
  <2>2. UNCHANGED <<given, queue, wg, files, acked, unacked, stored, kept, pruned>>
    BY <1>2 DEF ProcessNextDump, ReplayFailedNext
  <2>3. g \in Goroutines /\ g # "run" /\ g \notin Synced /\ f.req \in Requests
    BY Names, AckedIsSafe DEF File
  <2>4. queue' \in Seq(Queued) /\ Len(queue') = Len(queue) - 0
    BY <2>2, LenProperties DEF IInv, Typed
  <2>5. given' = given \cup {}
    BY <2>2
  <2>6. QED
    BY <2>1, <2>2, <2>3, <2>4, <2>5, Starts
<1>3. CASE ReplayFailed
  <2>1. /\ "operator" \in Readers /\ at' = [at EXCEPT !["operator"] = "next"]
        /\ UNCHANGED <<given, queue, wg, job, files, acked, unacked, stored, kept, pruned>>
    BY <1>3 DEF ReplayFailed, Goes
  <2>2. Typed'
    BY <2>1, Names DEF IInv, Typed, Steps
  <2>3. QED
    BY <2>1, <2>2, Names DEF IInv, Typed, Hands, OkIsSafe, EndIsSettled,
                             AckIsSafe, Tracked, Safe, Settled
<1>4. CASE ReplayFailedEnd
  <2>1. /\ "operator" \in Readers /\ Leaves("operator", "idle")
        /\ UNCHANGED <<given, queue, wg, files, acked, unacked, stored, kept, pruned>>
    BY <1>4 DEF ReplayFailedEnd
  <2>2. Safe' = Safe /\ Settled' = Settled
    BY <2>1 DEF Safe, Settled
  <2>3. "operator" \in Goroutines /\ "operator" \notin Writers /\ "operator" # "run"
    BY <2>1, Names
  <2>4. QED
    BY <2>1, <2>2, <2>3, LetsGo, AckedIsSafe
<1>5. QED
  BY <1>1, <1>2, <1>3, <1>4

LEMMA IInvStep == IInv /\ [Next]_vars => IInv'
<1> SUFFICES ASSUME IInv, [Next]_vars PROVE IInv'
  OBVIOUS
<1>1. CASE UNCHANGED vars \/ Rest
  <2>1. UNCHANGED <<given, queue, wg, at, job, files, acked, unacked, stored, kept, pruned>>
    BY <1>1 DEF vars, Rest, sending, servers, locks, goroutines, dumps, history
  <2>2. QED
    BY <2>1 DEF IInv, Typed, Hands, OkIsSafe, EndIsSettled, AckIsSafe, Tracked,
                Safe, Settled
<1>2. ASSUME NEW g \in Goroutines, Step(g) PROVE IInv'
  BY <1>2, QueryStep, WriterStep, ReaderStep DEF Step
<1>3. QED
  BY <1>1, <1>2, SendStep, SyncInsertStep, PollStep, ReplayStep DEF Next

\* The inductive invariant holds in every reachable state.
THEOREM Invariance == Spec => []IInv
<1>1. QED
  BY InitIInv, IInvStep, PTL DEF Spec
-----------------------------------------------------------------------------
(* The types need more: a request is given, queued and dumped once, so that *)
(* a replay removes the file it has read and no other.                     *)

\* The servers in the order of their last requests, and who posts to which.
Ordered ==
  /\ order \in [1..Cardinality(Servers) -> Servers] /\ ToSet(order) = Servers
  /\ bad \subseteq Servers /\ rested \subseteq Servers
  /\ server \in [Goroutines -> Servers \cup {NoOne}]
  /\ answer \in [Goroutines -> Answers]
  /\ \A g \in Goroutines : at[g] = "post" => server[g] \in Servers

Locks == cmu \in Writers \cup {NoOne} /\ dmu \in Readers \cup {NoOne}

\* A request is in the queue once, in Run's hand or in a dump; until its
\* writer has dumped it there is no dump of it.
Fresh ==
  /\ given \subseteq Requests
  /\ ToSet(queue) \cup Saved(files) \subseteq given
  /\ acked \cup unacked \cup stored \cup kept \cup pruned \subseteq given
  /\ \A i, j \in DOMAIN queue : queue[i] = queue[j] => i = j
  /\ at["run"] # "idle" => job["run"] \notin ToSet(queue)
  /\ ToSet(queue) \cap Saved(files) = {}
  /\ \A g \in Writers :
       at[g] \in {"choose", "post", "failed", "dump"} => job[g] \notin Saved(files)
  /\ \A g \in Goroutines : at[g] \notin {"idle", "next"} => job[g] \in given
  /\ \A g \in Writers : at[g] # "next"

\* A request has one dump; the locked ones and those on the operator's list
\* are not the one that is being read.
Dumps ==
  /\ \A f, h \in files : f.req = h.req => f = h
  /\ lockedFiles \subseteq Pending /\ todo \subseteq Failed
  /\ ("replay" \in Readers /\ at["replay"] \notin {"idle", "next"}) =>
       \A f \in lockedFiles : f.req # job["replay"]
  /\ ("operator" \in Readers /\ at["operator"] \notin {"idle", "next"}) =>
       \A f \in todo : f.req # job["operator"]

\* A server a SendQuery has tried does not rest while that lasts, and is bad
\* unless the answer is still to come.
Tries ==
  /\ tried \in [Goroutines -> SUBSET Servers]
  /\ \A g \in Goroutines :
       /\ tried[g] \cap rested = {}
       /\ at[g] = "choose" => tried[g] \subseteq bad
       /\ at[g] = "post" => tried[g] \ {server[g]} \subseteq bad
       /\ at[g] \notin {"choose", "post"} => tried[g] = {}

Bookkeeping == Ordered /\ Locks /\ Fresh /\ Dumps /\ Tries
-----------------------------------------------------------------------------
(* The servers.                                                            *)

\* A set of numbers has a least one, because their initial segments are
\* ordered by inclusion.
LEMMA LeastNumber ==
  ASSUME NEW S \in SUBSET Nat, S # {}
  PROVE  \E n \in S : \A m \in S : n <= m
<1> DEFINE R == StrictSubsetOrdering(Nat)
           T == {0 .. (n - 1) : n \in S}
<1>1. \E x \in T : \A y \in T : <<y, x>> \notin R
  <2>1. \A n \in S : 0 .. (n - 1) \in FiniteSubsetsOf(Nat)
    BY FS_Interval DEF FiniteSubsetsOf
  <2>2. T \subseteq FiniteSubsetsOf(Nat) /\ T # {}
    BY <2>1
  <2> HIDE DEF T, R
  <2>3. IsWellFoundedOn(R, FiniteSubsetsOf(Nat))
    BY FS_StrictSubsetOrderingWellFounded DEF R
  <2>4. QED
    BY <2>2, <2>3, WFMin
<1>2. PICK n \in S : \A m \in S : <<0 .. (m - 1), 0 .. (n - 1)>> \notin R
  BY <1>1
<1>3. ASSUME NEW m \in S, m < n PROVE FALSE
  <2>1. 0 .. (m - 1) \subseteq 0 .. (n - 1) /\ m \in 0 .. (n - 1) /\ m \notin 0 .. (m - 1)
    BY <1>3
  <2>2. 0 .. (m - 1) \in SUBSET Nat /\ 0 .. (n - 1) \in SUBSET Nat
    OBVIOUS
  <2>3. QED
    BY <1>2, <2>1, <2>2 DEF StrictSubsetOrdering
<1>4. QED
  BY <1>2, <1>3

LEMMA PlaceIs ==
  ASSUME Ordered, NEW S, S \cap Servers # {}
  PROVE  Place(S) \in DOMAIN order /\ Oldest(S) \in S \cap Servers
<1> DEFINE P == {i \in DOMAIN order : order[i] \in S}
<1>1. P \in SUBSET Nat /\ P # {}
  BY DEF Ordered, ToSet
<1> HIDE DEF P
<1>2. \E n \in P : \A m \in P : n <= m
  BY <1>1, LeastNumber
<1>3. Min(P) \in P
  BY <1>2 DEF Min
<1>4. QED
  BY <1>3 DEF Place, Oldest, P, Ordered

LEMMA UsedKeeps ==
  ASSUME Ordered, NEW s \in Servers
  PROVE  Used(s) \in [1..Cardinality(Servers) -> Servers] /\ ToSet(Used(s)) = Servers
<1> DEFINE N == Cardinality(Servers)
           p == Place({s})
           a == SubSeq(order, 1, p - 1)
           b == SubSeq(order, p + 1, N)
           u == Append(a \o b, s)
<1>1. N \in Nat /\ order \in [1..N -> Servers] /\ order \in Seq(Servers) /\ Len(order) = N
  BY FS_CardinalityType, ClickhouseAssumption, LenProperties DEF Ordered
<1>2. p \in 1..N /\ order[p] = s
  <2>1. {s} \cap Servers # {}
    OBVIOUS
  <2>2. QED
    BY <1>1, <2>1, PlaceIs DEF Oldest, Ordered
<1>3. u = Used(s)
  BY <1>1 DEF Used, RemoveAt
<1> HIDE DEF N, p
<1>4. /\ a \in Seq(Servers) /\ Len(a) = p - 1
      /\ \A i \in 1..(p - 1) : a[i] = order[i]
  <2>1. \A i \in 1..(p - 1) : order[i] \in Servers
    BY <1>1, <1>2
  <2>2. QED
    BY <1>2, <2>1, SubSeqProperties
<1>5. /\ b \in Seq(Servers) /\ Len(b) = N - p
      /\ \A i \in 1..(N - p) : b[i] = order[i + p]
  <2>1. \A i \in (p + 1)..N : order[i] \in Servers
    BY <1>1, <1>2
  <2>2. p + 1 \in Int /\ N \in Int
    BY <1>1, <1>2
  <2>3. /\ b \in Seq(Servers) /\ Len(b) = IF p + 1 <= N THEN N - (p + 1) + 1 ELSE 0
        /\ \A i \in 1..(N - (p + 1) + 1) : b[i] = order[(p + 1) + i - 1]
    BY <2>1, <2>2, SubSeqProperties
  <2>4. QED
    BY <1>1, <1>2, <2>3
<1> HIDE DEF a, b
<1>6. /\ a \o b \in Seq(Servers) /\ Len(a \o b) = N - 1
      /\ \A i \in 1..(N - 1) : (a \o b)[i] = IF i <= p - 1 THEN a[i] ELSE b[i - (p - 1)]
  <2>1. /\ a \o b \in Seq(Servers) /\ Len(a \o b) = Len(a) + Len(b)
        /\ \A i \in 1..(Len(a) + Len(b)) :
             (a \o b)[i] = IF i <= Len(a) THEN a[i] ELSE b[i - Len(a)]
    BY <1>4, <1>5, ConcatProperties
  <2>2. p \in Int /\ N \in Int /\ Len(a) + Len(b) = N - 1
    BY <1>1, <1>2, <1>4, <1>5
  <2>3. QED
    BY <1>4, <2>1, <2>2
<1>7. \A i \in 1..(N - 1) : (a \o b)[i] = IF i < p THEN order[i] ELSE order[i + 1]
  BY <1>1, <1>2, <1>4, <1>5, <1>6
<1>8. /\ u \in Seq(Servers) /\ Len(u) = N /\ u[N] = s
      /\ \A i \in 1..(N - 1) : u[i] = (a \o b)[i]
  BY <1>1, <1>6, AppendProperties
<1> HIDE DEF u
<1>9. u \in [1..N -> Servers]
  BY <1>8, LenProperties
<1>10. \A x \in Servers : \E i \in 1..N : u[i] = x
  <2> SUFFICES ASSUME NEW x \in Servers PROVE \E i \in 1..N : u[i] = x
    OBVIOUS
  <2>1. CASE x = s
    BY <1>1, <1>2, <1>8, <2>1
  <2>2. CASE x # s
    <3>1. PICK j \in 1..N : order[j] = x
      BY <1>1 DEF Ordered, ToSet
    <3>2. j # p
      BY <1>2, <2>2, <3>1
    <3>3. CASE j < p
      <4>1. j \in 1..(N - 1)
        BY <1>1, <1>2, <3>3
      <4>2. u[j] = order[j]
        BY <1>7, <1>8, <3>3, <4>1
      <4>3. QED
        BY <3>1, <4>2
    <3>4. CASE j > p
      <4>1. j - 1 \in 1..(N - 1) /\ ~(j - 1 < p) /\ (j - 1) + 1 = j
        BY <1>1, <1>2, <3>4
      <4>2. u[j - 1] = order[j]
        BY <1>7, <1>8, <4>1
      <4>3. QED
        BY <1>1, <3>1, <4>1, <4>2
    <3>5. QED
      BY <1>1, <1>2, <3>2, <3>3, <3>4
  <2>3. QED
    BY <2>1, <2>2
<1>11. ToSet(u) = Servers
  BY <1>9, <1>10 DEF ToSet
<1>12. QED
  BY <1>3, <1>9, <1>11 DEF N

LEMMA InitOrder ==
  ASSUME order = SetToSeq(Servers)
  PROVE  order \in [1..Cardinality(Servers) -> Servers] /\ ToSet(order) = Servers
<1> DEFINE N == Cardinality(Servers)
<1>1. N \in Nat /\ \E f \in [1..N -> Servers] : IsInjective(f)
  BY FS_CardinalityType, ClickhouseAssumption DEF ExistsBijection, Bijection, Injection
<1>2. order \in [1..N -> Servers] /\ IsInjective(order)
  BY <1>1 DEF SetToSeq
<1>3. order \in Injection(1..N, Servers)
  BY <1>2 DEF Injection
<1>4. IsFiniteSet(1..N) /\ Cardinality(1..N) = N
  BY <1>1, FS_Interval
<1> HIDE DEF N
<1>5. order \in Surjection(1..N, Servers)
  BY <1>3, <1>4, FS_Injection, ClickhouseAssumption DEF N
<1>6. ToSet(order) = Servers
  BY <1>2, <1>5 DEF ToSet, Surjection
<1>7. QED
  BY <1>2, <1>6 DEF N

LEMMA OrderedStep == ASSUME IInv, IInv', Ordered, [Next]_vars PROVE Ordered'
<1> USE DEF sending, servers, locks, goroutines, dumps, history
<1>0. at \in [Goroutines -> Steps]
  BY DEF IInv, Typed
<1>1. ASSUME UNCHANGED <<servers, server>>,
             answer' \in [Goroutines -> Answers],
             \A g \in Goroutines : at'[g] = "post" => at[g] = "post"
      PROVE  Ordered'
  BY <1>1 DEF Ordered
<1>2. ASSUME NEW g \in Goroutines, NEW s \in Steps \ {"post"}, UNCHANGED <<servers, server>>,
             Goes(g, s), answer' = answer \/ answer' = [answer EXCEPT ![g] = "ok"]
      PROVE  Ordered'
  <2>1. \A h \in Goroutines : at'[h] = "post" => at[h] = "post"
    BY <1>0, <1>2 DEF Goes
  <2>2. answer' \in [Goroutines -> Answers]
    BY <1>2 DEF Ordered, Answers
  <2>3. QED
    BY <1>1, <1>2, <2>1, <2>2
<1>3. ASSUME NEW g \in Goroutines, GetNextServer(g) PROVE Ordered'
  <2>1. CASE Usable = {}
    <3>1. /\ Goes(g, "failed") /\ answer' = [answer EXCEPT ![g] = "down"]
          /\ UNCHANGED <<order, rested, server>> /\ bad' = bad \ rested
      BY <1>3, <2>1 DEF GetNextServer
    <3>2. \A h \in Goroutines : at'[h] = "post" => at[h] = "post"
      BY <1>0, <3>1 DEF Goes
    <3>3. answer' \in [Goroutines -> Answers]
      BY <3>1 DEF Ordered, Answers
    <3>4. QED
      BY <3>1, <3>2, <3>3 DEF Ordered
  <2>2. CASE Usable # {}
    <3>1. /\ Goes(g, "post") /\ server' = [server EXCEPT ![g] = Next1]
          /\ order' = Used(Next1) /\ rested' = rested \ {Next1}
          /\ bad' = bad \ rested /\ answer' = answer
      BY <1>3, <2>2 DEF GetNextServer
    <3>2. Next1 \in Servers
      BY <2>2, PlaceIs DEF Next1, Usable
    <3>3. order' \in [1..Cardinality(Servers) -> Servers] /\ ToSet(order') = Servers
      BY <3>1, <3>2, UsedKeeps
    <3> DEFINE x == Next1
    <3>4. server' = [server EXCEPT ![g] = x] /\ x \in Servers
      BY <3>1, <3>2
    <3> HIDE DEF x
    <3>5. \A h \in Goroutines : at'[h] = "post" => server'[h] \in Servers
      BY <1>0, <3>1, <3>4 DEF Goes, Ordered
    <3>6. server' \in [Goroutines -> Servers \cup {NoOne}] /\ bad' \subseteq Servers
          /\ rested' \subseteq Servers
      BY <3>1, <3>4 DEF Ordered
    <3>7. QED
      BY <3>1, <3>3, <3>5, <3>6 DEF Ordered
  <2>3. QED
    BY <2>1, <2>2
<1>4. ASSUME NEW g \in Goroutines, NEW a \in Answers, PostAnswered(g, a) PROVE Ordered'
  <2>1. /\ answer' = [answer EXCEPT ![g] = a] /\ server' = [server EXCEPT ![g] = NoOne]
        /\ UNCHANGED servers /\ \E s \in {"ok", "failed"} : Goes(g, s)
    BY <1>4 DEF PostAnswered
  <2>2. \A h \in Goroutines : at'[h] = "post" => at[h] = "post" /\ h # g
    BY <1>0, <2>1 DEF Goes
  <2>3. QED
    BY <2>1, <2>2 DEF Ordered
<1>5. ASSUME NEW g \in Goroutines, PostDown(g) PROVE Ordered'
  <2>1. /\ bad' = bad \cup {server[g]} /\ server' = [server EXCEPT ![g] = NoOne]
        /\ UNCHANGED <<order, rested, answer>> /\ Goes(g, "choose") /\ at[g] = "post"
    BY <1>5 DEF PostDown
  <2>2. \A h \in Goroutines : at'[h] = "post" => at[h] = "post" /\ h # g
    BY <1>0, <2>1 DEF Goes
  <2>3. server[g] \in Servers
    BY <2>1 DEF Ordered
  <2>4. QED
    BY <2>1, <2>2, <2>3 DEF Ordered
<1>6. CASE Rest
  <2>1. Oldest(Servers \ rested) \in Servers
    BY <1>6, PlaceIs DEF Rest, Ordered
  <2>2. /\ rested' = rested \cup {Oldest(Servers \ rested)}
        /\ UNCHANGED <<order, bad, goroutines>>
    BY <1>6 DEF Rest
  <2>3. QED
    BY <2>1, <2>2 DEF Ordered
<1>7. ASSUME NEW g \in Goroutines,
             \/ DumpLock(g) \/ DumpFile(g) \/ DumpFails(g) \/ AckJournal(g) \/ Finish(g)
             \/ ReadSent(g) \/ ReadNotRemoved(g) \/ ReadFails(g)
      PROVE  Ordered'
  <2>1. /\ UNCHANGED <<servers, server>> /\ \E s \in Steps \ {"post"} : Goes(g, s)
        /\ answer' = answer \/ answer' = [answer EXCEPT ![g] = "ok"]
    BY <1>7 DEF DumpLock, DumpFile, DumpFails, AckJournal, Finish, ReadSent,
       ReadNotRemoved, ReadFails, Ends, Leaves, Steps
  <2>2. QED
    BY <1>2, <2>1
<1>8. CASE Poll \/ ReplayFailed \/ ReplayFailedEnd
           \/ (\E r \in Requests : SyncInsert(r))
           \/ (\E f \in files : ProcessNextDump(f) \/ ReplayFailedNext(f))
  <2>1. PICK g \in Goroutines :
          /\ \E s \in Steps \ {"post"} : Goes(g, s)
          /\ answer' = answer \/ answer' = [answer EXCEPT ![g] = "ok"]
    BY <1>8, Names DEF Poll, ReplayFailed, ReplayFailedEnd, SyncInsert, ProcessNextDump,
       ReplayFailedNext, Leaves, Steps
  <2>2. UNCHANGED <<servers, server>>
    BY <1>8 DEF Poll, ReplayFailed, ReplayFailedEnd, SyncInsert, ProcessNextDump,
       ReplayFailedNext
  <2>3. QED
    BY <1>2, <2>1, <2>2
<1>9. CASE UNCHANGED vars \/ (\E r \in Requests : Send(r)) \/ (\E f \in files : MoveToFailed(f))
  <2>1. UNCHANGED <<servers, at, server, answer>>
    BY <1>9 DEF vars, Send, MoveToFailed
  <2>2. QED
    BY <2>1 DEF Ordered
<1>10. QED
  BY <1>3, <1>4, <1>5, <1>6, <1>7, <1>8, <1>9 DEF Next, Step

\* c.mu is held in Dump only, d.mu by the replays only.
LEMMA LocksStep == ASSUME Locks, [Next]_vars PROVE Locks'
<1> USE Names DEF sending, servers, locks, goroutines, dumps, history, Locks
<1>1. ASSUME NEW g \in Goroutines, Step(g) PROVE Locks'
  <2>1. CASE GetNextServer(g) \/ PostDown(g) \/ \E a \in Answers : PostAnswered(g, a)
    BY <2>1 DEF GetNextServer, PostDown, PostAnswered
  <2>2. CASE DumpLock(g) \/ DumpFile(g) \/ DumpFails(g) \/ AckJournal(g) \/ Finish(g)
    BY <2>2 DEF DumpLock, DumpFile, DumpFails, AckJournal, Finish
  <2>3. CASE ReadSent(g) \/ ReadNotRemoved(g) \/ ReadFails(g)
    BY <2>3 DEF ReadSent, ReadNotRemoved, ReadFails, Ends
  <2>4. QED
    BY <1>1, <2>1, <2>2, <2>3 DEF Step
<1>2. CASE Poll \/ Rest \/ ReplayFailed \/ ReplayFailedEnd \/ UNCHANGED vars
  BY <1>2 DEF Poll, Rest, ReplayFailed, ReplayFailedEnd, vars
<1>3. CASE \E r \in Requests : Send(r) \/ SyncInsert(r)
  BY <1>3 DEF Send, SyncInsert
<1>4. CASE \E f \in files : MoveToFailed(f) \/ ProcessNextDump(f) \/ ReplayFailedNext(f)
  BY <1>4 DEF MoveToFailed, ProcessNextDump, ReplayFailedNext
<1>5. QED
  BY <1>1, <1>2, <1>3, <1>4 DEF Next

-----------------------------------------------------------------------------
(* The requests.                                                           *)

Distinct(q) == \A i, j \in DOMAIN q : q[i] = q[j] => i = j
Undumped == {"choose", "post", "failed", "dump"}

LEMMA AppendedOnce ==
  ASSUME NEW q \in Seq(Queued), NEW r \in Queued, r \notin ToSet(q), Distinct(q)
  PROVE  ToSet(Append(q, r)) = ToSet(q) \cup {r} /\ Distinct(Append(q, r))
<1> DEFINE a == Append(q, r)
<1>1. /\ a \in Seq(Queued) /\ Len(a) = Len(q) + 1 /\ Len(q) \in Nat
      /\ \A i \in 1..Len(q) : a[i] = q[i]
      /\ a[Len(q) + 1] = r
  BY AppendProperties, LenProperties
<1>2. DOMAIN q = 1..Len(q) /\ DOMAIN a = 1..(Len(q) + 1)
  BY <1>1, LenProperties
<1> HIDE DEF a
<1>3. \A i \in DOMAIN a : (i \in DOMAIN q /\ a[i] = q[i]) \/ (i = Len(q) + 1 /\ a[i] = r)
  BY <1>1, <1>2
<1>4. \A i \in DOMAIN q : q[i] # r
  BY DEF ToSet
<1>5. Distinct(a)
  BY <1>3, <1>4 DEF Distinct
<1>6. ToSet(a) \subseteq ToSet(q) \cup {r}
  BY <1>3 DEF ToSet
<1>7. QED
  BY <1>5, <1>6, Appended DEF a

LEMMA PolledOnce ==
  ASSUME NEW q \in Seq(Queued), q # <<>>, Distinct(q)
  PROVE  /\ Head(q) \in ToSet(q) /\ ToSet(Tail(q)) \subseteq ToSet(q)
         /\ Head(q) \notin ToSet(Tail(q)) /\ Distinct(Tail(q))
<1> DEFINE r == Tail(q)
<1>1. /\ r \in Seq(Queued) /\ Len(r) = Len(q) - 1 /\ Len(q) \in Nat \ {0}
      /\ \A i \in 1..Len(r) : r[i] = q[i + 1]
  BY HeadTailProperties, EmptySeq
<1>2. DOMAIN q = 1..Len(q) /\ DOMAIN r = 1..(Len(q) - 1) /\ Head(q) = q[1]
  BY <1>1, LenProperties
<1> HIDE DEF r
<1>3. \A i \in DOMAIN r : i + 1 \in DOMAIN q /\ i + 1 # 1 /\ r[i] = q[i + 1]
  BY <1>1, <1>2
<1>4. 1 \in DOMAIN q
  BY <1>1, <1>2
<1>5. Distinct(r)
  <2> SUFFICES ASSUME NEW i \in DOMAIN r, NEW j \in DOMAIN r, r[i] = r[j] PROVE i = j
    BY DEF Distinct
  <2>1. i + 1 = j + 1
    BY <1>3 DEF Distinct
  <2>2. QED
    BY <1>1, <1>2, <2>1
<1>6. \A i \in DOMAIN r : r[i] # q[1]
  BY <1>3, <1>4 DEF Distinct
<1>7. Head(q) \in ToSet(q) /\ ToSet(r) \subseteq ToSet(q) /\ Head(q) \notin ToSet(r)
  BY <1>2, <1>3, <1>4, <1>6 DEF ToSet
<1>8. QED
  BY <1>5, <1>7 DEF r

\* A goroutine with a request goes on with it, or lets it go.
LEMMA FreshGoesOn ==
  ASSUME IInv, Fresh, NEW g \in Goroutines, at[g] \notin {"idle", "next"},
         NEW s \in Steps, Goes(g, s),
         job' = job \/ (s \in {"idle", "next"} /\ job' = [job EXCEPT ![g] = NoOne]),
         UNCHANGED <<given, queue>>,
         acked' \subseteq acked \cup {job[g]}, unacked' \subseteq unacked \cup {job[g]},
         stored' \subseteq stored \cup {job[g]}, kept' \subseteq kept \cup {job[g]},
         pruned' \subseteq pruned,
         Saved(files') \subseteq Saved(files),
         g \in Writers => s # "next" /\ (s \in Undumped => at[g] \in Undumped)
  PROVE  Fresh'
<1> USE Names DEF Goes
<1>1. job[g] \in given
  BY DEF Fresh
<1>2. \A h \in Goroutines : at'[h] \notin {"idle", "next"} =>
        at[h] \notin {"idle", "next"} /\ job'[h] = job[h]
  BY DEF IInv, Typed
<1>3. \A h \in Writers : at'[h] \in Undumped => at[h] \in Undumped /\ job'[h] = job[h]
  BY <1>2 DEF IInv, Typed, Undumped
<1>4. at'["run"] # "idle" => at["run"] # "idle" /\ job'["run"] = job["run"]
  BY DEF IInv, Typed
<1>5. /\ \A h \in Goroutines : at'[h] \notin {"idle", "next"} => job'[h] \in given
      /\ \A h \in Writers : at'[h] # "next"
  BY <1>2 DEF Fresh, IInv, Typed
<1>6. \A h \in Writers : at'[h] \in Undumped => job'[h] \notin Saved(files')
  BY <1>3 DEF Fresh, Undumped
<1>7. QED
  BY <1>1, <1>4, <1>5, <1>6 DEF Fresh, Undumped

\* The dump of a writer's request is the first of that request.
LEMMA FreshDumped ==
  ASSUME IInv, Fresh, NEW g \in Goroutines, DumpFile(g)
  PROVE  Fresh'
<1> USE Names DEF Goes
<1>1. /\ at[g] = "dump" /\ at' = [at EXCEPT ![g] = "ok"]
      /\ UNCHANGED <<given, queue, job, acked, unacked, stored, kept>>
  BY Dumped
<1>2. g \in Writers
  BY Dumped
<1>3. /\ Saved(files') \subseteq Saved(files) \cup {job[g]}
      /\ pruned' \subseteq pruned \cup Saved(files) \cup {job[g]}
  BY Dumped
<1>4. job[g] \in given /\ job[g] \notin ToSet(queue)
  <2>1. CASE g = "run"
    BY <1>1, <2>1 DEF Fresh
  <2>2. CASE g # "run"
    <3>1. job[g] \in Synced
      BY <1>1, <1>2, <2>2 DEF IInv, Hands, Writers
    <3>2. ToSet(queue) \subseteq Queued
      BY LenProperties DEF IInv, Typed, ToSet
    <3>3. QED
      BY <1>1, <3>1, <3>2 DEF Fresh
  <2>3. QED
    BY <2>1, <2>2
<1>5. \A h \in Writers : at[h] # "idle" /\ h # g => job[h] # job[g]
  BY <1>1, <1>2 DEF IInv, Hands, Writers
<1>6. \A h \in Writers : at'[h] \in Undumped => job'[h] \notin Saved(files')
  BY <1>1, <1>3, <1>5 DEF Fresh, Undumped, IInv, Typed
<1>7. /\ \A h \in Goroutines : at'[h] \notin {"idle", "next"} => job'[h] \in given
      /\ \A h \in Writers : at'[h] # "next"
  BY <1>1, <1>4 DEF Fresh, IInv, Typed
<1>8. at'["run"] # "idle" => job'["run"] \notin ToSet(queue')
  BY <1>1 DEF Fresh, IInv, Typed
<1>9. QED
  BY <1>1, <1>2, <1>3, <1>4, <1>6, <1>7, <1>8 DEF Fresh, Undumped

\* Nothing the requests know of changes.
LEMMA FreshSame ==
  ASSUME Fresh, UNCHANGED <<given, queue, at, job, acked, unacked, stored, kept, pruned>>,
         Saved(files') \subseteq Saved(files)
  PROVE  Fresh'
BY DEF Fresh

LEMMA FreshSend == ASSUME IInv, Fresh, NEW r \in Requests, Send(r) PROVE Fresh'
<1> USE Names DEF sending, servers, locks, goroutines, dumps, history
<1>1. /\ r \in Queued \ given /\ given' = given \cup {r} /\ queue' = Append(queue, r)
      /\ UNCHANGED <<at, job, files, acked, unacked, stored, kept, pruned>>
  BY DEF Send
<1>2. r \notin ToSet(queue) /\ r \notin Saved(files)
  BY <1>1 DEF Fresh
<1>3. ToSet(queue') = ToSet(queue) \cup {r} /\ Distinct(queue')
  BY <1>1, <1>2, AppendedOnce DEF Fresh, Distinct, IInv, Typed
<1>4. at["run"] \notin {"idle", "next"} => job["run"] # r
  BY <1>1 DEF Fresh
<1>5. at["run"] # "next"
  BY DEF Fresh
<1>6. QED
  BY <1>1, <1>2, <1>3, <1>4, <1>5 DEF Fresh, Distinct

\* A goroutine takes a request that was given.
LEMMA FreshStarts ==
  ASSUME IInv, Fresh, NEW g \in Goroutines, NEW r \in Requests,
         Goes(g, "choose"), job' = [job EXCEPT ![g] = r],
         given' = given \cup {r}, given' \subseteq Requests,
         g \in Writers => r \notin Saved(files), g = "run" => r \notin ToSet(queue'),
         ToSet(queue') \subseteq ToSet(queue), Distinct(queue'),
         UNCHANGED <<files, acked, unacked, stored, kept, pruned>>
  PROVE  Fresh'
<1> USE Names DEF Goes
<1>1. /\ at'[g] = "choose" /\ job'[g] = r
      /\ \A h \in Goroutines \ {g} : at'[h] = at[h] /\ job'[h] = job[h]
  BY DEF IInv, Typed
<1>2. \A h \in Writers : at'[h] \in Undumped => job'[h] \notin Saved(files')
  BY <1>1 DEF Fresh, Undumped
<1>3. /\ \A h \in Goroutines : at'[h] \notin {"idle", "next"} => job'[h] \in given'
      /\ \A h \in Writers : at'[h] # "next"
  BY <1>1 DEF Fresh
<1>4. at'["run"] # "idle" => job'["run"] \notin ToSet(queue')
  BY <1>1 DEF Fresh
<1>5. QED
  BY <1>2, <1>3, <1>4 DEF Fresh, Undumped, Distinct

LEMMA FreshQuery ==
  ASSUME IInv, Fresh, NEW g \in Goroutines,
         GetNextServer(g) \/ PostDown(g) \/ \E a \in Answers : PostAnswered(g, a)
  PROVE  Fresh'
<1> USE DEF sending, servers, locks, goroutines, dumps, history
<1>1. /\ at[g] \in {"choose", "post"} /\ UNCHANGED <<given, queue, job, files, acked, unacked, kept, pruned>>
      /\ stored' \subseteq stored \cup {job[g]}
      /\ \E s \in {"choose", "post", "ok", "failed"} : Goes(g, s)
  BY DEF GetNextServer, PostDown, PostAnswered
<1>2. QED
  BY <1>1, FreshGoesOn DEF Undumped, Steps

LEMMA FreshWrite ==
  ASSUME IInv, Fresh, NEW g \in Goroutines,
         DumpLock(g) \/ DumpFails(g) \/ AckJournal(g) \/ Finish(g)
  PROVE  Fresh'
<1> USE DEF sending, servers, locks, goroutines, dumps, history
<1>1. /\ at[g] \in {"failed", "dump", "ok", "end"}
      /\ UNCHANGED <<given, queue, files, stored, pruned>>
      /\ acked' \subseteq acked \cup {job[g]} /\ unacked' \subseteq unacked \cup {job[g]}
      /\ kept' \subseteq kept \cup {job[g]}
  BY DEF DumpLock, DumpFails, AckJournal, Finish
<1>2. \E s \in {"dump", "ok", "end", "idle"} :
        /\ Goes(g, s) /\ (s \in Undumped => at[g] \in Undumped)
        /\ job' = job \/ (s \in {"idle", "next"} /\ job' = [job EXCEPT ![g] = NoOne])
  BY DEF DumpLock, DumpFails, AckJournal, Finish, Leaves, Undumped
<1>3. QED
  BY <1>1, <1>2, FreshGoesOn DEF Steps

\* A reader ends with a file; what it removed is no request's only record.
LEMMA FreshRead ==
  ASSUME IInv, Fresh, NEW g \in Goroutines, ReadSent(g) \/ ReadNotRemoved(g) \/ ReadFails(g)
  PROVE  Fresh'
<1> USE DEF sending, servers, locks, goroutines, dumps, history
<1>1. /\ g \in Readers /\ at[g] \in {"ok", "failed"} /\ Ends(g)
      /\ UNCHANGED <<given, queue, acked, unacked, stored, kept, pruned>> /\ files' \subseteq files
  BY DEF ReadSent, ReadNotRemoved, ReadFails
<1>2. Saved(files') \subseteq Saved(files) /\ g \notin Writers
  BY <1>1, Names DEF Saved
<1>3. \E s \in {"next", "idle"} :
        /\ Goes(g, s)
        /\ job' = job \/ (s \in {"idle", "next"} /\ job' = [job EXCEPT ![g] = NoOne])
  BY <1>1 DEF Ends, Leaves
<1>4. QED
  BY <1>1, <1>2, <1>3, FreshGoesOn DEF Steps

LEMMA FreshTakes ==
  ASSUME IInv, Fresh,
         \/ Poll \/ (\E r \in Requests : SyncInsert(r))
         \/ (\E f \in files : ProcessNextDump(f) \/ ReplayFailedNext(f))
  PROVE  Fresh'
<1> USE Names DEF sending, servers, locks, goroutines, dumps, history
<1>1. Distinct(queue)
  BY DEF Fresh, Distinct
<1>2. CASE Poll
  <2>1. /\ Head(queue) \in ToSet(queue) /\ ToSet(queue') \subseteq ToSet(queue)
        /\ Head(queue) \notin ToSet(queue') /\ Distinct(queue')
    BY <1>1, <1>2, PolledOnce DEF Poll, IInv, Typed
  <2>2. Head(queue) \in given \cap Requests /\ Head(queue) \notin Saved(files)
    BY <2>1 DEF Fresh
  <2>3. given' = given \cup {Head(queue)} /\ given' \subseteq Requests
    BY <1>2, <2>2 DEF Poll, Fresh
  <2>4. /\ Goes("run", "choose") /\ job' = [job EXCEPT !["run"] = Head(queue)]
        /\ UNCHANGED <<files, acked, unacked, stored, kept, pruned>>
    BY <1>2 DEF Poll
  <2>5. QED
    BY <2>1, <2>2, <2>3, <2>4, FreshStarts
<1>3. ASSUME NEW r \in Requests, SyncInsert(r) PROVE Fresh'
  <2>1. /\ r \in Synced \ given /\ given' = given \cup {r}
        /\ job' = [job EXCEPT ![r] = r] /\ Goes(r, "choose")
        /\ UNCHANGED <<queue, files, acked, unacked, stored, kept, pruned>>
    BY <1>3 DEF SyncInsert
  <2>2. r \notin Saved(files) /\ r \in Goroutines /\ r # "run" /\ given' \subseteq Requests
    BY <2>1 DEF Fresh
  <2>3. QED
    BY <1>1, <2>1, <2>2, FreshStarts
<1>4. ASSUME NEW f \in files, ProcessNextDump(f) \/ ReplayFailedNext(f) PROVE Fresh'
  <2>1. PICK g \in Readers : Goes(g, "choose") /\ job' = [job EXCEPT ![g] = f.req]
    BY <1>4 DEF ProcessNextDump, ReplayFailedNext
  <2>2. UNCHANGED <<given, queue, files, acked, unacked, stored, kept, pruned>>
    BY <1>4 DEF ProcessNextDump, ReplayFailedNext
  <2>3. f.req \in given /\ f.req \in Requests
    BY DEF Fresh, Saved
  <2>4. given' = given \cup {f.req} /\ given' \subseteq Requests
    BY <2>2, <2>3 DEF Fresh
  <2>5. QED
    BY <1>1, <2>1, <2>2, <2>3, <2>4, FreshStarts
<1>5. QED
  BY <1>2, <1>3, <1>4

LEMMA FreshStep == ASSUME IInv, Fresh, [Next]_vars PROVE Fresh'
<1> USE Names DEF sending, servers, locks, goroutines, dumps, history
<1>1. ASSUME NEW g \in Goroutines, Step(g) PROVE Fresh'
  BY <1>1, FreshQuery, FreshWrite, FreshRead, FreshDumped DEF Step
<1>2. ASSUME NEW f \in files, MoveToFailed(f) PROVE Fresh'
  <2>1. PICK h : h = [f EXCEPT !.in = "failed"] /\ files' = (files \ {f}) \cup {h}
    BY <1>2 DEF MoveToFailed
  <2>2. h.req = f.req
    BY <2>1, AckedIsSafe DEF File
  <2>3. Saved(files') \subseteq Saved(files)
    BY <2>1, <2>2 DEF Saved
  <2>4. QED
    BY <1>2, <2>3, FreshSame DEF MoveToFailed
<1>3. CASE ReplayFailed
  <2>1. /\ "operator" \in Readers /\ at' = [at EXCEPT !["operator"] = "next"]
        /\ UNCHANGED <<given, queue, job, files, acked, unacked, stored, kept, pruned>>
    BY <1>3 DEF ReplayFailed, Goes
  <2>2. \A g \in Goroutines : at'[g] = at[g] \/ (g \notin Writers /\ at'[g] = "next")
    BY <2>1 DEF IInv, Typed
  <2>3. QED
    BY <2>1, <2>2 DEF Fresh
<1>4. CASE ReplayFailedEnd
  <2>1. /\ "operator" \in Readers /\ Leaves("operator", "idle")
        /\ UNCHANGED <<given, queue, files, acked, unacked, stored, kept, pruned>>
    BY <1>4 DEF ReplayFailedEnd
  <2>2. \A g \in Goroutines : \/ at'[g] = at[g] /\ job'[g] = job[g]
                              \/ g \notin Writers /\ at'[g] = "idle"
    BY <2>1 DEF IInv, Typed, Leaves, Goes
  <2>3. QED
    BY <2>1, <2>2 DEF Fresh
<1>5. CASE Rest \/ UNCHANGED vars
  BY <1>5, FreshSame DEF Rest, vars
<1>6. QED
  BY <1>1, <1>2, <1>3, <1>4, <1>5, FreshSend, FreshTakes DEF Next
-----------------------------------------------------------------------------
(* The dumps.                                                              *)

\* Steps that touch no dump and give no reader a new one.
LEMMA DumpsSame ==
  ASSUME Dumps, UNCHANGED dumps,
         \A h \in Readers : at'[h] \notin {"idle", "next"} =>
           at[h] \notin {"idle", "next"} /\ job'[h] = job[h]
  PROVE  Dumps'
BY DEF Dumps, dumps, Pending, Failed

LEMMA DumpsGoOn ==
  ASSUME IInv, Dumps, UNCHANGED dumps, NEW g \in Goroutines, at[g] \notin {"idle", "next"},
         NEW s \in Steps, Goes(g, s), job' = job \/ job' = [job EXCEPT ![g] = NoOne],
         job' = job \/ s \in {"idle", "next"}
  PROVE  Dumps'
<1>1. \A h \in Readers : \/ at'[h] = at[h] /\ job'[h] = job[h]
                         \/ /\ h = g /\ at'[h] = s
                            /\ job'[h] = job[h] \/ s \in {"idle", "next"}
  BY Names DEF IInv, Typed, Goes
<1>2. QED
  BY <1>1, DumpsSame

LEMMA DumpsFile ==
  ASSUME IInv, Fresh, Dumps, NEW g \in Goroutines, DumpFile(g)
  PROVE  Dumps'
<1>1. PICK new, P : /\ new = [req |-> job[g], kind |-> Kind(answer[g]), in |-> "dump_dir"]
                    /\ P \subseteq Pending \cup {new}
                    /\ files' = (files \cup {new}) \ P /\ lockedFiles' = lockedFiles \ P
  BY DEF DumpFile, Prunes
<1>2. /\ at[g] = "dump" /\ g \in Writers /\ new.req = job[g]
      /\ job' = job /\ at' = [at EXCEPT ![g] = "ok"]
  BY <1>1, Dumped DEF Goes
<1>3. \A f \in files : f.req # new.req
  BY <1>2 DEF Fresh, Saved
<1>4. todo' = todo
  BY DEF DumpFile
<1>5. \A h \in Readers : at'[h] = at[h]
  BY <1>2, Names DEF IInv, Typed
<1>6. \A f, h \in files' : f.req = h.req => f = h
  BY <1>1, <1>3 DEF Dumps
<1>7. lockedFiles' \subseteq Pending'
  BY <1>1 DEF Dumps, Pending
<1>8. todo' \subseteq Failed'
  BY <1>1, <1>4 DEF Dumps, Pending, Failed
<1>9. QED
  BY <1>1, <1>2, <1>4, <1>5, <1>6, <1>7, <1>8 DEF Dumps

LEMMA DumpsRead ==
  ASSUME IInv, Dumps, NEW g \in Goroutines, ReadSent(g) \/ ReadNotRemoved(g)
  PROVE  Dumps'
<1> USE DEF sending, servers, locks, goroutines, dumps, history
<1>1. /\ g \in Readers /\ at[g] = "ok" /\ Ends(g) /\ todo' = todo
      /\ \/ files' = files \ Read(g) /\ lockedFiles' = lockedFiles
         \/ /\ files' = files
            /\ lockedFiles' = IF g = "replay" THEN lockedFiles \cup Read(g) ELSE lockedFiles
  BY DEF ReadSent, ReadNotRemoved
<1>2. g \in {"replay", "operator"}
  BY <1>1, ClickhouseAssumption
<1>3. \A f, h \in files' : f.req = h.req => f = h
  BY <1>1 DEF Dumps
<1>4. \A h \in Readers : h # g => at'[h] = at[h] /\ job'[h] = job[h]
  BY <1>1, Names DEF IInv, Typed, Ends, Leaves, Goes
<1>5. at'[g] = IF g = "replay" THEN "idle" ELSE "next"
  BY <1>1, Names DEF IInv, Typed, Ends, Leaves, Goes
<1>6. CASE g = "replay"
  <2>1. Read(g) \subseteq Pending /\ \A f \in Read(g) : f.req = job["replay"]
    BY <1>6 DEF Read, Pending
  <2>2. lockedFiles \cap Read(g) = {} /\ todo \cap Read(g) = {}
    BY <1>1, <1>6, <2>1 DEF Dumps, Pending, Failed
  <2>3. lockedFiles' \subseteq Pending' /\ todo' \subseteq Failed'
    BY <1>1, <1>6, <2>1, <2>2 DEF Dumps, Pending, Failed
  <2>4. QED
    BY <1>1, <1>3, <1>4, <1>5, <1>6, <2>3 DEF Dumps
<1>7. CASE g = "operator"
  <2>1. Read(g) \subseteq Failed /\ \A f \in Read(g) : f.req = job["operator"]
    BY <1>7 DEF Read, Failed
  <2>2. lockedFiles \cap Read(g) = {} /\ todo \cap Read(g) = {}
    BY <1>1, <1>7, <2>1 DEF Dumps, Pending, Failed
  <2>3. lockedFiles' = lockedFiles /\ lockedFiles' \subseteq Pending' /\ todo' \subseteq Failed'
    BY <1>1, <1>7, <2>1, <2>2 DEF Dumps, Pending, Failed
  <2>4. QED
    BY <1>1, <1>3, <1>4, <1>5, <1>7, <2>3 DEF Dumps
<1>8. QED
  BY <1>2, <1>6, <1>7

LEMMA DumpsMoved == ASSUME IInv, Dumps, NEW f \in files, MoveToFailed(f) PROVE Dumps'
<1> USE DEF sending, servers, locks, goroutines, dumps, history
<1>1. PICK h : h = [f EXCEPT !.in = "failed"] /\ files' = (files \ {f}) \cup {h}
  BY DEF MoveToFailed
<1>2. /\ f \notin lockedFiles /\ f.in = "dump_dir"
      /\ UNCHANGED <<lockedFiles, todo, at, job>>
  BY DEF MoveToFailed, Pending
<1>3. h.req = f.req
  BY <1>1, AckedIsSafe DEF File
<1>4. \A x, y \in files' : x.req = y.req => x = y
  <2>1. \A x \in files \ {f} : x.req # h.req
    BY <1>3 DEF Dumps
  <2>2. QED
    BY <1>1, <2>1 DEF Dumps
<1>5. lockedFiles' \subseteq Pending' /\ todo' \subseteq Failed'
  BY <1>1, <1>2 DEF Dumps, Pending, Failed
<1>6. QED
  BY <1>2, <1>4, <1>5 DEF Dumps

LEMMA DumpsTaken ==
  ASSUME IInv, Dumps, NEW f \in files, ProcessNextDump(f) \/ ReplayFailedNext(f)
  PROVE  Dumps'
<1> USE Names DEF sending, servers, locks, goroutines, dumps, history
<1>1. CASE ProcessNextDump(f)
  <2>1. /\ "replay" \in Readers /\ at' = [at EXCEPT !["replay"] = "choose"]
        /\ job' = [job EXCEPT !["replay"] = f.req] /\ f \notin lockedFiles
        /\ UNCHANGED <<files, lockedFiles, todo>>
    BY <1>1 DEF ProcessNextDump, Goes
  <2>2. /\ job'["replay"] = f.req
        /\ at'["operator"] = at["operator"] /\ job'["operator"] = job["operator"]
    BY <2>1 DEF IInv, Typed
  <2>3. \A x \in lockedFiles : x.req # f.req
    BY <2>1 DEF Dumps, Pending
  <2>4. QED
    BY <2>1, <2>2, <2>3 DEF Dumps, Pending, Failed
<1>2. CASE ReplayFailedNext(f)
  <2>1. /\ "operator" \in Readers /\ at' = [at EXCEPT !["operator"] = "choose"]
        /\ job' = [job EXCEPT !["operator"] = f.req] /\ todo' = todo \ {f}
        /\ UNCHANGED <<files, lockedFiles>>
    BY <1>2 DEF ReplayFailedNext, Goes
  <2>2. /\ job'["operator"] = f.req
        /\ at'["replay"] = at["replay"] /\ job'["replay"] = job["replay"]
    BY <2>1 DEF IInv, Typed
  <2>3. \A x \in todo' : x.req # f.req
    BY <2>1 DEF Dumps, Failed
  <2>4. QED
    BY <2>1, <2>2, <2>3 DEF Dumps, Pending, Failed
<1>3. QED
  BY <1>1, <1>2

LEMMA DumpsStep == ASSUME IInv, Fresh, Dumps, [Next]_vars PROVE Dumps'
<1> USE Names DEF sending, servers, locks, goroutines, dumps, history
<1>1. ASSUME NEW g \in Goroutines, Step(g) PROVE Dumps'
  <2>1. CASE GetNextServer(g) \/ PostDown(g) \/ \E a \in Answers : PostAnswered(g, a)
    <3>1. /\ at[g] \in {"choose", "post"} /\ UNCHANGED <<job, dumps>>
          /\ \E s \in {"choose", "post", "ok", "failed"} : Goes(g, s)
      BY <2>1 DEF GetNextServer, PostDown, PostAnswered
    <3>2. QED
      BY <3>1, DumpsGoOn DEF Steps
  <2>2. CASE DumpLock(g) \/ DumpFails(g) \/ AckJournal(g) \/ Finish(g) \/ ReadFails(g)
    <3>1. /\ at[g] \in {"failed", "dump", "ok", "end"} /\ UNCHANGED dumps
          /\ \E s \in {"dump", "ok", "end", "idle", "next"} :
               /\ Goes(g, s)
               /\ job' = job \/ (s \in {"idle", "next"} /\ job' = [job EXCEPT ![g] = NoOne])
      BY <2>2 DEF DumpLock, DumpFails, AckJournal, Finish, ReadFails, Ends, Leaves
    <3>2. QED
      BY <3>1, DumpsGoOn DEF Steps
  <2>3. QED
    BY <1>1, <2>1, <2>2, DumpsFile, DumpsRead DEF Step
<1>2. CASE Poll \/ (\E r \in Requests : Send(r) \/ SyncInsert(r)) \/ Rest \/ UNCHANGED vars
  <2>1. UNCHANGED dumps /\ \A h \in Readers : at'[h] = at[h] /\ job'[h] = job[h]
    BY <1>2 DEF Poll, Send, SyncInsert, Rest, vars, IInv, Typed, Goes
  <2>2. QED
    BY <2>1, DumpsSame
<1>3. CASE ReplayFailed
  <2>1. /\ "operator" \in Readers /\ at' = [at EXCEPT !["operator"] = "next"]
        /\ todo' = Failed /\ UNCHANGED <<job, files, lockedFiles>>
    BY <1>3 DEF ReplayFailed, Goes
  <2>2. at'["operator"] = "next" /\ at'["replay"] = at["replay"]
    BY <2>1 DEF IInv, Typed
  <2>3. QED
    BY <2>1, <2>2 DEF Dumps, Pending, Failed
<1>4. CASE ReplayFailedEnd
  <2>1. "operator" \in Readers /\ Leaves("operator", "idle") /\ UNCHANGED dumps
    BY <1>4 DEF ReplayFailedEnd
  <2>2. \A h \in Readers : at'[h] = "idle" \/ (at'[h] = at[h] /\ job'[h] = job[h])
    BY <2>1 DEF IInv, Typed, Leaves, Goes
  <2>3. QED
    BY <2>1, <2>2, DumpsSame
<1>5. QED
  BY <1>1, <1>2, <1>3, <1>4, DumpsMoved, DumpsTaken DEF Next

-----------------------------------------------------------------------------
(* The servers a SendQuery has tried.                                      *)

LEMMA TriesStep == ASSUME IInv, Ordered, Tries, [Next]_vars PROVE Tries'
<1> USE DEF sending, servers, locks, goroutines, dumps, history
<1>0. /\ at \in [Goroutines -> Steps] /\ tried \in [Goroutines -> SUBSET Servers]
      /\ server \in [Goroutines -> Servers \cup {NoOne}]
  BY DEF IInv, Typed, Tries, Ordered
<1>1. ASSUME UNCHANGED <<bad, rested, server, tried>>,
             \A g \in Goroutines : \/ at'[g] = at[g]
                                   \/ /\ at[g] \notin {"choose", "post"}
                                      /\ at'[g] # "post"
      PROVE  Tries'
  BY <1>1 DEF Tries
<1>2. ASSUME NEW g \in Goroutines, NEW s \in Steps \ {"post"},
             at[g] \notin {"choose", "post"}, Goes(g, s),
             UNCHANGED <<bad, rested, server, tried>>
      PROVE  Tries'
  BY <1>0, <1>1, <1>2 DEF Goes
<1>3. ASSUME NEW g \in Goroutines, GetNextServer(g) PROVE Tries'
  <2>1. at[g] = "choose" /\ bad' = bad \ rested
    BY <1>3 DEF GetNextServer
  <2>2. \A h \in Goroutines, S \in SUBSET bad : S \subseteq tried[h] => S \subseteq bad'
    BY <2>1 DEF Tries
  <2>3. CASE Usable = {}
    <3>1. /\ at' = [at EXCEPT ![g] = "failed"] /\ tried' = [tried EXCEPT ![g] = {}]
          /\ UNCHANGED <<rested, server>>
      BY <1>3, <2>3 DEF GetNextServer, Goes
    <3>2. \A h \in Goroutines : \/ h = g /\ at'[h] = "failed" /\ tried'[h] = {}
                                \/ h # g /\ at'[h] = at[h] /\ tried'[h] = tried[h]
      BY <1>0, <3>1
    <3>3. tried' \in [Goroutines -> SUBSET Servers]
      BY <1>0, <3>1
    <3>4. QED
      BY <2>2, <3>1, <3>2, <3>3 DEF Tries
  <2>4. CASE Usable # {}
    <3>1. PICK x : x = Next1
      OBVIOUS
    <3>2. /\ at' = [at EXCEPT ![g] = "post"] /\ server' = [server EXCEPT ![g] = x]
          /\ rested' = rested \ {x} /\ tried' = [tried EXCEPT ![g] = @ \cup {x}]
      BY <1>3, <2>4, <3>1 DEF GetNextServer, Goes
    <3>3. x \in Servers
      BY <2>4, <3>1, PlaceIs DEF Next1, Usable
    <3>4. \A h \in Goroutines :
            \/ h = g /\ at'[h] = "post" /\ server'[h] = x /\ tried'[h] = tried[h] \cup {x}
            \/ h # g /\ at'[h] = at[h] /\ server'[h] = server[h] /\ tried'[h] = tried[h]
      BY <1>0, <3>2
    <3>5. tried' \in [Goroutines -> SUBSET Servers]
      BY <1>0, <3>2, <3>3
    <3>6. tried[g] \subseteq bad'
      BY <2>1, <2>2 DEF Tries
    <3>7. QED
      BY <2>2, <3>2, <3>4, <3>5, <3>6 DEF Tries
  <2>5. QED
    BY <2>3, <2>4
<1>4. ASSUME NEW g \in Goroutines, NEW a \in Answers, PostAnswered(g, a) PROVE Tries'
  <2>1. PICK s \in {"ok", "failed"} : at' = [at EXCEPT ![g] = s]
    BY <1>4 DEF PostAnswered, Goes
  <2>2. /\ tried' = [tried EXCEPT ![g] = {}] /\ server' = [server EXCEPT ![g] = NoOne]
        /\ UNCHANGED <<bad, rested>>
    BY <1>4 DEF PostAnswered
  <2>3. \A h \in Goroutines :
          \/ h = g /\ at'[h] \in {"ok", "failed"} /\ tried'[h] = {}
          \/ h # g /\ at'[h] = at[h] /\ server'[h] = server[h] /\ tried'[h] = tried[h]
    BY <1>0, <2>1, <2>2
  <2>4. tried' \in [Goroutines -> SUBSET Servers]
    BY <1>0, <2>2
  <2>5. QED
    BY <2>2, <2>3, <2>4 DEF Tries
<1>5. ASSUME NEW g \in Goroutines, PostDown(g) PROVE Tries'
  <2>1. /\ at' = [at EXCEPT ![g] = "choose"] /\ server' = [server EXCEPT ![g] = NoOne]
        /\ at[g] = "post" /\ bad' = bad \cup {server[g]} /\ UNCHANGED <<rested, tried>>
    BY <1>5 DEF PostDown, Goes
  <2>2. \A h \in Goroutines : \/ h = g /\ at'[h] = "choose"
                              \/ h # g /\ at'[h] = at[h] /\ server'[h] = server[h]
    BY <1>0, <2>1
  <2>3. QED
    BY <2>1, <2>2 DEF Tries
<1>6. CASE Rest
  <2>1. PICK s : /\ rested' = rested \cup {s}
                 /\ tried' = [h \in Goroutines |-> tried[h] \ {s}]
                 /\ UNCHANGED <<bad, at, server>>
    BY <1>6 DEF Rest
  <2>2. tried' \in [Goroutines -> SUBSET Servers]
    BY <1>0, <2>1
  <2>3. QED
    BY <2>1, <2>2 DEF Tries
<1>7. ASSUME NEW g \in Goroutines,
             \/ DumpLock(g) \/ DumpFile(g) \/ DumpFails(g) \/ AckJournal(g) \/ Finish(g)
             \/ ReadSent(g) \/ ReadNotRemoved(g) \/ ReadFails(g)
      PROVE  Tries'
  <2>1. /\ UNCHANGED <<bad, rested, server, tried>> /\ at[g] \notin {"choose", "post"}
        /\ \E s \in Steps \ {"post"} : Goes(g, s)
    BY <1>7 DEF DumpLock, DumpFile, DumpFails, AckJournal, Finish, ReadSent,
       ReadNotRemoved, ReadFails, Ends, Leaves, Steps
  <2>2. QED
    BY <1>2, <2>1
<1>8. CASE Poll \/ ReplayFailed \/ ReplayFailedEnd
           \/ (\E r \in Requests : SyncInsert(r))
           \/ (\E f \in files : ProcessNextDump(f) \/ ReplayFailedNext(f))
  <2>1. PICK g \in Goroutines :
          at[g] \notin {"choose", "post"} /\ \E s \in Steps \ {"post"} : Goes(g, s)
    <3>1. \A r \in Requests : SyncInsert(r) => at[r] = "idle"
      BY DEF SyncInsert, IInv, Hands
    <3>2. QED
      BY <1>8, <3>1, Names DEF Poll, ReplayFailed, ReplayFailedEnd, SyncInsert,
         ProcessNextDump, ReplayFailedNext, Leaves, Steps
  <2>2. UNCHANGED <<bad, rested, server, tried>>
    BY <1>8 DEF Poll, ReplayFailed, ReplayFailedEnd, SyncInsert, ProcessNextDump,
       ReplayFailedNext
  <2>3. QED
    BY <1>2, <2>1, <2>2
<1>9. CASE UNCHANGED vars \/ (\E r \in Requests : Send(r)) \/ (\E f \in files : MoveToFailed(f))
  <2>1. UNCHANGED <<bad, rested, at, server, tried>>
    BY <1>9 DEF vars, Send, MoveToFailed
  <2>2. QED
    BY <2>1 DEF Tries
<1>10. QED
  BY <1>3, <1>4, <1>5, <1>6, <1>7, <1>8, <1>9 DEF Next, Step

LEMMA InitBookkeeping == Init => Bookkeeping
<1> SUFFICES ASSUME Init PROVE Bookkeeping
  OBVIOUS
<1>1. Ordered
  BY InitOrder DEF Init, Ordered, Answers
<1>2. ToSet(queue) = {}
  BY DEF Init, ToSet
<1>3. Locks /\ Fresh /\ Dumps
  BY <1>2, Names DEF Init, Locks, Fresh, Dumps, Saved, Pending, Failed
<1>4. Tries
  BY Names DEF Init, Tries
<1>5. QED
  BY <1>1, <1>3, <1>4 DEF Bookkeeping

LEMMA BookkeepingInvariance == Spec => [](IInv /\ Bookkeeping)
<1>1. Init => IInv /\ Bookkeeping
  BY InitIInv, InitBookkeeping
<1>2. IInv /\ Bookkeeping /\ [Next]_vars => IInv' /\ Bookkeeping'
  BY IInvStep, OrderedStep, LocksStep, FreshStep, DumpsStep, TriesStep DEF Bookkeeping
<1>3. QED
  BY <1>1, <1>2, PTL DEF Spec

\* The WaitGroup counts requests that differ from one another.
LEMMA WaitGroupBound == IInv /\ Fresh => wg \in 0..Cardinality(Queued)
<1> SUFFICES ASSUME IInv, Fresh PROVE wg \in 0..Cardinality(Queued)
  OBVIOUS
<1> DEFINE f == [i \in 1..wg |-> IF i <= Len(queue) THEN queue[i] ELSE job["run"]]
<1>1. /\ Len(queue) \in Nat /\ DOMAIN queue = 1..Len(queue)
      /\ \A i \in 1..Len(queue) : queue[i] \in Queued
  BY LenProperties DEF IInv, Typed
<1>2. PICK n : n = Len(queue)
  OBVIOUS
<1>3. /\ n \in Nat /\ wg \in Nat
      /\ \A i \in 1..wg : i \in 1..n \/ (i = n + 1 /\ at["run"] # "idle")
  <2>1. n \in Nat
    BY <1>1, <1>2
  <2>2. wg = n + IF at["run"] = "idle" THEN 0 ELSE 1
    BY <1>2 DEF IInv, Typed
  <2>3. CASE at["run"] = "idle"
    BY <2>1, <2>2, <2>3
  <2>4. CASE at["run"] # "idle"
    <3>1. wg = n + 1
      BY <2>2, <2>4
    <3>2. QED
      BY <2>1, <2>4, <3>1
  <2>5. QED
    BY <2>3, <2>4
<1>4. at["run"] # "idle" => /\ job["run"] \in Queued
                            /\ \A i \in 1..Len(queue) : queue[i] # job["run"]
  BY <1>1 DEF IInv, Hands, Fresh, ToSet
<1>5. \A i \in 1..wg : \/ i \in 1..n /\ f[i] = queue[i]
                       \/ i = n + 1 /\ at["run"] # "idle" /\ f[i] = job["run"]
  BY <1>2, <1>3
<1>6. f \in [1..wg -> Queued] /\ DOMAIN f = 1..wg
  BY <1>1, <1>2, <1>4, <1>5
<1> HIDE DEF f
<1>7. \A i, j \in 1..wg : f[i] = f[j] => i = j
  BY <1>1, <1>2, <1>3, <1>4, <1>5 DEF Fresh
<1>8. f \in Injection(1..wg, Queued)
  BY <1>6, <1>7 DEF Injection, IsInjective
<1>9. IsFiniteSet(Queued)
  BY FS_Subset, Names, ClickhouseAssumption
<1>10. Cardinality(1..wg) <= Cardinality(Queued) /\ Cardinality(Queued) \in Nat
  BY <1>8, <1>9, FS_Injection, FS_CardinalityType
<1>11. Cardinality(1..wg) = wg
  BY <1>3, FS_Interval
<1>12. QED
  BY <1>3, <1>10, <1>11

\* Every variable keeps its type; the WaitGroup stays between 0 and the number
\* of requests (wg.Done never panics), the servers are reordered and none is
\* lost, and what the replays lock or have listed is in dump_dir and failed/.
THEOREM TypeCorrect == Spec => []TypeOK
<1>1. IInv /\ Bookkeeping => TypeOK
  BY WaitGroupBound, AckedIsSafe
  DEF Bookkeeping, Ordered, Locks, Fresh, Dumps, Tries, IInv, Typed, TypeOK, Pending
<1>2. QED
  BY BookkeepingInvariance, <1>1, PTL
-----------------------------------------------------------------------------
(* The theorems.                                                           *)

\* The journal lets go of what is in ClickHouse or in a dump only, but for what
\* the log tells of: dumps that max_dump_files has pruned, and synchronous
\* inserts whose dump could not be written (ackJournal after SendQuery or Dump,
\* and pruneOldestIfNeeded in it).
THEOREM AckedIsDurable == Spec => []AckedUnlessLogged
<1>1. IInv => AckedUnlessLogged
  BY DEF IInv, AckIsSafe, Safe, AckedUnlessLogged
<1>2. QED
  BY Invariance, <1>1, PTL

\* No request vanishes between Send, Run, Dump and the replays, but for those
\* whose dump was pruned or could not be written, as the log tells.
THEOREM NothingVanishes == Spec => []Conserved
<1>1. IInv => Conserved
  <2> SUFFICES ASSUME IInv, NEW r \in given
               PROVE  r \in ToSet(queue) \cup InHand \cup stored \cup Saved(files)
                               \cup pruned \cup kept
    BY DEF Conserved
  <2>1. CASE r \in Settled
    BY <2>1 DEF IInv, AckIsSafe, Safe, Settled
  <2>2. CASE \E g \in Writers : at[g] # "idle" /\ job[g] = r
    BY <2>2, Names DEF InHand
  <2>3. QED
    BY <2>1, <2>2 DEF IInv, Tracked
<1>2. QED
  BY Invariance, <1>1, PTL

\* When WaitFlush returns, what was given to Send is acked, or its dump or its
\* Ack failed: the WaitGroup counts exactly what is queued or in Run's hand.
THEOREM WaitFlushWaits == Spec => []FlushedWhenDone
<1>1. IInv => FlushedWhenDone
  <2> SUFFICES ASSUME IInv, wg = 0, NEW r \in given \cap Queued PROVE r \in Settled
    BY DEF FlushedWhenDone
  <2>1. Len(queue) \in Nat
    BY LenProperties DEF IInv, Typed
  <2>2. Len(queue) = 0 /\ at["run"] = "idle"
    BY <2>1 DEF IInv, Typed
  <2>3. r \notin ToSet(queue)
    BY <2>2, LenProperties DEF IInv, Typed, ToSet
  <2>4. \A g \in Writers : at[g] # "idle" => job[g] # r
    BY <2>2, Names DEF IInv, Hands, Writers
  <2>5. QED
    BY <2>3, <2>4 DEF IInv, Tracked
<1>2. QED
  BY Invariance, <1>1, PTL

\* One call of SendQuery POSTs to a server once in DownTimeout: GetNextServer
\* never hands back a server the call has found down, whatever the other
\* goroutines take back, use and mark meanwhile.
THEOREM FailsOverOnce == Spec => NoServerTwice
<1> DEFINE A == \A g \in Goroutines :
                  at[g] = "choose" /\ at'[g] = "post" => server'[g] \notin tried[g]
<1>1. ASSUME IInv, Bookkeeping, [Next]_vars PROVE [A]_vars
  <2> SUFFICES ASSUME Next, NEW g \in Goroutines, at[g] = "choose", at'[g] = "post"
               PROVE  server'[g] \notin tried[g]
    BY <1>1
  <2>1. GetNextServer(g)
    <3>1. at \in [Goroutines -> Steps]
      BY <1>1 DEF IInv, Typed
    <3>2. ASSUME NEW h \in Goroutines, NEW s \in Steps \ {"post"}, Goes(h, s) PROVE FALSE
      BY <3>1, <3>2 DEF Goes
    <3>3. ASSUME UNCHANGED at PROVE FALSE
      BY <3>3
    <3>4. ASSUME NEW h \in Goroutines, Step(h) PROVE GetNextServer(g)
      <4>1. CASE GetNextServer(h)
        BY <3>1, <4>1 DEF GetNextServer, Goes
      <4>2. CASE ~GetNextServer(h)
        <5>1. \E s \in Steps \ {"post"} : Goes(h, s)
          BY <3>4, <4>2 DEF Step, PostDown, PostAnswered, DumpLock, DumpFile, DumpFails,
             AckJournal, Finish, ReadSent, ReadNotRemoved, ReadFails, Ends, Leaves, Steps
        <5>2. QED
          BY <3>2, <5>1
      <4>3. QED
        BY <4>1, <4>2
    <3>5. CASE \/ Rest \/ (\E r \in Requests : Send(r))
               \/ (\E f \in files : MoveToFailed(f))
      BY <3>3, <3>5 DEF Rest, Send, MoveToFailed, goroutines
    <3>6. CASE \/ Poll \/ ReplayFailed \/ ReplayFailedEnd
               \/ (\E r \in Requests : SyncInsert(r))
               \/ (\E f \in files : ProcessNextDump(f) \/ ReplayFailedNext(f))
      <4>1. \E h \in Goroutines, s \in Steps \ {"post"} : Goes(h, s)
        BY <3>6, Names DEF Poll, ReplayFailed, ReplayFailedEnd, SyncInsert,
           ProcessNextDump, ReplayFailedNext, Leaves, Steps
      <4>2. QED
        BY <3>2, <4>1
    <3>7. QED
      BY <3>4, <3>5, <3>6 DEF Next
  <2>2. Usable # {} /\ server' = [server EXCEPT ![g] = Next1]
    <3>1. at \in [Goroutines -> Steps]
      BY <1>1 DEF IInv, Typed
    <3>2. QED
      BY <2>1, <3>1 DEF GetNextServer, Goes
  <2>3. Next1 \in Usable
    BY <1>1, <2>2, PlaceIs DEF Next1, Usable, Bookkeeping
  <2>4. server'[g] = Next1
    BY <1>1, <2>2 DEF Bookkeeping, Ordered
  <2>5. QED
    BY <1>1, <2>3, <2>4 DEF Usable, Bookkeeping, Tries
<1>2. QED
  BY <1>1, BookkeepingInvariance, PTL DEF Spec, NoServerTwice
=============================================================================
