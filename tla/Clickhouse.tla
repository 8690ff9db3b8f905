----------------------------- MODULE Clickhouse -----------------------------
(***************************************************************************)
(* One sender of clickhouse.go with its FileDumper: the queue and the      *)
(* worker Run, the choice of a server, the retry loop of SendQuery, Dump,  *)
(* and the other goroutines that use them: synchronous inserts, the replay *)
(* loop of dump.go and /debug/replay-failed.                               *)
(*                                                                         *)
(* c.mu (Clickhouse) and d.mu (FileDumper) are modelled where a goroutine  *)
(* keeps one while it waits for the other or for ClickHouse: the replays   *)
(* hold d.mu from the choice of a file to its removal, SendQuery included, *)
(* and Dump holds c.mu while it waits for d.mu.  A shorter critical        *)
(* section is one step, enabled when its lock is free.                     *)
(*                                                                         *)
(* A dump is the request it holds, its kind (the digit in its name) and    *)
(* its directory; names and their order are in FileDumper, so which dump   *)
(* of a full dump_dir is the oldest is left open here.  A server of        *)
(* ClickHouse answers what it likes; when the connection fails it may have *)
(* stored the rows all the same.                                           *)
(***************************************************************************)
EXTENDS Integers, Sequences, FiniteSets, SequencesExt

CONSTANTS
  Queued,     \* the requests given to Send
  Synced,     \* those of synchronous inserts, given to SendQuery
  Servers,
  Readers,    \* out of {"replay", "operator"}: who reads dumps back
  MaxDumpFiles,  \* max_dump_files; 0: no limit
  Faults,     \* "write", "remove": a dump file cannot be; "ack": Journal.Ack fails
  NoOne

Requests == Queued \cup Synced
Goroutines == {"run"} \cup Readers \cup Synced
\* The answers of ClickHouse: below 400; 400 to 501, which the code takes for
\* an error of the client; and no answer or 502 up.
Answers == {"ok", "client", "down"}

ASSUME ClickhouseAssumption ==
  /\ IsFiniteSet(Requests) /\ IsFiniteSet(Servers)
  /\ Queued \cap Synced = {}
  /\ Readers \subseteq {"replay", "operator"}
  /\ MaxDumpFiles \in Nat
  /\ Faults \subseteq {"write", "remove", "ack"}
  /\ NoOne \notin Goroutines \cup Requests \cup Servers
  /\ {"run", "replay", "operator"} \cap Synced = {}

VARIABLES
  \* what was given to Send so far, the queue, and the WaitGroup
  given, queue, wg,
  \* the servers from the least to the most recently used (LastRequest), those
  \* marked Bad, and those whose last request is more than DownTimeout ago
  order, bad, rested,
  \* the holders of c.mu and d.mu
  cmu, dmu,
  \* per goroutine: its step, its request, its server and the last answer
  at, job, server, answer,
  \* the dump files, those of them that LockedFiles names, the operator's list
  files, lockedFiles, todo,
  \* the requests acked in the journal and those whose Ack failed, those in
  \* ClickHouse, those whose dump could not be written, and those whose dump
  \* was pruned
  acked, unacked, stored, kept, pruned,
  \* per goroutine: the servers its SendQuery has posted to less than
  \* DownTimeout ago
  tried

sending == <<given, queue, wg>>
servers == <<order, bad, rested>>
locks == <<cmu, dmu>>
goroutines == <<at, job, server, answer>>
dumps == <<files, lockedFiles, todo>>
history == <<acked, unacked, stored, kept, pruned, tried>>
vars == <<sending, servers, locks, goroutines, dumps, history>>

File == [req : Requests, kind : {"1", "2"}, in : {"dump_dir", "failed"}]
Steps == {"idle", "choose", "post", "failed", "dump", "ok", "end", "next"}

Pending == {f \in files : f.in = "dump_dir"}
Failed == {f \in files : f.in = "failed"}
Saved(fs) == {f.req : f \in fs}

Goes(g, step) == at' = [at EXCEPT ![g] = step]

\* g is done with its request, and forgets it.
Leaves(g, step) ==
  /\ Goes(g, step)
  /\ job' = [job EXCEPT ![g] = NoOne]
  /\ answer' = [answer EXCEPT ![g] = "ok"]

Init ==
  /\ given = {} /\ queue = <<>> /\ wg = 0
  /\ order = SetToSeq(Servers) /\ bad = {} /\ rested = Servers
  /\ cmu = NoOne /\ dmu = NoOne
  /\ at = [g \in Goroutines |-> "idle"]
  /\ job = [g \in Goroutines |-> NoOne]
  /\ server = [g \in Goroutines |-> NoOne]
  /\ answer = [g \in Goroutines |-> "ok"]
  /\ files = {} /\ lockedFiles = {} /\ todo = {}
  /\ acked = {} /\ unacked = {} /\ stored = {} /\ kept = {} /\ pruned = {}
  /\ tried = [g \in Goroutines |-> {}]
-----------------------------------------------------------------------------
(* Send, Poll and the start of a synchronous insert.                       *)

Send(r) ==
  /\ r \in Queued \ given
  /\ given' = given \cup {r}
  /\ wg' = wg + 1
  /\ queue' = Append(queue, r)
  /\ UNCHANGED <<servers, locks, goroutines, dumps, history>>

\* Mutant: the request is Done when it leaves the queue.
PollDone ==
  /\ at["run"] = "idle" /\ queue # <<>>
  /\ queue' = Tail(queue) /\ wg' = wg - 1
  /\ job' = [job EXCEPT !["run"] = Head(queue)]
  /\ Goes("run", "choose")
  /\ UNCHANGED <<given, servers, locks, server, answer, dumps, history>>

Poll ==
  /\ at["run"] = "idle" /\ queue # <<>>
  /\ queue' = Tail(queue)
  /\ job' = [job EXCEPT !["run"] = Head(queue)]
  /\ Goes("run", "choose")
  /\ UNCHANGED <<given, wg, servers, locks, server, answer, dumps, history>>

SyncInsert(r) ==
  /\ r \in Synced \ given
  /\ given' = given \cup {r}
  /\ job' = [job EXCEPT ![r] = r]
  /\ Goes(r, "choose")
  /\ UNCHANGED <<queue, wg, servers, locks, server, answer, dumps, history>>
-----------------------------------------------------------------------------
(* Clickhouse.SendQuery, by any goroutine.                                 *)

\* The servers GetNextServer considers: a bad one whose rest is over is taken
\* back.
Usable == {s \in Servers : s \in bad => s \in rested}

\* The first place in order of a server of S, and that server, the least
\* recently used of S.
Place(S) == Min({i \in DOMAIN order : order[i] \in S})
Oldest(S) == order[Place(S)]

Next1 == Oldest(Usable)

\* Mutant: the server keeps its place as well.
UsedTwice(s) == Append(order, s)

Used(s) == Append(RemoveAt(order, Place({s})), s)

GetNextServer(g) ==
  /\ at[g] = "choose" /\ cmu = NoOne
  /\ bad' = bad \ rested
  /\ IF Usable = {}
     THEN /\ answer' = [answer EXCEPT ![g] = "down"]
          /\ Goes(g, "failed")
          /\ tried' = [tried EXCEPT ![g] = {}]
          /\ UNCHANGED <<order, rested, server>>
     ELSE /\ server' = [server EXCEPT ![g] = Next1]
          /\ order' = Used(Next1)
          /\ rested' = rested \ {Next1}
          /\ tried' = [tried EXCEPT ![g] = @ \cup {Next1}]
          /\ Goes(g, "post")
          /\ UNCHANGED answer
  /\ UNCHANGED <<sending, locks, job, dumps, acked, unacked, stored, kept, pruned>>

\* The POST returns: any answer below 502 ends SendQuery.
PostAnswered(g, a) ==
  /\ at[g] = "post" /\ a \in Answers \ {"down"}
  /\ answer' = [answer EXCEPT ![g] = a]
  /\ stored' = IF a = "ok" THEN stored \cup {job[g]} ELSE stored
  /\ server' = [server EXCEPT ![g] = NoOne]
  /\ tried' = [tried EXCEPT ![g] = {}]
  /\ Goes(g, IF a = "ok" THEN "ok" ELSE "failed")
  /\ UNCHANGED <<sending, servers, locks, job, dumps, acked, unacked, kept, pruned>>

\* Mutant: the server is not marked.
PostDownForgets(g) ==
  /\ at[g] = "post"
  /\ stored' \in {stored, stored \cup {job[g]}}
  /\ server' = [server EXCEPT ![g] = NoOne]
  /\ Goes(g, "choose")
  /\ UNCHANGED <<sending, servers, locks, job, answer, dumps,
                 acked, unacked, kept, pruned, tried>>

\* The connection fails, or 502 and up: the server is marked, without c.mu,
\* and the loop goes on.
PostDown(g) ==
  /\ at[g] = "post"
  /\ bad' = bad \cup {server[g]}
  /\ stored' \in {stored, stored \cup {job[g]}}
  /\ server' = [server EXCEPT ![g] = NoOne]
  /\ Goes(g, "choose")
  /\ UNCHANGED <<sending, order, rested, locks, job, answer, dumps,
                 acked, unacked, kept, pruned, tried>>

\* DownTimeout passes for the server unused for longest, whoever is posting.
Rest ==
  /\ rested # Servers
  /\ LET s == Oldest(Servers \ rested)
     IN /\ rested' = rested \cup {s}
        /\ tried' = [g \in Goroutines |-> tried[g] \ {s}]
  /\ UNCHANGED <<sending, order, bad, locks, goroutines, dumps,
                 acked, unacked, stored, kept, pruned>>
-----------------------------------------------------------------------------
(* What follows SendQuery for Run and for a synchronous insert.            *)

Writers == {"run"} \cup Synced

Kind(a) == IF a = "client" THEN "2" ELSE "1"

\* Dump: c.mu first, then d.mu for the file.
DumpLock(g) ==
  /\ g \in Writers /\ at[g] = "failed" /\ cmu = NoOne
  /\ cmu' = g
  /\ Goes(g, "dump")
  /\ UNCHANGED <<sending, servers, dmu, job, server, answer, dumps, history>>

\* What pruneOldestIfNeeded removes of the dumps in dump_dir: what is over
\* max_dump_files, less if one cannot be removed.
Excess(dir) ==
  IF MaxDumpFiles > 0 /\ Cardinality(dir) > MaxDumpFiles
  THEN Cardinality(dir) - MaxDumpFiles ELSE 0

Prunes(dir) ==
  {P \in SUBSET dir : \/ Cardinality(P) = Excess(dir)
                      \/ Cardinality(P) < Excess(dir) /\ "remove" \in Faults}

\* Dump returns nil whatever is pruned, be it the new dump.
DumpFile(g) ==
  /\ at[g] = "dump" /\ dmu = NoOne
  /\ LET new == [req |-> job[g], kind |-> Kind(answer[g]), in |-> "dump_dir"]
     IN \E P \in Prunes(Pending \cup {new}) :
          /\ files' = (files \cup {new}) \ P
          /\ lockedFiles' = lockedFiles \ P
          /\ pruned' = pruned \cup Saved(P)
  /\ cmu' = NoOne
  /\ answer' = [answer EXCEPT ![g] = "ok"]
  /\ Goes(g, "ok")
  /\ UNCHANGED <<sending, servers, dmu, job, server, todo,
                 acked, unacked, stored, kept, tried>>

\* Mutant: Run acks although the dump could not be written.
DumpFailsButAcks(g) ==
  /\ at[g] = "dump" /\ dmu = NoOne /\ "write" \in Faults
  /\ kept' = kept \cup {job[g]}
  /\ cmu' = NoOne
  /\ Goes(g, "ok")
  /\ UNCHANGED <<sending, servers, dmu, job, server, answer, dumps,
                 acked, unacked, stored, pruned, tried>>

\* The file cannot be written: Run keeps the journal entries, a synchronous
\* insert only logs that it does.
DumpFails(g) ==
  /\ at[g] = "dump" /\ dmu = NoOne /\ "write" \in Faults
  /\ kept' = kept \cup {job[g]}
  /\ cmu' = NoOne
  /\ answer' = [answer EXCEPT ![g] = "ok"]
  /\ Goes(g, IF g = "run" THEN "end" ELSE "ok")
  /\ UNCHANGED <<sending, servers, dmu, job, server, dumps,
                 acked, unacked, stored, pruned, tried>>

\* A failed Ack is logged; the entries stay and are replayed by a restart.
\* A synchronous insert ends here with the answer to its client.
AckJournal(g) ==
  /\ g \in Writers /\ at[g] = "ok"
  /\ \/ acked' = acked \cup {job[g]} /\ UNCHANGED unacked
     \/ /\ "ack" \in Faults
        /\ unacked' = unacked \cup {job[g]} /\ UNCHANGED acked
  /\ IF g = "run" THEN Goes(g, "end") /\ UNCHANGED <<job, answer>>
     ELSE Leaves(g, "idle")
  /\ UNCHANGED <<sending, servers, locks, server, dumps, stored,
                 kept, pruned, tried>>

\* Run's DumpServers, which takes c.mu, and wg.Done.
Finish(g) ==
  /\ g = "run" /\ at[g] = "end" /\ cmu = NoOne
  /\ wg' = wg - 1
  /\ Leaves(g, "idle")
  /\ UNCHANGED <<given, queue, servers, locks, server, dumps, history>>
-----------------------------------------------------------------------------
(* ProcessNextDump and ReplayFailed.                                       *)

\* A client error is moved away under d.mu, unread; when the rename fails
\* nothing changes, and the next tick tries again.
MoveToFailed(f) ==
  /\ "replay" \in Readers /\ at["replay"] = "idle" /\ dmu = NoOne
  /\ f \in Pending \ lockedFiles /\ f.kind = "2"
  /\ files' = (files \ {f}) \cup {[f EXCEPT !.in = "failed"]}
  /\ UNCHANGED <<sending, servers, locks, goroutines, lockedFiles, todo, history>>

ProcessNextDump(f) ==
  /\ "replay" \in Readers /\ at["replay"] = "idle" /\ dmu = NoOne
  /\ f \in Pending \ lockedFiles /\ f.kind = "1"
  /\ dmu' = "replay"
  /\ job' = [job EXCEPT !["replay"] = f.req]
  /\ Goes("replay", "choose")
  /\ UNCHANGED <<sending, servers, cmu, server, answer, dumps, history>>

ReplayFailed ==
  /\ "operator" \in Readers /\ at["operator"] = "idle" /\ dmu = NoOne
  /\ Failed # {}
  /\ dmu' = "operator" /\ todo' = Failed
  /\ Goes("operator", "next")
  /\ UNCHANGED <<sending, servers, cmu, job, server, answer, files, lockedFiles,
                 history>>

ReplayFailedNext(f) ==
  /\ "operator" \in Readers /\ at["operator"] = "next" /\ f \in todo
  /\ todo' = todo \ {f}
  /\ job' = [job EXCEPT !["operator"] = f.req]
  /\ Goes("operator", "choose")
  /\ UNCHANGED <<sending, servers, locks, server, answer, files, lockedFiles,
                 history>>

\* The end of one file.  The replay loop gives d.mu back; the operator goes on
\* with its list.
Ends(g) ==
  IF g = "replay" THEN Leaves(g, "idle") /\ dmu' = NoOne
  ELSE Leaves(g, "next") /\ UNCHANGED dmu

Read(g) == {f \in files : f.req = job[g]
                          /\ f.in = IF g = "replay" THEN "dump_dir" ELSE "failed"}

ReadSent(g) ==
  /\ g \in Readers /\ at[g] = "ok"
  /\ files' = files \ Read(g)
  /\ Ends(g)
  /\ UNCHANGED <<sending, servers, cmu, server, lockedFiles, todo,
                 history>>

\* Sent, but the file cannot be removed: the loop will not try it again.
ReadNotRemoved(g) ==
  /\ g \in Readers /\ at[g] = "ok" /\ "remove" \in Faults
  /\ lockedFiles' = IF g = "replay" THEN lockedFiles \cup Read(g)
                    ELSE lockedFiles
  /\ Ends(g)
  /\ UNCHANGED <<sending, servers, cmu, server, files, todo,
                 history>>

\* Mutant: the dump is removed whatever ClickHouse answered.
ReadFailsButRemoves(g) ==
  /\ g \in Readers /\ at[g] = "failed"
  /\ files' = files \ Read(g)
  /\ Ends(g)
  /\ UNCHANGED <<sending, servers, cmu, server, lockedFiles, todo,
                 history>>

\* The file stays as it is.
ReadFails(g) ==
  /\ g \in Readers /\ at[g] = "failed"
  /\ Ends(g)
  /\ UNCHANGED <<sending, servers, cmu, server, dumps, history>>

ReplayFailedEnd ==
  /\ "operator" \in Readers /\ at["operator"] = "next" /\ todo = {}
  /\ dmu' = NoOne
  /\ Leaves("operator", "idle")
  /\ UNCHANGED <<sending, servers, cmu, server, dumps, history>>
-----------------------------------------------------------------------------
Step(g) ==
  \/ GetNextServer(g) \/ PostDown(g) \/ \E a \in Answers : PostAnswered(g, a)
  \/ DumpLock(g) \/ DumpFile(g) \/ DumpFails(g) \/ AckJournal(g) \/ Finish(g)
  \/ ReadSent(g) \/ ReadNotRemoved(g) \/ ReadFails(g)

Next ==
  \/ \E r \in Requests : Send(r) \/ SyncInsert(r)
  \/ Poll \/ Rest
  \/ \E g \in Goroutines : Step(g)
  \/ \E f \in files : MoveToFailed(f) \/ ProcessNextDump(f) \/ ReplayFailedNext(f)
  \/ ReplayFailed \/ ReplayFailedEnd

Spec == Init /\ [][Next]_vars

\* Every goroutine runs, every POST returns, and the locks are fair: a Mutex
\* hands itself to whoever has waited for a millisecond.
Fairness ==
  /\ WF_vars(Poll)
  /\ \A g \in Goroutines : SF_vars(Step(g))
  /\ WF_vars((\E f \in files : ReplayFailedNext(f)) \/ ReplayFailedEnd)

LiveSpec == Spec /\ Fairness
-----------------------------------------------------------------------------
TypeOK ==
  /\ given \subseteq Requests /\ queue \in Seq(Queued) /\ wg \in 0..Cardinality(Queued)
  /\ order \in [1..Cardinality(Servers) -> Servers] /\ ToSet(order) = Servers
  /\ bad \subseteq Servers /\ rested \subseteq Servers
  /\ cmu \in Writers \cup {NoOne} /\ dmu \in Readers \cup {NoOne}
  /\ at \in [Goroutines -> Steps]
  /\ job \in [Goroutines -> Requests \cup {NoOne}]
  /\ server \in [Goroutines -> Servers \cup {NoOne}]
  /\ answer \in [Goroutines -> Answers]
  /\ files \subseteq File /\ lockedFiles \subseteq files /\ todo \subseteq Failed
  /\ acked \cup unacked \cup stored \cup kept \cup pruned \subseteq given
  /\ tried \in [Goroutines -> SUBSET Servers]

\* The journal lets go of a request only when its rows are in ClickHouse or in
\* a dump, in dump_dir or failed/, whatever the replays do with the dump.
\* Two exceptions, both logged: max_dump_files has pruned the dump, which Dump
\* does not tell its caller even when it is the new one; and a synchronous
\* insert whose dump could not be written is acked, while the log says that its
\* entries are retained.
AckedUnlessLogged ==
  acked \subseteq stored \cup Saved(files) \cup pruned \cup (kept \cap Synced)

InHand == {job[g] : g \in {h \in Goroutines : at[h] # "idle"}}

\* No request vanishes without a line in the log: it is queued, in a goroutine's
\* hand, in ClickHouse, in a dump, or its dump was pruned or could not be
\* written.
Conserved ==
  given \subseteq ToSet(queue) \cup InHand \cup stored \cup Saved(files)
                  \cup pruned \cup kept

\* What the journal knows of: acked, or the log says that it is not.
Settled == acked \cup unacked \cup kept

\* What SafeQuit relies on: when WaitFlush returns, every request given to Send
\* has been acked in the journal, or its dump or its Ack failed.
FlushedWhenDone == wg = 0 => given \cap Queued \subseteq Settled

\* SendQuery's loop POSTs to a server again only when DownTimeout has passed
\* since: one call makes at most one POST per server in that time, whatever
\* the other goroutines mark, take back and use meanwhile.
NoServerTwice ==
  [][\A g \in Goroutines :
       at[g] = "choose" /\ at'[g] = "post" => server'[g] \notin tried[g]]_vars

\* SendQuery's loop ends and Run gets through its queue: in the end every
\* request given (none is taken back) is acked in the journal or logged as kept
\* there.
EveryRequestSettles == <>[](given \subseteq Settled)

\* A writer holds c.mu and waits for d.mu, a reader holds d.mu and waits for
\* c.mu.
Crossed ==
  /\ cmu # NoOne /\ dmu # NoOne
  /\ at[cmu] = "dump" /\ at[dmu] = "choose"

\* From some time on no SendQuery lasts so long that a server it tried has
\* rested meanwhile: with connect_timeout, which ends a POST, that is so when
\* down_timeout exceeds it once per server.
Brisk ==
  <>[][\A g \in Goroutines, s \in rested' \ rested : s \notin tried[g]]_vars

\* That circle apart, nothing keeps a request from settling as long as calls of
\* SendQuery do not outlast DownTimeout for ever: not the replays, which share
\* servers and locks with the worker, not the other requests that use a server
\* and let it rest, and not files that cannot be written or removed.
SettlesUnlessCrossed == []~Crossed /\ Brisk => EveryRequestSettles
=============================================================================
