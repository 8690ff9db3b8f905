------------------------------ MODULE Shutdown ------------------------------
(***************************************************************************)
(* How the process of server.go ends: the goroutine of main, which waits   *)
(* in srv.Start, the goroutine that waits for a signal, SafeQuit, and what *)
(* they find: requests in writeHandler, goroutines in Collector.Push, a    *)
(* table, a flush timer, the sender's queue and its worker.                *)
(*                                                                         *)
(* Collector and Clickhouse are modelled in modules of their own; here all *)
(* inserts go to one table, a batch is the set of its inserts, and a batch *)
(* the worker is done with is in ClickHouse or in a dump.                  *)
(***************************************************************************)
EXTENDS Integers, Sequences, FiniteSets, SequencesExt

CONSTANTS
  Inserts,
  FlushCount,
  Journaled,   \* whether journal_enabled
  Ends,        \* out of {"signal", "listen"}: what ends the server
  Nothing

ASSUME ShutdownAssumption ==
  /\ IsFiniteSet(Inserts) /\ FlushCount \in Nat \ {0}
  /\ Journaled \in BOOLEAN /\ Ends \subseteq {"signal", "listen"}
  /\ "timer" \notin Inserts

VARIABLES
  \* where each insert is on its way to the table; the table; the batches that
  \* flushes have taken out of it and not sent; the queue, the WaitGroup and
  \* the batch and step of the worker
  request, table, taken, queue, wg, batch, worker,
  \* the listener, the context of srv.Shutdown, whether the journal is open
  listening, ctxDone, journalOpen,
  \* the steps of main, of the signal goroutine, and of SafeQuit, with the
  \* goroutine that called it and what its deadline did
  main, signal, quit, quitter, late, timedOut,
  \* who has called os.Exit
  exited,
  \* inserts answered 200, those in ClickHouse or a dump, unacked lines of the
  \* WAL, those in the table or the queue at SafeQuit's first FlushAll
  answered, safe, wal, early

inserting == <<request, table, taken>>
sender == <<queue, wg, batch, worker>>
environment == <<listening, ctxDone, journalOpen>>
ending == <<main, signal, quit, quitter, late, timedOut, exited>>
history == <<answered, safe, wal, early>>
vars == <<inserting, sender, environment, ending, history>>

Flushers == Inserts \cup {"timer"}
Queued == UNION ToSet(queue)
Running == exited = Nothing

Init ==
  /\ request = [i \in Inserts |-> "none"]
  /\ table = {} /\ taken = [f \in Flushers |-> {}]
  /\ queue = <<>> /\ wg = 0 /\ batch = {} /\ worker = "idle"
  /\ listening = TRUE /\ ctxDone = FALSE /\ journalOpen = TRUE
  /\ main = "serving" /\ signal = "waiting"
  /\ quit = "off" /\ quitter = Nothing /\ late = FALSE /\ timedOut = FALSE
  /\ exited = Nothing
  /\ answered = {} /\ safe = {} /\ wal = {} /\ early = {}
-----------------------------------------------------------------------------
(* From the request to the queue.                                          *)

Request(i) ==
  /\ Running /\ listening /\ request[i] = "none"
  /\ request' = [request EXCEPT ![i] = "handler"]
  /\ UNCHANGED <<table, taken, sender, environment, ending, history>>

\* Append to the journal, go Push, and 200.
Answer(i) ==
  /\ Running /\ request[i] = "handler" /\ (Journaled => journalOpen)
  /\ request' = [request EXCEPT ![i] = "push"]
  /\ answered' = answered \cup {i}
  /\ wal' = IF Journaled THEN wal \cup {i} ELSE wal
  /\ UNCHANGED <<table, taken, sender, environment, ending, safe, early>>

\* Append finds the journal closed: 500.
Refuse(i) ==
  /\ Running /\ request[i] = "handler" /\ Journaled /\ ~journalOpen
  /\ request' = [request EXCEPT ![i] = "done"]
  /\ UNCHANGED <<table, taken, sender, environment, ending, history>>

Push(i) ==
  /\ Running /\ request[i] = "push"
  /\ request' = [request EXCEPT ![i] = "done"]
  /\ IF Cardinality(table) + 1 >= FlushCount
     THEN taken' = [taken EXCEPT ![i] = table \cup {i}] /\ table' = {}
     ELSE table' = table \cup {i} /\ UNCHANGED taken
  /\ UNCHANGED <<sender, environment, ending, history>>

TimerFires ==
  /\ Running /\ table # {} /\ taken["timer"] = {}
  /\ taken' = [taken EXCEPT !["timer"] = table] /\ table' = {}
  /\ UNCHANGED <<request, sender, environment, ending, history>>

Send(f) ==
  /\ Running /\ taken[f] # {}
  /\ queue' = Append(queue, taken[f]) /\ wg' = wg + 1
  /\ taken' = [taken EXCEPT ![f] = {}]
  /\ UNCHANGED <<request, table, batch, worker, environment, ending, history>>
-----------------------------------------------------------------------------
(* Clickhouse.Run.                                                         *)

Poll ==
  /\ Running /\ worker = "idle" /\ queue # <<>>
  /\ queue' = Tail(queue) /\ batch' = Head(queue) /\ worker' = "sending"
  /\ UNCHANGED <<inserting, wg, environment, ending, history>>

\* Mutant: the WAL is acked before the batch is stored.
AckThenStore ==
  /\ Running /\ worker = "sending"
  /\ wal' = wal \ batch /\ worker' = "acking"
  /\ UNCHANGED <<inserting, queue, wg, batch, environment, ending, answered, safe,
                 early>>

\* SendQuery, and Dump when it fails.
Store ==
  /\ Running /\ worker = "sending"
  /\ safe' = safe \cup batch /\ worker' = "acking"
  /\ UNCHANGED <<inserting, queue, wg, batch, environment, ending, answered, wal,
                 early>>

\* Mutant: wg.Done is not reached when the ack fails.
AckWithoutDone ==
  /\ Running /\ worker = "acking"
  /\ \/ wal' = wal \ batch /\ wg' = wg - 1
     \/ UNCHANGED <<wal, wg>>
  /\ batch' = {} /\ worker' = "idle"
  /\ UNCHANGED <<inserting, queue, environment, ending, answered, safe, early>>

\* Ack, which a closed journal still writes to its file or fails, and wg.Done.
Ack ==
  /\ Running /\ worker = "acking"
  /\ wal' = wal \ batch \/ (~journalOpen /\ UNCHANGED wal)
  /\ wg' = wg - 1 /\ batch' = {} /\ worker' = "idle"
  /\ UNCHANGED <<inserting, queue, environment, ending, answered, safe, early>>
-----------------------------------------------------------------------------
(* The signal, srv.Shutdown and the return of srv.Start.                   *)

\* The listener closes at once.
Signal ==
  /\ Running /\ "signal" \in Ends /\ signal = "waiting" /\ listening
  /\ signal' = "shutdown" /\ listening' = FALSE
  /\ UNCHANGED <<inserting, sender, ctxDone, journalOpen, main, quit, quitter,
                 late, timedOut, exited, history>>

\* The context is of five seconds after the start of the process.
CtxExpires ==
  /\ Running /\ ~ctxDone
  /\ ctxDone' = TRUE
  /\ UNCHANGED <<inserting, sender, listening, journalOpen, ending, history>>

SafeQuit(g) == quit' = "flush" /\ quitter' = g

\* srv.Shutdown waits for the requests in flight, or for its context.
ShutdownReturns ==
  /\ Running /\ signal = "shutdown"
  /\ ctxDone \/ \A i \in Inserts : request[i] # "handler"
  /\ signal' = "quitting" /\ SafeQuit("signal")
  /\ UNCHANGED <<inserting, sender, environment, main, late, timedOut, exited,
                 history>>

\* srv.Start returns ErrServerClosed; runServer returns: cancel() ...
StartReturns ==
  /\ Running /\ main = "serving" /\ signal # "waiting"
  /\ main' = "returned" /\ ctxDone' = TRUE
  /\ UNCHANGED <<inserting, sender, listening, journalOpen, signal, quit, quitter,
                 late, timedOut, exited, history>>

\* ... journal.Close() ...
MainCloses ==
  /\ Running /\ main = "returned"
  /\ main' = "closed" /\ journalOpen' = FALSE
  /\ UNCHANGED <<inserting, sender, listening, ctxDone, signal, quit, quitter,
                 late, timedOut, exited, history>>

\* ... and main calls os.Exit(0).
MainExits ==
  /\ Running /\ main = "closed"
  /\ exited' = "main"
  /\ UNCHANGED <<inserting, sender, environment, main, signal, quit, quitter, late,
                 timedOut, history>>

\* srv.Start fails: main itself calls SafeQuit.
ListenFails ==
  /\ Running /\ "listen" \in Ends /\ main = "serving" /\ listening
  /\ main' = "quitting" /\ listening' = FALSE /\ SafeQuit("main")
  /\ UNCHANGED <<inserting, sender, ctxDone, journalOpen, signal, late, timedOut,
                 exited, history>>
-----------------------------------------------------------------------------
(* SafeQuit and what follows it.                                           *)

Deadline ==
  /\ Running /\ quit # "off" /\ ~late
  /\ late' = TRUE
  /\ UNCHANGED <<inserting, sender, environment, main, signal, quit, quitter,
                 timedOut, exited, history>>

Quits(step) ==
  /\ Running /\ quit' = step
  /\ UNCHANGED <<request, taken, batch, worker, environment, main, signal, quitter,
                 late, exited, answered, safe, wal>>

\* Mutant: the batches of FlushAll are not counted in the WaitGroup.
FlushAllUncounted ==
  IF table = {} THEN UNCHANGED <<table, queue, wg>>
  ELSE table' = {} /\ queue' = Append(queue, table) /\ UNCHANGED wg

\* CheckFlush of the table and Send, the collector locked.
FlushAll ==
  IF table = {} THEN UNCHANGED <<table, queue, wg>>
  ELSE table' = {} /\ queue' = Append(queue, table) /\ wg' = wg + 1

QuitFlush ==
  /\ quit = "flush"
  /\ FlushAll /\ Quits("sender")
  /\ early' = table \cup Queued
  /\ UNCHANGED timedOut

\* Mutant: the queue is left to itself.
QuitSkipsSender ==
  /\ quit = "sender"
  /\ Quits("collector")
  /\ UNCHANGED <<table, queue, wg, timedOut, early>>

\* sender.Empty(), the first half of the loop's condition.
QuitSender ==
  /\ quit = "sender"
  /\ Quits(IF queue = <<>> THEN "collector" ELSE "body")
  /\ UNCHANGED <<table, queue, wg, timedOut, early>>

\* collect.Empty(), the second half.
QuitCollector ==
  /\ quit = "collector"
  /\ Quits(IF table = {} THEN "close" ELSE "body")
  /\ UNCHANGED <<table, queue, wg, timedOut, early>>

QuitBody ==
  /\ quit = "body"
  /\ IF late
     THEN Quits("close") /\ timedOut' = TRUE /\ UNCHANGED <<table, queue, wg>>
     ELSE Quits("wait") /\ FlushAll /\ UNCHANGED timedOut
  /\ UNCHANGED early

\* WaitFlush.
QuitWait ==
  /\ quit = "wait" /\ wg = 0
  /\ Quits("sender")
  /\ UNCHANGED <<table, queue, wg, timedOut, early>>

\* shutdownJournal and exit.
QuitCloses ==
  /\ Running /\ quit = "close"
  /\ quit' = "exit" /\ journalOpen' = FALSE
  /\ UNCHANGED <<inserting, sender, listening, ctxDone, main, signal, quitter, late,
                 timedOut, exited, history>>

QuitExits ==
  /\ Running /\ quit = "exit"
  /\ exited' = quitter
  /\ UNCHANGED <<inserting, sender, environment, main, signal, quit, quitter, late,
                 timedOut, history>>
-----------------------------------------------------------------------------
Worker == Poll \/ Store \/ Ack
Main == StartReturns \/ MainCloses \/ MainExits
Quitter == \/ ShutdownReturns \/ QuitFlush \/ QuitSender \/ QuitCollector
           \/ QuitBody \/ QuitWait \/ QuitCloses \/ QuitExits

Next ==
  \/ \E i \in Inserts : Request(i) \/ Answer(i) \/ Refuse(i) \/ Push(i)
  \/ TimerFires \/ \E f \in Flushers : Send(f)
  \/ Worker \/ Main \/ Quitter
  \/ Signal \/ CtxExpires \/ ListenFails \/ Deadline

Spec == Init /\ [][Next]_vars

\* The goroutines run, and every request to ClickHouse returns.
Fairness ==
  /\ WF_vars(Worker) /\ WF_vars(Main) /\ WF_vars(Quitter) /\ WF_vars(CtxExpires)

LiveSpec == Spec /\ Fairness
-----------------------------------------------------------------------------
TypeOK ==
  /\ request \in [Inserts -> {"none", "handler", "push", "done"}]
  /\ table \subseteq Inserts /\ taken \in [Flushers -> SUBSET Inserts]
  /\ queue \in Seq((SUBSET Inserts) \ {{}}) /\ batch \subseteq Inserts
  /\ wg = Len(queue) + IF worker = "idle" THEN 0 ELSE 1
  /\ worker \in {"idle", "sending", "acking"}
  /\ listening \in BOOLEAN /\ ctxDone \in BOOLEAN /\ journalOpen \in BOOLEAN
  /\ main \in {"serving", "returned", "closed", "quitting"}
  /\ signal \in {"waiting", "shutdown", "quitting"}
  /\ quit \in {"off", "flush", "sender", "collector", "body", "wait", "close", "exit"}
  /\ {quitter, exited} \subseteq {"main", "signal", Nothing}
  /\ late \in BOOLEAN /\ timedOut \in BOOLEAN
  /\ answered \cup safe \cup wal \cup early \subseteq Inserts

\* With the journal, an insert answered 200 is in ClickHouse or a dump, or the
\* next start replays it, whichever goroutine ends the process, and when.
JournaledSurvives == Journaled => answered \subseteq safe \cup wal

\* When SafeQuit returns before its deadline, every insert that was in a table
\* or the queue at its first FlushAll has reached the worker, and all but the worker's
\* last batch are in ClickHouse or a dump.
EarlyReachTheWorker ==
  quit \in {"close", "exit"} /\ ~timedOut => early \subseteq safe \cup batch

\* Once the listener has closed the process ends.
Exits == ~listening ~> exited # Nothing

\* A shutdown that does not time out leaves no insert in memory.
DrainedAtExit == exited # Nothing /\ ~timedOut => answered \subseteq safe
=============================================================================
