----------------------------- MODULE Collector -----------------------------
(***************************************************************************)
(* The collector of collector.go: the map from request parameters to       *)
(* Table, the batch each Table gathers, and the goroutines that work on    *)
(* them: one Push per insert, one timer per Table, the cleaner,            *)
(* /debug/tables-clean and FlushAll.                                       *)
(*                                                                         *)
(* c.mu is held across Send and is modelled (writer, readers).  Table.mu   *)
(* is released around Send, so each of its critical sections is one step   *)
(* and what a doFlush took out of the Table is its goroutine's local.      *)
(*                                                                         *)
(* Time advances in ticks and never past a due timer: a table's timer is   *)
(* taken to run, and its Send to queue, within one tick of its deadline.   *)
(***************************************************************************)
EXTENDS Integers, FiniteSets

CONSTANTS
  Inserts,        \* the calls of Push and PushOpaque, one per insert
  Opaque,         \* those that bypass the tables
  Journaled,      \* those that carry a journal id
  Keys,           \* the values of the request parameters
  KeyOf,          \* the parameters of an insert, query_id removed
  RowsOf,         \* the rows its text splits into
  FlushCount,     \* flush_count
  FlushInterval,  \* flush_interval, in ticks
  CleanInterval,  \* clean_interval, in ticks; 0 turns the cleaner off
  MaxTables,      \* bound: Table objects made in one behaviour
  NoTable,
  NoOne

Tables == 1 .. MaxTables

ASSUME CollectorAssumption ==
  /\ Opaque \subseteq Inserts /\ Journaled \subseteq Inserts
  /\ KeyOf \in [Inserts -> Keys]
  /\ RowsOf \in [Inserts -> Nat \ {0}]
  /\ FlushCount \in Nat \ {0} /\ FlushInterval \in Nat \ {0}
  /\ CleanInterval \in Nat /\ MaxTables \in Nat
  /\ NoTable \notin Tables
  /\ IsFiniteSet(Inserts)

VARIABLES
  \* the map of the collector, and c.mu
  tableAt, writer, readers,
  \* the Table objects made so far: their inserts, JournalIDs and len(Rows),
  \* the ticks since lastUpdate and since the ticker fired, what its timer
  \* does, and whether CleanTable closed the timer's channel
  made, rows, ids, len, age, tick, timer, closed,
  \* where each Push is, the batch each goroutine took out and not yet sent,
  \* the tables FlushAll has yet to visit, the one it is sending for
  push, taken, todo,
  \* the batches handed to Sender.Send
  sent

lock == <<tableAt, writer, readers>>
objects == <<made, rows, ids, len, age, tick, timer, closed>>
vars == <<lock, objects, push, taken, todo, sent>>

\* Names of the goroutines that can hold a batch or c.mu.
Pusher(p) == <<"push", p>>
Timer(t) == <<"timer", t>>
Flusher == <<"flushall", 0>>
Goroutines == {Pusher(p) : p \in Inserts} \cup {Timer(t) : t \in Tables}
              \cup {Flusher}

ASSUME NoOneAssumption == NoOne \notin Goroutines

Batch == [rows : SUBSET Inserts, ids : SUBSET Inserts]
NoBatch == [rows |-> {}, ids |-> {}]
Steps == {"new", "missed", "reading", "writing", "done"}

Linked == {tableAt[k] : k \in Keys} \ {NoTable}
Locked == writer # NoOne \/ readers # {}

Init ==
  /\ tableAt = [k \in Keys |-> NoTable] /\ writer = NoOne /\ readers = {}
  /\ made = 0
  /\ rows = [t \in Tables |-> {}] /\ ids = [t \in Tables |-> {}]
  /\ len = [t \in Tables |-> 0]
  /\ age = [t \in Tables |-> 0] /\ tick = [t \in Tables |-> 0]
  /\ timer = [t \in Tables |-> "none"] /\ closed = {}
  /\ push = [p \in Inserts |-> "new"]
  /\ taken = [g \in Goroutines |-> NoBatch]
  /\ todo = {}
  /\ sent = {}
-----------------------------------------------------------------------------
(* Table.Add, and doFlush: the batch leaves the Table, then t.mu is free.  *)

\* What doFlush puts into the request.
Contents(t, more, moreIds) ==
  [rows |-> rows[t] \cup more, ids |-> ids[t] \cup moreIds]

\* Mutant: the ids of the batch stay in the table.
EmptiedRowsOnly(t) ==
  /\ rows' = [rows EXCEPT ![t] = {}]
  /\ len' = [len EXCEPT ![t] = 0]
  /\ UNCHANGED ids

Emptied(t) ==
  /\ rows' = [rows EXCEPT ![t] = {}]
  /\ ids' = [ids EXCEPT ![t] = {}]
  /\ len' = [len EXCEPT ![t] = 0]

\* Mutant: a full table waits for one more row.
OverFull(t, p) == len[t] + RowsOf[p] > FlushCount

Full(t, p) == len[t] + RowsOf[p] >= FlushCount

\* Add of insert p to table t, by the Push that holds c.mu.
Add(t, p) ==
  LET id == {p} \cap Journaled IN
  IF Full(t, p)
  THEN /\ taken' = [taken EXCEPT ![Pusher(p)] = Contents(t, {p}, id)]
       /\ Emptied(t)
  ELSE /\ rows' = [rows EXCEPT ![t] = @ \cup {p}]
       /\ ids' = [ids EXCEPT ![t] = @ \cup id]
       /\ len' = [len EXCEPT ![t] = @ + RowsOf[p]]
       /\ UNCHANGED taken
-----------------------------------------------------------------------------
(* Push.                                                                   *)

\* RLock, and the table is in the map: Add under the read lock.
PushHit(p) ==
  /\ p \notin Opaque /\ push[p] = "new" /\ writer = NoOne
  /\ tableAt[KeyOf[p]] # NoTable
  /\ readers' = readers \cup {p}
  /\ push' = [push EXCEPT ![p] = "reading"]
  /\ Add(tableAt[KeyOf[p]], p)
  /\ UNCHANGED <<tableAt, writer, made, age, tick, timer, closed, todo, sent>>

\* RLock, no table, RUnlock: what was read is stale from here on.
PushMiss(p) ==
  /\ p \notin Opaque /\ push[p] = "new" /\ writer = NoOne
  /\ tableAt[KeyOf[p]] = NoTable
  /\ push' = [push EXCEPT ![p] = "missed"]
  /\ UNCHANGED <<lock, objects, taken, todo, sent>>

\* Mutant: no second look under the write lock.
PushLockedBlindly(p) ==
  /\ push[p] = "missed" /\ ~Locked
  /\ writer' = Pusher(p)
  /\ push' = [push EXCEPT ![p] = "writing"]
  /\ made < MaxTables
  /\ made' = made + 1
  /\ tableAt' = [tableAt EXCEPT ![KeyOf[p]] = made + 1]
  /\ timer' = [timer EXCEPT ![made + 1] = "running"]
  /\ Add(made + 1, p)
  /\ UNCHANGED <<readers, age, tick, closed, todo, sent>>

\* Lock, the second look, addTable if there is still none, and Add.
PushLocked(p) ==
  /\ push[p] = "missed" /\ ~Locked
  /\ writer' = Pusher(p)
  /\ push' = [push EXCEPT ![p] = "writing"]
  /\ IF tableAt[KeyOf[p]] # NoTable
     THEN /\ Add(tableAt[KeyOf[p]], p)
          /\ UNCHANGED <<tableAt, made, age, tick, timer>>
     ELSE /\ made < MaxTables
          /\ made' = made + 1
          /\ tableAt' = [tableAt EXCEPT ![KeyOf[p]] = made + 1]
          /\ timer' = [timer EXCEPT ![made + 1] = "running"]
          /\ Add(made + 1, p)
          /\ UNCHANGED <<age, tick>>
  /\ UNCHANGED <<readers, closed, todo, sent>>

\* Sender.Send of the batch a goroutine took out of a table.
Handed(g) ==
  /\ sent' = IF taken[g] = NoBatch THEN sent ELSE sent \cup {taken[g]}
  /\ taken' = [taken EXCEPT ![g] = NoBatch]

\* Send, if the Add flushed; lastUpdate; and c.mu is released.
PushReturns(p) ==
  /\ push[p] \in {"reading", "writing"}
  /\ Handed(Pusher(p))
  /\ push' = [push EXCEPT ![p] = "done"]
  /\ age' = [age EXCEPT ![tableAt[KeyOf[p]]] = 0]
  /\ IF push[p] = "reading"
     THEN readers' = readers \ {p} /\ UNCHANGED writer
     ELSE writer' = NoOne /\ UNCHANGED readers
  /\ UNCHANGED <<tableAt, made, rows, ids, len, tick, timer, closed, todo>>

PushOpaque(p) ==
  /\ p \in Opaque /\ push[p] = "new"
  /\ push' = [push EXCEPT ![p] = "done"]
  /\ sent' = sent \cup {[rows |-> {p}, ids |-> {p} \cap Journaled]}
  /\ UNCHANGED <<lock, objects, taken, todo>>
-----------------------------------------------------------------------------
(* The timer of a table: CheckFlush every FlushInterval, until it is       *)
(* stopped.                                                                *)

\* Mutant: the timer of an idle table returns.
TimerStopsWhenEmpty(t) ==
  /\ timer[t] = "running" /\ tick[t] >= FlushInterval
  /\ tick' = [tick EXCEPT ![t] = 0]
  /\ taken' = [taken EXCEPT ![Timer(t)] = Contents(t, {}, {})]
  /\ Emptied(t)
  /\ timer' = [timer EXCEPT ![t] = IF rows[t] = {} THEN "none" ELSE "flushing"]
  /\ UNCHANGED <<lock, made, age, closed, push, todo, sent>>

TimerFires(t) ==
  /\ timer[t] = "running" /\ tick[t] >= FlushInterval
  /\ tick' = [tick EXCEPT ![t] = 0]
  /\ taken' = [taken EXCEPT ![Timer(t)] = Contents(t, {}, {})]
  /\ Emptied(t)
  /\ timer' = [timer EXCEPT ![t] = "flushing"]
  /\ UNCHANGED <<lock, made, age, closed, push, todo, sent>>

TimerSends(t) ==
  /\ timer[t] = "flushing"
  /\ Handed(Timer(t))
  /\ timer' = [timer EXCEPT ![t] = "running"]
  /\ UNCHANGED <<lock, made, rows, ids, len, age, tick, closed, push, todo>>

\* The select sees the closed channel; when the ticker is due as well it may
\* choose to fire once more instead.
TimerReturns(t) ==
  /\ timer[t] = "running" /\ t \in closed
  /\ timer' = [timer EXCEPT ![t] = "none"]
  /\ tick' = [tick EXCEPT ![t] = 0]
  /\ UNCHANGED <<lock, made, rows, ids, len, age, closed, push, taken, todo,
                 sent>>

Tick ==
  /\ \A t \in Tables :
       timer[t] # "none" => timer[t] = "running" /\ tick[t] < FlushInterval
  /\ age' = [t \in Tables |->
               IF t \in Linked /\ age[t] <= CleanInterval THEN age[t] + 1
               ELSE age[t]]
  /\ tick' = [t \in Tables |->
                IF timer[t] = "none" \/ tick[t] >= FlushInterval THEN tick[t]
                ELSE tick[t] + 1]
  /\ UNCHANGED <<lock, made, rows, ids, len, timer, closed, push, taken, todo,
                 sent>>
-----------------------------------------------------------------------------
(* The removal of tables, and FlushAll, under the write lock.              *)

\* Mutant: CleanTable leaves the timer's channel open.
UnlinkOnly(gone) ==
  /\ tableAt' = [k \in Keys |->
                   IF tableAt[k] \in gone THEN NoTable ELSE tableAt[k]]
  /\ UNCHANGED <<writer, readers, objects, push, taken, todo, sent>>

\* CleanTable on each of the tables, and their deletion from the map.
Unlink(gone) ==
  /\ closed' = closed \cup gone
  /\ tableAt' = [k \in Keys |->
                   IF tableAt[k] \in gone THEN NoTable ELSE tableAt[k]]
  /\ age' = [t \in Tables |-> IF t \in gone THEN 0 ELSE age[t]]
  /\ UNCHANGED <<writer, readers, made, rows, ids, len, tick, timer, push,
                 taken, todo, sent>>

Aged == {t \in Linked : age[t] > CleanInterval}

\* The cleaner: tables with no insert for CleanInterval, whatever they hold.
CleanTables ==
  /\ CleanInterval > 0 /\ ~Locked
  /\ Aged # {}
  /\ Unlink(Aged)

\* GET /debug/tables-clean: tables that hold nothing.
TablesCleanHandler ==
  /\ ~Locked
  /\ LET empty == {t \in Linked : rows[t] = {}} IN
       empty # {} /\ Unlink(empty)

FlushAllBegin ==
  /\ ~Locked /\ Linked # {}
  /\ writer' = Flusher
  /\ todo' = Linked
  /\ UNCHANGED <<tableAt, readers, objects, push, taken, sent>>

FlushAllTable(t) ==
  /\ writer = Flusher /\ t \in todo /\ taken[Flusher] = NoBatch
  /\ todo' = todo \ {t}
  /\ taken' = [taken EXCEPT ![Flusher] = Contents(t, {}, {})]
  /\ Emptied(t)
  /\ UNCHANGED <<lock, made, age, tick, timer, closed, push, sent>>

FlushAllSend ==
  /\ writer = Flusher /\ taken[Flusher] # NoBatch
  /\ Handed(Flusher)
  /\ UNCHANGED <<lock, objects, push, todo>>

FlushAllEnd ==
  /\ writer = Flusher /\ todo = {} /\ taken[Flusher] = NoBatch
  /\ writer' = NoOne
  /\ UNCHANGED <<tableAt, readers, objects, push, taken, todo, sent>>

Next ==
  \/ \E p \in Inserts :
       PushHit(p) \/ PushMiss(p) \/ PushLocked(p) \/ PushReturns(p)
       \/ PushOpaque(p)
  \/ \E t \in Tables : TimerFires(t) \/ TimerSends(t) \/ TimerReturns(t)
                     \/ FlushAllTable(t)
  \/ Tick \/ CleanTables \/ TablesCleanHandler
  \/ FlushAllBegin \/ FlushAllSend \/ FlushAllEnd

Spec == Init /\ [][Next]_vars
\* c.mu is fair to readers and writers, a goroutine that holds a lock or a
\* batch goes on, and time passes.
Fairness ==
  /\ \A p \in Inserts :
       /\ SF_vars(PushHit(p) \/ PushMiss(p) \/ PushLocked(p))
       /\ WF_vars(PushReturns(p) \/ PushOpaque(p))
  /\ \A t \in Tables : WF_vars(TimerFires(t) \/ TimerSends(t) \/ TimerReturns(t))
  /\ WF_vars(Tick)
  /\ WF_vars((\E t \in Tables : FlushAllTable(t)) \/ FlushAllSend \/ FlushAllEnd)

LiveSpec == Spec /\ Fairness
-----------------------------------------------------------------------------
\* The types of the variables.  No table rests with flush_count rows or more.
TypeOK ==
  /\ tableAt \in [Keys -> Tables \cup {NoTable}]
  /\ writer \in Goroutines \cup {NoOne} /\ readers \in SUBSET Inserts
  /\ made \in 0 .. MaxTables
  /\ rows \in [Tables -> SUBSET Inserts] /\ ids \in [Tables -> SUBSET Inserts]
  /\ len \in [Tables -> 0 .. FlushCount - 1] /\ age \in [Tables -> Nat]
  /\ tick \in [Tables -> Nat]
  /\ timer \in [Tables -> {"none", "running", "flushing"}]
  /\ closed \in SUBSET Tables
  /\ push \in [Inserts -> Steps]
  /\ taken \in [Goroutines -> Batch]
  /\ todo \in SUBSET Tables
  /\ sent \in SUBSET Batch

Added == {p \in Inserts : push[p] \in {"reading", "writing", "done"}}

\* An insert that was added is in exactly one place: a table the map still
\* reaches, the batch of one goroutine, or one batch handed to the sender.
\* None is stranded in a table that left the map, none is sent twice.
Conserved ==
  \A p \in Added :
    Cardinality({t \in Linked : p \in rows[t]})
    + Cardinality({g \in Goroutines : p \in taken[g].rows})
    + Cardinality({b \in sent : p \in b.rows}) = 1

\* The journal ids of a batch are those of its rows: what the sender acks is
\* what it sent.
BatchAcksItsRows ==
  \A b \in sent \cup {taken[g] : g \in Goroutines} :
    b.ids = b.rows \cap Journaled

\* A table in the map has a timer that will fire, and the timer of any other
\* table has been told to stop: none is forgotten, none leaks.
OneTimerPerTable ==
  \A t \in 1 .. made :
    IF t \in Linked THEN timer[t] # "none" /\ t \notin closed
    ELSE timer[t] # "none" => t \in closed

\* Every insert is handed to the sender, at the latest by its table's timer.
EverySent == \A p \in Inserts : <>(\E b \in sent : p \in b.rows)
=============================================================================
