-------------------------- MODULE CollectorProofs ---------------------------
(***************************************************************************)
(* Proofs about Collector for any finite number of inserts, keys and       *)
(* tables, any flush_count and flush_interval.                             *)
(***************************************************************************)
EXTENDS Collector, FiniteSetTheorems, TLAPS

-----------------------------------------------------------------------------
(* The inductive invariant, in named parts.                                *)

\* Whoever is in Add or on its way out holds c.mu, and its table is in the map.
Inside(p) == push[p] \in {"reading", "writing"}

Locks ==
  \A p \in Inserts :
    /\ push[p] = "reading" => p \in readers
    /\ push[p] = "writing" => writer = Pusher(p)
    /\ Inside(p) => tableAt[KeyOf[p]] # NoTable

\* Only tables that were made are in the map, have a timer, or are closed.
Timers ==
  \A t \in Tables :
    /\ t \in Linked => t \in 1..made /\ timer[t] # "none" /\ t \notin closed
    /\ t \notin Linked /\ timer[t] # "none" => t \in closed
    /\ t \in closed => t \in 1..made

\* A goroutine has a batch only between its doFlush and its Send.
Takers ==
  /\ \A p \in Inserts : ~Inside(p) => taken[Pusher(p)] = NoBatch
  /\ \A t \in Tables : timer[t] # "flushing" => taken[Timer(t)] = NoBatch

\* The journal ids go where their rows go.
IdsOfRows ==
  /\ \A t \in Tables : ids[t] = rows[t] \cap Journaled
  /\ \A g \in Goroutines : taken[g].ids = taken[g].rows \cap Journaled
  /\ \A b \in sent : b.ids = b.rows \cap Journaled

Somewhere(p) ==
  \/ \E t \in Tables : p \in rows[t]
  \/ \E g \in Goroutines : p \in taken[g].rows
  \/ \E b \in sent : p \in b.rows

Once(p) ==
  /\ \A t, u \in Tables : p \in rows[t] /\ p \in rows[u] => t = u
  /\ \A g, h \in Goroutines : p \in taken[g].rows /\ p \in taken[h].rows => g = h
  /\ \A b, c \in sent : p \in b.rows /\ p \in c.rows => b = c
  /\ \A t \in Tables, g \in Goroutines : ~(p \in rows[t] /\ p \in taken[g].rows)
  /\ \A t \in Tables, b \in sent : ~(p \in rows[t] /\ p \in b.rows)
  /\ \A g \in Goroutines, b \in sent : ~(p \in taken[g].rows /\ p \in b.rows)

\* What was added is somewhere, once; what was not is nowhere.
Placed == \A p \in Inserts : (p \in Added <=> Somewhere(p)) /\ Once(p)

IInv == TypeOK /\ Locks /\ Timers /\ Takers /\ IdsOfRows /\ Placed
-----------------------------------------------------------------------------
LEMMA Names ==
  /\ \A p \in Inserts : Pusher(p) \in Goroutines /\ Pusher(p) # Flusher
                        /\ Pusher(p) # NoOne
  /\ \A t \in Tables : Timer(t) \in Goroutines /\ Timer(t) # Flusher
  /\ \A p, q \in Inserts : Pusher(p) = Pusher(q) => p = q
  /\ \A t, u \in Tables : Timer(t) = Timer(u) => t = u
  /\ \A p \in Inserts, t \in Tables : Pusher(p) # Timer(t)
  /\ Flusher \in Goroutines /\ Flusher # NoOne
  BY NoOneAssumption DEF Pusher, Timer, Flusher, Goroutines

LEMMA Numbers ==
  /\ MaxTables \in Nat /\ FlushCount \in Nat \ {0} /\ FlushInterval \in Nat \ {0}
  /\ CleanInterval \in Nat /\ 0 \in 0..(FlushCount - 1)
  /\ \A p \in Inserts : RowsOf[p] \in Nat \ {0} /\ KeyOf[p] \in Keys
  /\ NoTable \notin Tables /\ \A t \in Tables : t \in Nat /\ t # 0
  BY CollectorAssumption DEF Tables

LEMMA InitIInv == Init => IInv
<1> SUFFICES ASSUME Init PROVE IInv
  OBVIOUS
<1>1. TypeOK
  BY Numbers DEF Init, TypeOK, Batch, NoBatch, Steps
<1>2. Locks /\ Takers /\ IdsOfRows
  BY Names DEF Init, Locks, Inside, Takers, IdsOfRows, NoBatch
<1>3. Timers
  BY DEF Init, Timers, Linked
<1>4. Placed
  BY DEF Init, Placed, Somewhere, Once, Added, NoBatch
<1>5. QED
  BY <1>1, <1>2, <1>3, <1>4 DEF IInv
-----------------------------------------------------------------------------
(* How inserts go from place to place.                                     *)

\* doFlush by the goroutine g, of a table whose new insert, if any, is p.
LEMMA FlushMoves ==
  ASSUME Placed, TypeOK, NEW t \in Tables, NEW g \in Goroutines, taken[g] = NoBatch,
         NEW more \in SUBSET (Inserts \ Added), NEW i \in SUBSET Inserts,
         \A p, q \in more : p = q,
         taken' = [taken EXCEPT ![g] = Contents(t, more, i)], Emptied(t),
         sent' = sent, Added' = Added \cup more
  PROVE  Placed'
<1>1. /\ \A h \in Goroutines : taken'[h].rows = IF h = g THEN rows[t] \cup more
                                                ELSE taken[h].rows
      /\ taken[g].rows = {}
  BY DEF TypeOK, Contents, NoBatch
<1>2. \A u \in Tables : rows'[u] = IF u = t THEN {} ELSE rows[u]
  BY DEF Emptied, TypeOK
<1> SUFFICES ASSUME NEW p \in Inserts PROVE (p \in Added' <=> Somewhere(p)') /\ Once(p)'
  BY DEF Placed
<1>3. (p \in Added <=> Somewhere(p)) /\ Once(p)
  BY DEF Placed
<1>4. CASE p \in more
  BY <1>1, <1>2, <1>3, <1>4 DEF Somewhere, Once
<1>5. CASE p \notin more
  <2>1. Somewhere(p)' <=> Somewhere(p)
    BY <1>1, <1>2, <1>5 DEF Somewhere
  <2>2. Once(p)'
    BY <1>1, <1>2, <1>3, <1>5 DEF Once
  <2>3. QED
    BY <2>1, <2>2, <1>3, <1>5
<1>6. QED
  BY <1>4, <1>5

LEMMA FlushMovesNone ==
  ASSUME Placed, TypeOK, NEW t \in Tables, NEW g \in Goroutines, taken[g] = NoBatch,
         taken' = [taken EXCEPT ![g] = Contents(t, {}, {})], Emptied(t),
         sent' = sent, Added' = Added
  PROVE  Placed'
<1>1. {} \in SUBSET (Inserts \ Added) /\ {} \in SUBSET Inserts /\ Added' = Added \cup {}
  OBVIOUS
<1>2. QED
  BY <1>1, FlushMoves

\* An insert goes into a table and stays there.
LEMMA RowsMove ==
  ASSUME Placed, TypeOK, NEW t \in Tables, NEW p \in Inserts \ Added,
         rows' = [rows EXCEPT ![t] = @ \cup {p}],
         taken' = taken, sent' = sent, Added' = Added \cup {p}
  PROVE  Placed'
<1>1. \A u \in Tables : rows'[u] = IF u = t THEN rows[u] \cup {p} ELSE rows[u]
  BY DEF TypeOK
<1> SUFFICES ASSUME NEW q \in Inserts PROVE (q \in Added' <=> Somewhere(q)') /\ Once(q)'
  BY DEF Placed
<1>2. (q \in Added <=> Somewhere(q)) /\ Once(q)
  BY DEF Placed
<1>3. CASE q = p
  BY <1>1, <1>2, <1>3 DEF Somewhere, Once
<1>4. CASE q # p
  <2>1. \A u \in Tables : q \in rows'[u] <=> q \in rows[u]
    BY <1>1, <1>4
  <2>2. QED
    BY <2>1, <1>2, <1>4 DEF Somewhere, Once
<1>5. QED
  BY <1>3, <1>4

\* Send hands the batch of g to the sender.
LEMMA HandedMoves ==
  ASSUME Placed, TypeOK, NEW g \in Goroutines, Handed(g), rows' = rows, Added' = Added
  PROVE  Placed'
<1>1. /\ \A h \in Goroutines : taken'[h].rows = IF h = g THEN {} ELSE taken[h].rows
      /\ taken[g] = NoBatch => taken[g].rows = {}
  BY DEF TypeOK, Handed, NoBatch
<1>2. sent' = sent \cup {taken[g]} \/ (taken[g].rows = {} /\ sent' = sent)
  BY <1>1 DEF Handed
<1> SUFFICES ASSUME NEW p \in Inserts PROVE (p \in Added' <=> Somewhere(p)') /\ Once(p)'
  BY DEF Placed
<1>3. (p \in Added <=> Somewhere(p)) /\ Once(p)
  BY DEF Placed
<1>4. Somewhere(p)' <=> Somewhere(p)
  BY <1>1, <1>2 DEF Somewhere
<1>5. Once(p)'
  BY <1>1, <1>2, <1>3 DEF Once
<1>6. QED
  BY <1>3, <1>4, <1>5

\* Send keeps the types, and the ids with their rows.
LEMMA HandedTypes ==
  ASSUME TypeOK, IdsOfRows, NEW g \in Goroutines, Handed(g), UNCHANGED <<rows, ids>>
  PROVE  sent' \in SUBSET Batch /\ taken' \in [Goroutines -> Batch] /\ IdsOfRows'
<1>1. NoBatch \in Batch /\ NoBatch.ids = NoBatch.rows \cap Journaled
  BY DEF NoBatch, Batch
<1>2. sent' \in SUBSET Batch /\ taken' \in [Goroutines -> Batch]
  BY <1>1 DEF TypeOK, Handed
<1>3. IdsOfRows'
  BY <1>1 DEF TypeOK, Handed, IdsOfRows
<1>4. QED
  BY <1>2, <1>3

\* doFlush without a new insert keeps them as well.
LEMMA FlushTypes ==
  ASSUME TypeOK, IdsOfRows, NEW g \in Goroutines, NEW t \in Tables,
         taken' = [taken EXCEPT ![g] = Contents(t, {}, {})], Emptied(t), sent' = sent
  PROVE  /\ rows' \in [Tables -> SUBSET Inserts] /\ ids' \in [Tables -> SUBSET Inserts]
         /\ len' \in [Tables -> 0..(FlushCount - 1)]
         /\ taken' \in [Goroutines -> Batch] /\ IdsOfRows'
<1>1. /\ Contents(t, {}, {}) \in Batch
      /\ Contents(t, {}, {}).ids = Contents(t, {}, {}).rows \cap Journaled
  BY DEF TypeOK, IdsOfRows, Contents, Batch
<1>2. /\ rows' \in [Tables -> SUBSET Inserts] /\ ids' \in [Tables -> SUBSET Inserts]
      /\ len' \in [Tables -> 0..(FlushCount - 1)]
  BY Numbers DEF TypeOK, Emptied
<1>3. taken' \in [Goroutines -> Batch]
  BY <1>1 DEF TypeOK
<1>4. IdsOfRows'
  BY <1>1 DEF TypeOK, IdsOfRows, Emptied
<1>5. QED
  BY <1>2, <1>3, <1>4
-----------------------------------------------------------------------------
(* The steps of Push.                                                      *)

\* Add by the Push of p, which comes to hold c.mu by it.
LEMMA AddStep ==
  ASSUME IInv, NEW p \in Inserts, NEW t \in Tables, NEW s \in {"reading", "writing"},
         push[p] \in {"new", "missed"}, push' = [push EXCEPT ![p] = s],
         Add(t, p), sent' = sent
  PROVE  /\ rows' \in [Tables -> SUBSET Inserts] /\ ids' \in [Tables -> SUBSET Inserts]
         /\ len' \in [Tables -> 0..(FlushCount - 1)]
         /\ taken' \in [Goroutines -> Batch] /\ push' \in [Inserts -> Steps]
         /\ timer' = timer => Takers'
         /\ \A g \in Goroutines : g # Pusher(p) => taken'[g] = taken[g]
         /\ IdsOfRows' /\ Placed'
<1> DEFINE id == {p} \cap Journaled
<1>1. /\ taken[Pusher(p)] = NoBatch /\ p \notin Added /\ Added' = Added \cup {p}
      /\ push' \in [Inserts -> Steps] /\ Inside(p)'
      /\ \A q \in Inserts : q # p => (Inside(q)' <=> Inside(q))
  BY DEF IInv, Takers, Inside, TypeOK, Added, Steps
<1>2. CASE Full(t, p)
  <2>1. /\ taken' = [taken EXCEPT ![Pusher(p)] = Contents(t, {p}, id)]
        /\ Emptied(t)
    BY <1>2 DEF Add
  <2>2. Placed'
    <3>1. /\ {p} \in SUBSET (Inserts \ Added) /\ id \in SUBSET Inserts
          /\ Pusher(p) \in Goroutines
      BY <1>1, Names
    <3>2. QED
      BY <1>1, <2>1, <3>1, FlushMoves DEF IInv
  <2>3. Contents(t, {p}, id) \in Batch
    BY DEF IInv, TypeOK, Contents, Batch
  <2>4. /\ rows' \in [Tables -> SUBSET Inserts] /\ ids' \in [Tables -> SUBSET Inserts]
        /\ len' \in [Tables -> 0..(FlushCount - 1)]
    BY <2>1, Numbers DEF IInv, TypeOK, Emptied
  <2>5. taken' \in [Goroutines -> Batch]
    BY <2>1, <2>3 DEF IInv, TypeOK
  <2>6. IdsOfRows'
    <3>1. Contents(t, {p}, id).ids = Contents(t, {p}, id).rows \cap Journaled
      BY DEF IInv, IdsOfRows, Contents
    <3>2. QED
      BY <2>1, <3>1, Names DEF IInv, TypeOK, IdsOfRows, Emptied
  <2>7. \A g \in Goroutines : g # Pusher(p) => taken'[g] = taken[g]
    BY <2>1 DEF IInv, TypeOK
  <2>8. timer' = timer => Takers'
    BY <1>1, <2>7, Names DEF IInv, Takers
  <2>9. QED
    BY <1>1, <2>2, <2>4, <2>5, <2>6, <2>7, <2>8
<1>3. CASE ~Full(t, p)
  <2>1. /\ rows' = [rows EXCEPT ![t] = @ \cup {p}]
        /\ ids' = [ids EXCEPT ![t] = @ \cup id]
        /\ len' = [len EXCEPT ![t] = @ + RowsOf[p]]
        /\ taken' = taken
    BY <1>3 DEF Add
  <2>2. Placed'
    BY <1>1, <2>1, RowsMove DEF IInv
  <2>3. len[t] + RowsOf[p] \in 0..(FlushCount - 1)
    BY <1>3, Numbers DEF Full, IInv, TypeOK
  <2>4. /\ rows' \in [Tables -> SUBSET Inserts] /\ ids' \in [Tables -> SUBSET Inserts]
        /\ len' \in [Tables -> 0..(FlushCount - 1)]
    BY <2>1, <2>3 DEF IInv, TypeOK
  <2>5. IdsOfRows'
    BY <2>1 DEF IInv, TypeOK, IdsOfRows
  <2>6. timer' = timer => Takers'
    BY <1>1, <2>1, Names DEF IInv, Takers
  <2>7. QED
    BY <1>1, <2>1, <2>2, <2>4, <2>5, <2>6 DEF IInv, TypeOK
<1>4. QED
  BY <1>2, <1>3

LEMMA PushHitStep == ASSUME IInv, NEW p \in Inserts, PushHit(p) PROVE IInv'
<1> USE DEF lock, objects
<1>1. tableAt[KeyOf[p]] \in Tables
  BY Numbers DEF PushHit, IInv, TypeOK
<1>2. UNCHANGED <<tableAt, writer, made, age, tick, timer, closed, todo, sent>>
  BY DEF PushHit
<1>3. /\ rows' \in [Tables -> SUBSET Inserts] /\ ids' \in [Tables -> SUBSET Inserts]
      /\ len' \in [Tables -> 0..(FlushCount - 1)]
      /\ taken' \in [Goroutines -> Batch] /\ push' \in [Inserts -> Steps]
      /\ Takers' /\ IdsOfRows' /\ Placed'
  BY <1>1, <1>2, AddStep DEF PushHit
<1>4. TypeOK'
  BY <1>2, <1>3 DEF IInv, TypeOK, PushHit
<1>5. Locks'
  BY <1>1, <1>2, Numbers DEF IInv, TypeOK, Locks, Inside, PushHit
<1>6. Timers'
  BY <1>2 DEF IInv, Timers, Linked
<1>7. QED
  BY <1>3, <1>4, <1>5, <1>6 DEF IInv

LEMMA PushLockedStep == ASSUME IInv, NEW p \in Inserts, PushLocked(p) PROVE IInv'
<1> USE DEF lock, objects
<1>1. /\ UNCHANGED <<readers, closed, todo, sent, age, tick>> /\ writer' = Pusher(p)
      /\ push[p] = "missed" /\ push' = [push EXCEPT ![p] = "writing"]
      /\ ~Locked /\ KeyOf[p] \in Keys
  BY Numbers DEF PushLocked
<1>2. \A q \in Inserts : ~Inside(q)
  BY <1>1, Names DEF IInv, Locks, Inside, Locked
<1>3. \A q \in Inserts : Inside(q)' => q = p
  BY <1>1, <1>2 DEF Inside, IInv, TypeOK
<1>4. CASE tableAt[KeyOf[p]] # NoTable
  <2>1. tableAt[KeyOf[p]] \in Tables
    BY <1>1, <1>4 DEF IInv, TypeOK
  <2>2. UNCHANGED <<tableAt, made, timer>> /\ Add(tableAt[KeyOf[p]], p)
    BY <1>4 DEF PushLocked
  <2>3. /\ rows' \in [Tables -> SUBSET Inserts] /\ ids' \in [Tables -> SUBSET Inserts]
        /\ len' \in [Tables -> 0..(FlushCount - 1)]
        /\ taken' \in [Goroutines -> Batch] /\ push' \in [Inserts -> Steps]
        /\ Takers' /\ IdsOfRows' /\ Placed'
    BY <1>1, <2>1, <2>2, AddStep
  <2>4. TypeOK'
    BY <1>1, <2>2, <2>3, Names DEF IInv, TypeOK
  <2>5. Locks'
    BY <1>1, <1>3, <1>4, <2>2 DEF Locks, Inside, IInv, TypeOK
  <2>6. Timers'
    BY <1>1, <2>2 DEF IInv, Timers, Linked
  <2>7. QED
    BY <2>3, <2>4, <2>5, <2>6 DEF IInv
<1>5. CASE tableAt[KeyOf[p]] = NoTable
  <2> DEFINE new == made + 1
  <2>1. /\ made < MaxTables /\ made' = new /\ Add(new, p)
        /\ tableAt' = [tableAt EXCEPT ![KeyOf[p]] = new]
        /\ timer' = [timer EXCEPT ![new] = "running"]
    BY <1>5 DEF PushLocked
  <2>2. new \in Tables /\ new \in 1..new /\ made \in Nat /\ new # NoTable
        /\ made' \in 0..MaxTables /\ new \notin 1..made
    BY <2>1, Numbers DEF IInv, TypeOK, Tables
  <2> HIDE DEF new
  <2>3. /\ rows' \in [Tables -> SUBSET Inserts] /\ ids' \in [Tables -> SUBSET Inserts]
        /\ len' \in [Tables -> 0..(FlushCount - 1)]
        /\ taken' \in [Goroutines -> Batch] /\ push' \in [Inserts -> Steps]
        /\ IdsOfRows' /\ Placed'
        /\ \A g \in Goroutines : g # Pusher(p) => taken'[g] = taken[g]
    BY <1>1, <2>1, <2>2, AddStep
  <2>4. TypeOK'
    BY <1>1, <2>1, <2>2, <2>3, Names DEF IInv, TypeOK
  <2>5. Locks'
    BY <1>1, <1>3, <2>1, <2>2 DEF Locks, Inside, IInv, TypeOK
  <2>6. Linked' = Linked \cup {new}
    <3>1. \A k \in Keys : tableAt'[k] = IF k = KeyOf[p] THEN new ELSE tableAt[k]
      BY <2>1 DEF IInv, TypeOK
    <3>2. QED
      BY <3>1, <1>1, <1>5, <2>2 DEF Linked
  <2>7. /\ \A t \in Tables : t # new => timer'[t] = timer[t]
        /\ timer'[new] = "running"
        /\ new \notin closed /\ new \notin Linked /\ timer[new] = "none"
        /\ \A t \in 1..made : t \in 1..made'
    BY <2>1, <2>2 DEF new, IInv, TypeOK, Timers
  <2>8. Timers'
    BY <1>1, <2>1, <2>2, <2>6, <2>7 DEF IInv, Timers
  <2>9. Takers'
    BY <1>1, <2>3, <2>7, <1>3, Names DEF IInv, Takers, Inside, TypeOK
  <2>10. QED
    BY <2>3, <2>4, <2>5, <2>8, <2>9 DEF IInv
<1>6. QED
  BY <1>4, <1>5

\* The Push of p leaves: Send of what it took, and c.mu is free.
LEMMA PushReturnsStep == ASSUME IInv, NEW p \in Inserts, PushReturns(p) PROVE IInv'
<1> USE DEF lock, objects
<1>1. /\ UNCHANGED <<tableAt, made, rows, ids, len, tick, timer, closed, todo>>
      /\ Handed(Pusher(p)) /\ push' = [push EXCEPT ![p] = "done"]
      /\ age' = [age EXCEPT ![tableAt[KeyOf[p]]] = 0] /\ Inside(p)
      /\ taken' = [taken EXCEPT ![Pusher(p)] = NoBatch]
  BY DEF PushReturns, Inside, Handed
<1>2. Added' = Added
  BY <1>1 DEF Added, Inside, IInv, TypeOK
<1>3. Placed'
  BY <1>1, <1>2, HandedMoves, Names DEF IInv
<1>4. TypeOK' /\ IdsOfRows'
  <2>1. sent' \in SUBSET Batch /\ taken' \in [Goroutines -> Batch] /\ IdsOfRows'
    BY <1>1, HandedTypes, Names DEF IInv
  <2>2. age' \in [Tables -> Nat] /\ push' \in [Inserts -> Steps]
    BY <1>1 DEF IInv, TypeOK, Steps
  <2>3. writer' \in Goroutines \cup {NoOne} /\ readers' \in SUBSET Inserts
    BY DEF PushReturns, IInv, TypeOK
  <2>4. QED
    BY <1>1, <2>1, <2>2, <2>3 DEF IInv, TypeOK
<1>5. Locks'
  BY <1>1, Names DEF PushReturns, IInv, TypeOK, Locks, Inside
<1>6. Timers'
  BY <1>1 DEF IInv, Timers, Linked
<1>7. Takers'
  BY <1>1, Names DEF IInv, TypeOK, Takers, Inside
<1>8. QED
  BY <1>3, <1>4, <1>5, <1>6, <1>7 DEF IInv

LEMMA PushMissStep == ASSUME IInv, NEW p \in Inserts, PushMiss(p) PROVE IInv'
<1> USE DEF lock, objects
<1>1. /\ UNCHANGED <<tableAt, writer, readers, made, rows, ids, len, age, tick, timer,
                     closed, taken, todo, sent>>
      /\ push[p] = "new" /\ push' = [push EXCEPT ![p] = "missed"]
  BY DEF PushMiss
<1>2. TypeOK'
  BY <1>1 DEF IInv, TypeOK, Steps
<1>3. Locks' /\ Takers' /\ Added' = Added
  BY <1>1 DEF IInv, TypeOK, Locks, Takers, Inside, Added
<1>4. Timers' /\ IdsOfRows' /\ Placed'
  BY <1>1, <1>3 DEF IInv, Timers, Linked, IdsOfRows, Placed, Somewhere, Once
<1>5. QED
  BY <1>2, <1>3, <1>4 DEF IInv

\* An opaque insert goes to the sender past the tables.
LEMMA PushOpaqueStep == ASSUME IInv, NEW p \in Inserts, PushOpaque(p) PROVE IInv'
<1> DEFINE b == [rows |-> {p}, ids |-> {p} \cap Journaled]
<1> USE DEF lock, objects
<1>1. /\ UNCHANGED <<tableAt, writer, readers, made, rows, ids, len, age, tick, timer,
                     closed, taken, todo>>
      /\ push[p] = "new" /\ push' = [push EXCEPT ![p] = "done"]
      /\ sent' = sent \cup {b}
  BY DEF PushOpaque
<1>2. b \in Batch /\ b.rows = {p} /\ b.ids = b.rows \cap Journaled
  BY DEF Batch
<1> HIDE DEF b
<1>3. TypeOK'
  BY <1>1, <1>2 DEF IInv, TypeOK, Steps
<1>4. Locks' /\ Takers' /\ Added' = Added \cup {p} /\ p \notin Added
  BY <1>1 DEF IInv, TypeOK, Locks, Takers, Inside, Added
<1>5. Timers' /\ IdsOfRows'
  BY <1>1, <1>2 DEF IInv, Timers, Linked, IdsOfRows
<1>6. ASSUME NEW q \in Inserts PROVE (q \in Added' <=> Somewhere(q)') /\ Once(q)'
  <2>1. (q \in Added <=> Somewhere(q)) /\ Once(q)
    BY DEF IInv, Placed
  <2>2. CASE q = p
    BY <1>1, <1>2, <1>4, <2>1, <2>2 DEF Somewhere, Once
  <2>3. CASE q # p
    BY <1>1, <1>2, <1>4, <2>1, <2>3 DEF Somewhere, Once
  <2>4. QED
    BY <2>2, <2>3
<1>7. QED
  BY <1>3, <1>4, <1>5, <1>6 DEF IInv, Placed
-----------------------------------------------------------------------------
(* The timers.                                                             *)

LEMMA TimerFiresStep == ASSUME IInv, NEW t \in Tables, TimerFires(t) PROVE IInv'
<1> USE DEF lock, objects
<1>1. /\ UNCHANGED <<tableAt, writer, readers, made, age, closed, push, todo, sent>>
      /\ timer[t] = "running" /\ timer' = [timer EXCEPT ![t] = "flushing"]
      /\ tick' = [tick EXCEPT ![t] = 0] /\ Emptied(t)
      /\ taken' = [taken EXCEPT ![Timer(t)] = Contents(t, {}, {})]
  BY DEF TimerFires
<1>2. taken[Timer(t)] = NoBatch /\ Added' = Added
  BY <1>1 DEF IInv, Takers, Added
<1>3. Placed'
  BY <1>1, <1>2, FlushMovesNone, Names DEF IInv
<1>4. /\ rows' \in [Tables -> SUBSET Inserts] /\ ids' \in [Tables -> SUBSET Inserts]
      /\ len' \in [Tables -> 0..(FlushCount - 1)]
      /\ taken' \in [Goroutines -> Batch] /\ IdsOfRows'
  BY <1>1, FlushTypes, Names DEF IInv
<1>5. TypeOK'
  BY <1>1, <1>4 DEF IInv, TypeOK
<1>6. Locks' /\ Timers' /\ Takers'
  BY <1>1, Names DEF IInv, TypeOK, Locks, Inside, Timers, Linked, Takers
<1>7. QED
  BY <1>3, <1>4, <1>5, <1>6 DEF IInv

LEMMA TimerSendsStep == ASSUME IInv, NEW t \in Tables, TimerSends(t) PROVE IInv'
<1> USE DEF lock, objects
<1>1. /\ UNCHANGED <<tableAt, writer, readers, made, rows, ids, len, age, tick, closed,
                     push, todo>>
      /\ timer[t] = "flushing" /\ timer' = [timer EXCEPT ![t] = "running"]
      /\ Handed(Timer(t)) /\ taken' = [taken EXCEPT ![Timer(t)] = NoBatch]
  BY DEF TimerSends, Handed
<1>2. Placed'
  BY <1>1, HandedMoves, Names DEF IInv, Added
<1>3. sent' \in SUBSET Batch /\ taken' \in [Goroutines -> Batch] /\ IdsOfRows'
  BY <1>1, HandedTypes, Names DEF IInv
<1>4. TypeOK'
  BY <1>1, <1>3 DEF IInv, TypeOK
<1>5. Locks' /\ Timers' /\ Takers'
  BY <1>1, Names DEF IInv, TypeOK, Locks, Inside, Timers, Linked, Takers
<1>6. QED
  BY <1>2, <1>3, <1>4, <1>5 DEF IInv

LEMMA TimerReturnsStep == ASSUME IInv, NEW t \in Tables, TimerReturns(t) PROVE IInv'
<1> USE DEF lock, objects
<1>1. /\ UNCHANGED <<tableAt, writer, readers, made, rows, ids, len, age, closed, push,
                     taken, todo, sent>>
      /\ timer[t] = "running" /\ t \in closed /\ timer' = [timer EXCEPT ![t] = "none"]
      /\ tick' = [tick EXCEPT ![t] = 0]
  BY DEF TimerReturns
<1>2. TypeOK'
  BY <1>1 DEF IInv, TypeOK
<1>3. Locks' /\ Timers' /\ Takers'
  BY <1>1 DEF IInv, TypeOK, Locks, Inside, Timers, Linked, Takers
<1>4. IdsOfRows' /\ Placed'
  BY <1>1 DEF IInv, IdsOfRows, Placed, Somewhere, Once, Added
<1>5. QED
  BY <1>2, <1>3, <1>4 DEF IInv

LEMMA TickStep == ASSUME IInv, Tick PROVE IInv'
<1> USE DEF lock, objects
<1>1. UNCHANGED <<tableAt, writer, readers, made, rows, ids, len, timer, closed, push,
                  taken, todo, sent>>
  BY DEF Tick
<1>2. age' \in [Tables -> Nat] /\ tick' \in [Tables -> Nat]
  BY DEF Tick, IInv, TypeOK
<1>3. TypeOK'
  BY <1>1, <1>2 DEF IInv, TypeOK
<1>4. Locks' /\ Timers' /\ Takers'
  BY <1>1 DEF IInv, Locks, Inside, Timers, Linked, Takers
<1>5. IdsOfRows' /\ Placed'
  BY <1>1 DEF IInv, IdsOfRows, Placed, Somewhere, Once, Added
<1>6. QED
  BY <1>3, <1>4, <1>5 DEF IInv
-----------------------------------------------------------------------------
(* The removal of tables, and FlushAll.                                    *)

LEMMA UnlinkStep ==
  ASSUME IInv, ~Locked, NEW gone \in SUBSET Linked, Unlink(gone)
  PROVE  IInv' /\ Linked' = Linked \ gone
<1> USE DEF lock, objects
<1>1. /\ UNCHANGED <<writer, readers, made, rows, ids, len, tick, timer, push, taken,
                     todo, sent>>
      /\ closed' = closed \cup gone /\ gone \subseteq Tables
  BY DEF Unlink, IInv, TypeOK, Linked
<1>2. Linked' = Linked \ gone
  BY <1>1 DEF Unlink, Linked, IInv, TypeOK
<1>3. TypeOK'
  <2>1. tableAt' \in [Keys -> Tables \cup {NoTable}]
    BY DEF Unlink, IInv, TypeOK
  <2>2. age' \in [Tables -> Nat]
    BY DEF Unlink, IInv, TypeOK
  <2>3. QED
    BY <1>1, <2>1, <2>2 DEF IInv, TypeOK
<1>4. \A p \in Inserts : ~Inside(p)
  BY Names DEF IInv, Locks, Inside, Locked
<1>5. Locks'
  BY <1>1, <1>4 DEF IInv, Locks, Inside
<1>6. Timers'
  BY <1>1, <1>2 DEF IInv, Timers
<1>7. Takers' /\ IdsOfRows' /\ Placed'
  BY <1>1 DEF IInv, Takers, Inside, IdsOfRows, Placed, Somewhere, Once, Added
<1>8. QED
  BY <1>2, <1>3, <1>5, <1>6, <1>7 DEF IInv

LEMMA CleanStep == ASSUME IInv, CleanTables \/ TablesCleanHandler PROVE IInv'
<1>1. CASE CleanTables
  BY <1>1, UnlinkStep DEF CleanTables, Aged
<1>2. CASE TablesCleanHandler
  <2> DEFINE gone == {t \in Linked : rows[t] = {}}
  <2>1. ~Locked /\ Unlink(gone) /\ gone \in SUBSET Linked
    BY <1>2 DEF TablesCleanHandler
  <2> HIDE DEF gone
  <2>2. QED
    BY <2>1, UnlinkStep
<1>3. QED
  BY <1>1, <1>2

LEMMA FlushAllTableStep == ASSUME IInv, NEW t \in Tables, FlushAllTable(t) PROVE IInv'
<1> USE DEF lock, objects
<1>1. /\ UNCHANGED <<tableAt, writer, readers, made, age, tick, timer, closed, push, sent>>
      /\ taken[Flusher] = NoBatch /\ Emptied(t) /\ todo' = todo \ {t}
      /\ taken' = [taken EXCEPT ![Flusher] = Contents(t, {}, {})]
  BY DEF FlushAllTable
<1>2. Added' = Added
  BY <1>1 DEF Added
<1>3. Placed'
  BY <1>1, <1>2, FlushMovesNone, Names DEF IInv
<1>4. /\ rows' \in [Tables -> SUBSET Inserts] /\ ids' \in [Tables -> SUBSET Inserts]
      /\ len' \in [Tables -> 0..(FlushCount - 1)]
      /\ taken' \in [Goroutines -> Batch] /\ IdsOfRows'
  BY <1>1, FlushTypes, Names DEF IInv
<1>5. TypeOK'
  BY <1>1, <1>4 DEF IInv, TypeOK
<1>6. Locks' /\ Timers' /\ Takers'
  BY <1>1, Names DEF IInv, TypeOK, Locks, Inside, Timers, Linked, Takers
<1>7. QED
  BY <1>3, <1>4, <1>5, <1>6 DEF IInv

LEMMA FlushAllSendStep == ASSUME IInv, FlushAllSend PROVE IInv'
<1> USE DEF lock, objects
<1>1. /\ UNCHANGED <<tableAt, writer, readers, made, rows, ids, len, age, tick, timer,
                     closed, push, todo>>
      /\ Handed(Flusher) /\ taken' = [taken EXCEPT ![Flusher] = NoBatch]
  BY DEF FlushAllSend, Handed
<1>2. Placed'
  BY <1>1, HandedMoves, Names DEF IInv, Added
<1>3. sent' \in SUBSET Batch /\ taken' \in [Goroutines -> Batch] /\ IdsOfRows'
  BY <1>1, HandedTypes, Names DEF IInv
<1>4. TypeOK'
  BY <1>1, <1>3 DEF IInv, TypeOK
<1>5. Locks' /\ Timers' /\ Takers'
  BY <1>1, Names DEF IInv, TypeOK, Locks, Inside, Timers, Linked, Takers
<1>6. QED
  BY <1>2, <1>3, <1>4, <1>5 DEF IInv

LEMMA FlushAllLockStep == ASSUME IInv, FlushAllBegin \/ FlushAllEnd PROVE IInv'
<1> USE DEF lock, objects
<1>1. /\ UNCHANGED <<tableAt, readers, made, rows, ids, len, age, tick, timer, closed,
                     push, taken, sent>>
      /\ writer' \in {NoOne, Flusher} /\ todo' \in {todo, Linked}
      /\ \A p \in Inserts : writer # Pusher(p)
  BY Names DEF FlushAllBegin, FlushAllEnd, Locked
<1>2. TypeOK'
  <2>1. Linked \subseteq Tables
    BY DEF IInv, TypeOK, Linked
  <2>2. QED
    BY <1>1, <2>1, Names DEF IInv, TypeOK
<1>3. Locks' /\ Timers' /\ Takers'
  BY <1>1 DEF IInv, TypeOK, Locks, Inside, Timers, Linked, Takers
<1>4. IdsOfRows' /\ Placed'
  BY <1>1 DEF IInv, IdsOfRows, Placed, Somewhere, Once, Added
<1>5. QED
  BY <1>2, <1>3, <1>4 DEF IInv

LEMMA IInvStep == IInv /\ [Next]_vars => IInv'
<1> SUFFICES ASSUME IInv, [Next]_vars PROVE IInv'
  OBVIOUS
<1>1. CASE UNCHANGED vars
  <2>1. UNCHANGED <<tableAt, writer, readers, made, rows, ids, len, age, tick, timer,
                    closed, push, taken, todo, sent>>
    BY <1>1 DEF vars, lock, objects
  <2>2. TypeOK' /\ Locks' /\ Timers' /\ Takers'
    BY <2>1 DEF IInv, TypeOK, Locks, Inside, Timers, Linked, Takers
  <2>3. IdsOfRows' /\ Placed'
    BY <2>1 DEF IInv, IdsOfRows, Placed, Somewhere, Once, Added
  <2>4. QED
    BY <2>2, <2>3 DEF IInv
<1>2. CASE Next
  BY <1>2, PushHitStep, PushMissStep, PushLockedStep, PushReturnsStep, PushOpaqueStep,
     TimerFiresStep, TimerSendsStep, TimerReturnsStep, TickStep, CleanStep,
     FlushAllTableStep, FlushAllSendStep, FlushAllLockStep DEF Next
<1>3. QED
  BY <1>1, <1>2

\* The inductive invariant holds in every reachable state.
THEOREM Invariance == Spec => []IInv
<1>1. QED
  BY InitIInv, IInvStep, PTL DEF Spec
-----------------------------------------------------------------------------
(* The second invariant: a table that holds rows is in the map, and its    *)
(* last insert is no older than its timer, so that the cleaner finds it    *)
(* empty.  It needs the cleaner to be no faster than the timers.           *)

CleanerIsSlower == CleanInterval > 0 => CleanInterval >= FlushInterval

Holder(t) == \E p \in Inserts : Inside(p) /\ tableAt[KeyOf[p]] = t

Reached ==
  \A t \in Tables :
    /\ tick[t] <= FlushInterval
    /\ rows[t] # {} => t \in Linked /\ (age[t] <= tick[t] \/ Holder(t))

LEMMA InitReached == Init => Reached
  BY Numbers DEF Init, Reached

\* Add to a table that the map reaches, by the Push of p that holds c.mu.
LEMMA AddReached ==
  ASSUME IInv, Reached, NEW p \in Inserts, NEW t \in Tables, Add(t, p), Inside(p)',
         tableAt'[KeyOf[p]] = t, \A k \in Keys : tableAt[k] # NoTable => tableAt'[k] = tableAt[k],
         \A q \in Inserts : Inside(q) => Inside(q)', UNCHANGED <<age, tick>>
  PROVE  Reached'
<1>1. t \in Linked' /\ Holder(t)'
  BY Numbers DEF Linked, Holder
<1>2. \A u \in Tables : u # t => rows'[u] = rows[u]
  BY DEF Add, Emptied, IInv, TypeOK
<1>3. Linked \subseteq Linked'
  BY DEF Linked
<1>4. \A u \in Tables : Holder(u) => Holder(u)'
  BY Numbers DEF Holder, IInv, Locks
<1>5. QED
  BY <1>1, <1>2, <1>3, <1>4 DEF Reached

\* A step that only empties tables, or moves no insert and no clock.
LEMMA EmptierReached ==
  ASSUME Reached, \A t \in Tables : rows'[t] \in {{}, rows[t]},
         UNCHANGED <<tableAt, age, tick>>, \A p \in Inserts : Inside(p) => Inside(p)'
  PROVE  Reached'
<1>1. Linked' = Linked
  BY DEF Linked
<1>2. \A t \in Tables : Holder(t) => Holder(t)'
  BY DEF Holder
<1>3. QED
  BY <1>1, <1>2 DEF Reached

LEMMA PushReached ==
  ASSUME IInv, Reached, NEW p \in Inserts,
         PushHit(p) \/ PushMiss(p) \/ PushLocked(p) \/ PushReturns(p) \/ PushOpaque(p)
  PROVE  Reached'
<1> USE DEF lock, objects
<1>1. CASE PushHit(p)
  <2>1. tableAt[KeyOf[p]] \in Tables /\ Inside(p)'
        /\ \A q \in Inserts : Inside(q) => Inside(q)'
    BY <1>1, Numbers DEF PushHit, IInv, TypeOK, Inside
  <2>2. QED
    BY <1>1, <2>1, AddReached DEF PushHit
<1>2. CASE PushLocked(p)
  <2>1. Inside(p)' /\ \A q \in Inserts : Inside(q) => Inside(q)'
    BY <1>2 DEF PushLocked, IInv, TypeOK, Inside
  <2>2. CASE tableAt[KeyOf[p]] # NoTable
    <3>1. tableAt[KeyOf[p]] \in Tables
      BY <2>2, Numbers DEF IInv, TypeOK
    <3>2. QED
      BY <1>2, <2>1, <2>2, <3>1, AddReached DEF PushLocked
  <2>3. CASE tableAt[KeyOf[p]] = NoTable
    <3>1. /\ made < MaxTables /\ tableAt' = [tableAt EXCEPT ![KeyOf[p]] = made + 1]
          /\ Add(made + 1, p) /\ UNCHANGED <<age, tick>>
      BY <1>2, <2>3 DEF PushLocked
    <3>2. made + 1 \in Tables
      BY <3>1, Numbers DEF IInv, TypeOK, Tables
    <3>3. /\ tableAt'[KeyOf[p]] = made + 1
          /\ \A k \in Keys : tableAt[k] # NoTable => tableAt'[k] = tableAt[k]
      BY <2>3, <3>1, Numbers DEF IInv, TypeOK
    <3>4. QED
      BY <2>1, <3>1, <3>2, <3>3, AddReached
  <2>4. QED
    BY <2>2, <2>3
<1>3. CASE PushReturns(p)
  <2> DEFINE u == tableAt[KeyOf[p]]
  <2>1. /\ UNCHANGED <<tableAt, rows, tick>> /\ Inside(p)
        /\ push' = [push EXCEPT ![p] = "done"] /\ age' = [age EXCEPT ![u] = 0]
    BY <1>3 DEF PushReturns, Inside
  <2>2. u \in Tables
    BY <2>1, Numbers DEF IInv, TypeOK, Locks
  <2>3. age'[u] = 0 /\ \A t \in Tables : t # u => age'[t] = age[t]
    BY <2>1, <2>2 DEF IInv, TypeOK
  <2>4. ASSUME NEW t \in Tables, t # u, Holder(t) PROVE Holder(t)'
    <3>1. PICK q \in Inserts : Inside(q) /\ tableAt[KeyOf[q]] = t
      BY <2>4 DEF Holder
    <3>2. q # p
      BY <2>4, <3>1
    <3>3. Inside(q)' /\ tableAt'[KeyOf[q]] = t
      BY <2>1, <3>1, <3>2 DEF Inside, IInv, TypeOK
    <3>4. QED
      BY <3>3 DEF Holder
  <2> HIDE DEF u
  <2>5. tick[u] \in Nat /\ Linked' = Linked
    BY <2>1, <2>2 DEF IInv, TypeOK, Linked
  <2>6. ASSUME NEW t \in Tables
        PROVE  /\ tick'[t] <= FlushInterval
               /\ rows'[t] # {} => t \in Linked' /\ (age'[t] <= tick'[t] \/ Holder(t)')
    BY <2>1, <2>3, <2>4, <2>5 DEF Reached
  <2>7. QED
    BY <2>6 DEF Reached
<1>4. CASE PushMiss(p) \/ PushOpaque(p)
  <2>1. UNCHANGED <<tableAt, rows, age, tick>> /\ \A q \in Inserts : Inside(q) => Inside(q)'
    BY <1>4 DEF PushMiss, PushOpaque, Inside, IInv, TypeOK
  <2>2. QED
    BY <2>1, EmptierReached
<1>5. QED
  BY <1>1, <1>2, <1>3, <1>4

LEMMA TimerReached ==
  ASSUME IInv, Reached, NEW t \in Tables,
         TimerFires(t) \/ TimerSends(t) \/ TimerReturns(t) \/ FlushAllTable(t)
  PROVE  Reached'
<1> USE DEF lock, objects
<1>1. UNCHANGED <<tableAt, age, push>> /\ Linked' = Linked
      /\ \A u \in Tables : Holder(u)' <=> Holder(u)
  BY DEF TimerFires, TimerSends, TimerReturns, FlushAllTable, Linked, Holder, Inside
<1>2. \A u \in Tables : u # t => rows'[u] = rows[u] /\ tick'[u] = tick[u]
  BY DEF TimerFires, TimerSends, TimerReturns, FlushAllTable, Emptied, IInv, TypeOK
<1>3. \/ rows'[t] = {} /\ tick'[t] \in {0, tick[t]}
      \/ rows'[t] = rows[t] /\ tick'[t] = tick[t]
  <2>1. CASE TimerFires(t) \/ FlushAllTable(t) \/ TimerSends(t)
    BY <2>1 DEF TimerFires, TimerSends, FlushAllTable, Emptied, IInv, TypeOK
  <2>2. CASE TimerReturns(t)
    <3>1. t \notin Linked
      BY <2>2 DEF TimerReturns, IInv, Timers
    <3>2. rows'[t] = {} /\ tick'[t] = 0
      BY <2>2, <3>1 DEF TimerReturns, IInv, TypeOK, Reached
    <3>3. QED
      BY <3>2
  <2>3. QED
    BY <2>1, <2>2
<1>4. QED
  BY <1>1, <1>2, <1>3, Numbers DEF Reached

LEMMA TickReached == ASSUME IInv, Reached, Tick PROVE Reached'
<1> USE DEF lock, objects
<1>1. UNCHANGED <<tableAt, rows, push>> /\ Linked' = Linked
      /\ \A t \in Tables : Holder(t)' <=> Holder(t)
  BY DEF Tick, Linked, Holder, Inside
<1>2. ASSUME NEW t \in Tables
      PROVE  /\ tick'[t] <= FlushInterval
             /\ t \in Linked => tick'[t] = tick[t] + 1 /\ age'[t] \in {age[t], age[t] + 1}
  <2>1. tick[t] \in Nat /\ age[t] \in Nat /\ tick[t] <= FlushInterval
    BY DEF IInv, TypeOK, Reached
  <2>2. tick'[t] = IF timer[t] = "none" \/ tick[t] >= FlushInterval THEN tick[t]
                   ELSE tick[t] + 1
    BY DEF Tick
  <2>3. age'[t] \in {age[t], age[t] + 1}
    BY DEF Tick
  <2>4. t \in Linked => timer[t] # "none" /\ tick[t] < FlushInterval
    BY DEF Tick, IInv, Timers
  <2>5. QED
    BY <2>1, <2>2, <2>3, <2>4, Numbers
<1>3. \A t \in Tables : age[t] \in Nat /\ tick[t] \in Nat
  BY DEF IInv, TypeOK
<1>4. QED
  BY <1>1, <1>2, <1>3 DEF Reached

\* The heart of it: the cleaner drops only tables that hold nothing.
LEMMA CleanReached ==
  ASSUME CleanerIsSlower, IInv, Reached, CleanTables \/ TablesCleanHandler
  PROVE  Reached'
<1> USE DEF lock, objects
<1>1. PICK gone \in SUBSET Linked : Unlink(gone) /\ \A t \in gone : rows[t] = {}
  <2>1. CASE CleanTables
    <3>1. ASSUME NEW t \in Aged PROVE rows[t] = {}
      <4>1. \A p \in Inserts : ~Inside(p)
        BY <2>1, Names DEF CleanTables, IInv, Locks, Inside, Locked
      <4>2. t \in Tables /\ age[t] > CleanInterval /\ tick[t] <= FlushInterval
            /\ age[t] \in Nat /\ tick[t] \in Nat
        BY <3>1 DEF Aged, Linked, IInv, TypeOK, Reached
      <4>3. age[t] > tick[t]
        BY <2>1, <4>2, Numbers DEF CleanTables, CleanerIsSlower
      <4>4. QED
        BY <4>1, <4>2, <4>3 DEF Reached, Holder
    <3>2. QED
      BY <2>1, <3>1 DEF CleanTables, Aged
  <2>2. CASE TablesCleanHandler
    BY <2>2 DEF TablesCleanHandler
  <2>3. QED
    BY <2>1, <2>2
<1>2. ~Locked
  BY DEF CleanTables, TablesCleanHandler
<1>3. Linked' = Linked \ gone /\ UNCHANGED <<rows, tick, push>>
  BY <1>1, <1>2, UnlinkStep DEF Unlink
<1>4. \A t \in Tables : ~Holder(t)
  BY <1>2, Names DEF IInv, Locks, Inside, Locked, Holder
<1>5. \A t \in Tables \ gone : age'[t] = age[t]
  BY <1>1 DEF Unlink
<1>6. QED
  BY <1>1, <1>3, <1>4, <1>5 DEF Reached

LEMMA ReachedStep == CleanerIsSlower /\ IInv /\ Reached /\ [Next]_vars => Reached'
<1> SUFFICES ASSUME CleanerIsSlower, IInv, Reached, [Next]_vars PROVE Reached'
  OBVIOUS
<1>1. CASE FlushAllBegin \/ FlushAllSend \/ FlushAllEnd \/ UNCHANGED vars
  <2>1. UNCHANGED <<tableAt, rows, age, tick, push>>
    BY <1>1 DEF FlushAllBegin, FlushAllSend, FlushAllEnd, vars, lock, objects
  <2>2. QED
    BY <2>1, EmptierReached DEF Inside
<1>2. QED
  BY <1>1, PushReached, TimerReached, TickReached, CleanReached DEF Next
-----------------------------------------------------------------------------
(* The theorems.                                                           *)

\* Types; no table rests with flush_count rows or more (Table.Add).
THEOREM TypeCorrect == Spec => []TypeOK
<1>1. IInv => TypeOK
  BY DEF IInv
<1>2. QED
  BY Invariance, <1>1, PTL

\* A batch carries the journal ids of its rows and no others, whichever of
\* Push, timer, FlushAll and cleaner meet at a table (doFlush).
THEOREM BatchesAckTheirRows == Spec => []BatchAcksItsRows
<1>1. IInv => BatchAcksItsRows
  BY DEF IInv, IdsOfRows, BatchAcksItsRows
<1>2. QED
  BY Invariance, <1>1, PTL

\* A table in the map has a live timer, any other has been told to stop: two
\* Pushes that miss the same table make it once (addTable, CleanTable).
THEOREM TimersFollowTables == Spec => []OneTimerPerTable
<1>1. IInv => OneTimerPerTable
  <2>1. ASSUME IInv PROVE 1..made \subseteq Tables
    BY <2>1, Numbers DEF IInv, TypeOK, Tables
  <2>2. QED
    BY <2>1 DEF IInv, Timers, OneTimerPerTable
<1>2. QED
  BY Invariance, <1>1, PTL

\* When clean_interval is 0 or no shorter than flush_interval, an insert that
\* was added is in one table of the map, one goroutine's hand or one batch of the
\* sender: none is stranded, none is sent twice (collector.go, all of it).
THEOREM NothingIsStranded == ASSUME CleanerIsSlower PROVE Spec => []Conserved
<1>1. ASSUME IInv, Reached, NEW p \in Added
      PROVE  Cardinality({t \in Linked : p \in rows[t]})
             + Cardinality({g \in Goroutines : p \in taken[g].rows})
             + Cardinality({b \in sent : p \in b.rows}) = 1
  <2> DEFINE T == {t \in Linked : p \in rows[t]}
             G == {g \in Goroutines : p \in taken[g].rows}
             S == {b \in sent : p \in b.rows}
  <2>1. p \in Inserts /\ Somewhere(p) /\ Once(p)
    BY <1>1 DEF IInv, Placed, Added
  <2>2. T = {t \in Tables : p \in rows[t]}
    BY <1>1 DEF Reached, Linked, IInv, TypeOK
  <2>3. \/ (\E t : T = {t}) /\ G = {} /\ S = {}
        \/ T = {} /\ (\E g : G = {g}) /\ S = {}
        \/ T = {} /\ G = {} /\ (\E b : S = {b})
    <3>1. ASSUME NEW t \in Tables, p \in rows[t] PROVE T = {t} /\ G = {} /\ S = {}
      BY <3>1, <2>1, <2>2 DEF Once
    <3>2. ASSUME NEW g \in Goroutines, p \in taken[g].rows PROVE T = {} /\ G = {g} /\ S = {}
      BY <3>2, <2>1, <2>2 DEF Once
    <3>3. ASSUME NEW b \in sent, p \in b.rows PROVE T = {} /\ G = {} /\ S = {b}
      BY <3>3, <2>1, <2>2 DEF Once
    <3>4. QED
      BY <3>1, <3>2, <3>3, <2>1 DEF Somewhere
  <2>4. Cardinality({}) = 0 /\ \A x : Cardinality({x}) = 1
    BY FS_EmptySet, FS_Singleton
  <2> HIDE DEF T, G, S
  <2>5. Cardinality(T) + Cardinality(G) + Cardinality(S) = 1
    <3>1. CASE (\E t : T = {t}) /\ G = {} /\ S = {}
      <4>1. Cardinality(T) = 1 /\ Cardinality(G) = 0 /\ Cardinality(S) = 0
        BY <3>1, <2>4
      <4>2. QED
        BY <4>1
    <3>2. CASE T = {} /\ (\E g : G = {g}) /\ S = {}
      <4>1. Cardinality(G) = 1 /\ Cardinality(T) = 0 /\ Cardinality(S) = 0
        BY <3>2, <2>4
      <4>2. QED
        BY <4>1
    <3>3. CASE T = {} /\ G = {} /\ (\E b : S = {b})
      <4>1. Cardinality(S) = 1 /\ Cardinality(T) = 0 /\ Cardinality(G) = 0
        BY <3>3, <2>4
      <4>2. QED
        BY <4>1
    <3>4. QED
      BY <3>1, <3>2, <3>3, <2>3
  <2>6. QED
    BY <2>5 DEF T, G, S
<1>2. IInv /\ Reached => Conserved
  BY <1>1 DEF Conserved
<1>3. IInv /\ Reached /\ [Next]_vars => Reached'
  BY ReachedStep
<1>4. Spec => []Reached
  BY InitReached, <1>3, Invariance, PTL DEF Spec
<1>5. QED
  BY <1>2, <1>4, Invariance, PTL
=============================================================================
