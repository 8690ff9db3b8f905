--------------------------- MODULE DurableAccept ---------------------------
(***************************************************************************)
(* What durable accept promises (docs/DUAL_WRITE.md): an insert answered   *)
(* 200 is owed to ClickHouse until it is stored there or in a dump, across *)
(* restarts.  An insert the client saw fail may be delivered or not.       *)
(***************************************************************************)
CONSTANT Inserts

VARIABLES
  accepted,     \* the inserts answered 200
  outstanding,  \* those a restart would deliver
  stored        \* those in live ClickHouse or dump_dir

vars == <<accepted, outstanding, stored>>

Init == accepted = {} /\ outstanding = {} /\ stored = {}

\* A new insert becomes owed, and its client is answered or not.
Accept(r) ==
  /\ r \notin accepted \cup outstanding \cup stored
  /\ outstanding' = outstanding \cup {r}
  /\ accepted' \in {accepted, accepted \cup {r}}
  /\ UNCHANGED stored

\* Only what is owed is delivered.
Store(S) ==
  /\ S \subseteq outstanding
  /\ stored' = stored \cup S
  /\ UNCHANGED <<accepted, outstanding>>

\* Only what is stored stops being owed.
Settle(S) ==
  /\ S \subseteq stored
  /\ outstanding' = outstanding \ S
  /\ UNCHANGED <<accepted, stored>>

Next ==
  \/ \E r \in Inserts : Accept(r)
  \/ \E S \in SUBSET Inserts : Store(S) \/ Settle(S)

Spec == Init /\ [][Next]_vars

\* No answered insert is forgotten.
NothingLost == accepted \subseteq outstanding \cup stored
=============================================================================
