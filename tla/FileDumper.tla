----------------------------- MODULE FileDumper -----------------------------
(***************************************************************************)
(* The FileDumper of dump.go: the names of its files, their order, the     *)
(* pruning by max_dump_files, failed/, the replay loop, /debug/            *)
(* replay-failed, and what of it a restart finds on the disk.              *)
(*                                                                         *)
(* Every operation keeps d.mu from start to end, so one that does not wait *)
(* for ClickHouse is one step; the replays are two steps per file, before  *)
(* and after the answer, so that the process may crash between them.       *)
(*                                                                         *)
(* A name is the second the process started in (DumpPrefix), the kind and  *)
(* DumpNum; names are compared as strings, so DumpNum is compared by its   *)
(* numeral.  Base stands for the ten of strconv.Itoa.                      *)
(***************************************************************************)
EXTENDS Integers, Sequences, FiniteSets, FiniteSetsExt

CONSTANTS
  Requests,      \* what is dumped, each by one call of Dump
  KindOf,        \* the kind Dump is told for each
  MaxDumpFiles,  \* max_dump_files; 0 is no limit
  Base,
  MaxClock,      \* bound: the seconds that pass
  Faults,        \* "write", "remove": the file system fails to; "refuse":
                 \* ClickHouse may refuse anything; "crash"
  NoFile

ASSUME FileDumperAssumption ==
  /\ IsFiniteSet(Requests) /\ KindOf \in [Requests -> {"1", "2"}]
  /\ MaxDumpFiles \in Nat /\ Base \in Nat \ {0, 1} /\ MaxClock \in Nat

VARIABLES
  \* the files of dump_dir and of dump_dir/failed
  pending, failed,
  \* DumpPrefix, DumpNum and LockedFiles; the clock
  prefix, num, locked, clock,
  \* the replay that holds d.mu, its file, and what is left of its list
  replay, current, todo,
  \* the calls of Dump so far; the requests whose Dump returned nil, those that
  \* were pruned, the files the last pruning could not remove, the requests
  \* ClickHouse accepted, the names the loop sent
  calls, written, pruned, behind, accepted, loopSent

disk == <<pending, failed>>
memory == <<prefix, num, locked>>
replaying == <<replay, current, todo>>
history == <<calls, written, pruned, behind, accepted, loopSent>>
vars == <<disk, memory, clock, replaying, history>>

Name == [sec : 0 .. MaxClock, kind : {"1", "2"}, num : 1 .. Cardinality(Requests)]
File == [name : Name, req : Requests, size : {"whole", "part", "empty"}]

\* The digits of n, the highest first.
Numeral[n \in Nat] ==
  IF n < Base THEN <<n>> ELSE Append(Numeral[n \div Base], n % Base)

\* The order of the numerals as strings; "-", which follows, precedes digits.
NumeralBefore(m, n) ==
  LET s == Numeral[m]  t == Numeral[n]
      Same(k) == \A i \in 1 .. k : s[i] = t[i]
  IN  \/ Len(s) < Len(t) /\ Same(Len(s))
      \/ \E i \in 1 .. Min({Len(s), Len(t)}) : Same(i - 1) /\ s[i] < t[i]

\* sort.Strings of two names.
NameBefore(m, n) ==
  \/ m.sec < n.sec
  \/ m.sec = n.sec /\ m.kind = "1" /\ n.kind = "2"
  \/ m.sec = n.sec /\ m.kind = n.kind /\ NumeralBefore(m.num, n.num)

Preceding(f, S) == {g \in S : NameBefore(g.name, f.name)}
\* The first k files of S in the order of their names.
Leading(k, S) == {f \in S : Cardinality(Preceding(f, S)) < k}
First(S) == CHOOSE f \in S : Preceding(f, S) = {}

\* S with the file f, whatever had its name before.
With(S, f) == {g \in S : g.name # f.name} \cup {f}
Reqs(S) == {f.req : f \in S}

Init ==
  /\ pending = {} /\ failed = {}
  /\ clock = 0 /\ prefix = 0 /\ num = 0 /\ locked = {}
  /\ replay = "none" /\ current = NoFile /\ todo = {}
  /\ calls = 0 /\ written = {} /\ pruned = {} /\ behind = 0
  /\ accepted = {} /\ loopSent = {}
-----------------------------------------------------------------------------
(* Dump.                                                                   *)

\* Mutant: one file too many is let be.
ExcessOfOne(S) == IF MaxDumpFiles = 0 THEN 0
                  ELSE Max({0, Cardinality(S) - MaxDumpFiles - 1})

Excess(S) == IF MaxDumpFiles = 0 THEN 0
             ELSE Max({0, Cardinality(S) - MaxDumpFiles})

\* Mutant: the name takes DumpNum before its increment.
NewFileUncounted(r, size) ==
  [name |-> [sec |-> prefix, kind |-> KindOf[r], num |-> num],
   req |-> r, size |-> size]

NewFile(r, size) ==
  [name |-> [sec |-> prefix, kind |-> KindOf[r], num |-> num + 1],
   req |-> r, size |-> size]

\* A request is dumped again only when nothing came of the first call.
Given(r) ==
  /\ replay = "none" /\ calls < Cardinality(Requests)
  /\ r \notin written \cup Reqs(pending \cup failed)

Dump(r) ==
  /\ Given(r)
  /\ num' = num + 1 /\ calls' = calls + 1
  /\ LET all == With(pending, NewFile(r, "whole"))
     IN  \* os.Remove may fail, which ends the pruning
         \E k \in IF "remove" \in Faults THEN 0 .. Excess(all) ELSE {Excess(all)} :
           /\ pending' = all \ Leading(k, all)
           /\ pruned' = pruned \cup Reqs(Leading(k, all))
           /\ behind' = Excess(all) - k
  /\ written' = written \cup {r}
  /\ UNCHANGED <<failed, prefix, locked, clock, replaying, accepted, loopSent>>

\* WriteFile fails: it may leave a file, empty or not; nothing is pruned.
DumpFails(r) ==
  /\ Given(r) /\ "write" \in Faults
  /\ num' = num + 1 /\ calls' = calls + 1
  /\ \/ \E size \in {"part", "empty"} : pending' = With(pending, NewFile(r, size))
     \/ UNCHANGED pending
  /\ UNCHANGED <<failed, prefix, locked, clock, replaying, written, pruned,
                 behind, accepted, loopSent>>
-----------------------------------------------------------------------------
(* ProcessNextDump, from the loop of Listen.                               *)

\* Mutant: GetDump does not look at LockedFiles.
SendableAll == pending

Sendable == {f \in pending : f.name \notin locked}

\* Mutant: the file is copied.
ProcessCopy ==
  /\ replay = "none" /\ Sendable # {} /\ First(Sendable).name.kind = "2"
  /\ failed' = With(failed, First(Sendable))
  /\ UNCHANGED <<pending, memory, clock, replaying, history>>

\* The first file is of a client error: it moves to failed/, over a file of
\* its name.
ProcessMove ==
  /\ replay = "none" /\ Sendable # {} /\ First(Sendable).name.kind = "2"
  /\ pending' = pending \ {First(Sendable)}
  /\ failed' = With(failed, First(Sendable))
  /\ UNCHANGED <<memory, clock, replaying, history>>

ProcessSend ==
  /\ replay = "none" /\ Sendable # {} /\ First(Sendable).name.kind = "1"
  /\ replay' = "loop" /\ current' = First(Sendable)
  /\ UNCHANGED <<disk, memory, clock, todo, history>>

\* An empty file is removed unsent, and the rows of a part are sent.
Accepts(f) ==
  accepted' = IF f.size = "whole" THEN accepted \cup {f.req} ELSE accepted

Refuses(f) == f.size # "empty" /\ "refuse" \in Faults

ProcessSent ==
  /\ replay = "loop"
  /\ Accepts(current)
  /\ loopSent' = loopSent \cup {current.name}
  /\ pending' = pending \ {current}
  /\ replay' = "none" /\ current' = NoFile
  /\ UNCHANGED <<failed, memory, clock, todo, calls, written, pruned, behind>>

\* DeleteDump fails three times: the file is in LockedFiles until a restart.
ProcessSentNotRemoved ==
  /\ replay = "loop" /\ "remove" \in Faults
  /\ Accepts(current)
  /\ loopSent' = loopSent \cup {current.name}
  /\ locked' = locked \cup {current.name}
  /\ replay' = "none" /\ current' = NoFile
  /\ UNCHANGED <<disk, prefix, num, clock, todo, calls, written, pruned, behind>>

\* An error ends the tick of Listen; the file stays the first.
ProcessRefused ==
  /\ replay = "loop" /\ Refuses(current)
  /\ replay' = "none" /\ current' = NoFile
  /\ UNCHANGED <<disk, memory, clock, todo, history>>
-----------------------------------------------------------------------------
(* ReplayFailed: up to limit files of failed/, in the order of their names. *)

ReplayFailed(limit) ==
  /\ replay = "none" /\ failed # {}
  /\ replay' = "operator"
  /\ todo' = IF limit = 0 THEN failed ELSE Leading(limit, failed)
  /\ UNCHANGED <<disk, memory, clock, current, history>>

ReplayFailedNext ==
  /\ replay = "operator" /\ current = NoFile /\ todo # {}
  /\ current' = First(todo) /\ todo' = todo \ {First(todo)}
  /\ UNCHANGED <<disk, memory, clock, replay, history>>

ReplayFailedSent ==
  /\ replay = "operator" /\ current # NoFile
  /\ Accepts(current)
  /\ \/ failed' = failed \ {current}
     \/ "remove" \in Faults /\ UNCHANGED failed
  /\ current' = NoFile
  /\ UNCHANGED <<pending, memory, clock, replay, todo, calls, written, pruned,
                 behind, loopSent>>

ReplayFailedRefused ==
  /\ replay = "operator" /\ current # NoFile /\ Refuses(current)
  /\ current' = NoFile
  /\ UNCHANGED <<disk, memory, clock, replay, todo, history>>

ReplayFailedEnd ==
  /\ replay = "operator" /\ current = NoFile /\ todo = {}
  /\ replay' = "none"
  /\ UNCHANGED <<disk, memory, clock, current, todo, history>>
-----------------------------------------------------------------------------
(* The clock and the process.                                              *)

Tick ==
  /\ clock < MaxClock
  /\ clock' = clock + 1
  /\ UNCHANGED <<disk, memory, replaying, history>>

\* Mutant: DumpPrefix is not of this start.
RestartUnstamped ==
  /\ "crash" \in Faults /\ clock > prefix
  /\ num' = 0 /\ locked' = {}
  /\ replay' = "none" /\ current' = NoFile /\ todo' = {}
  /\ loopSent' = {}
  /\ UNCHANGED <<prefix, disk, clock, calls, written, pruned, behind,
                 accepted>>

\* The process ends anywhere and a new one starts, in a later second:
\* NewDumper and Listen.
Restart ==
  /\ "crash" \in Faults /\ clock > prefix
  /\ prefix' = clock /\ num' = 0 /\ locked' = {}
  /\ replay' = "none" /\ current' = NoFile /\ todo' = {}
  /\ loopSent' = {}
  /\ UNCHANGED <<disk, clock, calls, written, pruned, behind,
                 accepted>>
-----------------------------------------------------------------------------
Next ==
  \/ \E r \in Requests : Dump(r) \/ DumpFails(r)
  \/ ProcessMove \/ ProcessSend
  \/ ProcessSent \/ ProcessSentNotRemoved \/ ProcessRefused
  \/ \E limit \in 0 .. 1 : ReplayFailed(limit)
  \/ ReplayFailedNext \/ ReplayFailedSent \/ ReplayFailedRefused
  \/ ReplayFailedEnd
  \/ Tick \/ Restart

Spec == Init /\ [][Next]_vars

\* The ticker of Listen fires, the mutex is fair, every POST is answered, and
\* ClickHouse does not refuse for ever what it is sent again and again.
Fairness ==
  /\ SF_vars(ProcessMove \/ ProcessSend)
  /\ WF_vars(ProcessSent \/ ProcessSentNotRemoved \/ ProcessRefused)
  /\ SF_vars(ProcessSent \/ ProcessSentNotRemoved)
  /\ WF_vars(ReplayFailedNext \/ ReplayFailedEnd)
  /\ WF_vars(ReplayFailedSent \/ ReplayFailedRefused)

LiveSpec == Spec /\ Fairness
-----------------------------------------------------------------------------
TypeOK ==
  /\ pending \subseteq File /\ failed \subseteq File
  /\ prefix \in 0 .. clock /\ clock \in 0 .. MaxClock
  /\ num \in 0 .. calls /\ calls \in 0 .. Cardinality(Requests)
  /\ locked \subseteq Name /\ loopSent \subseteq Name
  /\ replay \in {"none", "loop", "operator"}
  /\ current \in File \cup {NoFile} /\ todo \subseteq File
  /\ written \cup pruned \cup accepted \subseteq Requests
  /\ behind \in 0 .. calls

Whole(S) == {f \in S : f.size = "whole"}

\* A request whose Dump returned nil, so that the journal is acked, is in a
\* complete file of dump_dir or failed/, or ClickHouse has accepted it, or it
\* was pruned: no later Dump, move, replay or restart overwrites its file.
DumpedIsSafe ==
  written \subseteq accepted \cup pruned \cup Reqs(Whole(pending \cup failed))

\* dump_dir holds no more than max_dump_files complete dumps, and those the
\* last pruning could not remove: a pruning makes up for the failures of those
\* before it, through failed writes, replays and restarts.
PendingBounded ==
  MaxDumpFiles > 0 => Cardinality(Whole(pending)) <= MaxDumpFiles + behind

\* The loop sends no file twice in one process, though it may fail to remove
\* what it has sent and an operator replays beside it.
LoopSendsOnce == replay = "loop" => current.name \notin loopSent

\* A dump of kind 1 is replayed, past restarts, files that cannot be removed,
\* half-written ones and client errors, or it is pruned.
EverySent ==
  \A r \in Requests :
    r \in written /\ KindOf[r] = "1" ~> r \in accepted \cup pruned
=============================================================================
