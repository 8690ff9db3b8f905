----------------------------- MODULE MCJournal -----------------------------
(* Instances of Journal for TLC.                                           *)
EXTENDS Journal

CONSTANTS r1, r2, r3

ThreeRecords == {r1, r2, r3}
TwoRecords == {r1, r2}
None == {}
OneLong == {r1}
=============================================================================
