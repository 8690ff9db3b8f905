---------------------------- MODULE MCDualWrite ----------------------------
(* An instance of DualWrite for TLC: a batched insert and a synchronous     *)
(* one, opaque, so that its replay goes past the table.                     *)
EXTENDS DualWrite

CONSTANTS b1, s1

BatchedAndSynced == {b1, s1}
OneSynced == {s1}
=============================================================================
