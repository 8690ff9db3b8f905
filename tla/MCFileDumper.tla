---------------------------- MODULE MCFileDumper ----------------------------
(* Instances of FileDumper for TLC.                                        *)
EXTENDS FileDumper

CONSTANTS r1, r2, r3

Three == {r1, r2, r3}
KindOfThree == [r \in Three |-> IF r = r2 THEN "2" ELSE "1"]
=============================================================================
