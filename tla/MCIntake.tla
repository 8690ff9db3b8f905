------------------------------ MODULE MCIntake ------------------------------
(* An instance of Intake for TLC: sizes are integers of five bits, so that  *)
(* four times a limit fits for 3, wraps below it for 6, and above it for 11. *)
EXTENDS Intake

SomeLimits == {0, 3, 6, 11, 15}
NoLimit == {0}
SomeSizes == {0, 3, 4, 7, 12, 13}
SmallSizes == {0, 1}
SomeLists == {{}, {"Values", "binary"}}
=============================================================================
