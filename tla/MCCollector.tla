---------------------------- MODULE MCCollector ----------------------------
(* Instances of Collector for TLC.                                         *)
EXTENDS Collector

CONSTANTS p1, p2, p3, o1, k1, k2

\* p1 and p2 fill a table of three rows together; p3 has one of its own.
AllInserts == {p1, p2, p3, o1}
OneOpaque == {o1}
TwoKeys == {k1, k2}
KeyOfAll == [p \in AllInserts |-> IF p = p3 THEN k2 ELSE k1]
RowsOfAll == [p \in AllInserts |-> IF p = p2 THEN 2 ELSE 1]
=============================================================================
