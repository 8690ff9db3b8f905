----------------------------- MODULE MCShutdown -----------------------------
(* Instances of Shutdown for TLC.                                          *)
EXTENDS Shutdown

CONSTANTS i1, i2, i3

One == {i1}
Three == {i1, i2, i3}
BothEnds == {"signal", "listen"}
SignalEnds == {"signal"}
=============================================================================
