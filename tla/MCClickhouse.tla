---------------------------- MODULE MCClickhouse ----------------------------
(* Instances of Clickhouse for TLC.                                        *)
EXTENDS Clickhouse

CONSTANTS q1, q2, s1, h1, h2

OneQueued == {q1}
TwoQueued == {q1, q2}
OneSynced == {s1}
OneServer == {h1}
TwoServers == {h1, h2}
Nobody == {}
Replay == {"replay"}
Both == {"replay", "operator"}
EveryFault == {"write", "remove", "ack"}
=============================================================================
