--------------------------- MODULE MCRateLimiter ---------------------------
(* An instance of RateLimiter for TLC.                                     *)
EXTENDS RateLimiter

CONSTANTS worker, replay, sync

Three == {worker, replay, sync}
=============================================================================
