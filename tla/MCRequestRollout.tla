--------------------------- MODULE MCRequestRollout ---------------------------
(* RequestRollout with the calls of its requests. *)
EXTENDS RequestRollout, TLC

\* A request with two calls at a time, one with one, and one without tools.
MCParallel == <<2, 1, 0>>

MCCalls == UNION {CallsOf(r) : r \in Requests}
==============================================================================
