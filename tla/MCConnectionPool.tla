-------------------------- MODULE MCConnectionPool --------------------------
(***************************************************************************)
(* Two connections for four writers, a reader and a probe: the pool is     *)
(* full of writers that wait for the lock, with more of them in the queue. *)
(***************************************************************************)
EXTENDS ConnectionPool

CONSTANTS w1, w2, w3, w4, read, probe
=============================================================================
