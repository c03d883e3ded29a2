----------------------------- MODULE MCExchange -----------------------------
(* A client with a few threads, for TLC. *)
EXTENDS Exchange, TLC

CONSTANTS t1, t2, A, B, f1

ThreadSymmetry == Permutations(Thread)
=============================================================================
