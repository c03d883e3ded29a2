---------------------------- MODULE MCReapWindow ----------------------------
(* A client with two calls and small periods, for TLC. *)
EXTENDS ReapWindow, TLC

CONSTANTS s1, s2, c1, c2

\* The first call waits without a limit.
OnePatient == (c1 :> 0) @@ (c2 :> 4)

ServerSymmetry == Permutations(Server)
=============================================================================
