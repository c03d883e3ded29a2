----------------------------- MODULE MCAnyCall -----------------------------
(* Small deployments of AnyCall for TLC. *)
EXTENDS AnyCallInv, TLC

CONSTANTS s1, s2, c1, r1, r2, m1

\* Every request calls the one method every server serves.
OneMethod == [r \in Request |-> m1]
OneClient == [r \in Request |-> c1]
AllServe  == [s \in Server |-> {m1}]

ServerSymmetry  == Permutations(Server)
RequestSymmetry == Permutations(Request)
=============================================================================
