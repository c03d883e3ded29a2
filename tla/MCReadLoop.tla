----------------------------- MODULE MCReadLoop -----------------------------
(* Small servers for TLC. *)
EXTENDS ReadLoop, TLC

CONSTANTS r1, r2, r3, m1, m2

\* With two methods, the third request calls the second.
OneMethod  == [r \in Request |-> m1]
TwoMethods == [r \in Request |-> IF r = r3 THEN m2 ELSE m1]
OneAtATime == [m \in Method |-> 1]

CallSymmetry == Permutations(Request)
=============================================================================
