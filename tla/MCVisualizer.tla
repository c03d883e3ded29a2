---------------------------- MODULE MCVisualizer ----------------------------
(* The visualizer over one call and two servers, one of which serves it, for TLC. *)
EXTENDS VisualizerInv, TLC

CONSTANTS s1, s2, c1, r1, m1

OneMethod == [r \in Request |-> m1]
OneClient == [r \in Request |-> c1]
OneServes == (s1 :> {m1}) @@ (s2 :> {})
ById      == (s1 :> 1) @@ (s2 :> 2)
=============================================================================
