----------------------------- MODULE MCNodeParts -----------------------------
(* Five requests of two addresses around a limit of two; three peers that    *)
(* report three speeds; a peer with up to three verdicts; two processes.     *)
EXTENDS NodeParts, TLC

CONSTANTS c1, c2, c3, c4, d1, x, y, f1, f2, f3, n1, p1, p2, k1, k2

MCFrom == c1 :> x @@ c2 :> x @@ c3 :> x @@ c4 :> x @@ d1 :> y

\* A fast and a slow success.
MCCosts == {[latency |-> 1, tokens |-> 50], [latency |-> 2, tokens |-> 10]}

MCDecay == 0 :> 1000 @@ 1 :> 600 @@ 2 :> 200 @@ 3 :> 0
=============================================================================
