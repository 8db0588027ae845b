--------------------------- MODULE MCSendDispatch ---------------------------
(* Model values and bounds for the runs of SendDispatch.                   *)
EXTENDS SendDispatch, TLC

CONSTANTS s1, s2, n1, n2, w1, w2

(* No route, a pinned node, and a rule with a failover node.               *)
MCChains == {<<>>, <<n1>>, <<n1, n2>>}

OneOfEach == [k \in FaultKinds |-> 1]
NoFaults == [k \in FaultKinds |-> 0]
OneCrash == [NoFaults EXCEPT !["crash"] = 1]

Symmetry == Permutations({w1, w2})
=============================================================================
