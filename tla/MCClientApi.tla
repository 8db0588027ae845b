---------------------------- MODULE MCClientApi ----------------------------
(* Model values and bounds for the run of ClientApi.                       *)
EXTENDS ClientApi, TLC

CONSTANTS k1, k2, r1, r2, a1

OneOfEach == [k \in FaultKinds |-> 1]

Symmetry == Permutations(Requests) \cup Permutations(Keys)
=============================================================================
