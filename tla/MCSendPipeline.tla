--------------------------- MODULE MCSendPipeline ---------------------------
(* Model values and bounds for the runs of SendPipeline.                   *)
EXTENDS SendPipeline, TLC

CONSTANTS s1, n1, n2, w1, r1, r2, k1, k2

Symmetry == Permutations({r1, r2})

MCChains == {<<>>, <<n1>>, <<n1, n2>>}

NoFaults == [k \in FaultKinds |-> 0]
Callback(id, word, ids) ==
  [format |-> "sendsmtp_log", word |-> word, ids |-> ids, stored |-> ids \ {"send_id"},
   id |-> id, time |-> Undated, send |-> s1]

(* A relay that gives a mail up for the time being, and the one it goes to *)
(* next, or the same one later, which delivers it: two results that        *)
(* contradict each other.  Both are reported by the send id, so before,    *)
(* while or after the worker stores the acceptance.                        *)
MixedReports ==
  { Callback(k1, "delivered", {"send_id"}), Callback(NoId, "soft_bounce", {"send_id"}) }

(* The relay reports each step under the send id, as the tests of the      *)
(* console do.                                                             *)
EarlyReports ==
  { Callback(k1, "accepted", {"send_id"}), Callback(k2, "delivered", {"send_id"}) }
=============================================================================
