------------------------ MODULE MCDeliveryIngestion ------------------------
(* Model values and bounds for the runs of DeliveryIngestion.              *)
EXTENDS DeliveryIngestion

CONSTANTS s1, r1, r2, k1

Callback(format, word, ids, stored, id, time) ==
  [format |-> format, word |-> word, ids |-> ids, stored |-> stored, id |-> id,
   time |-> time, send |-> s1]

(* A send that one relay reports delivered, by the send id, and the log of *)
(* another, or of the same one later, bounced, by the queue id: the first  *)
(* is judged early, the second refused early.  A delay on the way, by the  *)
(* send id, without an id of its own.                                      *)
MCCallbacks ==
  { Callback("normalized", "delivered", {"send_id"}, {}, k1, 1),
    Callback("sendsmtp_log", "hard_bounce", {"queue_id", "attempt_id"}, {"queue_id"}, NoId, 2),
    Callback("sendsmtp_log", "deferred", {"send_id"}, {}, NoId, 1) }
=============================================================================
