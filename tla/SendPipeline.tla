---------------------------- MODULE SendPipeline ----------------------------
(***************************************************************************)
(* The whole life of a send: the workers' dispatch and the console's       *)
(* ingestion of the relays' callbacks, over the same row of sends.  The    *)
(* two processes share that row and nothing else, and neither locks it.    *)
(***************************************************************************)
EXTENDS SendDispatch

CONSTANTS Requests, Callbacks, WebhookDelays, ConsoleFaultBudget, Instants,
          NoCallback, NoId, Undated

(* The relays report on the sends of the workers.                          *)
ASSUME PipelineAssumption ==
  /\ \A c \in Callbacks : c.send \in Sends
  /\ NoCallback \notin Callbacks

VARIABLES events, webhook, posts, request, acked, early, consoleFaults

Console == INSTANCE DeliveryIngestion
             WITH faults <- consoleFaults, FaultBudget <- ConsoleFaultBudget

dispatchVars == <<attempts, log, job, pc, cur, chain, number, outcome, copies, faults>>
consoleVars  == <<events, webhook, posts, request, acked, early, consoleFaults>>
pipelineVars == <<status, acceptedAttempt, dispatchVars, consoleVars>>

PipelineInit == Init /\ Console!InitConsole

(* A relay reports on a mail only after it has taken it.                   *)
Report ==
  \E r \in Requests, c \in Callbacks :
     copies[c.send] > 0 /\ Console!Deliver(r, c)

Ingest == \E r \in Requests : Console!Handler(r)

PipelineNext ==
  \/ Next /\ UNCHANGED consoleVars
  \/ (Report \/ Ingest \/ Console!Fault) /\ UNCHANGED dispatchVars

PipelineSpec == PipelineInit /\ [][PipelineNext]_pipelineVars

-----------------------------------------------------------------------------

(* The results recorded of a send say the same.                            *)
ResultsAgree(s) == \A d, e \in Console!ResultEvents(s) : d.type = e.type

(* A mail that a relay took is shown as failed or deferred only if a relay *)
(* said so while the worker was still at it.  The worker writes after the  *)
(* relay's answer, and may have been overtaken; the console writes what it *)
(* judged by a status read before; but neither makes a failure of its own  *)
(* out of a mail that is on its way.                                       *)
TakenIsNotFailed ==
  Undisturbed =>
    \A s \in Sends :
       copies[s] > 0 =>
         status[s] \in {"dispatching", "accepted_by_mta", "delivered", "bounced"}
                        \cup {Console!EventType(c) : c \in {c \in early : c.send = s}}

(* The console and the workers together move a send along its lifecycle.   *)
(* As long as no run is interrupted, what takes it off is a report of an   *)
(* intermediate step that the console matched before the worker was done   *)
(* with the send (its tests post such reports), or one result that is      *)
(* written over another: no other mix of the two writers does.             *)
PipelineLifecycle ==
  [][\A s \in Sends :
       Undisturbed' /\ status'[s] # status[s] =>
         Lifecycle!Transition(s) \/ Console!ReportedEarly(s)' \/ ~ResultsAgree(s)']_pipelineVars

(* The plan: "no backward transitions from terminal states".               *)
DeliveredIsFinal ==
  [][\A s \in Sends : status[s] = "delivered" => status'[s] = "delivered"]_pipelineVars
=============================================================================
