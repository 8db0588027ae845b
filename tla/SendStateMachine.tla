-------------------------- MODULE SendStateMachine --------------------------
(***************************************************************************)
(* The canonical send lifecycle of packages/domain: the states of a send,  *)
(* the legal transitions, and the judgement of one delivery event against  *)
(* a send aggregate.  Both processes of the system write these states: the *)
(* mail worker directly, the console for the events it judges applied.     *)
(***************************************************************************)
EXTENDS Sequences

SendStates ==
  {"draft", "queued", "dispatching", "deferred", "accepted_by_mta",
   "delivered", "bounced", "failed_transient", "failed_permanent"}

(* A delivery event carries the name of the state it leads to.             *)
EventTypes == SendStates \ {"draft"}
EventState(type) == type

SendTransitions ==
  { <<"draft",           "queued">>,
    <<"queued",          "dispatching">>,
    <<"dispatching",     "accepted_by_mta">>,
    <<"dispatching",     "deferred">>,
    <<"dispatching",     "failed_transient">>,
    <<"dispatching",     "failed_permanent">>,
    <<"deferred",        "dispatching">>,
    <<"accepted_by_mta", "delivered">>,
    <<"accepted_by_mta", "bounced">> }

CanTransition(from, to) == <<from, to>> \in SendTransitions

TerminalStates == {"delivered", "bounced", "failed_transient", "failed_permanent"}

(* applyDeliveryEvent: what one event does to an aggregate                 *)
(* [state, processed].  A processed key is a duplicate, an illegal         *)
(* transition is stale, anything else is applied.                          *)
DeliveryOutcome(aggregate, key, type) ==
  IF key \in aggregate.processed THEN "ignored_duplicate"
  ELSE IF ~CanTransition(aggregate.state, EventState(type)) THEN "ignored_stale"
  ELSE "applied"
=============================================================================
