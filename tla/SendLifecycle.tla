---------------------------- MODULE SendLifecycle ----------------------------
(***************************************************************************)
(* What the system promises about the status column of a send: a send is   *)
(* created queued, its status moves along the legal transitions only, and  *)
(* a terminal status is never left.                                        *)
(***************************************************************************)
EXTENDS SendStateMachine

CONSTANT Sends

VARIABLE status

Init == status = [s \in Sends |-> "queued"]

Transition(s) ==
  \E to \in SendStates :
     /\ CanTransition(status[s], to)
     /\ status' = [status EXCEPT ![s] = to]

Next == \E s \in Sends : Transition(s)

Spec == Init /\ [][Next]_status
=============================================================================
