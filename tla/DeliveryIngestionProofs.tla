----------------------- MODULE DeliveryIngestionProofs -----------------------
(***************************************************************************)
(* Theorems about DeliveryIngestion, for any callbacks, any number of      *)
(* sends and concurrent requests, and any fault budget.                    *)
(***************************************************************************)
EXTENDS DeliveryIngestion, FiniteSetTheorems, TLAPS

(***************************************************************************)
(* The inductive invariant.                                                *)
(***************************************************************************)
(* What is applied to a send the worker is done with, unless a step of it  *)
(* was reported early: the table of transitions lets no other through.     *)
Outcomes == {"delivered", "bounced"}
Reached  == Outcomes \cup {"accepted_by_mta"}

(* The statements behind SetStatus, and those of a request that owns an    *)
(* event for which it has not called the client yet.                       *)
Announcing == {"find_webhook", "post", "mark_delivered", "mark_failed"}
Owning     == {"set_status", "find_webhook", "post"}

Serving(r) ==
  request[r].at # "idle" =>
    /\ request[r].callback \in Callbacks
    /\ Supported(request[r].callback)
    /\ request[r].key \in KeysOf(request[r].callback)

(* What a request has read of a send, and what it may make of it.          *)
AsRead(r) ==
  LET c == request[r].callback IN
  At(r, "judge") =>
    /\ request[r].seen \notin TerminalStates \cup {"accepted_by_mta"} => c \in early
    /\ ~ReportedEarly(c.send) =>
         /\ request[r].seen \in {"dispatching", "deferred"} \cup Reached
         /\ request[r].seen \in Reached => acceptedAttempt[c.send] # 0
         /\ request[r].seen \in Outcomes => status[c.send] \in Outcomes

Judged(r) ==
  LET c == request[r].callback IN
  /\ request[r].at \in {"append", "set_status"} /\ ~ReportedEarly(c.send) =>
       EventType(c) \in Outcomes /\ acceptedAttempt[c.send] # 0
  /\ request[r].at \in Owning => NewEvent(r) \in events
  /\ request[r].at \in Announcing => EventType(c) \in TerminalStates
  /\ request[r].at \in Announcing /\ ~ReportedEarly(c.send) => status[c.send] \in Outcomes

RequestInv == \A r \in Requests : Serving(r) /\ AsRead(r) /\ Judged(r)

OneOwner ==
  \A r, q \in Requests :
     /\ request[r].at \in Owning /\ request[q].at \in Owning
     /\ request[r].key = request[q].key
     => r = q

EventInv ==
  /\ IsFiniteSet(events)
  /\ \A e \in events : \E c \in Callbacks : e.key \in KeysOf(c) /\ e.send = c.send

StatusInv ==
  \A s \in Sends :
     /\ status[s] \in Outcomes => \E e \in events : e.send = s /\ e.type = status[s]
     /\ ~ReportedEarly(s) =>
          status[s] \in IF acceptedAttempt[s] = 0 THEN {"dispatching", "deferred"} ELSE Reached

(* The events of a send whose request is done with the client.             *)
Owed == {NewEvent(r) : r \in {q \in Requests : request[q].at \in Owning}}
Told(s) == ResultEvents(s) \ Owed

PostInv ==
  \A s \in Sends :
     /\ Len(posts[s]) <= Cardinality(Told(s))
     /\ \A i \in 1 .. Len(posts[s]) : \E e \in ResultEvents(s) : e.type = posts[s][i]

(* While no statement fails: an event is on its way to the status, and an  *)
(* acknowledged result left an event or found the send finished.           *)
SettleInv ==
  Quiet({"crash", "db_error"}) =>
    \A e \in events :
       \/ status[e.send] \in Outcomes \/ ReportedEarly(e.send)
       \/ \E r \in Requests : At(r, "set_status") /\ NewEvent(r) = e

AckInv ==
  Quiet({"crash", "db_error"}) =>
    \A c \in acked \ early :
       IsFinal(c) => \/ status[c.send] \in Outcomes \/ ReportedEarly(c.send)
                     \/ \E e \in events : e.key \in KeysOf(c)

AnnounceInv ==
  Quiet(FaultKinds) =>
    \A s \in Sends :
       status[s] \in TerminalStates =>
         \/ webhook[s].status # "pending"
         \/ \E r \in Requests : request[r].at \in Announcing /\ request[r].callback.send = s

IInv == TypeOK /\ RequestInv /\ OneOwner /\ EventInv /\ StatusInv /\ PostInv
        /\ SettleInv /\ AckInv /\ AnnounceInv

-----------------------------------------------------------------------------
(* What Supported lets through has one of the types of the state machine.  *)
LEMMA SupportedTypes ==
  ASSUME NEW c \in Callbacks, Supported(c)
  PROVE  EventType(c) \in EventTypes
BY DEF Supported, EventType, FinalStatus, EventTypes, SendStates

LEMMA KeysAreKeys ==
  ASSUME NEW c \in Callbacks
  PROVE  KeysOf(c) \subseteq Keys
BY DEF Keys

(* The table: a send that was accepted takes an outcome and nothing else,  *)
(* one that is with the worker takes no outcome, a finished one nothing.   *)
LEMMA JudgedTypes ==
  ASSUME NEW seen \in SendStates, NEW type \in EventTypes
  PROVE  /\ seen = "accepted_by_mta" => (CanTransition(seen, EventState(type)) <=> type \in Outcomes)
         /\ seen # "accepted_by_mta" /\ CanTransition(seen, EventState(type)) =>
              type \notin Outcomes /\ seen \notin TerminalStates
BY DEF Outcomes, CanTransition, SendTransitions, EventState, EventTypes, SendStates, TerminalStates

LEMMA OutcomesAreTerminal ==
  Outcomes \subseteq TerminalStates /\ TerminalStates \subseteq EventTypes
  /\ EventTypes \subseteq SendStates /\ Reached \subseteq SendStates
BY DEF Outcomes, TerminalStates, Reached, SendStates, EventTypes

USE DEF DeliveryResultTypes, ledger, At

(* The types of what a request reads and writes.                           *)
LEMMA RequestTypes ==
  ASSUME TypeOK, NEW r \in Requests, Serving(r), request[r].at # "idle"
  PROVE  /\ request[r].callback \in Callbacks
         /\ request[r].callback.send \in Sends
         /\ request[r].key \in Keys
         /\ EventType(request[r].callback) \in EventTypes
         /\ NewEvent(r) \in Event
         /\ NewEvent(r).key = request[r].key
         /\ NewEvent(r).send = request[r].callback.send
         /\ NewEvent(r).type = EventType(request[r].callback)
BY IngestionAssumption, SupportedTypes, KeysAreKeys
   DEF Serving, NewEvent, Event

(***************************************************************************)
(* What a step makes of its own slot; it leaves the others alone.          *)
(***************************************************************************)
OthersWait(r) == \A q \in Requests \ {r} : request'[q] = request[q]

Moves(r, st) ==
  /\ request'[r].at = st
  /\ request'[r].callback = request[r].callback
  /\ request'[r].key = request[r].key
  /\ OthersWait(r)
  /\ acked' = acked

Stops(r) ==
  /\ request'[r].at = "idle"
  /\ OthersWait(r)

LEMMA GotoMoves ==
  ASSUME TypeOK, NEW r \in Requests, NEW st \in Statements, Goto(r, st), acked' = acked
  PROVE  request' \in [Requests -> Slot] /\ Moves(r, st) /\ request'[r].seen = request[r].seen
BY DEF TypeOK, Slot, Goto, Moves, OthersWait

LEMMA AnswerStops ==
  ASSUME TypeOK, NEW r \in Requests, Serving(r), request[r].at # "idle",
         NEW ok \in BOOLEAN, Answer(r, ok)
  PROVE  /\ request' \in [Requests -> Slot]
         /\ Stops(r)
         /\ acked' \subseteq Callbacks
         /\ acked' = IF ok THEN acked \cup {request[r].callback} ELSE acked
<1>1. Idle \in Slot /\ Idle.at = "idle" /\ request' = [request EXCEPT ![r] = Idle]
  BY DEF Slot, Idle, SendStates, Answer
<1>2. request[r].callback \in Callbacks
  BY DEF Serving
<1> QED
  BY <1>1, <1>2 DEF TypeOK, Stops, OthersWait, Answer

LEMMA DeliverBegins ==
  ASSUME TypeOK, NEW r \in Requests, NEW c \in Callbacks, Deliver(r, c)
  PROVE  /\ request' \in [Requests -> Slot]
         /\ request'[r].at = "find_event" /\ request'[r].callback = c
         /\ request'[r].key \in KeysOf(c) /\ Supported(c)
         /\ OthersWait(r)
<1>1. PICK key \in KeysOf(c) : request' = [request EXCEPT ![r] =
                     [Idle EXCEPT !.at = "find_event", !.callback = c, !.key = key]]
  BY DEF Deliver
<1>2. key \in Keys
  BY KeysAreKeys
<1> DEFINE slot == [Idle EXCEPT !.at = "find_event", !.callback = c, !.key = key]
<1>3. slot \in Slot /\ slot.at = "find_event" /\ slot.callback = c /\ slot.key = key
  BY <1>2 DEF Slot, Idle, SendStates, Statements
<1> HIDE DEF slot
<1>4. request' = [request EXCEPT ![r] = slot]
  BY <1>1 DEF slot
<1> QED
  BY <1>3, <1>4 DEF TypeOK, OthersWait, Deliver

LEMMA FindByEventKeyStep ==
  ASSUME TypeOK, NEW r \in Requests, Serving(r), FindByEventKey(r)
  PROVE  /\ request' \in [Requests -> Slot] /\ acked' \subseteq Callbacks
         /\ UNCHANGED <<status, acceptedAttempt, events, webhook, posts, early, faults>>
         /\ \/ Moves(r, "find_send")
            \/ /\ Stops(r) /\ acked' = acked \cup {request[r].callback}
               /\ \E e \in events : e.key = request[r].key
<1>1. CASE \E e \in events : e.key = request[r].key
  BY <1>1, AnswerStops, TRUE \in BOOLEAN DEF FindByEventKey
<1>2. CASE ~ \E e \in events : e.key = request[r].key
  BY <1>2, GotoMoves DEF FindByEventKey, Statements, TypeOK
<1> QED
  BY <1>1, <1>2

LEMMA FindByCorrelationStep ==
  ASSUME TypeOK, NEW r \in Requests, Serving(r), FindByCorrelation(r)
  PROVE  /\ request' \in [Requests -> Slot] /\ acked' \subseteq Callbacks
         /\ UNCHANGED <<status, acceptedAttempt, events, webhook, posts, faults>>
         /\ \/ /\ Moves(r, "judge") /\ request'[r].seen = status[request[r].callback.send]
               /\ early' = IF WithWorker(request[r].callback.send)
                           THEN early \cup {request[r].callback} ELSE early
            \/ Stops(r) /\ acked' = acked /\ early' = early
<1> DEFINE c == request[r].callback
<1>1. CASE Found(c)
  <2>1. request' = [request EXCEPT ![r].at = "judge", ![r].seen = status[c.send]]
    BY <1>1 DEF FindByCorrelation, Read
  <2>2. status[c.send] \in SendStates
    BY RequestTypes DEF FindByCorrelation, TypeOK
  <2>3. /\ early' = IF WithWorker(c.send) THEN early \cup {c} ELSE early
        /\ UNCHANGED <<status, acceptedAttempt, events, webhook, posts, acked, faults>>
    BY <1>1 DEF FindByCorrelation, Read
  <2> QED
    BY <2>1, <2>2, <2>3 DEF TypeOK, Slot, Statements, Moves, OthersWait
<1>2. CASE ~Found(c)
  BY <1>2, AnswerStops, FALSE \in BOOLEAN DEF FindByCorrelation
<1> QED
  BY <1>1, <1>2

LEMMA JudgeStep ==
  ASSUME TypeOK, NEW r \in Requests, Serving(r), Judge(r)
  PROVE  /\ request' \in [Requests -> Slot] /\ acked' \subseteq Callbacks
         /\ UNCHANGED <<status, acceptedAttempt, events, webhook, posts, early, faults>>
         /\ \/ /\ Moves(r, "append")
               /\ CanTransition(request[r].seen, EventState(EventType(request[r].callback)))
            \/ /\ Stops(r) /\ acked' = acked \cup {request[r].callback}
               /\ \/ \E e \in events : e.key = request[r].key
                  \/ ~CanTransition(request[r].seen, EventState(EventType(request[r].callback)))
<1> DEFINE outcome == DeliveryOutcome(Aggregate(r), request[r].key, EventType(request[r].callback))
<1>1. CASE outcome = "applied"
  <2>1. /\ request' = [request EXCEPT ![r].at = "append", ![r].seen = "draft"]
        /\ UNCHANGED <<status, acceptedAttempt, events, webhook, posts, early, acked, faults>>
    BY <1>1 DEF Judge
  <2>2. CanTransition(request[r].seen, EventState(EventType(request[r].callback)))
    BY <1>1 DEF DeliveryOutcome, Aggregate
  <2>3. [request[r] EXCEPT !.at = "append", !.seen = "draft"] \in Slot
    BY DEF TypeOK, Slot, Statements, SendStates
  <2>4. request' = [request EXCEPT ![r] = [request[r] EXCEPT !.at = "append", !.seen = "draft"]]
    BY <2>1 DEF TypeOK
  <2>5. request' \in [Requests -> Slot] /\ Moves(r, "append")
    BY <2>1, <2>3, <2>4 DEF TypeOK, Slot, Moves, OthersWait
  <2> QED
    BY <2>1, <2>2, <2>5 DEF TypeOK
<1>2. CASE outcome # "applied"
  BY <1>2, AnswerStops, TRUE \in BOOLEAN DEF Judge, DeliveryOutcome, Aggregate
<1> QED
  BY <1>1, <1>2

LEMMA AppendEventStep ==
  ASSUME TypeOK, NEW r \in Requests, Serving(r), AppendEvent(r)
  PROVE  /\ request' \in [Requests -> Slot] /\ acked' \subseteq Callbacks
         /\ UNCHANGED <<status, acceptedAttempt, webhook, posts, early, faults, acked>>
         /\ \/ /\ Moves(r, "set_status") /\ events' = events \cup {NewEvent(r)}
               /\ \A e \in events : e.key # request[r].key
            \/ Stops(r) /\ events' = events
<1>1. CASE \E e \in events : e.key = request[r].key
  BY <1>1, AnswerStops, FALSE \in BOOLEAN DEF AppendEvent
<1>2. CASE ~ \E e \in events : e.key = request[r].key
  BY <1>2, GotoMoves DEF AppendEvent, Statements, TypeOK
<1> QED
  BY <1>1, <1>2

LEMMA SetStatusStep ==
  ASSUME TypeOK, NEW r \in Requests, Serving(r), SetStatus(r)
  PROVE  /\ request' \in [Requests -> Slot] /\ acked' \subseteq Callbacks
         /\ UNCHANGED <<acceptedAttempt, events, webhook, posts, early, faults>>
         /\ status' = [status EXCEPT ![request[r].callback.send] =
                         EventType(request[r].callback)]
         /\ \/ /\ Moves(r, "find_webhook")
               /\ EventType(request[r].callback) \in TerminalStates
            \/ /\ Stops(r) /\ acked' = acked \cup {request[r].callback}
               /\ EventType(request[r].callback) \notin TerminalStates
<1>1. CASE EventType(request[r].callback) \in TerminalStates
  BY <1>1, GotoMoves DEF SetStatus, AnnounceResult, Statements, EventState, TypeOK
<1>2. CASE EventType(request[r].callback) \notin TerminalStates
  BY <1>2, AnswerStops, TRUE \in BOOLEAN DEF SetStatus, AnnounceResult, EventState
<1> QED
  BY <1>1, <1>2

LEMMA FindWebhookStep ==
  ASSUME TypeOK, NEW r \in Requests, Serving(r), FindWebhook(r)
  PROVE  /\ request' \in [Requests -> Slot] /\ acked' \subseteq Callbacks
         /\ UNCHANGED <<status, acceptedAttempt, events, webhook, posts, early, faults>>
         /\ \/ Moves(r, "post")
            \/ /\ Stops(r) /\ acked' = acked \cup {request[r].callback}
               /\ webhook[request[r].callback.send].status = "none"
<1> DEFINE row == webhook[request[r].callback.send]
<1>1. CASE row.status = "none"
  BY <1>1, AnswerStops, TRUE \in BOOLEAN DEF FindWebhook
<1>2. CASE row.status # "none"
  <2>1. request' = [request EXCEPT ![r].at = "post", ![r].count = row.count]
    BY <1>2 DEF FindWebhook
  <2>2. row.count \in Nat
    BY RequestTypes DEF FindWebhook, TypeOK, Webhook
  <2>3. request \in [Requests -> Slot] /\ acked \subseteq Callbacks
    BY DEF TypeOK
  <2>4. acked' = acked /\ UNCHANGED <<status, acceptedAttempt, events, webhook, posts, early, faults>>
    BY <1>2 DEF FindWebhook, ledger
  <2>5. request' \in [Requests -> Slot] /\ Moves(r, "post")
    BY <2>1, <2>2, <2>3, <2>4 DEF Slot, Statements, Moves, OthersWait
  <2> QED
    BY <2>3, <2>4, <2>5
<1> QED
  BY <1>1, <1>2

LEMMA PostWebhookStep ==
  ASSUME TypeOK, NEW r \in Requests, Serving(r), PostWebhook(r)
  PROVE  /\ request' \in [Requests -> Slot]
         /\ UNCHANGED <<status, acceptedAttempt, events, webhook, early, faults, acked>>
         /\ Moves(r, "mark_delivered") \/ Moves(r, "mark_failed")
         /\ \/ posts' = posts
            \/ posts' = [posts EXCEPT ![request[r].callback.send] =
                           Append(@, EventType(request[r].callback))]
BY GotoMoves DEF PostWebhook, Statements

LEMMA MarkAttemptStep ==
  ASSUME TypeOK, NEW r \in Requests, Serving(r), request[r].at # "idle",
         NEW to \in WebhookStates, MarkAttempt(r, to)
  PROVE  /\ request' \in [Requests -> Slot] /\ acked' \subseteq Callbacks
         /\ UNCHANGED <<status, acceptedAttempt, events, posts, early, faults>>
         /\ webhook' \in [Sends -> Webhook]
         /\ \A s \in Sends : \/ webhook'[s] = webhook[s] /\ s # request[r].callback.send
                             \/ webhook'[s].status = to
         /\ Stops(r) /\ acked' = acked \cup {request[r].callback}
<1>1. /\ request' \in [Requests -> Slot] /\ acked' \subseteq Callbacks
      /\ Stops(r) /\ acked' = acked \cup {request[r].callback}
  BY AnswerStops, TRUE \in BOOLEAN DEF MarkAttempt
<1> DEFINE row == [status |-> to, count |-> request[r].count + 1]
<1>2. row \in Webhook /\ row.status = to
  BY DEF Webhook, TypeOK, Slot
<1> HIDE DEF row
<1>3. webhook' = [webhook EXCEPT ![request[r].callback.send] = row]
  BY DEF MarkAttempt, row
<1> QED
  BY <1>1, <1>2, <1>3 DEF MarkAttempt, TypeOK

LEMMA DbErrorStep ==
  ASSUME TypeOK, NEW r \in Requests, Serving(r), DbError(r)
  PROVE  /\ request' \in [Requests -> Slot]
         /\ UNCHANGED <<status, acceptedAttempt, events, webhook, posts, early, acked>>
         /\ \/ At(r, "mark_delivered") /\ Moves(r, "mark_failed")
            \/ Stops(r)
         /\ faults' \in [FaultKinds -> Nat] /\ faults'["db_error"] # 0
<1>1. faults' \in [FaultKinds -> Nat] /\ faults'["db_error"] # 0
  BY DEF DbError, Strike, TypeOK, FaultKinds
<1>2. CASE At(r, "mark_delivered")
  BY <1>1, <1>2, GotoMoves DEF DbError, Statements
<1>3. CASE ~At(r, "mark_delivered")
  BY <1>1, <1>3, AnswerStops, FALSE \in BOOLEAN DEF DbError
<1> QED
  BY <1>2, <1>3

LEMMA CrashStep ==
  ASSUME TypeOK, Crash
  PROVE  /\ request' \in [Requests -> Slot]
         /\ \A r \in Requests : request'[r].at = "idle"
         /\ UNCHANGED <<status, acceptedAttempt, events, webhook, posts, early, acked>>
         /\ faults' \in [FaultKinds -> Nat] /\ faults'["crash"] # 0
<1>1. faults' \in [FaultKinds -> Nat] /\ faults'["crash"] # 0
  BY DEF Crash, Strike, TypeOK, FaultKinds
<1>2. Idle \in Slot /\ Idle.at = "idle"
  BY DEF Slot, Idle, SendStates
<1> QED
  BY <1>1, <1>2 DEF Crash

LEMMA LateRowStep ==
  ASSUME TypeOK, NEW s \in Sends, RegisterWebhookLate(s)
  PROVE  /\ webhook' \in [Sends -> Webhook]
         /\ UNCHANGED <<status, acceptedAttempt, events, posts, early, request, acked>>
         /\ faults' \in [FaultKinds -> Nat] /\ faults'["late_row"] # 0
         /\ \A k \in FaultKinds \ {"late_row"} : faults'[k] = faults[k]
<1>1. /\ faults' \in [FaultKinds -> Nat] /\ faults'["late_row"] # 0
      /\ \A k \in FaultKinds \ {"late_row"} : faults'[k] = faults[k]
  BY DEF RegisterWebhookLate, Strike, TypeOK, FaultKinds
<1>2. webhook' \in [Sends -> Webhook]
  BY DEF RegisterWebhookLate, TypeOK, Webhook, WebhookStates
<1> QED
  BY <1>1, <1>2 DEF RegisterWebhookLate

(* The worker: it writes until it has stored the acceptance.               *)
LEMMA WorkerStep ==
  ASSUME TypeOK, Worker
  PROVE  /\ UNCHANGED <<events, webhook, posts, early, request, acked, faults>>
         /\ status' \in [Sends -> SendStates] /\ acceptedAttempt' \in [Sends -> Nat]
         /\ \A s \in Sends :
              \/ status'[s] = status[s] /\ acceptedAttempt'[s] = acceptedAttempt[s]
              \/ /\ acceptedAttempt[s] = 0
                 /\ IF acceptedAttempt'[s] = 0 THEN status'[s] \in {"dispatching", "deferred"}
                    ELSE status'[s] = "accepted_by_mta"
<1> DEFINE Writes(s) == /\ acceptedAttempt[s] = 0
                        /\ IF acceptedAttempt'[s] = 0 THEN status'[s] \in {"dispatching", "deferred"}
                           ELSE status'[s] = "accepted_by_mta"
<1>1. ASSUME NEW s \in Sends, StoreAcceptance(s)
      PROVE  /\ status' \in [Sends -> SendStates] /\ acceptedAttempt' \in [Sends -> Nat]
             /\ Writes(s) /\ \A t \in Sends \ {s} : UNCHANGED <<status[t], acceptedAttempt[t]>>
  BY <1>1 DEF StoreAcceptance, TypeOK, SendStates
<1>2. ASSUME NEW s \in Sends, TryAgain(s)
      PROVE  /\ status' \in [Sends -> SendStates] /\ acceptedAttempt' \in [Sends -> Nat]
             /\ Writes(s) /\ \A t \in Sends \ {s} : UNCHANGED <<status[t], acceptedAttempt[t]>>
  <2>1. PICK to \in {"deferred", "dispatching"} : status' = [status EXCEPT ![s] = to]
    BY <1>2 DEF TryAgain
  <2> QED
    BY <1>2, <2>1 DEF TryAgain, TypeOK, SendStates
<1>3. UNCHANGED <<events, webhook, posts, early, request, acked, faults>>
  BY DEF Worker, StoreAcceptance, TryAgain
<1> HIDE DEF Writes
<1>4. /\ status' \in [Sends -> SendStates] /\ acceptedAttempt' \in [Sends -> Nat]
      /\ \A s \in Sends : \/ status'[s] = status[s] /\ acceptedAttempt'[s] = acceptedAttempt[s]
                          \/ Writes(s)
  BY <1>1, <1>2 DEF Worker
<1> QED
  BY <1>3, <1>4 DEF Writes

THEOREM InitInv == Init => IInv
<1> SUFFICES ASSUME Init PROVE IInv
  OBVIOUS
<1> USE DEF Init, InitSends, InitConsole
<1>1. TypeOK
  <2>1. Idle \in Slot
    BY DEF Slot, Idle, SendStates
  <2>2. webhook \in [Sends -> Webhook]
    BY DEF Webhook, WebhookStates
  <2>3. posts \in [Sends -> Seq(DeliveryResultTypes)]
    OBVIOUS
  <2> QED
    BY <2>1, <2>2, <2>3 DEF TypeOK, SendStates, FaultKinds
<1>2. RequestInv /\ OneOwner
  BY DEF RequestInv, Serving, AsRead, Judged, OneOwner, Idle, Announcing, Owning
<1>3. EventInv /\ StatusInv
  BY FS_EmptySet DEF EventInv, StatusInv, Outcomes
<1>4. PostInv
  <2> SUFFICES ASSUME NEW s \in Sends
               PROVE  Len(posts[s]) <= Cardinality(Told(s)) /\ 1 .. Len(posts[s]) = {}
    BY DEF PostInv
  <2>1. Told(s) = {}
    BY DEF Told, ResultEvents
  <2>2. Len(posts[s]) = 0
    OBVIOUS
  <2> QED
    BY <2>1, <2>2, FS_EmptySet
<1>5. SettleInv /\ AckInv /\ AnnounceInv
  BY DEF SettleInv, AckInv, AnnounceInv, TerminalStates
<1> QED
  BY <1>1, <1>2, <1>3, <1>4, <1>5 DEF IInv


THEOREM NextTypes == IInv /\ [Next]_vars => TypeOK'
<1> SUFFICES ASSUME IInv, [Next]_vars PROVE TypeOK'
  OBVIOUS
<1>0. TypeOK /\ \A r \in Requests : Serving(r)
  BY DEF IInv, RequestInv
<1>1. ASSUME NEW r \in Requests, NEW c \in Callbacks, Deliver(r, c) PROVE TypeOK'
  BY <1>0, <1>1, DeliverBegins DEF Deliver, TypeOK
<1>2. ASSUME NEW r \in Requests, FindByEventKey(r) PROVE TypeOK'
  BY <1>0, <1>2, FindByEventKeyStep DEF TypeOK
<1>3. ASSUME NEW r \in Requests, FindByCorrelation(r) PROVE TypeOK'
  <2>1. request[r].callback \in Callbacks
    BY <1>0, <1>3 DEF FindByCorrelation, Serving
  <2> QED
    BY <1>0, <1>3, <2>1, FindByCorrelationStep DEF TypeOK
<1>4. ASSUME NEW r \in Requests, Judge(r) PROVE TypeOK'
  BY <1>0, <1>4, JudgeStep DEF TypeOK
<1>5. ASSUME NEW r \in Requests, AppendEvent(r) PROVE TypeOK'
  <2>1. NewEvent(r) \in Event
    BY <1>0, <1>5, RequestTypes DEF AppendEvent
  <2> QED
    BY <1>0, <1>5, <2>1, AppendEventStep DEF TypeOK
<1>6. ASSUME NEW r \in Requests, SetStatus(r) PROVE TypeOK'
  <2>1. EventType(request[r].callback) \in SendStates
    BY <1>0, <1>6, RequestTypes, OutcomesAreTerminal DEF SetStatus
  <2> QED
    BY <1>0, <1>6, <2>1, SetStatusStep DEF TypeOK
<1>7. ASSUME NEW r \in Requests, FindWebhook(r) PROVE TypeOK'
  BY <1>0, <1>7, FindWebhookStep DEF TypeOK
<1>8. ASSUME NEW r \in Requests, PostWebhook(r) PROVE TypeOK'
  <2>1. /\ EventType(request[r].callback) \in DeliveryResultTypes
        /\ request[r].callback.send \in Sends
    BY <1>0, <1>8, RequestTypes DEF PostWebhook, IInv, RequestInv, Judged, Announcing
  <2> DEFINE type == EventType(request[r].callback)
             send == request[r].callback.send
  <2>2. type \in TerminalStates /\ send \in Sends /\ posts \in [Sends -> Seq(TerminalStates)]
    BY <1>0, <2>1 DEF TypeOK
  <2>3. posts' = posts \/ posts' = [posts EXCEPT ![send] = Append(@, type)]
    BY <1>0, <1>8, PostWebhookStep
  <2> HIDE DEF type, send
  <2>4. Append(posts[send], type) \in Seq(TerminalStates)
    BY <2>2
  <2>5. posts' \in [Sends -> Seq(TerminalStates)]
    BY <2>2, <2>3, <2>4
  <2> QED
    BY <1>0, <1>8, <2>5, PostWebhookStep DEF TypeOK
<1>9. ASSUME NEW r \in Requests, NEW to \in WebhookStates, request[r].at # "idle",
             MarkAttempt(r, to)
      PROVE  TypeOK'
  BY <1>0, <1>9, MarkAttemptStep DEF TypeOK
<1>10. ASSUME NEW r \in Requests, DbError(r) PROVE TypeOK'
  BY <1>0, <1>10, DbErrorStep DEF TypeOK
<1>11. CASE Crash
  BY <1>0, <1>11, CrashStep DEF TypeOK
<1>12. ASSUME NEW s \in Sends, RegisterWebhookLate(s) PROVE TypeOK'
  BY <1>0, <1>12, LateRowStep DEF TypeOK
<1>13. CASE UNCHANGED vars
  BY <1>0, <1>13 DEF vars, TypeOK
<1>14. CASE Worker
  BY <1>0, <1>14, WorkerStep DEF TypeOK
<1> QED
  BY <1>1, <1>2, <1>3, <1>4, <1>5, <1>6, <1>7, <1>8, <1>9, <1>10, <1>11, <1>12, <1>13, <1>14
     DEF Next, Handler, Fault, MarkDelivered, MarkFailed, WebhookStates

(***************************************************************************)
(* What no step takes back: events, acceptances and what was reported      *)
(* early stay, and where nothing was, an outcome gives way to an outcome   *)
(* only.                                                                   *)
(***************************************************************************)
LEMMA EarlyStays ==
  ASSUME IInv, [Next]_vars
  PROVE  /\ early \subseteq early'
         /\ \A s \in Sends : ReportedEarly(s) => ReportedEarly(s)'
<1>1. early \subseteq early'
  <2>1. ASSUME NEW r \in Requests, FindByCorrelation(r) PROVE early \subseteq early'
    BY <2>1 DEF FindByCorrelation, Read
  <2> QED
    BY <2>1
       DEF Next, Handler, Fault, Worker, vars, Deliver, FindByEventKey, Judge, AppendEvent, SetStatus,
           FindWebhook, PostWebhook, MarkDelivered, MarkFailed, MarkAttempt, Crash, DbError,
           RegisterWebhookLate, StoreAcceptance, TryAgain
<1> QED
  BY <1>1 DEF ReportedEarly

LEMMA NothingIsTakenBack ==
  ASSUME IInv, [Next]_vars
  PROVE  /\ events \subseteq events'
         /\ \A s \in Sends :
              /\ acceptedAttempt[s] # 0 => acceptedAttempt'[s] # 0
              /\ status[s] \in Outcomes /\ ~ReportedEarly(s) => status'[s] \in Outcomes
<1>0. TypeOK /\ StatusInv /\ \A r \in Requests : Serving(r) /\ Judged(r)
  BY DEF IInv, RequestInv
<1> DEFINE Goal == /\ events \subseteq events'
                   /\ \A s \in Sends :
                        /\ acceptedAttempt[s] # 0 => acceptedAttempt'[s] # 0
                        /\ status[s] \in Outcomes /\ ~ReportedEarly(s) => status'[s] \in Outcomes
<1>1. ASSUME NEW r \in Requests, Handler(r) PROVE Goal
  <2>1. CASE AppendEvent(r)
    BY <1>0, <2>1, AppendEventStep
  <2>2. CASE SetStatus(r)
    <3>1. request[r].at = "set_status"
      BY <2>2 DEF SetStatus
    <3>2. ~ReportedEarly(request[r].callback.send) => EventType(request[r].callback) \in Outcomes
      BY <1>0, <3>1 DEF Judged
    <3>3. /\ UNCHANGED <<events, acceptedAttempt>>
          /\ status' = [status EXCEPT ![request[r].callback.send] =
                          EventType(request[r].callback)]
      BY <1>0, <2>2, SetStatusStep
    <3> QED
      BY <1>0, <3>2, <3>3 DEF TypeOK
  <2>3. CASE PostWebhook(r)
    BY <1>0, <2>3, PostWebhookStep
  <2> QED
    BY <1>1, <2>1, <2>2, <2>3
       DEF Handler, FindByEventKey, FindByCorrelation, Judge, FindWebhook, MarkDelivered,
           MarkFailed, MarkAttempt
<1>2. ASSUME NEW r \in Requests, NEW c \in Callbacks, Deliver(r, c) PROVE Goal
  BY <1>2 DEF Deliver
<1>3. CASE Fault
  BY <1>3 DEF Fault, Crash, DbError, RegisterWebhookLate
<1>4. CASE Worker
  <2>1. \A s \in Sends : acceptedAttempt[s] = 0 /\ ~ReportedEarly(s) => status[s] \notin Outcomes
    BY <1>0 DEF StatusInv, Outcomes
  <2>2. acceptedAttempt \in [Sends -> Nat] /\ events' = events
    BY <1>0, <1>4, WorkerStep DEF TypeOK
  <2> QED
    BY <1>0, <1>4, <2>1, <2>2, WorkerStep
<1> QED
  BY <1>1, <1>2, <1>3, <1>4 DEF Next, vars

(* What the judgement of a request says about its callback.                *)
LEMMA JudgedByTable ==
  ASSUME TypeOK, NEW r \in Requests, Serving(r), AsRead(r), At(r, "judge")
  PROVE  LET c == request[r].callback IN
         /\ CanTransition(request[r].seen, EventState(EventType(c))) /\ ~ReportedEarly(c.send) =>
              EventType(c) \in Outcomes /\ acceptedAttempt[c.send] # 0
         /\ ~CanTransition(request[r].seen, EventState(EventType(c))) /\ ~ReportedEarly(c.send)
               /\ c \notin early /\ EventType(c) \in Outcomes =>
              status[c.send] \in Outcomes
<1> DEFINE c == request[r].callback
           seen == request[r].seen
           type == EventType(c)
<1>1. seen \in SendStates /\ type \in EventTypes /\ c \in Callbacks
  BY RequestTypes DEF TypeOK, Slot
<1>2. CASE CanTransition(seen, EventState(type)) /\ ~ReportedEarly(c.send)
  <2>1. c \in early => type \in Outcomes
    BY <1>2 DEF ReportedEarly, Outcomes
  <2>2. seen = "accepted_by_mta"
    BY <1>1, <1>2, <2>1, JudgedTypes DEF AsRead
  <2> QED
    BY <1>1, <1>2, <2>2, JudgedTypes DEF AsRead, Reached
<1>3. CASE /\ ~CanTransition(seen, EventState(type)) /\ ~ReportedEarly(c.send)
           /\ c \notin early /\ type \in Outcomes
  <2>1. seen # "accepted_by_mta"
    BY <1>1, <1>3, JudgedTypes
  <2>2. seen \in Outcomes
    BY <1>3, <2>1 DEF AsRead, Reached, TerminalStates
  <2> QED
    BY <1>3, <2>2 DEF AsRead
<1> QED
  BY <1>2, <1>3

LEMMA MovedSlot ==
  ASSUME NEW r \in Requests, NEW st, Moves(r, st), Serving(r), request[r].at # "idle"
  PROVE  /\ Serving(r)' /\ NewEvent(r)' = NewEvent(r)
         /\ EventType(request'[r].callback) = EventType(request[r].callback)
         /\ request'[r].callback.send = request[r].callback.send
BY DEF Moves, Serving, NewEvent

(* A slot that a step leaves alone, and one that is done.                  *)
LEMMA WaitingSlot ==
  ASSUME IInv, [Next]_vars, NEW q \in Requests, request'[q] = request[q]
  PROVE  Serving(q)' /\ AsRead(q)' /\ Judged(q)' /\ NewEvent(q)' = NewEvent(q)
<1>1. Serving(q) /\ AsRead(q) /\ Judged(q)
  BY DEF IInv, RequestInv
<1>2. NewEvent(q)' = NewEvent(q) /\ Serving(q)'
  BY <1>1 DEF Serving, NewEvent
<1>3. request[q].at # "idle" => request[q].callback.send \in Sends
  BY <1>1, RequestTypes DEF IInv
<1>4. AsRead(q)'
  BY <1>1, <1>3, EarlyStays, NothingIsTakenBack DEF AsRead
<1>5. Judged(q)'
  BY <1>1, <1>2, <1>3, EarlyStays, NothingIsTakenBack DEF Judged, Announcing
<1> QED
  BY <1>2, <1>4, <1>5

LEMMA IdleSlot ==
  ASSUME NEW r \in Requests, request'[r].at = "idle"
  PROVE  Serving(r)' /\ AsRead(r)' /\ Judged(r)'
BY DEF Serving, AsRead, Judged, Announcing, Owning

THEOREM NextRequests == IInv /\ [Next]_vars => RequestInv'
<1> SUFFICES ASSUME IInv, [Next]_vars PROVE RequestInv'
  OBVIOUS
<1>0. TypeOK /\ StatusInv /\ \A r \in Requests : Serving(r) /\ AsRead(r) /\ Judged(r)
  BY DEF IInv, RequestInv
<1>a. ASSUME NEW r \in Requests, OthersWait(r), Serving(r)', AsRead(r)', Judged(r)'
      PROVE  RequestInv'
  BY <1>a, WaitingSlot DEF RequestInv, OthersWait
<1>b. ASSUME NEW r \in Requests, Stops(r) PROVE RequestInv'
  BY <1>a, <1>b, IdleSlot DEF Stops
<1>c. ASSUME NEW r \in Requests, NEW st, Moves(r, st), request[r].at # "idle",
             st # "judge", Judged(r)'
      PROVE  RequestInv'
  BY <1>0, <1>a, <1>c, MovedSlot DEF Moves, AsRead
<1>d. ASSUME UNCHANGED request PROVE RequestInv'
  BY <1>d, WaitingSlot DEF RequestInv
<1>1. ASSUME NEW r \in Requests, NEW c \in Callbacks, Deliver(r, c) PROVE RequestInv'
  <2>1. /\ request'[r].at = "find_event" /\ request'[r].callback = c
        /\ request'[r].key \in KeysOf(c) /\ Supported(c) /\ OthersWait(r)
    BY <1>0, <1>1, DeliverBegins
  <2> QED
    BY <1>a, <2>1 DEF Serving, AsRead, Judged, Announcing, Owning
<1>2. ASSUME NEW r \in Requests, FindByEventKey(r) PROVE RequestInv'
  <2>1. CASE Moves(r, "find_send")
    BY <1>2, <1>c, <2>1 DEF FindByEventKey, Moves, Judged, Announcing, Owning
  <2> QED
    BY <1>0, <1>2, <1>b, <2>1, FindByEventKeyStep
<1>3. ASSUME NEW r \in Requests, FindByCorrelation(r) PROVE RequestInv'
  <2> DEFINE c == request[r].callback
  <2>1. CASE /\ Moves(r, "judge") /\ request'[r].seen = status[c.send]
             /\ early' = IF WithWorker(c.send) THEN early \cup {c} ELSE early
             /\ UNCHANGED <<status, acceptedAttempt>>
    <3>1. c.send \in Sends /\ request[r].at = "find_send"
      BY <1>0, <1>3, RequestTypes DEF FindByCorrelation
    <3>0. request'[r].callback = c /\ request'[r].at = "judge"
      BY <2>1 DEF Moves
    <3>2. ~ReportedEarly(c.send)' => ~ReportedEarly(c.send)
      BY <3>0, EarlyStays DEF ReportedEarly
    <3>3. ~ReportedEarly(c.send) =>
            status[c.send] \in IF acceptedAttempt[c.send] = 0 THEN {"dispatching", "deferred"}
                               ELSE Reached
      BY <1>0, <3>1 DEF StatusInv
    <3>5. AsRead(r)'
      BY <2>1, <3>0, <3>2, <3>3 DEF AsRead, WithWorker, Reached, Outcomes
    <3>6. Judged(r)' /\ Serving(r)'
      BY <1>0, <2>1, <3>0, <3>1, MovedSlot DEF Judged, Announcing, Owning
    <3> QED
      BY <1>a, <2>1, <3>5, <3>6 DEF Moves
  <2> QED
    BY <1>0, <1>3, <1>b, <2>1, FindByCorrelationStep
<1>4. ASSUME NEW r \in Requests, Judge(r) PROVE RequestInv'
  <2> DEFINE c == request[r].callback
  <2>1. CASE /\ Moves(r, "append") /\ UNCHANGED <<acceptedAttempt, early>>
             /\ CanTransition(request[r].seen, EventState(EventType(c)))
    <3>1. ~ReportedEarly(c.send) => EventType(c) \in Outcomes /\ acceptedAttempt[c.send] # 0
      BY <1>0, <1>4, <2>1, JudgedByTable DEF Judge
    <3>2. ReportedEarly(c.send)' = ReportedEarly(c.send) /\ request'[r].callback = c
      BY <2>1 DEF ReportedEarly, Moves
    <3>3. Judged(r)'
      BY <2>1, <3>1, <3>2 DEF Moves, Judged, Announcing, Owning
    <3> QED
      BY <1>4, <1>c, <2>1, <3>3 DEF Judge
  <2> QED
    BY <1>0, <1>4, <1>b, <2>1, JudgeStep
<1>5. ASSUME NEW r \in Requests, AppendEvent(r) PROVE RequestInv'
  <2>1. CASE /\ Moves(r, "set_status") /\ events' = events \cup {NewEvent(r)}
             /\ UNCHANGED <<acceptedAttempt, early>>
    <3>1. request[r].at = "append"
      BY <1>5 DEF AppendEvent
    <3>2. NewEvent(r)' \in events' /\ request'[r].callback = request[r].callback
      BY <1>0, <2>1, <3>1, MovedSlot DEF Moves
    <3>3. ReportedEarly(request[r].callback.send)' = ReportedEarly(request[r].callback.send)
      BY <2>1, <3>2 DEF ReportedEarly
    <3>4. Judged(r)'
      BY <1>0, <2>1, <3>1, <3>2, <3>3 DEF Moves, Judged, Announcing, Owning
    <3> QED
      BY <1>c, <2>1, <3>1, <3>4
  <2> QED
    BY <1>0, <1>5, <1>b, <2>1, AppendEventStep
<1>6. ASSUME NEW r \in Requests, SetStatus(r) PROVE RequestInv'
  <2> DEFINE c == request[r].callback
  <2>1. /\ request[r].at = "set_status" /\ c.send \in Sends /\ NewEvent(r) \in events
        /\ ~ReportedEarly(c.send) => EventType(c) \in Outcomes
    BY <1>0, <1>6, RequestTypes DEF SetStatus, Judged, Owning
  <2>2. CASE /\ Moves(r, "find_webhook") /\ UNCHANGED <<events, early>>
             /\ EventType(c) \in TerminalStates
             /\ status' = [status EXCEPT ![c.send] = EventType(c)]
    <3>1. request'[r].callback = c /\ request'[r].at = "find_webhook"
      BY <2>2 DEF Moves
    <3>2. ReportedEarly(c.send)' = ReportedEarly(c.send) /\ status'[c.send] = EventType(c)
      BY <1>0, <2>1, <2>2, <3>1 DEF ReportedEarly, TypeOK
    <3>3. NewEvent(r)' \in events'
      BY <1>0, <2>1, <2>2, MovedSlot
    <3>4. Judged(r)'
      BY <2>1, <2>2, <3>1, <3>2, <3>3 DEF Judged
    <3> QED
      BY <1>c, <2>1, <2>2, <3>4
  <2> QED
    BY <1>0, <1>6, <1>b, <2>2, SetStatusStep
<1>7. ASSUME NEW r \in Requests, FindWebhook(r) PROVE RequestInv'
  <2>1. CASE Moves(r, "post") /\ UNCHANGED <<status, events, early>>
    <3>1. NewEvent(r)' = NewEvent(r) /\ request'[r].callback = request[r].callback
      BY <1>0, <1>7, <2>1, MovedSlot DEF FindWebhook, Moves
    <3>2. ReportedEarly(request[r].callback.send)' = ReportedEarly(request[r].callback.send)
      BY <2>1, <3>1 DEF ReportedEarly
    <3>3. Judged(r)'
      BY <1>0, <1>7, <2>1, <3>1, <3>2 DEF FindWebhook, Moves, Judged, Announcing, Owning
    <3> QED
      BY <1>7, <1>c, <2>1, <3>3 DEF FindWebhook
  <2> QED
    BY <1>0, <1>7, <1>b, <2>1, FindWebhookStep
<1>8. ASSUME NEW r \in Requests, PostWebhook(r) PROVE RequestInv'
  <2>1. PICK st \in {"mark_delivered", "mark_failed"} :
          Moves(r, st) /\ UNCHANGED <<status, events, early>>
    BY <1>0, <1>8, PostWebhookStep
  <2>2. ReportedEarly(request[r].callback.send)' = ReportedEarly(request[r].callback.send)
    BY <2>1 DEF ReportedEarly, Moves
  <2>3. Judged(r)'
    BY <1>0, <1>8, <2>1, <2>2 DEF PostWebhook, Moves, Judged, Announcing, Owning
  <2> QED
    BY <1>8, <1>c, <2>1, <2>3 DEF PostWebhook
<1>9. ASSUME NEW r \in Requests, NEW to \in WebhookStates, request[r].at # "idle",
             MarkAttempt(r, to)
      PROVE  RequestInv'
  BY <1>0, <1>9, <1>b, MarkAttemptStep
<1>10. ASSUME NEW r \in Requests, DbError(r) PROVE RequestInv'
  <2>1. CASE At(r, "mark_delivered") /\ Moves(r, "mark_failed") /\ UNCHANGED <<status, events, early>>
    <3>1. ReportedEarly(request[r].callback.send)' = ReportedEarly(request[r].callback.send)
      BY <2>1 DEF ReportedEarly, Moves
    <3>2. Judged(r)'
      BY <1>0, <2>1, <3>1 DEF Moves, Judged, Announcing, Owning
    <3> QED
      BY <1>c, <2>1, <3>2
  <2> QED
    BY <1>0, <1>10, <1>b, <2>1, DbErrorStep
<1>11. CASE Crash
  BY <1>0, <1>11, CrashStep, IdleSlot DEF RequestInv
<1>12. ASSUME NEW s \in Sends, RegisterWebhookLate(s) PROVE RequestInv'
  BY <1>12, <1>d DEF RegisterWebhookLate
<1>13. CASE Worker \/ UNCHANGED vars
  BY <1>0, <1>13, <1>d, WorkerStep DEF vars
<1> QED
  BY <1>1, <1>2, <1>3, <1>4, <1>5, <1>6, <1>7, <1>8, <1>9, <1>10, <1>11, <1>12, <1>13
     DEF Next, Handler, Fault, MarkDelivered, MarkFailed, WebhookStates

(***************************************************************************)
(* Who owns an event: the request that appended it, alone.                 *)
(***************************************************************************)
(* But for AppendEvent, who owns an event after a step owned it before.    *)
LEMMA OwnersStay ==
  ASSUME IInv, [Next]_vars
  PROVE  \/ \A q \in Requests : request'[q].at \in Owning =>
              /\ request[q].at \in Owning
              /\ request'[q].key = request[q].key
              /\ NewEvent(q)' = NewEvent(q)
         \/ \E r \in Requests :
              /\ AppendEvent(r) /\ Moves(r, "set_status")
              /\ events' = events \cup {NewEvent(r)}
              /\ \A e \in events : e.key # request[r].key
<1>0. TypeOK /\ \A r \in Requests : Serving(r) /\ Judged(r)
  BY DEF IInv, RequestInv
<1> DEFINE Kept(q) == request'[q].at \in Owning =>
                        /\ request[q].at \in Owning
                        /\ request'[q].key = request[q].key
                        /\ NewEvent(q)' = NewEvent(q)
           Appends(r) == /\ AppendEvent(r) /\ Moves(r, "set_status")
                         /\ events' = events \cup {NewEvent(r)}
                         /\ \A e \in events : e.key # request[r].key
           Goal == (\A q \in Requests : Kept(q)) \/ (\E r \in Requests : Appends(r))
<1>a. ASSUME NEW q \in Requests, request'[q] = request[q] PROVE Kept(q)
  BY <1>a, WaitingSlot
<1>b. ASSUME NEW r \in Requests, OthersWait(r), Kept(r) PROVE Goal
  BY <1>a, <1>b DEF OthersWait
<1>c. ASSUME NEW r \in Requests, Stops(r) PROVE Goal
  BY <1>b, <1>c DEF Stops, Owning
<1>d. ASSUME NEW r \in Requests, NEW st, Moves(r, st), request[r].at # "idle",
             st \in Owning => request[r].at \in Owning
      PROVE  Goal
  BY <1>0, <1>b, <1>d, MovedSlot DEF Moves
<1>e. ASSUME UNCHANGED request PROVE Goal
  BY <1>a, <1>e
<1> SUFFICES Goal
  OBVIOUS
<1> HIDE DEF Kept, Appends, Goal
<1>1. ASSUME NEW r \in Requests, NEW c \in Callbacks, Deliver(r, c) PROVE Goal
  <2>1. request'[r].at = "find_event" /\ OthersWait(r)
    BY <1>0, <1>1, DeliverBegins
  <2> QED
    BY <1>b, <2>1 DEF Owning, Kept
<1>2. ASSUME NEW r \in Requests, FindByEventKey(r) PROVE Goal
  <2>1. Moves(r, "find_send") \/ Stops(r)
    BY <1>0, <1>2, FindByEventKeyStep
  <2> QED
    BY <1>2, <2>1, <1>c, <1>d DEF FindByEventKey, Owning
<1>3. ASSUME NEW r \in Requests, FindByCorrelation(r) PROVE Goal
  <2>1. Moves(r, "judge") \/ Stops(r)
    BY <1>0, <1>3, FindByCorrelationStep
  <2> QED
    BY <1>3, <2>1, <1>c, <1>d DEF FindByCorrelation, Owning
<1>4. ASSUME NEW r \in Requests, Judge(r) PROVE Goal
  <2>1. Moves(r, "append") \/ Stops(r)
    BY <1>0, <1>4, JudgeStep
  <2> QED
    BY <1>4, <2>1, <1>c, <1>d DEF Judge, Owning
<1>5. ASSUME NEW r \in Requests, AppendEvent(r) PROVE Goal
  <2>1. Appends(r) \/ Stops(r)
    BY <1>0, <1>5, AppendEventStep DEF Appends
  <2> QED
    BY <2>1, <1>c DEF Goal
<1>6. ASSUME NEW r \in Requests, SetStatus(r) PROVE Goal
  <2>1. request[r].at = "set_status" /\ (Moves(r, "find_webhook") \/ Stops(r))
    BY <1>0, <1>6, SetStatusStep DEF SetStatus
  <2> QED
    BY <2>1, <1>c, <1>d DEF Owning
<1>7. ASSUME NEW r \in Requests, FindWebhook(r) PROVE Goal
  <2>1. Moves(r, "post") \/ Stops(r)
    BY <1>0, <1>7, FindWebhookStep
  <2> QED
    BY <1>7, <2>1, <1>c, <1>d DEF FindWebhook, Owning
<1>8. ASSUME NEW r \in Requests, PostWebhook(r) PROVE Goal
  <2>1. Moves(r, "mark_delivered") \/ Moves(r, "mark_failed")
    BY <1>0, <1>8, PostWebhookStep
  <2> QED
    BY <1>8, <2>1, <1>d DEF PostWebhook, Owning
<1>9. ASSUME NEW r \in Requests, NEW to \in WebhookStates, request[r].at # "idle",
             MarkAttempt(r, to)
      PROVE  Goal
  BY <1>0, <1>9, <1>c, MarkAttemptStep
<1>10. ASSUME NEW r \in Requests, DbError(r) PROVE Goal
  <2>1. (At(r, "mark_delivered") /\ Moves(r, "mark_failed")) \/ Stops(r)
    BY <1>0, <1>10, DbErrorStep
  <2> QED
    BY <2>1, <1>c, <1>d DEF Owning
<1>11. CASE Crash
  BY <1>0, <1>11, CrashStep DEF Owning, Kept, Goal
<1>12. ASSUME NEW s \in Sends, RegisterWebhookLate(s) PROVE Goal
  BY <1>12, <1>e DEF RegisterWebhookLate
<1>13. CASE Worker \/ UNCHANGED vars
  BY <1>0, <1>13, <1>e, WorkerStep DEF vars
<1> QED
  BY <1>1, <1>2, <1>3, <1>4, <1>5, <1>6, <1>7, <1>8, <1>9, <1>10, <1>11, <1>12, <1>13
     DEF Next, Handler, Fault, MarkDelivered, MarkFailed, WebhookStates

(* The event of an owner stands among the events, under the owner's key.   *)
LEMMA OwnedEvent ==
  ASSUME IInv, NEW q \in Requests, request[q].at \in Owning
  PROVE  /\ NewEvent(q) \in events /\ NewEvent(q).key = request[q].key
         /\ NewEvent(q).send = request[q].callback.send
         /\ NewEvent(q).type = EventType(request[q].callback)
BY RequestTypes DEF IInv, RequestInv, Judged, Owning

THEOREM NextOwners == IInv /\ [Next]_vars => OneOwner'
<1> SUFFICES ASSUME IInv, [Next]_vars PROVE OneOwner'
  OBVIOUS
<1>0. OneOwner
  BY DEF IInv
<1>1. ASSUME \A q \in Requests : request'[q].at \in Owning =>
               request[q].at \in Owning /\ request'[q].key = request[q].key
      PROVE  OneOwner'
  BY <1>0, <1>1 DEF OneOwner
<1>2. ASSUME NEW r \in Requests, Moves(r, "set_status"), \A e \in events : e.key # request[r].key
      PROVE  OneOwner'
  <2>1. \A q \in Requests \ {r} : request[q].at \in Owning => request[q].key # request[r].key
    BY <1>2, OwnedEvent
  <2> QED
    BY <1>0, <1>2, <2>1 DEF OneOwner, Moves, OthersWait
<1> QED
  BY <1>1, <1>2, OwnersStay

-----------------------------------------------------------------------------
(* Where events come from, and which statuses they give.                   *)
LEMMA EventSteps ==
  ASSUME IInv, [Next]_vars
  PROVE  \/ events' = events
         \/ \E r \in Requests : AppendEvent(r) /\ events' = events \cup {NewEvent(r)}
<1>0. TypeOK /\ \A r \in Requests : Serving(r) /\ Judged(r)
  BY DEF IInv, RequestInv
<1>1. ASSUME NEW r \in Requests, AppendEvent(r)
      PROVE  events' = events \/ events' = events \cup {NewEvent(r)}
  BY <1>0, <1>1, AppendEventStep
<1> QED
  BY <1>1
     DEF Next, Handler, Fault, vars, Deliver, FindByEventKey, FindByCorrelation, Judge, SetStatus,
         FindWebhook, PostWebhook, MarkDelivered, MarkFailed, MarkAttempt, Crash, DbError,
         RegisterWebhookLate, Worker, StoreAcceptance, TryAgain

LEMMA StatusSteps ==
  ASSUME IInv, [Next]_vars
  PROVE  \/ UNCHANGED <<status, acceptedAttempt>>
         \/ Worker
         \/ \E r \in Requests :
              /\ At(r, "set_status") /\ UNCHANGED acceptedAttempt
              /\ EventType(request[r].callback) \in TerminalStates => Moves(r, "find_webhook")
              /\ status' = [status EXCEPT ![request[r].callback.send] =
                              EventType(request[r].callback)]
<1>0. TypeOK /\ \A r \in Requests : Serving(r) /\ Judged(r)
  BY DEF IInv, RequestInv
<1>1. ASSUME NEW r \in Requests, SetStatus(r)
      PROVE  /\ At(r, "set_status") /\ UNCHANGED acceptedAttempt
             /\ EventType(request[r].callback) \in TerminalStates => Moves(r, "find_webhook")
             /\ status' = [status EXCEPT ![request[r].callback.send] =
                             EventType(request[r].callback)]
  <2>1. At(r, "set_status")
    BY <1>1 DEF SetStatus
  <2> QED
    BY <1>0, <1>1, <2>1, SetStatusStep
<1> QED
  BY <1>1
     DEF Next, Handler, Fault, vars, Deliver, FindByEventKey, FindByCorrelation, Judge, AppendEvent,
         FindWebhook, PostWebhook, MarkDelivered, MarkFailed, MarkAttempt, Crash, DbError,
         RegisterWebhookLate

THEOREM NextEvents == IInv /\ [Next]_vars => EventInv' /\ StatusInv'
<1> SUFFICES ASSUME IInv, [Next]_vars PROVE EventInv' /\ StatusInv'
  OBVIOUS
<1>0. /\ TypeOK /\ EventInv /\ StatusInv
      /\ \A r \in Requests : Serving(r) /\ Judged(r)
  BY DEF IInv, RequestInv
<1>1. EventInv'
  <2>1. ASSUME NEW r \in Requests, AppendEvent(r), events' = events \cup {NewEvent(r)}
        PROVE  EventInv'
    <3>1. /\ request[r].callback \in Callbacks
          /\ NewEvent(r).key \in KeysOf(request[r].callback)
          /\ NewEvent(r).send = request[r].callback.send
      BY <1>0, <2>1, RequestTypes DEF AppendEvent, Serving
    <3>2. IsFiniteSet(events')
      BY <1>0, <2>1, FS_AddElement DEF EventInv
    <3> QED
      BY <1>0, <2>1, <3>1, <3>2 DEF EventInv
  <2>2. CASE events' = events
    BY <1>0, <2>2 DEF EventInv
  <2> QED
    BY <2>1, <2>2, EventSteps
<1>2. StatusInv'
  <2> SUFFICES ASSUME NEW s \in Sends
               PROVE  /\ status'[s] \in Outcomes => \E e \in events' : e.send = s /\ e.type = status'[s]
                      /\ ~ReportedEarly(s)' =>
                           status'[s] \in IF acceptedAttempt'[s] = 0 THEN {"dispatching", "deferred"}
                                          ELSE Reached
    BY DEF StatusInv
  <2>1. CASE status'[s] = status[s] /\ acceptedAttempt'[s] = acceptedAttempt[s]
    BY <1>0, <2>1, EarlyStays, NothingIsTakenBack DEF StatusInv
  <2>2. CASE Worker
    <3>1. CASE IF acceptedAttempt'[s] = 0 THEN status'[s] \in {"dispatching", "deferred"}
               ELSE status'[s] = "accepted_by_mta"
      BY <3>1 DEF Outcomes, Reached
    <3> QED
      BY <1>0, <2>1, <2>2, <3>1, WorkerStep
  <2>3. ASSUME NEW r \in Requests, At(r, "set_status"), UNCHANGED acceptedAttempt,
               request[r].callback.send = s, status'[s] = EventType(request[r].callback)
        PROVE  /\ status'[s] \in Outcomes => \E e \in events' : e.send = s /\ e.type = status'[s]
               /\ ~ReportedEarly(s)' =>
                    status'[s] \in IF acceptedAttempt'[s] = 0 THEN {"dispatching", "deferred"}
                                   ELSE Reached
    <3>1. NewEvent(r) \in events' /\ NewEvent(r).send = s /\ NewEvent(r).type = status'[s]
      BY <2>3, OwnedEvent, NothingIsTakenBack DEF Owning
    <3>2. ~ReportedEarly(s)' => status'[s] \in Outcomes /\ acceptedAttempt[s] # 0
      BY <1>0, <2>3, EarlyStays DEF Judged
    <3> QED
      BY <2>3, <3>1, <3>2 DEF Reached
  <2> QED
    BY <1>0, <2>1, <2>2, <2>3, StatusSteps DEF TypeOK
<1> QED
  BY <1>1, <1>2

-----------------------------------------------------------------------------
(***************************************************************************)
(* Calls to the client: one is made by the owner of an event, which it     *)
(* ceases to own; what is told and not owed any more never shrinks.        *)
(***************************************************************************)
LEMMA ToldGrows ==
  ASSUME IInv, [Next]_vars, NEW s \in Sends
  PROVE  /\ Told(s) \subseteq Told(s)' /\ ResultEvents(s) \subseteq ResultEvents(s)'
         /\ IsFiniteSet(Told(s)') /\ IsFiniteSet(Told(s))
         /\ Cardinality(Told(s)) <= Cardinality(Told(s)')
         /\ Cardinality(Told(s)) \in Nat /\ Cardinality(Told(s)') \in Nat
<1>1. IsFiniteSet(events) /\ IsFiniteSet(events')
  BY NextEvents DEF IInv, EventInv
<1>2. IsFiniteSet(Told(s)') /\ IsFiniteSet(Told(s))
  BY <1>1, FS_Subset DEF Told, ResultEvents
<1>3. ResultEvents(s) \subseteq ResultEvents(s)'
  BY NothingIsTakenBack DEF ResultEvents
<1>4. \A e \in events : e \in Owed' => e \in Owed
  <2>1. CASE \A q \in Requests : request'[q].at \in Owning =>
               request[q].at \in Owning /\ NewEvent(q)' = NewEvent(q)
    BY <2>1 DEF Owed
  <2>2. ASSUME NEW r \in Requests, AppendEvent(r), Moves(r, "set_status"),
               \A e \in events : e.key # request[r].key
        PROVE  \A e \in events : e \in Owed' => e \in Owed
    <3>1. Serving(r) /\ request[r].at # "idle" /\ TypeOK
      BY <2>2 DEF IInv, RequestInv, AppendEvent
    <3>2. NewEvent(r)' \notin events
      BY <2>2, <3>1, MovedSlot, RequestTypes
    <3>3. \A q \in Requests \ {r} : request'[q] = request[q] /\ NewEvent(q)' = NewEvent(q)
      BY <2>2, WaitingSlot DEF Moves, OthersWait
    <3> QED
      BY <3>2, <3>3 DEF Owed
  <2> QED
    BY <2>1, <2>2, OwnersStay
<1>5. Told(s) \subseteq Told(s)'
  BY <1>3, <1>4 DEF Told, ResultEvents
<1> QED
  BY <1>2, <1>3, <1>5, FS_Subset, FS_CardinalityType

LEMMA PostSteps ==
  ASSUME IInv, [Next]_vars
  PROVE  \/ posts' = posts
         \/ \E r \in Requests :
              /\ At(r, "post") /\ events' = events
              /\ \/ Moves(r, "mark_delivered")
                 \/ Moves(r, "mark_failed")
              /\ posts' = [posts EXCEPT ![request[r].callback.send] =
                             Append(@, EventType(request[r].callback))]
<1>0. TypeOK /\ \A r \in Requests : Serving(r)
  BY DEF IInv, RequestInv
<1>1. ASSUME NEW r \in Requests, PostWebhook(r)
      PROVE  \/ posts' = posts
             \/ /\ At(r, "post") /\ events' = events
                /\ Moves(r, "mark_delivered") \/ Moves(r, "mark_failed")
                /\ posts' = [posts EXCEPT ![request[r].callback.send] =
                               Append(@, EventType(request[r].callback))]
  <2>1. At(r, "post")
    BY <1>1 DEF PostWebhook
  <2> QED
    BY <1>0, <1>1, <2>1, PostWebhookStep
<1> QED
  BY <1>1
     DEF Next, Handler, Fault, vars, Deliver, FindByEventKey, FindByCorrelation, Judge, AppendEvent,
         SetStatus, FindWebhook, MarkDelivered, MarkFailed, MarkAttempt, Crash, DbError,
         RegisterWebhookLate, Worker, StoreAcceptance, TryAgain

THEOREM NextPosts == IInv /\ [Next]_vars => PostInv'
<1> SUFFICES ASSUME IInv, [Next]_vars, NEW s \in Sends
             PROVE  /\ Len(posts'[s]) <= Cardinality(Told(s)')
                    /\ \A i \in 1 .. Len(posts'[s]) :
                         \E e \in ResultEvents(s)' : e.type = posts'[s][i]
  BY DEF PostInv
<1>0. /\ Len(posts[s]) <= Cardinality(Told(s))
      /\ \A i \in 1 .. Len(posts[s]) : \E e \in ResultEvents(s) : e.type = posts[s][i]
      /\ posts \in [Sends -> Seq(TerminalStates)] /\ posts[s] \in Seq(TerminalStates)
      /\ Len(posts[s]) \in Nat
  BY DEF IInv, PostInv, TypeOK
<1>1. CASE posts'[s] = posts[s]
  BY <1>0, <1>1, ToldGrows
<1>2. ASSUME NEW r \in Requests, At(r, "post"), events' = events,
             request[r].callback.send = s,
             Moves(r, "mark_delivered") \/ Moves(r, "mark_failed"),
             posts'[s] = Append(posts[s], EventType(request[r].callback))
      PROVE  /\ Len(posts'[s]) <= Cardinality(Told(s)')
             /\ \A i \in 1 .. Len(posts'[s]) :
                  \E e \in ResultEvents(s)' : e.type = posts'[s][i]
  <2> DEFINE new == NewEvent(r)
             type == EventType(request[r].callback)
  <2>1. /\ new \in events /\ new.key = request[r].key /\ new.send = s /\ new.type = type
        /\ type \in TerminalStates
    BY <1>2, OwnedEvent DEF Owning, Announcing, IInv, RequestInv, Judged
  <2>2. new \in ResultEvents(s) /\ new \in ResultEvents(s)'
    BY <1>2, <2>1 DEF ResultEvents
  <2>3. new \in Owed
    BY <1>2 DEF Owed, Owning
  <2>4. new \notin Owed'
    <3> SUFFICES ASSUME NEW q \in Requests, request'[q].at \in Owning, NewEvent(q)' = new
                 PROVE  FALSE
      BY DEF Owed
    <3>1. q # r
      BY <1>2 DEF Moves, Owning
    <3>2. request'[q] = request[q] /\ NewEvent(q) = new
      BY <1>2, <3>1, WaitingSlot DEF Moves, OthersWait
    <3>3. request[q].key = request[r].key
      BY <2>1, <3>2, OwnedEvent
    <3> QED
      BY <1>2, <3>1, <3>2, <3>3 DEF IInv, OneOwner, Owning
  <2>5. Told(s) \cup {new} \subseteq Told(s)' /\ new \notin Told(s)
    BY <2>2, <2>3, <2>4, ToldGrows DEF Told
  <2>6. Cardinality(Told(s)) + 1 <= Cardinality(Told(s)')
    <3>1. Cardinality(Told(s) \cup {new}) = Cardinality(Told(s)) + 1
      BY <2>5, ToldGrows, FS_AddElement
    <3> QED
      BY <2>5, <3>1, ToldGrows, FS_Subset
  <2> HIDE DEF new, type
  <2>7. /\ posts'[s] = Append(posts[s], type)
        /\ Len(posts'[s]) = Len(posts[s]) + 1 /\ posts'[s][Len(posts[s]) + 1] = type
        /\ \A i \in 1 .. Len(posts[s]) : posts'[s][i] = posts[s][i]
    BY <1>0, <1>2, <2>1 DEF type
  <2>8. \A i \in 1 .. Len(posts'[s]) : i \in 1 .. Len(posts[s]) \/ i = Len(posts[s]) + 1
    BY <1>0, <2>7
  <2>9. \A i \in 1 .. Len(posts'[s]) : \E e \in ResultEvents(s)' : e.type = posts'[s][i]
    BY <1>0, <2>1, <2>2, <2>7, <2>8, ToldGrows
  <2> QED
    BY <1>0, <2>6, <2>7, <2>9, ToldGrows
<1>3. ASSUME NEW r \in Requests, At(r, "post")
      PROVE  request[r].callback.send \in Sends
  BY <1>3, RequestTypes DEF IInv, RequestInv
<1> QED
  BY <1>0, <1>1, <1>2, <1>3, PostSteps

-----------------------------------------------------------------------------
(***************************************************************************)
(* While no statement fails.                                               *)
(***************************************************************************)
LEMMA QuietBefore ==
  ASSUME IInv, [Next]_vars, NEW kinds \in SUBSET FaultKinds, Quiet(kinds)'
  PROVE  Quiet(kinds)
<1>0. TypeOK
  BY DEF IInv
<1>1. ASSUME NEW k \in FaultKinds, Strike(k) PROVE Quiet(kinds)
  BY <1>0, <1>1 DEF Strike, Quiet, TypeOK
<1>2. CASE faults' = faults
  BY <1>2 DEF Quiet
<1> QED
  BY <1>1, <1>2
     DEF Next, Handler, Fault, vars, Deliver, FindByEventKey, FindByCorrelation, Judge, AppendEvent,
         SetStatus, FindWebhook, PostWebhook, MarkDelivered, MarkFailed, MarkAttempt, Crash, DbError,
         RegisterWebhookLate, FaultKinds, Worker, StoreAcceptance, TryAgain

(* Without errors and crashes, a request leaves set_status by SetStatus.   *)
LEMMA SettingStays ==
  ASSUME IInv, [Next]_vars, Quiet({"crash", "db_error"})', NEW q \in Requests, At(q, "set_status"),
         NEW s \in Sends, request[q].callback.send = s
  PROVE  \/ At(q, "set_status")' /\ NewEvent(q)' = NewEvent(q)
         \/ status'[s] \in Outcomes \/ ReportedEarly(s)'
<1>0. /\ TypeOK /\ Serving(q) /\ \A r \in Requests : Serving(r)
      /\ ~ReportedEarly(s) => EventType(request[q].callback) \in Outcomes
  BY DEF IInv, RequestInv, Judged
<1>1. ~Crash /\ ~ \E r \in Requests : DbError(r)
  BY <1>0, CrashStep, DbErrorStep DEF Quiet
<1>2. CASE request'[q] = request[q]
  BY <1>2, WaitingSlot
<1>3. CASE SetStatus(q)
  <2>1. status' = [status EXCEPT ![s] = EventType(request[q].callback)]
    BY <1>0, <1>3, SetStatusStep
  <2> QED
    BY <1>0, <2>1, EarlyStays DEF TypeOK
<1>4. ASSUME NEW r \in Requests, Handler(r), r # q PROVE request'[q] = request[q]
  <2>1. request \in [Requests -> Slot]
    BY <1>0 DEF TypeOK
  <2> QED
    BY <1>4, <2>1
       DEF Handler, FindByEventKey, FindByCorrelation, Read, Judge, AppendEvent, SetStatus,
           AnnounceResult, FindWebhook, PostWebhook, MarkDelivered, MarkFailed, MarkAttempt, Goto, Answer
<1>5. ASSUME NEW r \in Requests, NEW c \in Callbacks, Deliver(r, c) PROVE request'[q] = request[q]
  BY <1>0, <1>5, DeliverBegins DEF OthersWait, Deliver
<1>6. Handler(q) => SetStatus(q)
  BY DEF Handler, FindByEventKey, FindByCorrelation, Judge, AppendEvent, FindWebhook, PostWebhook,
         MarkDelivered, MarkFailed
<1>7. Worker => request' = request
  BY <1>0, WorkerStep
<1> QED
  BY <1>1, <1>2, <1>3, <1>4, <1>5, <1>6, <1>7 DEF Next, Fault, RegisterWebhookLate, vars

THEOREM NextSettle == IInv /\ [Next]_vars => SettleInv'
<1> SUFFICES ASSUME IInv, [Next]_vars, Quiet({"crash", "db_error"})', NEW e \in events'
             PROVE  \/ status'[e.send] \in Outcomes \/ ReportedEarly(e.send)'
                    \/ \E r \in Requests : At(r, "set_status")' /\ NewEvent(r)' = e
  BY DEF SettleInv
<1>1. CASE e \in events
  <2>1. e.send \in Sends
    BY <1>1, IngestionAssumption DEF IInv, EventInv
  <2>2. CASE status[e.send] \in Outcomes \/ ReportedEarly(e.send)
    BY <2>1, <2>2, NothingIsTakenBack, EarlyStays
  <2>3. ASSUME NEW r \in Requests, At(r, "set_status"), NewEvent(r) = e
        PROVE  \/ status'[e.send] \in Outcomes \/ ReportedEarly(e.send)'
               \/ At(r, "set_status")' /\ NewEvent(r)' = e
    <3>1. request[r].callback.send = e.send
      BY <2>3, OwnedEvent DEF Owning
    <3> QED
      BY <2>1, <2>3, <3>1, SettingStays
  <2>4. Quiet({"crash", "db_error"})
    BY QuietBefore DEF FaultKinds
  <2> QED
    BY <1>1, <2>2, <2>3, <2>4 DEF IInv, SettleInv
<1>2. CASE e \notin events
  <2>1. PICK r \in Requests : AppendEvent(r) /\ events' = events \cup {NewEvent(r)}
    BY <1>2, EventSteps
  <2>2. TypeOK /\ Serving(r) /\ request[r].at # "idle"
    BY <2>1 DEF IInv, RequestInv, AppendEvent
  <2>3. Moves(r, "set_status") /\ e = NewEvent(r)
    BY <1>2, <2>1, <2>2, AppendEventStep
  <2> QED
    BY <2>2, <2>3, MovedSlot DEF Moves
<1> QED
  BY <1>1, <1>2

(* Who is acknowledged, and on what ground.                                *)
Grounded(c) ==
  \/ c \in early \/ ReportedEarly(c.send)
  \/ EventType(c) \in Outcomes => status[c.send] \in Outcomes
  \/ \E e \in events : e.key \in KeysOf(c)

LEMMA AckSteps ==
  ASSUME IInv, [Next]_vars
  PROVE  acked' = acked \/ \E c \in Callbacks : Grounded(c) /\ acked' = acked \cup {c}
<1>0. /\ TypeOK
      /\ \A r \in Requests : Serving(r) /\ AsRead(r) /\ Judged(r)
  BY DEF IInv, RequestInv
<1> DEFINE Goal == acked' = acked \/ \E c \in Callbacks : Grounded(c) /\ acked' = acked \cup {c}
<1> SUFFICES Goal
  OBVIOUS
<1>a. ASSUME NEW r \in Requests, request[r].at # "idle",
             acked' = acked \cup {request[r].callback}, Grounded(request[r].callback)
      PROVE  Goal
  BY <1>0, <1>a DEF Serving
<1> HIDE DEF Goal
<1>b. ASSUME acked' = acked PROVE Goal
  BY <1>b DEF Goal
<1>1. ASSUME NEW r \in Requests, FindByEventKey(r) PROVE Goal
  <2>1. request[r].at # "idle" /\ request[r].key \in KeysOf(request[r].callback)
    BY <1>0, <1>1 DEF FindByEventKey, Serving
  <2> QED
    BY <1>0, <1>1, <1>a, <1>b, <2>1, FindByEventKeyStep DEF Moves, Grounded
<1>2. ASSUME NEW r \in Requests, FindByCorrelation(r) PROVE Goal
  BY <1>0, <1>2, <1>b, FindByCorrelationStep DEF Moves
<1>3. ASSUME NEW r \in Requests, Judge(r) PROVE Goal
  <2> DEFINE c == request[r].callback
  <2>1. At(r, "judge") /\ request[r].at # "idle" /\ request[r].key \in KeysOf(c)
    BY <1>0, <1>3 DEF Judge, Serving
  <2>2. \/ acked' = acked
        \/ /\ acked' = acked \cup {c}
           /\ \/ \E e \in events : e.key = request[r].key
              \/ ~CanTransition(request[r].seen, EventState(EventType(c)))
    BY <1>0, <1>3, JudgeStep DEF Moves
  <2>3. ~CanTransition(request[r].seen, EventState(EventType(c))) => Grounded(c)
    BY <1>0, <2>1, JudgedByTable DEF Grounded
  <2> QED
    BY <1>a, <1>b, <2>1, <2>2, <2>3 DEF Grounded
<1>4. ASSUME NEW r \in Requests, AppendEvent(r) PROVE Goal
  BY <1>0, <1>4, <1>b, AppendEventStep
<1>5. ASSUME NEW r \in Requests, SetStatus(r) PROVE Goal
  <2>1. request[r].at # "idle"
    BY <1>5 DEF SetStatus
  <2> QED
    BY <1>0, <1>5, <1>a, <1>b, <2>1, SetStatusStep, OutcomesAreTerminal DEF Moves, Grounded
<1>6. ASSUME NEW r \in Requests, FindWebhook(r) PROVE Goal
  <2>1. request[r].at # "idle" /\ Grounded(request[r].callback)
    BY <1>0, <1>6 DEF FindWebhook, Judged, Announcing, Grounded
  <2> QED
    BY <1>0, <1>6, <1>a, <1>b, <2>1, FindWebhookStep DEF Moves
<1>7. ASSUME NEW r \in Requests, MarkDelivered(r) \/ MarkFailed(r) PROVE Goal
  <2>1. request[r].at # "idle" /\ Grounded(request[r].callback)
    BY <1>0, <1>7 DEF MarkDelivered, MarkFailed, Judged, Announcing, Grounded
  <2>2. acked' = acked \cup {request[r].callback}
    BY <1>7 DEF MarkDelivered, MarkFailed, MarkAttempt, Answer
  <2> QED
    BY <1>a, <2>1, <2>2
<1>8. ASSUME NEW r \in Requests, DbError(r) PROVE Goal
  BY <1>0, <1>8, <1>b, DbErrorStep
<1> QED
  BY <1>b, <1>1, <1>2, <1>3, <1>4, <1>5, <1>6, <1>7, <1>8
     DEF Next, Handler, Fault, vars, Deliver, PostWebhook, Crash, RegisterWebhookLate, Worker,
         StoreAcceptance, TryAgain

THEOREM NextAcks == IInv /\ [Next]_vars => AckInv'
<1> SUFFICES ASSUME IInv, [Next]_vars, Quiet({"crash", "db_error"})', NEW c \in acked' \ early',
                    IsFinal(c)
             PROVE  \/ status'[c.send] \in Outcomes \/ ReportedEarly(c.send)'
                    \/ \E e \in events' : e.key \in KeysOf(c)
  BY DEF AckInv
<1>1. Quiet({"crash", "db_error"})
  BY QuietBefore DEF FaultKinds
<1>2. c \notin early /\ EventType(c) \in Outcomes
  BY EarlyStays DEF IsFinal, Outcomes
<1>3. c \in acked => Grounded(c)
  BY <1>1, <1>2 DEF IInv, AckInv, Grounded
<1>4. c \in Callbacks /\ Grounded(c)
  BY <1>3, AckSteps DEF IInv, TypeOK
<1>5. c.send \in Sends
  BY <1>4, IngestionAssumption
<1> QED
  BY <1>2, <1>4, <1>5, NothingIsTakenBack, EarlyStays DEF Grounded

(* Without faults, the webhook row of a send whose result is being         *)
(* announced is written before the request is answered, or is not there.   *)
LEMMA AnnouncingStays ==
  ASSUME IInv, [Next]_vars, Quiet(FaultKinds)', NEW q \in Requests, request[q].at \in Announcing
  PROVE  \/ request'[q].at \in Announcing /\ request'[q].callback = request[q].callback
         \/ webhook'[request[q].callback.send].status # "pending"
<1>0. /\ TypeOK /\ Serving(q) /\ \A r \in Requests : Serving(r)
      /\ request[q].callback.send \in Sends
  BY RequestTypes DEF IInv, RequestInv, Announcing
<1>1. /\ ~Crash /\ ~ \E r \in Requests : DbError(r)
      /\ ~ \E s \in Sends : RegisterWebhookLate(s)
  BY <1>0, CrashStep, DbErrorStep, LateRowStep DEF Quiet, FaultKinds
<1>2. CASE request'[q] = request[q]
  BY <1>2
<1>3. CASE FindWebhook(q)
  <2>1. \/ Moves(q, "post")
        \/ webhook[request[q].callback.send].status = "none" /\ webhook' = webhook
    BY <1>0, <1>3, FindWebhookStep
  <2> QED
    BY <2>1 DEF Moves, Announcing
<1>4. CASE PostWebhook(q)
  BY <1>0, <1>4, PostWebhookStep DEF Moves, Announcing
<1>5. ASSUME NEW to \in {"delivered", "retry_scheduled", "failed"}, MarkAttempt(q, to)
      PROVE  webhook'[request[q].callback.send].status # "pending"
  BY <1>0, <1>5, MarkAttemptStep DEF WebhookStates, Announcing
<1>6. ASSUME NEW r \in Requests, Handler(r), r # q PROVE request'[q] = request[q]
  <2>1. request \in [Requests -> Slot]
    BY <1>0 DEF TypeOK
  <2> QED
    BY <1>6, <2>1
       DEF Handler, FindByEventKey, FindByCorrelation, Read, Judge, AppendEvent, SetStatus,
           AnnounceResult, FindWebhook, PostWebhook, MarkDelivered, MarkFailed, MarkAttempt, Goto, Answer
<1>7. ASSUME NEW r \in Requests, NEW c \in Callbacks, Deliver(r, c) PROVE request'[q] = request[q]
  BY <1>0, <1>7, DeliverBegins DEF OthersWait, Deliver, Announcing
<1>8. Handler(q) =>
        \/ FindWebhook(q) \/ PostWebhook(q)
        \/ \E to \in {"delivered", "retry_scheduled", "failed"} : MarkAttempt(q, to)
  BY DEF Handler, FindByEventKey, FindByCorrelation, Judge, AppendEvent, SetStatus, Announcing,
         MarkDelivered, MarkFailed
<1>9. Worker => request' = request
  BY <1>0, WorkerStep
<1> QED
  BY <1>1, <1>2, <1>3, <1>4, <1>5, <1>6, <1>7, <1>8, <1>9 DEF Next, Fault, vars

(* A webhook row that is not pending does not become so without a fault.   *)
LEMMA NotPendingStays ==
  ASSUME IInv, [Next]_vars, Quiet(FaultKinds)', NEW s \in Sends, webhook[s].status # "pending"
  PROVE  webhook'[s].status # "pending"
<1>0. TypeOK /\ \A r \in Requests : Serving(r)
  BY DEF IInv, RequestInv
<1>1. ~ \E t \in Sends : RegisterWebhookLate(t)
  BY <1>0, LateRowStep DEF Quiet, FaultKinds
<1>2. ASSUME NEW r \in Requests, NEW to \in {"delivered", "retry_scheduled", "failed"},
             request[r].at # "idle", MarkAttempt(r, to)
      PROVE  webhook'[s].status # "pending"
  BY <1>0, <1>2, MarkAttemptStep DEF WebhookStates
<1> QED
  BY <1>1, <1>2
     DEF Next, Handler, Fault, vars, Deliver, FindByEventKey, FindByCorrelation, Judge, AppendEvent,
         SetStatus, FindWebhook, PostWebhook, MarkDelivered, MarkFailed, Crash, DbError, Worker,
         StoreAcceptance, TryAgain

THEOREM NextAnnounce == IInv /\ [Next]_vars => AnnounceInv'
<1> SUFFICES ASSUME IInv, [Next]_vars, Quiet(FaultKinds)', NEW s \in Sends,
                    status'[s] \in TerminalStates
             PROVE  \/ webhook'[s].status # "pending"
                    \/ \E r \in Requests :
                         request'[r].at \in Announcing /\ request'[r].callback.send = s
  BY DEF AnnounceInv
<1>1. Quiet(FaultKinds)
  BY QuietBefore
<1>2. CASE status[s] \in TerminalStates
  BY <1>1, <1>2, AnnouncingStays, NotPendingStays DEF IInv, AnnounceInv
<1>3. CASE status[s] \notin TerminalStates
  <2>1. TypeOK
    BY DEF IInv
  <2>2. ~Worker
    BY <1>3, <2>1, WorkerStep DEF TerminalStates
  <2>3. PICK r \in Requests :
          /\ EventType(request[r].callback) \in TerminalStates => Moves(r, "find_webhook")
          /\ status' = [status EXCEPT ![request[r].callback.send] =
                          EventType(request[r].callback)]
    BY <1>3, <2>2, StatusSteps
  <2>4. request[r].callback.send = s /\ Moves(r, "find_webhook")
    BY <1>3, <2>1, <2>3 DEF TypeOK
  <2> QED
    BY <2>4 DEF Moves, Announcing
<1> QED
  BY <1>2, <1>3

-----------------------------------------------------------------------------
THEOREM Inductive == Spec => []IInv
<1>1. IInv /\ [Next]_vars => IInv'
  BY NextTypes, NextRequests, NextOwners, NextEvents, NextPosts, NextSettle, NextAcks, NextAnnounce
     DEF IInv
<1> QED
  BY InitInv, <1>1, PTL DEF Spec

(* The types of the tables and of what a request carries.                  *)
THEOREM TypesHold == Spec => []TypeOK
<1>1. IInv => TypeOK
  BY DEF IInv
<1> QED
  BY <1>1, Inductive, PTL

(* ingestDeliveryEvent appends the event before it sets the status: no     *)
(* crash or concurrent request leaves an outcome without its evidence.     *)
THEOREM EvidenceComesFirst == Spec => []OutcomeIsBacked
<1>1. IInv => OutcomeIsBacked
  BY DEF IInv, StatusInv, OutcomeIsBacked, Outcomes
<1> QED
  BY <1>1, Inductive, PTL

(* The request that appended an event is the only one to post for it, so   *)
(* the client is called at most once for each.                             *)
THEOREM CallsAreCounted == Spec => []OnePostPerEvent
<1>1. IInv => OnePostPerEvent
  <2> SUFFICES ASSUME IInv, NEW s \in Sends
               PROVE  Len(posts[s]) <= Cardinality(ResultEvents(s))
    BY DEF OnePostPerEvent, IInv, PostInv
  <2>1. IsFiniteSet(ResultEvents(s))
    BY FS_Subset DEF IInv, EventInv, ResultEvents
  <2>2. /\ Cardinality(Told(s)) <= Cardinality(ResultEvents(s))
        /\ Cardinality(Told(s)) \in Nat /\ Cardinality(ResultEvents(s)) \in Nat
    BY <2>1, FS_Subset, FS_CardinalityType DEF Told
  <2>3. Len(posts[s]) \in Nat /\ Len(posts[s]) <= Cardinality(Told(s))
    BY DEF IInv, PostInv, TypeOK
  <2> QED
    BY <2>2, <2>3
<1> QED
  BY <1>1, Inductive, PTL

(* While no statement fails, a relay that was told 2xx about a result need *)
(* not repeat it: the send shows one, or a request is about to write, or   *)
(* the result, or another step, was reported to a send still with the      *)
(* worker.                                                                 *)
THEOREM AcksAreKept == Spec => []AckedResultIsShown
<1>1. IInv => AckedResultIsShown
  <2> SUFFICES ASSUME IInv, Quiet({"crash", "db_error"}), NEW c \in acked \ early, IsFinal(c),
                      ~InFlight(c.send), ~ReportedEarly(c.send)
               PROVE  status[c.send] \in Outcomes
    BY OutcomesAreTerminal DEF AckedResultIsShown
  <2>1. status[c.send] \in Outcomes \/ \E e \in events : e.key \in KeysOf(c)
    BY DEF IInv, AckInv
  <2>2. ASSUME NEW e \in events, e.key \in KeysOf(c) PROVE status[c.send] \in Outcomes
    <3>1. e.send = c.send
      BY <2>2 DEF IInv, EventInv, IsFinal, HasOwnKeys
    <3>2. ~ \E r \in Requests : At(r, "set_status") /\ NewEvent(r) = e
      BY <3>1, OwnedEvent DEF InFlight, Owning
    <3> QED
      BY <3>1, <3>2 DEF IInv, SettleInv
  <2> QED
    BY <2>1, <2>2
<1> QED
  BY <1>1, Inductive, PTL

(* In a run without faults no client waits in vain: who shows a result has *)
(* called, or has no webhook to call.                                      *)
THEOREM OutcomesAreAnnounced == Spec => []ResultIsAnnounced
<1>1. IInv => ResultIsAnnounced
  BY DEF ResultIsAnnounced, IInv, AnnounceInv, InFlight, Announcing
<1> QED
  BY <1>1, Inductive, PTL

(* Contradicting and late callbacks never reopen a send, and neither does  *)
(* the worker: only a report made before the send was final does, whenever *)
(* it is written.                                                          *)
THEOREM OnlyEarlyReportsReopen == Spec => TerminalIsLeftByEarlyReports
<1>1. IInv /\ [Next]_vars =>
        [\A s \in Sends :
           status[s] \in TerminalStates /\ status'[s] \notin TerminalStates => ReportedEarly(s)]_vars
  <2> SUFFICES ASSUME IInv, [Next]_vars, NEW s \in Sends, status[s] \in TerminalStates,
                      ~ReportedEarly(s)
               PROVE  status'[s] \in TerminalStates
    OBVIOUS
  <2>1. status[s] \in Outcomes
    BY DEF IInv, StatusInv, Reached, TerminalStates, Outcomes
  <2> QED
    BY <2>1, NothingIsTakenBack, OutcomesAreTerminal
<1> QED
  BY <1>1, Inductive, PTL DEF Spec, TerminalIsLeftByEarlyReports
=============================================================================
