-------------------------- MODULE DeliveryIngestion --------------------------
(***************************************************************************)
(* The management console's side of a send's life: the callbacks by which  *)
(* the relays report what became of a mail they took                       *)
(* (POST /internal/delivery-events), and the result webhook to the client. *)
(*                                                                         *)
(* The console serves requests concurrently and a request is a sequence of *)
(* awaited statements outside any transaction: a step here is one of them. *)
(* The relays deliver a callback again until they get a 2xx, and sometimes *)
(* once more.                                                              *)
(***************************************************************************)
EXTENDS SendStateMachine, Naturals, FiniteSets

CONSTANTS
  Sends,
  Requests,      \* request slots: how many callbacks are served at once
  Callbacks,     \* the callbacks the relays have to report
  WebhookDelays, \* Len(OUTBOUND_WEBHOOK_RETRY_DELAYS_MS)
  FaultBudget,   \* how many faults may strike: bounds the model
  Instants,      \* the times a callback may carry or be served at
  NoCallback, NoId, Undated

(* crash: the console process dies.  db_error: a statement rejects.        *)
(* late_row: a callback overtakes the request that created the send, which *)
(* inserts its webhook row after it has enqueued the job.                  *)
FaultKinds == {"crash", "db_error", "late_row"}

(* What a relay reports: in which format and word, about which send and by *)
(* which ids, under which id of its own (callbackId, messageId, eventKey), *)
(* and when it took place, if it says so.  "stored" are those of its queue *)
(* and attempt id that the worker stores with the acceptance: it may find  *)
(* no queue id in the relay's answer, and stores one attempt of several.   *)
ASSUME IngestionAssumption ==
  /\ \A c \in Callbacks :
       /\ c.send \in Sends
       /\ c.format \in {"normalized", "sendsmtp_log"}
       /\ c.ids \subseteq {"send_id", "queue_id", "attempt_id"}
       /\ c.stored \subseteq c.ids \ {"send_id"}
       /\ c.time \in Instants \cup {Undated}
  /\ Undated \notin Instants
  /\ NoCallback \notin Callbacks
  /\ WebhookDelays \in Nat
  /\ FaultBudget \in Nat

VARIABLES
  status,           \* sends.status
  acceptedAttempt,  \* sends.dispatch_accepted_attempt_id, 0 while null
  events,           \* delivery_events appended for callbacks
  webhook,          \* outbound_webhook_deliveries: the row of each send
  posts,            \* event types the client's endpoint was told, in order
  request,          \* per slot: the statement to run and what it has read
  acked,            \* callbacks answered with a 2xx
  early,            \* history: callbacks that found the send with the worker
  faults            \* faults that struck so far

ledger == <<events, webhook, posts, early>>
vars   == <<status, acceptedAttempt, ledger, request, acked, faults>>

(* Mutant: the set forgets the bounce.                                     *)
ResultTypesWithoutBounce == TerminalStates \ {"bounced"}

DeliveryResultTypes == TerminalStates
WebhookStates == {"none", "pending", "delivered", "retry_scheduled", "failed"}
Statements == {"find_event", "find_send", "judge", "append", "set_status",
               "find_webhook", "post", "mark_delivered", "mark_failed"}

(* parseSendSmtpFinalStatus: the words of a relay's log.                   *)
FinalStatus ==
  [accepted         |-> "accepted_by_mta",  accepted_by_mta |-> "accepted_by_mta",
   deferred         |-> "deferred",         delivered       |-> "delivered",
   bounced          |-> "bounced",          hard_bounce     |-> "bounced",
   failed_transient |-> "failed_transient", soft_bounce     |-> "failed_transient",
   failed_permanent |-> "failed_permanent", rejected        |-> "failed_permanent"]

EventType(c) == IF c.format = "normalized" THEN c.word ELSE FinalStatus[c.word]

(* Anything else is answered with a 400 before the database is asked.      *)
Supported(c) ==
  \/ c.format = "normalized" /\ c.word \in EventTypes /\ c.id # NoId
  \/ c.format = "sendsmtp_log" /\ c.word \in DOMAIN FinalStatus

(* The key of the event.  A log callback without an id of its own is known *)
(* by its send and queue id, word and time; the attempt id is left out, so *)
(* those by attempt id alone share a key across sends.  A callback without *)
(* a time gets that of its arrival, another on each retry.                 *)
EventKey(c, instant) ==
  IF c.id # NoId THEN c.id
  ELSE <<{<<id, c.send, id \in c.stored>> : id \in c.ids \ {"attempt_id"}}, c.word, instant>>

KeysOf(c) ==
  {EventKey(c, instant) : instant \in IF c.time = Undated THEN Instants ELSE {c.time}}
Keys == UNION {KeysOf(c) : c \in Callbacks}

Event == [key : Keys, send : Sends, type : EventTypes]
Webhook == [status : WebhookStates, count : Nat]
Idle == [at |-> "idle", callback |-> NoCallback, key |-> NoId, seen |-> "draft",
         count |-> 0]

Slot == [at : Statements \cup {"idle"}, callback : Callbacks \cup {NoCallback},
         key : Keys \cup {NoId}, seen : SendStates, count : Nat]

TypeOK ==
  /\ status \in [Sends -> SendStates]
  /\ acceptedAttempt \in [Sends -> Nat]
  /\ events \in SUBSET Event
  /\ webhook \in [Sends -> Webhook]
  /\ posts \in [Sends -> Seq(DeliveryResultTypes)]
  /\ request \in [Requests -> Slot]
  /\ acked \in SUBSET Callbacks /\ early \in SUBSET Callbacks
  /\ faults \in [FaultKinds -> Nat]

(* On its own the module starts when a relay has taken each mail, which is *)
(* when it may report, and the worker has not stored that yet.             *)
InitSends ==
  /\ status = [s \in Sends |-> "dispatching"]
  /\ acceptedAttempt = [s \in Sends |-> 0]

InitConsole ==
  /\ events = {}
  /\ webhook \in [Sends -> {[status |-> st, count |-> 0] : st \in {"none", "pending"}}]
  /\ posts = [s \in Sends |-> <<>>]
  /\ request = [r \in Requests |-> Idle]
  /\ acked = {} /\ early = {}
  /\ faults = [k \in FaultKinds |-> 0]

Init == InitSends /\ InitConsole

-----------------------------------------------------------------------------
At(r, statement) == request[r].at = statement
Goto(r, statement) == request' = [request EXCEPT ![r].at = statement]

(* The response of the request; the relay takes a 2xx for an ack.          *)
Answer(r, ok) ==
  /\ request' = [request EXCEPT ![r] = Idle]
  /\ acked' = IF ok THEN acked \cup {request[r].callback} ELSE acked

Deliver(r, c) ==
  /\ At(r, "idle")
  /\ Supported(c)
  /\ \E key \in KeysOf(c) :
       request' = [request EXCEPT ![r] =
                     [Idle EXCEPT !.at = "find_event", !.callback = c, !.key = key]]
  /\ UNCHANGED <<status, acceptedAttempt, ledger, acked, faults>>

FindByEventKey(r) ==
  /\ At(r, "find_event")
  /\ IF \E e \in events : e.key = request[r].key
     THEN Answer(r, TRUE)
     ELSE Goto(r, "find_send") /\ UNCHANGED acked
  /\ UNCHANGED <<status, acceptedAttempt, ledger, faults>>

(* A send is looked up by one id: its own, or else the queue id, or else   *)
(* the attempt id, which it has from the acceptance on.                    *)
Locator(c) ==
  IF "send_id" \in c.ids THEN "send_id"
  ELSE IF "queue_id" \in c.ids THEN "queue_id" ELSE "attempt_id"

Findable(c) == Locator(c) \in c.stored \cup {"send_id"}

Found(c) == Findable(c) /\ (Locator(c) = "send_id" \/ acceptedAttempt[c.send] # 0)

WithWorker(s) == status[s] \notin TerminalStates \cup {"accepted_by_mta"}

Read(r) ==
  LET c == request[r].callback IN
  /\ request' = [request EXCEPT ![r].at = "judge", ![r].seen = status[c.send]]
  /\ early' = IF WithWorker(c.send) THEN early \cup {c} ELSE early
  /\ UNCHANGED acked

(* Mutant: an unmatched callback is answered like a duplicate.             *)
AcknowledgeUnmatched(r) ==
  /\ At(r, "find_send")
  /\ IF Found(request[r].callback) THEN Read(r) ELSE Answer(r, TRUE) /\ UNCHANGED early
  /\ UNCHANGED <<status, acceptedAttempt, events, webhook, posts, faults>>

(* An unmatched callback is answered with a 400.                           *)
FindByCorrelation(r) ==
  /\ At(r, "find_send")
  /\ IF Found(request[r].callback) THEN Read(r) ELSE Answer(r, FALSE) /\ UNCHANGED early
  /\ UNCHANGED <<status, acceptedAttempt, events, webhook, posts, faults>>

(* Mutant: only duplicates are refused.                                    *)
JudgeDuplicates(r) ==
  /\ At(r, "judge")
  /\ IF \A e \in events : e.key # request[r].key
     THEN Goto(r, "append") /\ UNCHANGED acked
     ELSE Answer(r, TRUE)
  /\ UNCHANGED <<status, acceptedAttempt, ledger, faults>>

(* createAggregateFromSend: the send row was read before, the event rows   *)
(* are read now.                                                           *)
Aggregate(r) ==
  [state |-> request[r].seen,
   processed |-> {e.key : e \in {e \in events : e.send = request[r].callback.send}}]

(* An ignored callback is acknowledged and forgotten.                      *)
Judge(r) ==
  LET type == EventType(request[r].callback) IN
  /\ At(r, "judge")
  /\ IF DeliveryOutcome(Aggregate(r), request[r].key, type) = "applied"
     THEN /\ request' = [request EXCEPT ![r].at = "append", ![r].seen = "draft"]
          /\ UNCHANGED acked
     ELSE Answer(r, TRUE)
  /\ UNCHANGED <<status, acceptedAttempt, ledger, faults>>

NewEvent(r) ==
  LET c == request[r].callback IN
  [key |-> request[r].key, send |-> c.send, type |-> EventType(c)]

(* Mutants: no event is recorded; an event recorded meanwhile is updated.  *)
AppendNothing(r) ==
  /\ At(r, "append")
  /\ Goto(r, "set_status")
  /\ UNCHANGED <<status, acceptedAttempt, ledger, acked, faults>>

UpsertEvent(r) ==
  /\ At(r, "append")
  /\ events' = events \cup {NewEvent(r)}
  /\ Goto(r, "set_status")
  /\ UNCHANGED <<status, acceptedAttempt, webhook, posts, early, acked, faults>>

(* The unique index on event_key makes the slower of two equal callbacks   *)
(* fail, with a 400.                                                       *)
AppendEvent(r) ==
  /\ At(r, "append")
  /\ IF \E e \in events : e.key = request[r].key
     THEN Answer(r, FALSE) /\ UNCHANGED events
     ELSE /\ events' = events \cup {NewEvent(r)}
          /\ Goto(r, "set_status")
          /\ UNCHANGED acked
  /\ UNCHANGED <<status, acceptedAttempt, webhook, posts, early, faults>>

(* The client is told of results only.                                     *)
AnnounceResult(r) ==
  IF EventType(request[r].callback) \in DeliveryResultTypes
  THEN Goto(r, "find_webhook") /\ UNCHANGED acked
  ELSE Answer(r, TRUE)

(* Mutants: the relay's own word is stored; the status is not stored.      *)
SetRawStatus(r) ==
  LET c == request[r].callback IN
  /\ At(r, "set_status")
  /\ status' = [status EXCEPT ![c.send] = c.word]
  /\ AnnounceResult(r)
  /\ UNCHANGED <<acceptedAttempt, ledger, faults>>

SetNothing(r) ==
  /\ At(r, "set_status")
  /\ AnnounceResult(r)
  /\ UNCHANGED <<status, acceptedAttempt, ledger, faults>>

(* The update does not look at the status it overwrites.                   *)
SetStatus(r) ==
  LET c == request[r].callback IN
  /\ At(r, "set_status")
  /\ status' = [status EXCEPT ![c.send] = EventState(EventType(c))]
  /\ AnnounceResult(r)
  /\ UNCHANGED <<acceptedAttempt, ledger, faults>>

FindWebhook(r) ==
  LET row == webhook[request[r].callback.send] IN
  /\ At(r, "find_webhook")
  /\ IF row.status = "none"
     THEN Answer(r, TRUE)
     ELSE /\ request' = [request EXCEPT ![r].at = "post", ![r].count = row.count]
          /\ UNCHANGED acked
  /\ UNCHANGED <<status, acceptedAttempt, ledger, faults>>

(* The POST may fail before or after the endpoint has taken it.            *)
PostWebhook(r) ==
  LET c == request[r].callback IN
  /\ At(r, "post")
  /\ \E taken, ok \in BOOLEAN :
       /\ ok => taken
       /\ posts' = IF taken
                   THEN [posts EXCEPT ![c.send] = Append(@, EventType(c))] ELSE posts
       /\ Goto(r, IF ok THEN "mark_delivered" ELSE "mark_failed")
  /\ UNCHANGED <<status, acceptedAttempt, events, webhook, early, acked, faults>>

MarkAttempt(r, to) ==
  /\ webhook' = [webhook EXCEPT ![request[r].callback.send] =
                   [status |-> to, count |-> request[r].count + 1]]
  /\ Answer(r, TRUE)
  /\ UNCHANGED <<status, acceptedAttempt, events, posts, early, faults>>

MarkDelivered(r) == At(r, "mark_delivered") /\ MarkAttempt(r, "delivered")

MarkFailed(r) ==
  /\ At(r, "mark_failed")
  /\ MarkAttempt(r, IF request[r].count < WebhookDelays THEN "retry_scheduled" ELSE "failed")

-----------------------------------------------------------------------------
Strike(kind) ==
  /\ faults["crash"] + faults["db_error"] + faults["late_row"] < FaultBudget
  /\ faults' = [faults EXCEPT ![kind] = @ + 1]

Crash ==
  /\ Strike("crash")
  /\ request' = [r \in Requests |-> Idle]
  /\ UNCHANGED <<status, acceptedAttempt, ledger, acked>>

(* The update that marks the webhook delivered is inside the try block of  *)
(* the POST, so its error is taken for a failed POST; any other error ends *)
(* the request with a 400.                                                 *)
DbError(r) ==
  /\ request[r].at \notin {"idle", "post"}
  /\ Strike("db_error")
  /\ IF At(r, "mark_delivered")
     THEN Goto(r, "mark_failed") /\ UNCHANGED acked
     ELSE Answer(r, FALSE)
  /\ UNCHANGED <<status, acceptedAttempt, ledger>>

RegisterWebhookLate(s) ==
  /\ webhook[s].status = "none"
  /\ Strike("late_row")
  /\ webhook' = [webhook EXCEPT ![s].status = "pending"]
  /\ UNCHANGED <<status, acceptedAttempt, events, posts, early, request, acked>>

(* What the worker still writes, whatever the row shows: that the send is  *)
(* accepted, or, if the relay's answer was lost, that it is deferred and   *)
(* goes out again (that the worker gives up is left to SendPipeline).      *)
StoreAcceptance(s) ==
  /\ acceptedAttempt[s] = 0
  /\ acceptedAttempt' = [acceptedAttempt EXCEPT ![s] = 1]
  /\ status' = [status EXCEPT ![s] = "accepted_by_mta"]
  /\ UNCHANGED <<ledger, request, acked, faults>>

TryAgain(s) ==
  /\ acceptedAttempt[s] = 0
  /\ \E to \in {"deferred", "dispatching"} : status' = [status EXCEPT ![s] = to]
  /\ UNCHANGED <<acceptedAttempt, ledger, request, acked, faults>>

-----------------------------------------------------------------------------
Handler(r) ==
  \/ FindByEventKey(r) \/ FindByCorrelation(r) \/ Judge(r) \/ AppendEvent(r)
  \/ SetStatus(r) \/ FindWebhook(r) \/ PostWebhook(r) \/ MarkDelivered(r) \/ MarkFailed(r)

Fault ==
  \/ Crash
  \/ \E r \in Requests : DbError(r)
  \/ \E s \in Sends : RegisterWebhookLate(s)

Worker == \E s \in Sends : StoreAcceptance(s) \/ TryAgain(s)

Next ==
  \/ \E r \in Requests, c \in Callbacks : Deliver(r, c)
  \/ \E r \in Requests : Handler(r)
  \/ Fault
  \/ Worker

Spec == Init /\ [][Next]_vars

(* A request that was begun is served to its end, fetch having a timeout   *)
(* of its own; a relay repeats a callback until it is acknowledged,        *)
(* however busy the console is; the worker gets to store the acceptance.   *)
Retry(c) == c \notin acked /\ \E r \in Requests : Deliver(r, c)

Fairness ==
  /\ \A r \in Requests : WF_vars(Handler(r))
  /\ \A c \in Callbacks : SF_vars(Retry(c))
  /\ \A s \in Sends : WF_vars(StoreAcceptance(s))

FairSpec == Spec /\ Fairness

-----------------------------------------------------------------------------
(***************************************************************************)
(* Properties.                                                             *)
(***************************************************************************)
Quiet(kinds) == \A k \in kinds : faults[k] = 0

InFlight(s) == \E r \in Requests : request[r].at # "idle" /\ request[r].callback.send = s

(* No other callback goes by one of its keys: a relay that reports two     *)
(* steps of a message under its message id loses the second.               *)
HasOwnKeys(c) == \A d \in Callbacks \ {c} : KeysOf(c) \cap KeysOf(d) = {}

IsFinal(c) == HasOwnKeys(c) /\ EventType(c) \in {"delivered", "bounced"}

(* A step of the send other than a result was reported while the worker    *)
(* was still at it.  The table may let it be applied, to be written at any *)
(* time later, whatever the row shows by then.                             *)
ReportedEarly(s) ==
  \E c \in early : c.send = s /\ EventType(c) \notin {"delivered", "bounced"}

ResultEvents(s) == {e \in events : e.send = s /\ e.type \in DeliveryResultTypes}

(* A send is never shown delivered or bounced without the evidence: the    *)
(* event is appended before the status is set, so a crash between the two  *)
(* leaves too little, never too much.                                      *)
OutcomeIsBacked ==
  \A s \in Sends :
     status[s] \in {"delivered", "bounced"} =>
       \E e \in events : e.send = s /\ e.type = status[s]

(* The client is told at most once per recorded result, whatever is        *)
(* redelivered, served at once or repeated after a crash: the look-up by   *)
(* event key and the unique index let one request through per callback.    *)
OnePostPerEvent ==
  \A s \in Sends :
     /\ Len(posts[s]) <= Cardinality(ResultEvents(s))
     /\ \A i \in 1 .. Len(posts[s]) : \E e \in ResultEvents(s) : e.type = posts[s][i]

(* Without crashes and errors, a final result that was acknowledged is     *)
(* shown as soon as no request for the send is being served, unless it was *)
(* reported too early: ingestDeliveryEvent answers a result that finds the *)
(* send with the worker with 200 and forgets it (ignored_stale), and other *)
(* early reports may overwrite one.                                        *)
AckedResultIsShown ==
  Quiet({"crash", "db_error"}) =>
    \A c \in acked \ early :
       IsFinal(c) /\ ~InFlight(c.send) /\ ~ReportedEarly(c.send) =>
         status[c.send] \in TerminalStates

(* Once a result is shown and nothing is being served, a webhook row that  *)
(* was there in time is no longer pending: the client was called.          *)
ResultIsAnnounced ==
  Quiet(FaultKinds) =>
    \A s \in Sends :
       status[s] \in TerminalStates /\ ~InFlight(s) => webhook[s].status # "pending"

(* Only a report that came while the worker was still at the send takes it *)
(* out of the terminal states: ingestDeliveryEvent judges by the status it *)
(* has read and writes whatever it finds.  After the acceptance the table  *)
(* lets nothing but results through, from any number of requests at once,  *)
(* and the worker writes no more.                                          *)
TerminalIsLeftByEarlyReports ==
  [][\A s \in Sends :
       status[s] \in TerminalStates /\ status'[s] \notin TerminalStates =>
         ReportedEarly(s)]_vars

(* As long as nothing fails, a final result that some id of the send       *)
(* matches is shown in the end, and stays: refused before the acceptance   *)
(* is stored, it is repeated until then.  Again but for early reports.     *)
EveryResultLands ==
  []Quiet(FaultKinds) =>
    \A c \in Callbacks :
       Supported(c) /\ IsFinal(c) /\ Findable(c) =>
         <>[](status[c.send] \in TerminalStates \/ c \in early \/ ReportedEarly(c.send))
=============================================================================
