------------------------- MODULE SendPipelineProofs -------------------------
(***************************************************************************)
(* Theorems about SendPipeline: the workers and the console write the row  *)
(* of a send without a lock and without looking at what they overwrite.    *)
(* Where that takes a send off its lifecycle, and where it cannot.         *)
(***************************************************************************)
EXTENDS SendPipeline, SendDispatchProofs

Results == {"delivered", "bounced"}
Reached == Results \cup {"accepted_by_mta"}

-----------------------------------------------------------------------------
(***************************************************************************)
(* What a step of the console does to its requests and to the sends.       *)
(***************************************************************************)
Judging == {"judge", "append", "set_status"}

ServedCallback(r) ==
  request[r].at # "idle" =>
    request[r].callback \in Callbacks /\ Console!Supported(request[r].callback)

ConsoleTypes ==
  /\ request \in [Requests -> Console!Slot]
  /\ webhook \in [Sends -> Console!Webhook]
  /\ \A r \in Requests : ServedCallback(r)

(* How a request gets to, and through, the statements that judge it.       *)
Recorded(c) == \E e \in events : e.send = c.send /\ e.type = Console!EventType(c)

Progress(r) ==
  LET c == request[r].callback IN
  \/ request'[r] = request[r]
  \/ request'[r].at \notin Judging
  \/ /\ request'[r].callback = c /\ c \in Callbacks
     /\ \/ /\ request'[r].at = "judge" /\ request'[r].seen = status[c.send]
           /\ Console!WithWorker(c.send) => c \in early'
        \/ /\ request[r].at = "judge" /\ request'[r].at = "append"
           /\ CanTransition(request[r].seen, Console!EventType(c))
        \/ /\ request[r].at = "append" /\ request'[r].at = "set_status"
           /\ \E e \in events' : e.send = c.send /\ e.type = Console!EventType(c)

Overwrites(r) ==
  LET c == request[r].callback IN
  /\ request[r].at = "set_status" /\ c \in Callbacks
  /\ status' = [status EXCEPT ![c.send] = Console!EventType(c)]

(* A request is about a mail that was taken.                               *)
Begins(r) ==
  request'[r].at # "idle" =>
    \/ request[r].at # "idle" /\ request'[r].callback = request[r].callback
    \/ copies[request'[r].callback.send] > 0

Keeps == events \subseteq events' /\ early \subseteq early'

ConsoleDoes ==
  /\ ConsoleTypes'
  /\ acceptedAttempt' = acceptedAttempt
  /\ Keeps
  /\ \A r \in Requests : Progress(r) /\ Begins(r)
  /\ status' = status \/ \E r \in Requests : Overwrites(r)

ConsoleNext == Report \/ Ingest \/ Console!Fault

LEMMA ServedTypes ==
  ASSUME ConsoleTypes, NEW r \in Requests, request[r].at # "idle"
  PROVE  /\ request[r].callback \in Callbacks
         /\ request[r].callback.send \in Sends
         /\ Console!EventType(request[r].callback) \in EventTypes
<1>1. request[r].callback \in Callbacks /\ Console!Supported(request[r].callback)
  BY DEF ConsoleTypes, ServedCallback
<1>2. Console!EventType(request[r].callback) \in EventTypes
  BY <1>1
     DEF Console!Supported, Console!EventType, Console!FinalStatus, EventTypes, SendStates,
         Console!EventTypes, Console!SendStates
<1> QED
  BY <1>1, <1>2, PipelineAssumption

(* A slot that moves on, or is left; the other slots wait.                 *)
OthersWait(r) == \A q \in Requests \ {r} : request'[q] = request[q]

LEMMA SlotGoes ==
  ASSUME ConsoleTypes, NEW r \in Requests, NEW st \in Console!Statements,
         request[r].at # "idle", Console!Goto(r, st)
  PROVE  /\ request' \in [Requests -> Console!Slot] /\ OthersWait(r)
         /\ request'[r].at = st /\ request'[r].callback = request[r].callback
         /\ request'[r].seen = request[r].seen
BY DEF ConsoleTypes, Console!Goto, Console!Slot, OthersWait

LEMMA SlotIsLeft ==
  ASSUME ConsoleTypes, NEW r \in Requests, NEW ok, Console!Answer(r, ok)
  PROVE  /\ request' \in [Requests -> Console!Slot] /\ OthersWait(r)
         /\ request'[r].at = "idle"
<1>1. Console!Idle \in Console!Slot /\ Console!Idle.at = "idle"
  BY DEF Console!Idle, Console!Slot, Console!SendStates
<1>2. request' = [request EXCEPT ![r] = Console!Idle]
  BY DEF Console!Answer
<1> QED
  BY <1>1, <1>2 DEF ConsoleTypes, OthersWait

(* From the slot to the whole: nothing but the slot is concerned.          *)
LEMMA SlotDoes ==
  ASSUME ConsoleTypes, NEW r \in Requests, OthersWait(r),
         request' \in [Requests -> Console!Slot], webhook' \in [Sends -> Console!Webhook],
         request[r].at # "idle",
         \/ request'[r].at = "idle"
         \/ request'[r].callback = request[r].callback,
         UNCHANGED acceptedAttempt, Progress(r), Keeps,
         status' = status \/ Overwrites(r)
  PROVE  ConsoleDoes
<1>1. \A q \in Requests : Progress(q) /\ Begins(q)
  BY DEF OthersWait, Progress, Begins
<1>2. ASSUME NEW q \in Requests PROVE ServedCallback(q)'
  BY <1>2 DEF ConsoleTypes, ServedCallback, OthersWait
<1> QED
  BY <1>1, <1>2 DEF ConsoleDoes, ConsoleTypes

LEMMA HandlerDoes ==
  ASSUME ConsoleTypes, status \in [Sends -> SendStates], NEW r \in Requests, Console!Handler(r)
  PROVE  ConsoleDoes
<1> DEFINE c == request[r].callback
<1>0. request[r].at # "idle"
  BY DEF Console!Handler, Console!FindByEventKey, Console!FindByCorrelation, Console!Judge,
         Console!AppendEvent, Console!SetStatus, Console!FindWebhook, Console!PostWebhook,
         Console!MarkDelivered, Console!MarkFailed, Console!At
<1>c. c \in Callbacks /\ c.send \in Sends /\ Console!EventType(c) \in EventTypes
  BY <1>0, ServedTypes
<1> DEFINE Left == \E ok \in BOOLEAN : Console!Answer(r, ok)
           Same == UNCHANGED <<webhook, acceptedAttempt, events, early>>
           Calm == Same /\ status' = status
<1>left. ASSUME Left PROVE /\ request' \in [Requests -> Console!Slot] /\ OthersWait(r)
                           /\ request'[r].at = "idle" /\ Progress(r)
  BY <1>left, SlotIsLeft DEF Progress, Judging
<1>web. ASSUME webhook' = webhook PROVE webhook' \in [Sends -> Console!Webhook]
  BY <1>web DEF ConsoleTypes
<1>keep. Same => Keeps
  BY DEF Keeps
<1>1. CASE Console!FindByEventKey(r)
  <2>1. Calm /\ (Left \/ Console!Goto(r, "find_send"))
    BY <1>1 DEF Console!FindByEventKey, Console!ledger
  <2>2. CASE Console!Goto(r, "find_send")
    BY <1>0, <1>web, <1>keep, <2>1, <2>2, SlotGoes, SlotDoes DEF Console!Statements, Progress, Judging
  <2> QED
    BY <1>0, <1>web, <1>keep, <1>left, <2>1, <2>2, SlotDoes
<1>2. CASE Console!FindByCorrelation(r)
  <2>1. UNCHANGED <<status, acceptedAttempt, events, webhook>>
    BY <1>2 DEF Console!FindByCorrelation
  <2>2. CASE Console!Found(c)
    <3>1. /\ request' = [request EXCEPT ![r].at = "judge", ![r].seen = status[c.send]]
          /\ early' = IF Console!WithWorker(c.send) THEN early \cup {c} ELSE early
      BY <1>2, <2>2 DEF Console!FindByCorrelation, Console!Read
    <3>2. status[c.send] \in Console!SendStates
      BY <1>c DEF SendStates, Console!SendStates
    <3>3. /\ request' \in [Requests -> Console!Slot] /\ OthersWait(r)
          /\ request'[r].at = "judge" /\ request'[r].callback = c
          /\ request'[r].seen = status[c.send]
      BY <3>1, <3>2 DEF ConsoleTypes, Console!Slot, Console!Statements, OthersWait
    <3>4. Keeps /\ (Console!WithWorker(c.send) => c \in early')
      BY <2>1, <3>1 DEF Keeps
    <3>5. Progress(r)
      BY <1>c, <3>3, <3>4 DEF Progress
    <3> QED
      BY <1>0, <1>web, <2>1, <3>3, <3>4, <3>5, SlotDoes
  <2>3. CASE ~Console!Found(c)
    <3>1. Left /\ Keeps
      BY <1>2, <2>1, <2>3 DEF Console!FindByCorrelation, Keeps
    <3> QED
      BY <1>0, <1>web, <1>left, <2>1, <3>1, SlotDoes
  <2> QED
    BY <2>2, <2>3
<1>3. CASE Console!Judge(r)
  <2> DEFINE judgement == Console!DeliveryOutcome(Console!Aggregate(r), request[r].key,
                                                  Console!EventType(c))
  <2>1. Calm /\ request[r].at = "judge"
    BY <1>3 DEF Console!Judge, Console!ledger, Console!At
  <2>2. CASE judgement = "applied"
    <3> DEFINE slot == [request[r] EXCEPT !.at = "append", !.seen = "draft"]
    <3>1. request' = [request EXCEPT ![r] = slot]
      BY <1>3, <2>2 DEF Console!Judge, ConsoleTypes
    <3>2. CanTransition(request[r].seen, Console!EventType(c))
      BY <2>2
         DEF Console!DeliveryOutcome, Console!Aggregate, Console!CanTransition,
             Console!SendTransitions, CanTransition, SendTransitions, Console!EventState
    <3>3. slot \in Console!Slot /\ slot.at = "append" /\ slot.callback = c
      BY DEF ConsoleTypes, Console!Slot, Console!Statements, Console!SendStates
    <3> HIDE DEF slot
    <3>4. /\ request' \in [Requests -> Console!Slot] /\ OthersWait(r)
          /\ request'[r].at = "append" /\ request'[r].callback = c
      BY <3>1, <3>3 DEF ConsoleTypes, OthersWait
    <3>5. Progress(r)
      BY <1>c, <2>1, <3>2, <3>4 DEF Progress
    <3> QED
      BY <1>0, <1>web, <1>keep, <2>1, <3>4, <3>5, SlotDoes
  <2>3. CASE judgement # "applied"
    <3>1. Left
      BY <1>3, <2>3 DEF Console!Judge
    <3> QED
      BY <1>0, <1>web, <1>keep, <1>left, <2>1, <3>1, SlotDoes
  <2> QED
    BY <2>2, <2>3
<1>4. CASE Console!AppendEvent(r)
  <2>1. /\ UNCHANGED <<status, acceptedAttempt, webhook, early>> /\ request[r].at = "append"
        /\ \/ Left /\ events' = events
           \/ Console!Goto(r, "set_status") /\ events' = events \cup {Console!NewEvent(r)}
    BY <1>4 DEF Console!AppendEvent, Console!At
  <2>2. Keeps
    BY <2>1 DEF Keeps
  <2>3. CASE Console!Goto(r, "set_status") /\ events' = events \cup {Console!NewEvent(r)}
    <3>1. /\ request' \in [Requests -> Console!Slot] /\ OthersWait(r)
          /\ request'[r].at = "set_status" /\ request'[r].callback = c
      BY <1>0, <2>3, SlotGoes DEF Console!Statements
    <3>2. \E e \in events' : e.send = c.send /\ e.type = Console!EventType(c)
      <4>1. Console!NewEvent(r).send = c.send /\ Console!NewEvent(r).type = Console!EventType(c)
        BY DEF Console!NewEvent
      <4>2. Console!NewEvent(r) \in events'
        BY <2>3
      <4> QED
        BY <4>1, <4>2
    <3>3. Progress(r)
      BY <1>c, <2>1, <3>1, <3>2 DEF Progress
    <3> QED
      BY <1>0, <1>web, <2>1, <2>2, <3>1, <3>3, SlotDoes
  <2> QED
    BY <1>0, <1>web, <1>left, <2>1, <2>2, <2>3, SlotDoes
<1>5. CASE Console!SetStatus(r)
  <2>1. Same /\ Overwrites(r) /\ (Left \/ Console!Goto(r, "find_webhook"))
    BY <1>5, <1>c
       DEF Console!SetStatus, Console!AnnounceResult, Console!ledger, Console!EventState,
           Console!At, Overwrites
  <2>2. CASE Console!Goto(r, "find_webhook")
    BY <1>0, <1>web, <1>keep, <2>1, <2>2, SlotGoes, SlotDoes DEF Console!Statements, Progress, Judging
  <2> QED
    BY <1>0, <1>web, <1>keep, <1>left, <2>1, <2>2, SlotDoes
<1>6. CASE Console!FindWebhook(r)
  <2> DEFINE row == webhook[c.send]
  <2>1. Calm
    BY <1>6 DEF Console!FindWebhook, Console!ledger
  <2>2. CASE row.status = "none"
    <3>1. Left
      BY <1>6, <2>2 DEF Console!FindWebhook
    <3> QED
      BY <1>0, <1>web, <1>keep, <1>left, <2>1, <3>1, SlotDoes
  <2>3. CASE row.status # "none"
    <3>1. request' = [request EXCEPT ![r].at = "post", ![r].count = row.count]
      BY <1>6, <2>3 DEF Console!FindWebhook
    <3>2. row.count \in Nat
      BY <1>c DEF ConsoleTypes, Console!Webhook
    <3>3. /\ request' \in [Requests -> Console!Slot] /\ OthersWait(r)
          /\ request'[r].at = "post" /\ request'[r].callback = c
      BY <3>1, <3>2 DEF ConsoleTypes, Console!Slot, Console!Statements, OthersWait
    <3>4. Progress(r)
      BY <3>3 DEF Progress, Judging
    <3> QED
      BY <1>0, <1>web, <1>keep, <2>1, <3>3, <3>4, SlotDoes
  <2> QED
    BY <2>2, <2>3
<1>7. CASE Console!PostWebhook(r)
  <2>1. Calm /\ (Console!Goto(r, "mark_delivered") \/ Console!Goto(r, "mark_failed"))
    BY <1>7 DEF Console!PostWebhook
  <2> QED
    BY <1>0, <1>web, <1>keep, <2>1, SlotGoes, SlotDoes DEF Console!Statements, Progress, Judging
<1>8. ASSUME NEW to \in Console!WebhookStates, Console!MarkAttempt(r, to) PROVE ConsoleDoes
  <2>1. UNCHANGED <<acceptedAttempt, status>> /\ Left /\ Keeps
    BY <1>8 DEF Console!MarkAttempt, Keeps
  <2> DEFINE row == [status |-> to, count |-> request[r].count + 1]
  <2>2. row \in Console!Webhook
    BY DEF Console!Webhook, ConsoleTypes, Console!Slot
  <2> HIDE DEF row
  <2>3. webhook' = [webhook EXCEPT ![c.send] = row]
    BY <1>8 DEF Console!MarkAttempt, row
  <2>4. webhook' \in [Sends -> Console!Webhook]
    BY <2>2, <2>3 DEF ConsoleTypes
  <2> QED
    BY <1>0, <1>left, <2>1, <2>4, SlotDoes
<1>9. CASE Console!MarkDelivered(r) \/ Console!MarkFailed(r)
  <2>1. \E to \in Console!WebhookStates : Console!MarkAttempt(r, to)
    BY <1>9 DEF Console!MarkDelivered, Console!MarkFailed, Console!WebhookStates
  <2> QED
    BY <1>8, <2>1
<1> QED
  BY <1>1, <1>2, <1>3, <1>4, <1>5, <1>6, <1>7, <1>9 DEF Console!Handler

LEMMA ConsoleStep ==
  ASSUME ConsoleTypes, status \in [Sends -> SendStates], ConsoleNext
  PROVE  ConsoleDoes
<1>1. CASE Report
  <2>1. PICK r \in Requests, c \in Callbacks : copies[c.send] > 0 /\ Console!Deliver(r, c)
    BY <1>1 DEF Report
  <2>2. PICK key \in Console!KeysOf(c) :
          request' = [request EXCEPT ![r] =
                        [Console!Idle EXCEPT !.at = "find_event", !.callback = c, !.key = key]]
    BY <2>1 DEF Console!Deliver
  <2> DEFINE slot == [Console!Idle EXCEPT !.at = "find_event", !.callback = c, !.key = key]
  <2>3. key \in Console!Keys
    BY DEF Console!Keys
  <2>4. slot \in Console!Slot /\ slot.at = "find_event" /\ slot.callback = c
    BY <2>3 DEF Console!Slot, Console!Idle, Console!SendStates, Console!Statements
  <2> HIDE DEF slot
  <2>5. request' = [request EXCEPT ![r] = slot]
    BY <2>2 DEF slot
  <2>6. /\ request' \in [Requests -> Console!Slot] /\ OthersWait(r)
        /\ request'[r].at = "find_event" /\ request'[r].callback = c
    BY <2>4, <2>5 DEF ConsoleTypes, OthersWait
  <2>7. UNCHANGED <<status, acceptedAttempt, webhook>> /\ Keeps /\ Console!Supported(c)
    BY <2>1 DEF Console!Deliver, Console!ledger, Keeps
  <2>8. \A q \in Requests : Progress(q) /\ Begins(q)
    BY <2>1, <2>6 DEF Progress, Begins, Judging, OthersWait
  <2>9. ASSUME NEW q \in Requests PROVE ServedCallback(q)'
    BY <2>6, <2>7, <2>9 DEF ConsoleTypes, ServedCallback, OthersWait
  <2> QED
    BY <2>6, <2>7, <2>8, <2>9 DEF ConsoleDoes, ConsoleTypes
<1>2. CASE Ingest
  BY <1>2, HandlerDoes DEF Ingest
<1>3. CASE Console!Crash
  <2>1. Console!Idle \in Console!Slot /\ Console!Idle.at = "idle"
    BY DEF Console!Idle, Console!Slot, Console!SendStates
  <2>2. /\ request' = [r \in Requests |-> Console!Idle]
        /\ UNCHANGED <<status, acceptedAttempt, webhook>> /\ Keeps
    BY <1>3 DEF Console!Crash, Console!ledger, Keeps
  <2> QED
    BY <2>1, <2>2 DEF ConsoleDoes, ConsoleTypes, ServedCallback, Progress, Begins, Judging
<1>4. ASSUME NEW r \in Requests, Console!DbError(r) PROVE ConsoleDoes
  <2>1. /\ UNCHANGED <<status, acceptedAttempt, webhook>> /\ Keeps /\ request[r].at # "idle"
        /\ Console!Goto(r, "mark_failed") \/ Console!Answer(r, FALSE)
    BY <1>4 DEF Console!DbError, Console!ledger, Keeps
  <2>2. webhook' \in [Sends -> Console!Webhook]
    BY <2>1 DEF ConsoleTypes
  <2>3. CASE Console!Goto(r, "mark_failed")
    BY <2>1, <2>2, <2>3, SlotGoes, SlotDoes DEF Console!Statements, Progress, Judging
  <2>4. CASE Console!Answer(r, FALSE)
    BY <2>1, <2>2, <2>4, SlotIsLeft, SlotDoes DEF Progress, Judging
  <2> QED
    BY <2>1, <2>3, <2>4
<1>5. ASSUME NEW s \in Sends, Console!RegisterWebhookLate(s) PROVE ConsoleDoes
  <2>1. /\ UNCHANGED <<status, acceptedAttempt, request>> /\ Keeps
        /\ webhook' = [webhook EXCEPT ![s].status = "pending"]
    BY <1>5 DEF Console!RegisterWebhookLate, Keeps
  <2>2. webhook' \in [Sends -> Console!Webhook]
    BY <2>1 DEF ConsoleTypes, Console!Webhook, Console!WebhookStates
  <2> QED
    BY <2>1, <2>2 DEF ConsoleDoes, ConsoleTypes, ServedCallback, Progress, Begins
<1> QED
  BY <1>1, <1>2, <1>3, <1>4, <1>5 DEF ConsoleNext, Console!Fault

-----------------------------------------------------------------------------
(***************************************************************************)
(* The two writers take turns, unless a step of the send was reported      *)
(* early: until a send is accepted its row belongs to the run that has it  *)
(* in hand, and from then on to the console.  Nothing is reported of a     *)
(* send before a relay has taken it, from when on its run writes once, the *)
(* acceptance.                                                             *)
(***************************************************************************)
Early(s) == Console!ReportedEarly(s)

HandRun(w) ==
  LET s == cur[w] IN
  /\ pc[w] \in {"find", "mark_dispatching"} => status[s] \in Fresh
  /\ pc[w] \in Working /\ (copies[s] = 0 \/ ~Early(s)) => status[s] = "dispatching"
  /\ pc[w] \in Unsent \cup {"finish", "verdict", "throw"} => acceptedAttempt[s] = 0
  /\ pc[w] \in Unsent \cup {"throw"} => copies[s] = 0
  /\ pc[w] \in {"finish", "verdict"} /\ copies[s] > 0 => outcome[w] = "accepted"
  /\ pc[w] = "insert" => number[w] = Len(attempts[s]) + 1
  /\ pc[w] \in {"insert", "transport", "finish"} => number[w] # 0
  /\ pc[w] = "verdict" /\ outcome[w] = "accepted" => number[w] # 0
  /\ pc[w] = "log_verdict" /\ Verdict(w) = "deferred" =>
       status[s] = "deferred" /\ copies[s] = 0 /\ acceptedAttempt[s] = 0
  /\ pc[w] = "throw" => status[s] = "deferred"

EarlyTypes(s) == {Console!EventType(c) : c \in {c \in early : c.send = s}}

Shown(s) ==
  /\ ~Early(s) => (acceptedAttempt[s] # 0 <=> status[s] \in Reached)
  /\ copies[s] > 0 => status[s] \in {"dispatching"} \cup Reached \cup EarlyTypes(s)
  /\ status[s] \in Results => \E e \in events : e.send = s /\ e.type = status[s]

Ended(s) == job[s].state \in {"completed", "failed", "lost"}

HandSend(s) ==
  /\ Shown(s)
  /\ ~RunningOn(s) =>
       Ended(s) \/ (status[s] \in Fresh /\ copies[s] = 0 /\ acceptedAttempt[s] = 0)

HandRequest(r) ==
  LET c == request[r].callback IN
  /\ request[r].at # "idle" => copies[c.send] > 0
  /\ request[r].at = "judge" =>
       /\ request[r].seen \notin TerminalStates \cup {"accepted_by_mta"} => c \in early
       /\ ~Early(c.send) /\ request[r].seen \in Reached => acceptedAttempt[c.send] # 0
  /\ request[r].at \in {"append", "set_status"} =>
       /\ c \in early \/ Console!EventType(c) \in Results
       /\ ~Early(c.send) => Console!EventType(c) \in Results /\ acceptedAttempt[c.send] # 0
  /\ request[r].at = "set_status" => Recorded(c)

Runs == \A w \in Workers : pc[w] # "idle" => HandRun(w)
Rows == \A s \in Sends : HandSend(s)
Asks == \A r \in Requests : HandRequest(r)

HandsInv == Undisturbed => Runs /\ Rows /\ Asks

(* What every step of the pipeline keeps.                                  *)
Base == TypeOK /\ LocalInv /\ LockInv /\ ConsoleTypes

-----------------------------------------------------------------------------
(***************************************************************************)
(* The workers' steps.                                                     *)
(***************************************************************************)
LEMMA EarlyUnchanged ==
  ASSUME UNCHANGED consoleVars, NEW u \in Sends
  PROVE  Early(u)' = Early(u) /\ EarlyTypes(u)' = EarlyTypes(u) /\ events' = events
BY DEF consoleVars, Early, EarlyTypes, Console!ReportedEarly

(* A statement of one run disturbs no other run and no other send.         *)
LEMMA HandFrame ==
  ASSUME TypeOK, LocalInv, OneRun, Runs, Rows, NEW w \in Workers, OwnStep(w),
         UNCHANGED consoleVars, HandRun(w)', Shown(cur[w])'
  PROVE  Runs' /\ Rows'
<1>1. cur[w] \in Sends /\ cur[w] # NoSend /\ job' = job /\ cur' = cur
  BY BusyHasSend, DispatchAssumption DEF OwnStep
<1>e. ASSUME NEW u \in Sends
      PROVE  Early(u)' = Early(u) /\ EarlyTypes(u)' = EarlyTypes(u) /\ events' = events
  BY EarlyUnchanged
<1>2. ASSUME NEW v \in Workers, pc'[v] # "idle", v # w PROVE HandRun(v)'
  <2>1. /\ pc'[v] = pc[v] /\ Verdict(v)' = Verdict(v)
        /\ number'[v] = number[v] /\ outcome'[v] = outcome[v]
    BY <1>2 DEF OwnStep, Verdict
  <2>2. cur[v] \in Sends /\ cur[v] # cur[w] /\ cur'[v] = cur[v]
    BY <1>1, <1>2, <2>1, BusyHasSend DEF OneRun
  <2>3. /\ status'[cur[v]] = status[cur[v]] /\ attempts'[cur[v]] = attempts[cur[v]]
        /\ copies'[cur[v]] = copies[cur[v]]
        /\ acceptedAttempt'[cur[v]] = acceptedAttempt[cur[v]]
    BY <2>2 DEF OwnStep
  <2>4. HandRun(v)
    BY <1>2, <2>1 DEF Runs
  <2>5. Early(cur[v])' = Early(cur[v])
    BY <1>e, <2>2
  <2> QED
    BY <2>1, <2>2, <2>3, <2>4, <2>5 DEF HandRun
<1>3. ASSUME NEW u \in Sends PROVE HandSend(u)'
  <2>1. CASE u = cur[w]
    <3>1. RunningOn(u)'
      BY <1>1, <2>1 DEF RunningOn
    <3> QED
      BY <1>1, <2>1, <3>1 DEF HandSend, Shown
  <2>2. CASE u # cur[w]
    <3>1. /\ status'[u] = status[u] /\ copies'[u] = copies[u]
          /\ acceptedAttempt'[u] = acceptedAttempt[u]
          /\ Ended(u)' = Ended(u) /\ RunningOn(u)' = RunningOn(u)
      BY <1>1, <2>2 DEF OwnStep, RunningOn, Ended
    <3>2. HandSend(u)
      BY DEF Rows
    <3> QED
      BY <1>e, <3>1, <3>2 DEF HandSend, Shown
  <2> QED
    BY <2>1, <2>2
<1> QED
  BY <1>2, <1>3 DEF Runs, Rows

(* The run's own statements.                                               *)
LEMMA StatementKeepsHand ==
  ASSUME TypeOK, LocalInv, NEW w \in Workers, pc[w] # "idle", HandRun(w), Shown(cur[w]),
         Statement(w), UNCHANGED consoleVars
  PROVE  HandRun(w)' /\ Shown(cur[w])'
<1> DEFINE s == cur[w]
<1>0. /\ s \in Sends /\ copies[s] \in Nat /\ Len(attempts[s]) \in Nat
      /\ number[w] \in Nat /\ acceptedAttempt[s] \in Nat
  BY BusyHasSend, LenProperties DEF TypeOK
<1>e. ASSUME cur' = cur
      PROVE  /\ Early(cur[w])' = Early(s) /\ EarlyTypes(cur[w])' = EarlyTypes(s)
             /\ events' = events
  BY <1>e DEF consoleVars, Early, EarlyTypes, Console!ReportedEarly
<1> USE DEF HandRun, Unsent, Working, Fresh
<1>1. CASE FindSend(w)
  BY <1>0, <1>e, <1>1 DEF FindSend, Goto, TypeOK, rows, locals, SkippedStates, Shown
<1>2. CASE MarkDispatching(w)
  BY <1>0, <1>e, <1>2 DEF MarkDispatching, Goto, TypeOK, locals, Shown, Reached, Results
<1>3. CASE LogDispatching(w)
  BY <1>0, <1>e, <1>3 DEF LogDispatching, Goto, TypeOK, locals, Shown
<1>4. CASE ResolveRoute(w)
  BY <1>0, <1>e, <1>4 DEF ResolveRoute, Goto, TypeOK, rows, Shown
<1>5. CASE NextAttemptNumber(w)
  BY <1>0, <1>e, <1>5 DEF NextAttemptNumber, Goto, TypeOK, rows, Shown
<1>6. CASE CreateDispatchAttempt(w)
  BY <1>0, <1>e, <1>6 DEF CreateDispatchAttempt, Goto, TypeOK, locals, Shown
<1>7. CASE Transport(w)
  BY <1>0, <1>e, <1>7 DEF Transport, Goto, TypeOK, rows, Shown
<1>8. CASE FinishAttempt(w)
  <2>1. /\ UNCHANGED <<status, acceptedAttempt, cur, number, outcome, copies>>
        /\ \/ pc'[w] = "number" /\ outcome[w] = "failed_transient"
           \/ pc'[w] = "verdict"
        /\ pc[w] = "finish"
    BY <1>8 DEF FinishAttempt, Goto, TypeOK
  <2> QED
    BY <1>0, <1>e, <2>1 DEF Shown
<1>9. CASE WriteVerdict(w)
  <2>1. /\ Verdict(w)' = Verdict(w) /\ status'[s] = Verdict(w) /\ pc[w] = "verdict"
        /\ UNCHANGED <<cur, copies>> /\ pc'[w] = "log_verdict"
        /\ acceptedAttempt'[s] = IF Verdict(w) = "accepted_by_mta" THEN number[w]
                                 ELSE acceptedAttempt[s]
    BY <1>0, <1>e, <1>9 DEF WriteVerdict, Verdict, TypeOK, locals, Goto
  <2>2. /\ outcome[w] = "accepted" <=> Verdict(w) = "accepted_by_mta"
        /\ Verdict(w) \notin Results
    BY DEF Verdict, Results
  <2>3. /\ acceptedAttempt[s] = 0
        /\ copies[s] > 0 => Verdict(w) = "accepted_by_mta"
        /\ Verdict(w) = "accepted_by_mta" => number[w] # 0
    BY <2>1, <2>2
  <2>4. HandRun(w)'
    BY <1>0, <1>e, <2>1, <2>3
  <2>5. Shown(s)'
    BY <1>0, <1>e, <2>1, <2>2, <2>3 DEF Shown, Reached
  <2> QED
    BY <2>1, <2>4, <2>5
<1>10. CASE LogVerdict(w)
  <2>1. /\ UNCHANGED <<status, acceptedAttempt, cur, copies>> /\ pc[w] = "log_verdict"
        /\ pc'[w] = IF Verdict(w) = "deferred" THEN "throw" ELSE "return"
    BY <1>0, <1>e, <1>10 DEF LogVerdict, Goto, TypeOK, locals
  <2> QED
    BY <1>e, <2>1 DEF Shown
<1> QED
  BY <1>1, <1>2, <1>3, <1>4, <1>5, <1>6, <1>7, <1>8, <1>9, <1>10 DEF Statement

(* The queue's steps, Redis, and the end of a run.                         *)
LEMMA HandedOver ==
  ASSUME NEW v \in Workers, HandRun(v), UNCHANGED <<status, acceptedAttempt, attempts, copies>>,
         pc'[v] = pc[v], cur'[v] = cur[v], number'[v] = number[v], outcome'[v] = outcome[v],
         UNCHANGED consoleVars
  PROVE  HandRun(v)'
<1>1. Verdict(v)' = Verdict(v) /\ Early(cur[v])' = Early(cur[v])
  BY DEF Verdict, consoleVars, Early, Console!ReportedEarly
<1> QED
  BY <1>1 DEF HandRun

LEMMA LeftAlone ==
  ASSUME NEW u \in Sends, HandSend(u), UNCHANGED <<status, acceptedAttempt, copies>>,
         Ended(u) => Ended(u)', RunningOn(u) => RunningOn(u)', UNCHANGED consoleVars
  PROVE  HandSend(u)'
BY EarlyUnchanged DEF HandSend, Shown

LEMMA WorkersKeepHands ==
  ASSUME Base, [Next]_vars, Undisturbed', Undisturbed, Runs, Rows, UNCHANGED consoleVars
  PROVE  Runs' /\ Rows'
<1>0. /\ TypeOK /\ LocalInv /\ RunHoldsJob /\ OneRun /\ job \in [Sends -> Job]
  BY UndisturbedSteps DEF Base, LockInv, TypeOK
<1>1. ASSUME NEW w \in Workers, Statement(w) PROVE Runs' /\ Rows'
  <2>1. OwnStep(w)
    BY <1>0, <1>1, StatementIsOwnStep
  <2>2. pc[w] # "idle" /\ cur[w] \in Sends
    BY <1>0, <2>1, BusyHasSend DEF OwnStep
  <2>3. HandRun(w)' /\ Shown(cur[w])'
    BY <1>0, <1>1, <2>2, StatementKeepsHand DEF Runs, Rows, HandSend
  <2> QED
    BY <1>0, <2>1, <2>3, HandFrame
<1>2. ASSUME NEW s \in Sends, Enqueue(s) \/ PromoteDelayed(s) \/ RecoverStalled(s)
      PROVE  Runs' /\ Rows'
  <2>1. /\ UNCHANGED <<status, acceptedAttempt, attempts, copies, pc, cur, number, outcome>>
        /\ ~Ended(s)
        /\ job[s].state = "active" => ~RunIsAlive(s)
        /\ \A u \in Sends \ {s} : job'[u] = job[u]
    BY <1>0, <1>2 DEF Enqueue, PromoteDelayed, RecoverStalled, Stall, rows, locals, Ended
  <2>2. ASSUME NEW v \in Workers, pc'[v] # "idle" PROVE HandRun(v)'
    BY <2>1, <2>2, HandedOver DEF Runs
  <2>3. ASSUME NEW u \in Sends PROVE HandSend(u)'
    <3>1. RunningOn(u)' = RunningOn(u) /\ (Ended(u) => Ended(u)')
      BY <2>1 DEF RunningOn, Ended
    <3> QED
      BY <2>1, <3>1, LeftAlone DEF Rows
  <2> QED
    BY <2>2, <2>3 DEF Runs, Rows
<1>3. ASSUME NEW w \in Workers, NEW s \in Sends, TakeJob(w, s) PROVE Runs' /\ Rows'
  <2>1. /\ UNCHANGED <<status, acceptedAttempt, attempts, copies, number, outcome>>
        /\ pc[w] = "idle" /\ job[s].state = "waiting"
        /\ pc' = [pc EXCEPT ![w] = "find"] /\ cur' = [cur EXCEPT ![w] = s]
        /\ \A u \in Sends \ {s} : job'[u] = job[u]
    BY <1>0, <1>3 DEF TakeJob, rows, Job
  <2>2. pc'[w] = "find" /\ cur'[w] = s /\ cur[w] = NoSend
    BY <1>0, <2>1 DEF TypeOK, LocalInv
  <2>3. ~RunningOn(s)
    BY <1>0, <2>1, DispatchAssumption DEF RunHoldsJob, RunningOn, Holds
  <2>4. status[s] \in Fresh /\ copies[s] = 0 /\ acceptedAttempt[s] = 0
    BY <2>1, <2>3 DEF Rows, HandSend, Ended
  <2>5. ASSUME NEW v \in Workers, pc'[v] # "idle" PROVE HandRun(v)'
    <3>1. CASE v = w
      BY <2>1, <2>2, <2>4, <3>1 DEF HandRun, Working
    <3>2. CASE v # w
      <4>1. pc'[v] = pc[v] /\ cur'[v] = cur[v]
        BY <1>0, <2>1, <3>2 DEF TypeOK
      <4> QED
        BY <2>1, <2>5, <4>1, HandedOver DEF Runs
    <3> QED
      BY <3>1, <3>2
  <2>6. ASSUME NEW u \in Sends PROVE HandSend(u)'
    <3>1. CASE u = s
      <4>1. RunningOn(s)' /\ Shown(s)
        BY <2>2 DEF RunningOn, Rows, HandSend
      <4> QED
        BY <2>1, <3>1, <4>1, EarlyUnchanged DEF HandSend, Shown
    <3>2. CASE u # s
      <4>1. \A v \in Workers \ {w} : cur'[v] = cur[v]
        BY <1>0, <2>1 DEF TypeOK
      <4>2. (RunningOn(u) => RunningOn(u)') /\ Ended(u)' = Ended(u)
        BY <2>1, <2>2, <3>2, <4>1, DispatchAssumption DEF RunningOn, Ended
      <4> QED
        BY <2>1, <4>2, LeftAlone DEF Rows
    <3> QED
      BY <3>1, <3>2
  <2> QED
    BY <2>5, <2>6 DEF Runs, Rows
<1>4. ASSUME NEW w \in Workers, CompleteJob(w) \/ FailJob(w) PROVE Runs' /\ Rows'
  <2>0. PICK s \in Sends : s = cur[w]
    BY <1>0, <1>4, BusyHasSend DEF CompleteJob, FailJob
  <2>1. /\ UNCHANGED <<status, acceptedAttempt, attempts, copies>> /\ s # NoSend
        /\ pc' = [pc EXCEPT ![w] = "idle"] /\ cur' = [cur EXCEPT ![w] = NoSend]
        /\ number' = [number EXCEPT ![w] = 0] /\ outcome' = [outcome EXCEPT ![w] = "none"]
        /\ \A u \in Sends \ {s} : job'[u] = job[u]
    BY <1>0, <1>4, <2>0, DispatchAssumption DEF CompleteJob, FailJob, Release, rows
  <2>2. \A v \in Workers \ {w} :
           /\ pc'[v] = pc[v] /\ cur'[v] = cur[v] /\ cur[v] # s
           /\ number'[v] = number[v] /\ outcome'[v] = outcome[v]
    BY <1>0, <2>0, <2>1 DEF OneRun, TypeOK
  <2>3. ASSUME NEW v \in Workers, pc'[v] # "idle" PROVE HandRun(v)'
    <3>1. v # w
      BY <1>0, <2>1, <2>3 DEF TypeOK
    <3> QED
      BY <2>1, <2>2, <2>3, <3>1, HandedOver DEF Runs
  <2>4. Ended(s)' \/ (status[s] \in Fresh /\ copies[s] = 0 /\ acceptedAttempt[s] = 0)
    <3>1. CASE CompleteJob(w)
      BY <1>0, <2>0, <2>1, <3>1 DEF CompleteJob, RunHoldsJob, Ended, Job
    <3>2. CASE FailJob(w)
      BY <1>0, <2>0, <3>2 DEF FailJob, Runs, HandRun, Fresh
    <3> QED
      BY <1>4, <3>1, <3>2
  <2>5. ASSUME NEW u \in Sends PROVE HandSend(u)'
    <3>1. CASE u = s
      BY <2>1, <2>4, <3>1, EarlyUnchanged DEF Rows, HandSend, Shown
    <3>2. CASE u # s
      <4>1. (RunningOn(u) => RunningOn(u)') /\ Ended(u)' = Ended(u)
        BY <2>0, <2>1, <2>2, <3>2 DEF RunningOn, Ended
      <4> QED
        BY <2>1, <4>1, LeftAlone DEF Rows
    <3> QED
      BY <3>1, <3>2
  <2> QED
    BY <2>3, <2>5 DEF Runs, Rows
<1>5. CASE RedisRestart \/ UNCHANGED vars
  <2>1. /\ UNCHANGED <<status, acceptedAttempt, attempts, copies, pc, cur, number, outcome>>
        /\ \A u \in Sends : job'[u] = job[u] \/ job'[u].state = "lost"
    BY <1>0, <1>5 DEF RedisRestart, rows, locals, vars, Job
  <2>2. ASSUME NEW v \in Workers, pc'[v] # "idle" PROVE HandRun(v)'
    BY <2>1, <2>2, HandedOver DEF Runs
  <2>3. ASSUME NEW u \in Sends PROVE HandSend(u)'
    <3>1. RunningOn(u)' = RunningOn(u) /\ (Ended(u) => Ended(u)')
      BY <2>1 DEF RunningOn, Ended
    <3> QED
      BY <2>1, <3>1, LeftAlone DEF Rows
  <2> QED
    BY <2>2, <2>3 DEF Runs, Rows
<1> QED
  BY <1>0, <1>1, <1>2, <1>3, <1>4, <1>5, UndisturbedSteps

(* An acceptance is never taken back, so what a request has read stays.    *)
LEMMA WorkersKeepAsks ==
  ASSUME Base, [Next]_vars, Undisturbed', Runs, Asks, UNCHANGED consoleVars
  PROVE  Asks'
<1>0. TypeOK /\ LocalInv
  BY DEF Base
<1>1. \A s \in Sends : acceptedAttempt[s] # 0 => acceptedAttempt'[s] # 0
  <2>1. ASSUME NEW w \in Workers, WriteVerdict(w), NEW s \in Sends, acceptedAttempt[s] # 0
        PROVE  acceptedAttempt'[s] # 0
    <3>1. acceptedAttempt[cur[w]] = 0 /\ cur[w] \in Sends
      BY <1>0, <2>1, BusyHasSend DEF WriteVerdict, Runs, HandRun
    <3> QED
      BY <1>0, <2>1, <3>1 DEF WriteVerdict, TypeOK
  <2>2. acceptedAttempt' = acceptedAttempt \/ \E w \in Workers : WriteVerdict(w)
    BY DEF Next, vars, rows, Queue, Enqueue, PromoteDelayed, RecoverStalled, TakeJob, Processor,
           FindSend, MarkDispatching, LogDispatching, ResolveRoute, NextAttemptNumber,
           CreateDispatchAttempt, Transport, FinishAttempt, LogVerdict, CompleteJob, FailJob,
           Fault, Crash, DbError, LoseReply, PeerClose, LoseLock, RedisRestart
  <2> QED
    BY <2>1, <2>2
<1>2. \A s \in Sends : copies[s] > 0 => copies'[s] > 0
  <2>1. copies' = copies \/ \E w \in Workers, n \in {0, 1} :
                             pc[w] = "transport" /\ copies' = [copies EXCEPT ![cur[w]] = @ + n]
    BY DEF Next, vars, rows, Queue, Enqueue, PromoteDelayed, RecoverStalled, TakeJob, Processor,
           FindSend, MarkDispatching, LogDispatching, ResolveRoute, NextAttemptNumber,
           CreateDispatchAttempt, Transport, FinishAttempt, WriteVerdict, LogVerdict, CompleteJob,
           FailJob, Fault, Crash, DbError, LoseReply, PeerClose, LoseLock, RedisRestart
  <2>2. ASSUME NEW w \in Workers, NEW n \in {0, 1}, copies' = [copies EXCEPT ![cur[w]] = @ + n],
               NEW s \in Sends, copies[s] > 0
        PROVE  copies'[s] > 0
    <3>1. copies \in [Sends -> Nat] /\ n \in Nat
      BY <1>0 DEF TypeOK
    <3> QED
      BY <2>2, <3>1
  <2> QED
    BY <2>1, <2>2
<1>3. ASSUME NEW r \in Requests PROVE HandRequest(r)'
  <2>1. HandRequest(r) /\ request' = request /\ events' = events /\ early' = early
    BY DEF Asks, consoleVars
  <2>2. request[r].at # "idle" => request[r].callback.send \in Sends
    BY ServedTypes DEF Base
  <2>3. /\ Early(request[r].callback.send)' = Early(request[r].callback.send)
        /\ Recorded(request[r].callback)' = Recorded(request[r].callback)
        /\ Console!EventType(request[r].callback)' = Console!EventType(request[r].callback)
    BY <2>1 DEF Early, Recorded, Console!ReportedEarly
  <2> QED
    BY <1>1, <1>2, <2>1, <2>2, <2>3 DEF HandRequest
<1> QED
  BY <1>3 DEF Asks

-----------------------------------------------------------------------------
(***************************************************************************)
(* The console's steps.                                                    *)
(***************************************************************************)
(* What was reported early stays so, and a record stays.                   *)
LEMMA ReportsStay ==
  ASSUME Keeps, NEW s \in Sends
  PROVE  /\ Early(s) => Early(s)'
         /\ EarlyTypes(s) \subseteq EarlyTypes(s)'
BY DEF Keeps, Early, EarlyTypes, Console!ReportedEarly

LEMMA ConsoleKeepsHands ==
  ASSUME Base, ConsoleDoes, UNCHANGED dispatchVars, Runs, Rows, Asks
  PROVE  Runs' /\ Rows' /\ Asks'
<1>0. /\ UNCHANGED <<attempts, job, pc, cur, number, outcome, copies, acceptedAttempt>>
      /\ TypeOK /\ LocalInv /\ ConsoleTypes /\ Keeps
  BY DEF dispatchVars, ConsoleDoes, Base
<1> DEFINE Written(s) ==
             /\ copies[s] > 0
             /\ status'[s] \in Results \cup EarlyTypes(s)
             /\ ~Early(s) => status'[s] \in Results /\ acceptedAttempt[s] # 0
             /\ \E e \in events : e.send = s /\ e.type = status'[s]
<1>1. ASSUME NEW s \in Sends PROVE status'[s] = status[s] \/ Written(s)
  <2>1. ASSUME NEW r \in Requests, Overwrites(r), request[r].callback.send = s
        PROVE  Written(s)
    <3> DEFINE c == request[r].callback
    <3>1. /\ status'[s] = Console!EventType(c) /\ HandRequest(r)
          /\ request[r].at = "set_status" /\ c.send = s
      BY <1>0, <2>1 DEF Overwrites, Asks, TypeOK
    <3>2. c \in early => Console!EventType(c) \in EarlyTypes(s)
      BY <3>1 DEF EarlyTypes
    <3>3. Recorded(c) /\ copies[s] > 0
      BY <3>1 DEF HandRequest
    <3>4. /\ c \in early \/ Console!EventType(c) \in Results
          /\ ~Early(s) => Console!EventType(c) \in Results /\ acceptedAttempt[s] # 0
      BY <3>1 DEF HandRequest
    <3> QED
      BY <3>1, <3>2, <3>3, <3>4 DEF Recorded
  <2>2. ASSUME NEW r \in Requests, Overwrites(r), request[r].callback.send # s
        PROVE  status'[s] = status[s]
    BY <1>0, <2>2 DEF Overwrites, TypeOK
  <2> QED
    BY <2>1, <2>2 DEF ConsoleDoes
<1>2. ASSUME NEW v \in Workers, pc'[v] # "idle" PROVE HandRun(v)'
  <2>1. /\ HandRun(v) /\ cur[v] \in Sends /\ Verdict(v)' = Verdict(v)
        /\ copies[cur[v]] \in Nat
    BY <1>0, <1>2, BusyHasSend DEF Runs, Verdict, TypeOK
  <2>2. ~Early(cur[v])' => ~Early(cur[v])
    BY <1>0, <2>1, ReportsStay DEF Early, Keeps, Console!ReportedEarly
  <2>3. CASE status'[cur[v]] = status[cur[v]]
    BY <1>0, <2>1, <2>2, <2>3 DEF HandRun
  <2>4. CASE Written(cur[v])
    <3>1. copies[cur[v]] > 0 /\ (~Early(cur[v]) => acceptedAttempt[cur[v]] # 0)
      BY <2>4
    <3> QED
      BY <1>0, <2>1, <2>2, <3>1 DEF HandRun, Unsent, Working
  <2> QED
    BY <1>1, <2>1, <2>3, <2>4
<1>3. ASSUME NEW u \in Sends PROVE HandSend(u)'
  <2>1. /\ HandSend(u) /\ RunningOn(u)' = RunningOn(u) /\ Ended(u)' = Ended(u)
        /\ copies[u] \in Nat
    BY <1>0 DEF Rows, RunningOn, Ended, TypeOK
  <2>2. (Early(u) => Early(u)') /\ EarlyTypes(u) \subseteq EarlyTypes(u)' /\ events \subseteq events'
    BY <1>0, ReportsStay DEF Keeps
  <2>3. CASE status'[u] = status[u]
    BY <1>0, <2>1, <2>2, <2>3 DEF HandSend, Shown
  <2>4. CASE Written(u)
    <3>1. Shown(u)'
      BY <1>0, <2>1, <2>2, <2>4 DEF Shown, Reached
    <3> QED
      BY <1>0, <2>1, <2>4, <3>1 DEF HandSend
  <2> QED
    BY <1>1, <2>3, <2>4
<1>4. ASSUME NEW r \in Requests PROVE HandRequest(r)'
  <2> DEFINE c == request[r].callback
             type == Console!EventType(c)
             Still == \E d \in early' : d.send = c.send /\ Console!EventType(d) \notin Results
  <2>0. HandRequest(r) /\ Progress(r) /\ Begins(r)
    BY DEF Asks, ConsoleDoes
  <2>1. request'[r].at # "idle" => copies[request'[r].callback.send] > 0
    BY <2>0 DEF HandRequest, Begins
  <2>2. CASE request'[r].at \notin Judging
    BY <1>0, <2>1, <2>2 DEF HandRequest, Judging
  <2>3. ASSUME request'[r].callback = c,
               request'[r].at = "judge" =>
                 /\ request'[r].seen \notin TerminalStates \cup {"accepted_by_mta"} => c \in early'
                 /\ ~Still /\ request'[r].seen \in Reached => acceptedAttempt[c.send] # 0,
               request'[r].at \in {"append", "set_status"} =>
                 /\ c \in early' \/ type \in Results
                 /\ ~Still => type \in Results /\ acceptedAttempt[c.send] # 0,
               request'[r].at = "set_status" => \E e \in events' : e.send = c.send /\ e.type = type
        PROVE  HandRequest(r)'
    <3>1. Early(request[r].callback.send)' <=> Still
      BY <2>3 DEF Early, Console!ReportedEarly, Results
    <3>2. Console!EventType(request[r].callback)' = type
      BY <2>3
    <3>3. Recorded(request[r].callback)' <=> \E e \in events' : e.send = c.send /\ e.type = type
      BY <2>3, <3>2 DEF Recorded
    <3> HIDE DEF Still, type
    <3> QED
      BY <1>0, <2>1, <2>3, <3>1, <3>2, <3>3 DEF HandRequest
  <2>4. ~Still => ~Early(c.send)
    BY <1>0 DEF Early, Keeps, Console!ReportedEarly, Results
  <2>5. early \subseteq early' /\ events \subseteq events'
    BY <1>0 DEF Keeps
  <2> HIDE DEF Still
  <2>6. CASE request'[r] = request[r]
    BY <2>0, <2>3, <2>4, <2>5, <2>6 DEF HandRequest, Recorded
  <2>7. CASE /\ request'[r].callback = c /\ c \in Callbacks
             /\ request'[r].at = "judge" /\ request'[r].seen = status[c.send]
             /\ Console!WithWorker(c.send) => c \in early'
    <3>1. ~Early(c.send) => (acceptedAttempt[c.send] # 0 <=> status[c.send] \in Reached)
      BY <2>7, PipelineAssumption DEF Rows, HandSend, Shown
    <3>2. status[c.send] \notin TerminalStates \cup {"accepted_by_mta"} => c \in early'
      BY <2>7 DEF Console!WithWorker, Console!TerminalStates, TerminalStates
    <3> QED
      BY <2>3, <2>4, <2>7, <3>1, <3>2
  <2>8. CASE /\ request'[r].callback = c
             /\ request[r].at = "judge" /\ request'[r].at = "append"
             /\ CanTransition(request[r].seen, type)
    <3>1. request[r].seen \notin TerminalStates
      BY <2>8 DEF CanTransition, SendTransitions, TerminalStates
    <3>2. request[r].seen = "accepted_by_mta" <=> type \in Results
      BY <2>8 DEF CanTransition, SendTransitions, Results
    <3>3. c \in early /\ type \notin Results => Early(c.send)
      BY DEF Early, Console!ReportedEarly, Results
    <3>4. /\ c \in early \/ type \in Results
          /\ ~Early(c.send) => type \in Results /\ acceptedAttempt[c.send] # 0
      BY <2>0, <2>8, <3>1, <3>2, <3>3 DEF HandRequest, Reached
    <3> QED
      BY <2>3, <2>4, <2>5, <2>8, <3>4
  <2>9. CASE /\ request'[r].callback = c
             /\ request[r].at = "append" /\ request'[r].at = "set_status"
             /\ \E e \in events' : e.send = c.send /\ e.type = type
    BY <2>0, <2>3, <2>4, <2>5, <2>9 DEF HandRequest
  <2> QED
    BY <2>0, <2>2, <2>6, <2>7, <2>8, <2>9 DEF Progress
<1> QED
  BY <1>2, <1>3, <1>4 DEF Runs, Rows, Asks

-----------------------------------------------------------------------------
(***************************************************************************)
(* The pipeline.                                                           *)
(***************************************************************************)
LEMMA PipelineSteps ==
  ASSUME [PipelineNext]_pipelineVars
  PROVE  \/ [Next]_vars /\ UNCHANGED consoleVars
         \/ ConsoleNext /\ UNCHANGED dispatchVars
<1>1. UNCHANGED pipelineVars => UNCHANGED vars /\ UNCHANGED consoleVars
  BY DEF pipelineVars, dispatchVars, vars
<1> QED
  BY <1>1 DEF PipelineNext, ConsoleNext

LEMMA InitBase == PipelineInit => Base /\ HandsInv
<1> SUFFICES ASSUME PipelineInit PROVE Base /\ HandsInv
  OBVIOUS
<1>0. Init /\ Console!InitConsole
  BY DEF PipelineInit
<1>1. TypeOK /\ LocalInv
  BY <1>0, InitTypes
<1>2. LockInv
  BY <1>0 DEF Init, LockInv, RunHoldsJob, OneRun
<1>3. ConsoleTypes /\ \A r \in Requests : request[r].at = "idle"
  <2>1. Console!Idle \in Console!Slot /\ Console!Idle.at = "idle"
    BY DEF Console!Idle, Console!Slot, Console!SendStates
  <2>2. request = [r \in Requests |-> Console!Idle]
    BY <1>0 DEF Console!InitConsole
  <2>3. webhook \in [Sends -> Console!Webhook]
    BY <1>0 DEF Console!InitConsole, Console!Webhook, Console!WebhookStates
  <2> QED
    BY <2>1, <2>2, <2>3 DEF ConsoleTypes, ServedCallback
<1>4. HandsInv
  BY <1>0, <1>3
     DEF Init, HandsInv, Runs, Rows, Asks, HandSend, Shown, HandRequest, RunningOn, Fresh,
         Reached, Results, Early
<1> QED
  BY <1>1, <1>2, <1>3, <1>4 DEF Base

LEMMA NextBase == Base /\ [PipelineNext]_pipelineVars => Base'
<1> SUFFICES ASSUME Base, [PipelineNext]_pipelineVars PROVE Base'
  OBVIOUS
<1>1. CASE [Next]_vars /\ UNCHANGED consoleVars
  <2>1. TypeOK' /\ LocalInv' /\ LockInv'
    BY <1>1, NextTypes, NextLocks DEF Base
  <2>2. ConsoleTypes'
    BY <1>1 DEF Base, consoleVars, ConsoleTypes, ServedCallback
  <2> QED
    BY <2>1, <2>2 DEF Base
<1>2. CASE ConsoleNext /\ UNCHANGED dispatchVars
  <2>1. ConsoleDoes
    BY <1>2, ConsoleStep DEF Base, TypeOK
  <2>2. status' \in [Sends -> SendStates]
    <3>1. ASSUME NEW r \in Requests, Overwrites(r) PROVE status' \in [Sends -> SendStates]
      <4>1. Console!EventType(request[r].callback) \in SendStates
        BY <3>1, ServedTypes DEF Overwrites, Base, EventTypes
      <4> QED
        BY <3>1, <4>1 DEF Overwrites, Base, TypeOK
    <3> QED
      BY <2>1, <3>1 DEF ConsoleDoes, Base, TypeOK
  <2>3. acceptedAttempt' = acceptedAttempt /\ ConsoleTypes'
    BY <2>1 DEF ConsoleDoes
  <2>4. TypeOK'
    BY <1>2, <2>2, <2>3 DEF Base, TypeOK, dispatchVars
  <2>5. LocalInv' /\ LockInv'
    BY <1>2
       DEF Base, LocalInv, LockInv, RunHoldsJob, OneRun, Holds, Quiet, dispatchVars
  <2> QED
    BY <2>3, <2>4, <2>5 DEF Base
<1> QED
  BY <1>1, <1>2, PipelineSteps

LEMMA NextHands == Base /\ HandsInv /\ [PipelineNext]_pipelineVars => HandsInv'
<1> SUFFICES ASSUME Base, HandsInv, [PipelineNext]_pipelineVars, Undisturbed'
             PROVE  Runs' /\ Rows' /\ Asks'
  BY DEF HandsInv
<1>1. CASE [Next]_vars /\ UNCHANGED consoleVars
  <2>1. Undisturbed
    BY <1>1, UndisturbedSteps DEF Base
  <2>2. Runs /\ Rows /\ Asks
    BY <2>1 DEF HandsInv
  <2> QED
    BY <1>1, <2>1, <2>2, WorkersKeepHands, WorkersKeepAsks
<1>2. CASE ConsoleNext /\ UNCHANGED dispatchVars
  <2>1. Undisturbed
    BY <1>2 DEF Undisturbed, Quiet, dispatchVars
  <2>2. ConsoleDoes
    BY <1>2, ConsoleStep DEF Base, TypeOK
  <2> QED
    BY <1>2, <2>1, <2>2, ConsoleKeepsHands DEF HandsInv
<1> QED
  BY <1>1, <1>2, PipelineSteps

LEMMA PipelineInvariant == PipelineSpec => [](Base /\ HandsInv)
<1>1. Base /\ HandsInv /\ [PipelineNext]_pipelineVars => Base' /\ HandsInv'
  BY NextBase, NextHands
<1> QED
  BY <1>1, InitBase, PTL DEF PipelineSpec

(* A mail that a relay took is not shown as failed or deferred, unless a   *)
(* relay said so while the worker was at it: neither the run that sent it, *)
(* whose status is written after the answer, nor the console, which judges *)
(* by the row it read and writes it after others, makes one up.            *)
THEOREM TakenMailIsNotFailed == PipelineSpec => []TakenIsNotFailed
<1>1. Base /\ HandsInv => TakenIsNotFailed
  BY DEF HandsInv, Rows, HandSend, Shown, Reached, Results, TakenIsNotFailed, EarlyTypes
<1> QED
  BY <1>1, PipelineInvariant, PTL

(* Which steps the two writers take: the workers' are legal, but for an    *)
(* early report; the console writes the type of a recorded event.          *)
LEMMA WorkersMove ==
  ASSUME Base, HandsInv, Undisturbed, Undisturbed', [Next]_vars, NEW s \in Sends,
         status'[s] # status[s]
  PROVE  Lifecycle!Transition(s) \/ Early(s)
<1>0. TypeOK /\ LocalInv /\ Runs
  BY DEF Base, HandsInv
<1>a. ASSUME NEW to \in SendStates, CanTransition(status[s], to),
             status' = [status EXCEPT ![s] = to]
      PROVE  Lifecycle!Transition(s)
  BY <1>a
     DEF Lifecycle!Transition, Lifecycle!CanTransition, Lifecycle!SendTransitions,
         Lifecycle!SendStates, CanTransition, SendTransitions, SendStates
<1>1. ASSUME NEW w \in Workers, MarkDispatching(w) PROVE Lifecycle!Transition(s)
  <2>1. /\ cur[w] \in Sends /\ status[cur[w]] \in Fresh
        /\ status' = [status EXCEPT ![cur[w]] = "dispatching"]
    BY <1>0, <1>1, BusyHasSend DEF MarkDispatching, Runs, HandRun
  <2>2. cur[w] = s
    BY <1>0, <2>1 DEF TypeOK
  <2>3. CanTransition(status[s], "dispatching") /\ "dispatching" \in SendStates
    BY <2>1, <2>2 DEF Fresh, CanTransition, SendTransitions, SendStates
  <2> QED
    BY <1>a, <2>1, <2>2, <2>3
<1>2. ASSUME NEW w \in Workers, WriteVerdict(w) PROVE Lifecycle!Transition(s) \/ Early(s)
  <2>1. /\ cur[w] \in Sends /\ (~Early(cur[w]) => status[cur[w]] = "dispatching")
        /\ status' = [status EXCEPT ![cur[w]] = Verdict(w)]
    BY <1>0, <1>2, BusyHasSend DEF WriteVerdict, Runs, HandRun, Working
  <2>2. cur[w] = s
    BY <1>0, <2>1 DEF TypeOK
  <2>3. Verdict(w) \in {"accepted_by_mta", "failed_permanent", "deferred", "failed_transient"}
    BY DEF Verdict
  <2>4. CanTransition("dispatching", Verdict(w)) /\ Verdict(w) \in SendStates
    BY <2>3 DEF CanTransition, SendTransitions, SendStates
  <2> QED
    BY <1>a, <2>1, <2>2, <2>4
<1>3. status' = status \/ \E w \in Workers : MarkDispatching(w) \/ WriteVerdict(w)
  BY DEF Next, vars, rows, Queue, Enqueue, PromoteDelayed, RecoverStalled, TakeJob, Processor,
         FindSend, LogDispatching, ResolveRoute, NextAttemptNumber, CreateDispatchAttempt,
         Transport, FinishAttempt, LogVerdict, CompleteJob, FailJob, Fault, Crash, DbError,
         LoseReply, PeerClose, LoseLock, RedisRestart
<1> QED
  BY <1>1, <1>2, <1>3

LEMMA ConsoleMoves ==
  ASSUME Base, HandsInv, Undisturbed, ConsoleNext, NEW s \in Sends, status'[s] # status[s]
  PROVE  Lifecycle!Transition(s) \/ Early(s) \/ ~ResultsAgree(s)'
<1>0. TypeOK /\ Rows /\ Asks /\ ConsoleDoes
  BY ConsoleStep DEF Base, HandsInv, TypeOK
<1>1. PICK r \in Requests : Overwrites(r)
  BY <1>0 DEF ConsoleDoes
<1> DEFINE c == request[r].callback
           to == Console!EventType(c)
<1>2. c.send = s /\ status' = [status EXCEPT ![s] = to] /\ status'[s] = to
  BY <1>0, <1>1 DEF Overwrites, TypeOK
<1>3. CASE ~Early(s) /\ ResultsAgree(s)'
  <2>1. to \in Results /\ acceptedAttempt[s] # 0 /\ Recorded(c)
    BY <1>0, <1>1, <1>2, <1>3 DEF Overwrites, Asks, HandRequest
  <2>2. status[s] \in Reached
    BY <1>0, <1>3, <2>1 DEF Rows, HandSend, Shown
  <2>3. status[s] # to
    BY <1>2
  <2> HIDE DEF to
  <2>4. CASE status[s] \in Results
    <3>1. PICK d \in events : d.send = s /\ d.type = status[s]
      BY <1>0, <2>4 DEF Rows, HandSend, Shown
    <3>2. PICK e \in events : e.send = s /\ e.type = to
      BY <1>2, <2>1 DEF Recorded, to
    <3>3. d \in Console!ResultEvents(s)' /\ e \in Console!ResultEvents(s)'
      BY <1>0, <2>1, <2>4, <3>1, <3>2
         DEF ConsoleDoes, Keeps, Results, Console!ResultEvents, Console!DeliveryResultTypes,
             Console!TerminalStates
    <3> QED
      BY <1>3, <2>3, <3>1, <3>2, <3>3 DEF ResultsAgree
  <2>5. CASE status[s] = "accepted_by_mta"
    <3>1. /\ Lifecycle!CanTransition(status[s], to) /\ to \in Lifecycle!SendStates
      BY <2>1, <2>5
         DEF Lifecycle!CanTransition, Lifecycle!SendTransitions, Lifecycle!SendStates, Results
    <3> QED
      BY <1>2, <3>1 DEF Lifecycle!Transition
  <2> QED
    BY <2>2, <2>4, <2>5 DEF Reached
<1> QED
  BY <1>3

(* On any number of sends, callbacks, requests and workers, and whatever   *)
(* the relays report: only an early report of an intermediate step, or two *)
(* recorded results that contradict each other, take a send off its        *)
(* lifecycle while no run is interrupted.  The console may crash and fail, *)
(* and Redis may be restarted.                                             *)
THEOREM PipelineImplementsLifecycle == PipelineSpec => PipelineLifecycle
<1>1. Base /\ HandsInv /\ [PipelineNext]_pipelineVars =>
        [\A s \in Sends :
           Undisturbed' /\ status'[s] # status[s] =>
             Lifecycle!Transition(s) \/ Console!ReportedEarly(s)' \/ ~ResultsAgree(s)']_pipelineVars
  <2> SUFFICES ASSUME Base, HandsInv, [PipelineNext]_pipelineVars, NEW s \in Sends, Undisturbed',
                      status'[s] # status[s]
               PROVE  Lifecycle!Transition(s) \/ Early(s)' \/ ~ResultsAgree(s)'
    BY DEF Early
  <2>1. CASE [Next]_vars /\ UNCHANGED consoleVars
    <3>1. Undisturbed /\ Early(s)' = Early(s)
      BY <2>1, UndisturbedSteps, EarlyUnchanged DEF Base
    <3> QED
      BY <2>1, <3>1, WorkersMove
  <2>2. CASE ConsoleNext /\ UNCHANGED dispatchVars
    <3>1. Undisturbed /\ Keeps
      BY <2>2, ConsoleStep DEF Undisturbed, Quiet, dispatchVars, ConsoleDoes, Base, TypeOK
    <3> QED
      BY <2>2, <3>1, ConsoleMoves, ReportsStay
  <2> QED
    BY <2>1, <2>2, PipelineSteps
<1> QED
  BY <1>1, PipelineInvariant, PTL DEF PipelineSpec, PipelineLifecycle

(* So the pipeline refines the lifecycle in every behaviour in which no    *)
(* run is interrupted, no intermediate step is reported early and the      *)
(* results recorded of a send agree.                                       *)
Orderly == Undisturbed /\ \A s \in Sends : ~Console!ReportedEarly(s) /\ ResultsAgree(s)

THEOREM OrderlyPipelineRefines == PipelineSpec /\ []Orderly => Lifecycle!Spec
<1>1. PipelineInit => Lifecycle!Init
  BY DEF PipelineInit, Init, Lifecycle!Init
<1>2. ASSUME Base, Base', Orderly',
             [\A s \in Sends :
                Undisturbed' /\ status'[s] # status[s] =>
                  Lifecycle!Transition(s) \/ Console!ReportedEarly(s)' \/ ~ResultsAgree(s)']_pipelineVars
      PROVE  [Lifecycle!Next]_status
  <2>1. CASE UNCHANGED pipelineVars
    BY <2>1 DEF pipelineVars
  <2>2. CASE \E s \in Sends : status'[s] # status[s]
    BY <1>2, <2>2 DEF Orderly, Lifecycle!Next, pipelineVars
  <2>3. CASE \A s \in Sends : status'[s] = status[s]
    BY <1>2, <2>3 DEF Base, TypeOK
  <2> QED
    BY <2>2, <2>3
<1> QED
  BY <1>1, <1>2, PipelineImplementsLifecycle, PipelineInvariant, PTL
     DEF PipelineSpec, PipelineLifecycle, Lifecycle!Spec
=============================================================================
