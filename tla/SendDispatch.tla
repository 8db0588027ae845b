---------------------------- MODULE SendDispatch ----------------------------
(***************************************************************************)
(* The dispatch of sends by the mail workers: the send-dispatch job queue  *)
(* (BullMQ over Redis), the processor that a worker runs for a job, and    *)
(* the Postgres rows it reads and writes.                                  *)
(*                                                                         *)
(* The processor is a sequence of awaited statements, none of them in a    *)
(* transaction, so every statement is a step of its own and a worker can   *)
(* crash, lose its job lock or get an error from the database between any  *)
(* two of them.                                                            *)
(***************************************************************************)
EXTENDS SendStateMachine, Naturals, FiniteSets

CONSTANTS
  Sends,        \* sends created by the console, all in status "queued"
  Workers,      \* mail-worker processes; each runs one job at a time
  Nodes,        \* SendSMTP relay nodes
  Chains,       \* the routes resolveRouteForSend can return; <<>> is no route
  MaxAttempts,  \* SEND_DISPATCH_MAX_ATTEMPTS
  JobAttempts,  \* the "attempts" option the job was added with
  MaxStalled,   \* BullMQ's maxStalledCount
  FaultBudget,  \* how often each kind of fault may strike: bounds the model
  NoSend, NoWorker

(***************************************************************************)
(* crash:         a worker process dies and comes back empty-handed        *)
(* lock_lost:     a live worker fails to renew its job lock in time        *)
(* db_error:      a database statement of the processor rejects            *)
(* lost_reply:    the relay takes the mail, the reply does not arrive      *)
(* peer_close:    the relay closes the connection without an answer the    *)
(*                client knows, whose promise then never settles           *)
(* redis_restart: Redis, run without persistence, forgets every job        *)
(***************************************************************************)
FaultKinds == {"crash", "lock_lost", "db_error", "lost_reply", "peer_close",
               "redis_restart"}

ASSUME DispatchAssumption ==
  /\ Chains \subseteq Seq(Nodes)
  /\ MaxAttempts \in Nat \ {0}
  /\ JobAttempts \in Nat \ {0}
  /\ MaxStalled \in Nat
  /\ FaultBudget \in [FaultKinds -> Nat]
  /\ NoSend \notin Sends
  /\ NoWorker \notin Workers

VARIABLES
  status,           \* sends.status
  acceptedAttempt,  \* sends.dispatch_accepted_attempt_id, 0 while null
  attempts,         \* send_dispatch_attempts: the i-th row has attempt_number i
  log,              \* delivery_events the workers appended: the types present
  job,              \* the BullMQ job of each send
  pc, cur,          \* per worker: the next statement and the send in hand
  chain, number,    \* per worker: nodes still to try, current attempt number
  outcome,          \* per worker: what the transport said of that attempt
  copies,           \* copies of the mail some relay took (ground truth)
  faults            \* faults that struck so far

rows    == <<status, acceptedAttempt, attempts, log>>
locals  == <<cur, chain, number, outcome>>
vars    == <<status, acceptedAttempt, attempts, log, job, pc, cur, chain, number,
             outcome, copies, faults>>

AttemptStates == {"started", "accepted", "failed_transient", "failed_permanent"}
JobStates == {"absent", "waiting", "active", "delayed", "completed", "failed", "lost"}
Statements == {"find", "mark_dispatching", "log_dispatching", "route", "number",
               "insert", "transport", "finish", "verdict", "log_verdict"}
Locations == Statements \cup {"idle", "return", "throw", "hung"}
Outcomes == (AttemptStates \ {"started"}) \cup {"none", "no_route"}

Job == [state : JobStates, made : Nat, stalled : Nat, holder : Workers \cup {NoWorker}]
Attempt == [node : Nodes, status : AttemptStates]

TypeOK ==
  /\ status \in [Sends -> SendStates]
  /\ acceptedAttempt \in [Sends -> Nat]
  /\ attempts \in [Sends -> Seq(Attempt)]
  /\ log \in [Sends -> SUBSET EventTypes]
  /\ job \in [Sends -> Job]
  /\ pc \in [Workers -> Locations]
  /\ cur \in [Workers -> Sends \cup {NoSend}]
  /\ chain \in [Workers -> Seq(Nodes)]
  /\ number \in [Workers -> Nat]
  /\ outcome \in [Workers -> Outcomes]
  /\ copies \in [Sends -> Nat]
  /\ faults \in [FaultKinds -> Nat]

Init ==
  /\ status = [s \in Sends |-> "queued"]
  /\ acceptedAttempt = [s \in Sends |-> 0]
  /\ attempts = [s \in Sends |-> <<>>]
  /\ log = [s \in Sends |-> {}]
  /\ job = [s \in Sends |->
              [state |-> "absent", made |-> 0, stalled |-> 0, holder |-> NoWorker]]
  /\ pc = [w \in Workers |-> "idle"]
  /\ cur = [w \in Workers |-> NoSend]
  /\ chain = [w \in Workers |-> <<>>]
  /\ number = [w \in Workers |-> 0]
  /\ outcome = [w \in Workers |-> "none"]
  /\ copies = [s \in Sends |-> 0]
  /\ faults = [k \in FaultKinds |-> 0]

-----------------------------------------------------------------------------
(***************************************************************************)
(* The queue.                                                              *)
(***************************************************************************)

(* The console adds the job of a new send, under the id send-<sendId>; the *)
(* id is never freed (removeOnComplete and removeOnFail are false), so a   *)
(* second call for the same send finds the job and adds nothing.           *)
Enqueue(s) ==
  /\ job[s].state = "absent"
  /\ job' = [job EXCEPT ![s].state = "waiting"]
  /\ UNCHANGED <<rows, pc, locals, copies, faults>>

TakeJob(w, s) ==
  /\ pc[w] = "idle"
  /\ job[s].state = "waiting"
  /\ job' = [job EXCEPT ![s].state = "active", ![s].holder = w]
  /\ cur' = [cur EXCEPT ![w] = s]
  /\ pc' = [pc EXCEPT ![w] = "find"]
  /\ UNCHANGED <<rows, chain, number, outcome, copies, faults>>

Holds(w, s) == job[s].state = "active" /\ job[s].holder = w

(* The backoff delay of a failed job elapses.                              *)
PromoteDelayed(s) ==
  /\ job[s].state = "delayed"
  /\ job' = [job EXCEPT ![s].state = "waiting"]
  /\ UNCHANGED <<rows, pc, locals, copies, faults>>

(* The worker lets go of its job and forgets the run's local state.        *)
Release(w) ==
  /\ pc' = [pc EXCEPT ![w] = "idle"]
  /\ cur' = [cur EXCEPT ![w] = NoSend]
  /\ chain' = [chain EXCEPT ![w] = <<>>]
  /\ number' = [number EXCEPT ![w] = 0]
  /\ outcome' = [outcome EXCEPT ![w] = "none"]

(* The processor returned.  A worker whose lock was taken over changes     *)
(* nothing in the queue: its token no longer matches.                      *)
CompleteJob(w) ==
  /\ pc[w] = "return"
  /\ job' = IF Holds(w, cur[w])
            THEN [job EXCEPT ![cur[w]].state = "completed", ![cur[w]].holder = NoWorker]
            ELSE job
  /\ Release(w)
  /\ UNCHANGED <<rows, copies, faults>>

(* Mutant: the retry count is off by one.                                  *)
FailJobEarly(w) ==
  LET s == cur[w] IN
  /\ pc[w] = "throw"
  /\ job' = IF Holds(w, s)
            THEN [job EXCEPT ![s].state = IF job[s].made + 2 < JobAttempts
                                          THEN "delayed" ELSE "failed",
                             ![s].made = @ + 1,
                             ![s].holder = NoWorker]
            ELSE job
  /\ Release(w)
  /\ UNCHANGED <<rows, copies, faults>>

(* The processor threw: the job is retried after a delay until it has      *)
(* failed JobAttempts times.                                               *)
FailJob(w) ==
  LET s == cur[w] IN
  /\ pc[w] = "throw"
  /\ job' = IF Holds(w, s)
            THEN [job EXCEPT ![s].state = IF job[s].made + 1 < JobAttempts
                                          THEN "delayed" ELSE "failed",
                             ![s].made = @ + 1,
                             ![s].holder = NoWorker]
            ELSE job
  /\ Release(w)
  /\ UNCHANGED <<rows, copies, faults>>

(* BullMQ's stalled-job check: a job whose lock expired goes back to the   *)
(* queue MaxStalled times, then fails.                                     *)
Stall(s) ==
  job' = [job EXCEPT ![s].state = IF job[s].stalled < MaxStalled
                                  THEN "waiting" ELSE "failed",
                     ![s].stalled = @ + 1,
                     ![s].holder = NoWorker]

RunIsAlive(s) == \E w \in Workers : Holds(w, s) /\ cur[w] = s

(* Mutant: the check takes long-running jobs for stalled ones.             *)
RecoverRunning(s) ==
  /\ job[s].state = "active"
  /\ Stall(s)
  /\ UNCHANGED <<rows, pc, locals, copies, faults>>

RecoverStalled(s) ==
  /\ job[s].state = "active"
  /\ ~RunIsAlive(s)
  /\ Stall(s)
  /\ UNCHANGED <<rows, pc, locals, copies, faults>>

-----------------------------------------------------------------------------
(***************************************************************************)
(* The processor, one statement a step.                                    *)
(***************************************************************************)
Goto(w, location) == pc' = [pc EXCEPT ![w] = location]

SkippedStates == {"delivered", "bounced", "failed_permanent", "failed_transient"}

FindSend(w) ==
  /\ pc[w] = "find"
  /\ Goto(w, IF status[cur[w]] \in SkippedStates THEN "return" ELSE "mark_dispatching")
  /\ UNCHANGED <<rows, job, locals, copies, faults>>

(* Mutant: the status update is forgotten.                                 *)
MarkNothing(w) ==
  /\ pc[w] = "mark_dispatching"
  /\ Goto(w, "log_dispatching")
  /\ UNCHANGED <<rows, job, locals, copies, faults>>

MarkDispatching(w) ==
  /\ pc[w] = "mark_dispatching"
  /\ status' = [status EXCEPT ![cur[w]] = "dispatching"]
  /\ Goto(w, "log_dispatching")
  /\ UNCHANGED <<acceptedAttempt, attempts, log, job, locals, copies, faults>>

LogDispatching(w) ==
  /\ pc[w] = "log_dispatching"
  /\ log' = [log EXCEPT ![cur[w]] = @ \cup {"dispatching"}]
  /\ Goto(w, "route")
  /\ UNCHANGED <<status, acceptedAttempt, attempts, job, locals, copies, faults>>

(* Any chain of Chains may come back: the send may be pinned to one node,  *)
(* its rule may list several, and administrators change both meanwhile.    *)
ResolveRoute(w) ==
  /\ pc[w] = "route"
  /\ \E c \in Chains :
       /\ chain' = [chain EXCEPT ![w] = c]
       /\ outcome' = [outcome EXCEPT ![w] = IF c = <<>> THEN "no_route" ELSE "none"]
       /\ Goto(w, IF c = <<>> THEN "verdict" ELSE "number")
  /\ UNCHANGED <<rows, job, cur, number, copies, faults>>

NextAttemptNumber(w) ==
  /\ pc[w] = "number"
  /\ number' = [number EXCEPT ![w] = Len(attempts[cur[w]]) + 1]
  /\ Goto(w, "insert")
  /\ UNCHANGED <<rows, job, cur, chain, outcome, copies, faults>>

(* The unique index on (send_id, attempt_number) rejects a number that a   *)
(* concurrent run of the same send inserted since it was read.             *)
CreateDispatchAttempt(w) ==
  LET s == cur[w] IN
  /\ pc[w] = "insert"
  /\ IF number[w] = Len(attempts[s]) + 1
     THEN /\ attempts' = [attempts EXCEPT ![s] =
                            Append(@, [node |-> Head(chain[w]), status |-> "started"])]
          /\ Goto(w, "transport")
     ELSE /\ Goto(w, "throw")
          /\ UNCHANGED attempts
  /\ UNCHANGED <<status, acceptedAttempt, log, job, locals, copies, faults>>

(* transport.dispatch: the relay takes the mail, refuses it for good, or   *)
(* does not take it now.  What is called accepted need not arrive: the     *)
(* transport does not wait for the answer to the message (SmtpTransport).  *)
Transport(w) ==
  /\ pc[w] = "transport"
  /\ \E o \in {"accepted", "failed_permanent", "failed_transient"} :
       /\ outcome' = [outcome EXCEPT ![w] = o]
       /\ \/ UNCHANGED copies
          \/ o = "accepted" /\ copies' = [copies EXCEPT ![cur[w]] = @ + 1]
  /\ Goto(w, "finish")
  /\ UNCHANGED <<rows, job, cur, chain, number, faults>>

(* Mutant: the attempt row is left open.                                   *)
FinishNothing(w) ==
  /\ pc[w] = "finish"
  /\ IF outcome[w] = "failed_transient" /\ Len(chain[w]) > 1
     THEN chain' = [chain EXCEPT ![w] = Tail(@)] /\ Goto(w, "number")
     ELSE Goto(w, "verdict") /\ UNCHANGED chain
  /\ UNCHANGED <<rows, job, cur, number, outcome, copies, faults>>

(* Mutant: no return after an accepted attempt.                            *)
FinishWithoutReturn(w) ==
  /\ pc[w] = "finish"
  /\ attempts' = [attempts EXCEPT ![cur[w]][number[w]].status = outcome[w]]
  /\ IF outcome[w] # "failed_permanent" /\ Len(chain[w]) > 1
     THEN chain' = [chain EXCEPT ![w] = Tail(@)] /\ Goto(w, "number")
     ELSE Goto(w, "verdict") /\ UNCHANGED chain
  /\ UNCHANGED <<status, acceptedAttempt, log, job, cur, number, outcome, copies, faults>>

(* A transient failure moves on to the next node of the chain.             *)
FinishAttempt(w) ==
  /\ pc[w] = "finish"
  /\ attempts' = [attempts EXCEPT ![cur[w]][number[w]].status = outcome[w]]
  /\ IF outcome[w] = "failed_transient" /\ Len(chain[w]) > 1
     THEN chain' = [chain EXCEPT ![w] = Tail(@)] /\ Goto(w, "number")
     ELSE Goto(w, "verdict") /\ UNCHANGED chain
  /\ UNCHANGED <<status, acceptedAttempt, log, job, cur, number, outcome, copies, faults>>

(* Mutants of Verdict: the attempt's status is stored as the send's; the   *)
(* budget is looked at before the outcome; it is off by one; it is ignored.*)
VerdictIsOutcome(w) ==
  IF outcome[w] = "no_route" THEN "failed_permanent" ELSE outcome[w]

VerdictBudgetFirst(w) ==
  CASE number[w] >= MaxAttempts -> "failed_transient"
    [] outcome[w] = "accepted" -> "accepted_by_mta"
    [] outcome[w] = "failed_transient" -> "deferred"
    [] OTHER -> "failed_permanent"

VerdictOffByOne(w) ==
  CASE outcome[w] = "accepted" -> "accepted_by_mta"
    [] outcome[w] = "failed_transient" ->
         IF number[w] <= MaxAttempts THEN "deferred" ELSE "failed_transient"
    [] OTHER -> "failed_permanent"

VerdictUnbudgeted(w) ==
  CASE outcome[w] = "accepted" -> "accepted_by_mta"
    [] outcome[w] = "failed_transient" -> "deferred"
    [] OTHER -> "failed_permanent"

(* The status the run leaves the send in.  The budget counts attempt rows, *)
(* one per node tried, not runs of the job.                                *)
Verdict(w) ==
  CASE outcome[w] = "accepted" -> "accepted_by_mta"
    [] outcome[w] \in {"failed_permanent", "no_route"} -> "failed_permanent"
    [] OTHER -> IF number[w] < MaxAttempts THEN "deferred" ELSE "failed_transient"

WriteVerdict(w) ==
  /\ pc[w] = "verdict"
  /\ status' = [status EXCEPT ![cur[w]] = Verdict(w)]
  /\ acceptedAttempt' = IF Verdict(w) = "accepted_by_mta"
                        THEN [acceptedAttempt EXCEPT ![cur[w]] = number[w]]
                        ELSE acceptedAttempt
  /\ Goto(w, "log_verdict")
  /\ UNCHANGED <<attempts, log, job, locals, copies, faults>>

(* Mutant: the early return without a route forgets its event.             *)
LogVerdictOfAttempt(w) ==
  /\ pc[w] = "log_verdict"
  /\ log' = IF outcome[w] = "no_route" THEN log
            ELSE [log EXCEPT ![cur[w]] = @ \cup {Verdict(w)}]
  /\ Goto(w, IF Verdict(w) = "deferred" THEN "throw" ELSE "return")
  /\ UNCHANGED <<status, acceptedAttempt, attempts, job, locals, copies, faults>>

LogVerdict(w) ==
  /\ pc[w] = "log_verdict"
  /\ log' = [log EXCEPT ![cur[w]] = @ \cup {Verdict(w)}]
  /\ Goto(w, IF Verdict(w) = "deferred" THEN "throw" ELSE "return")
  /\ UNCHANGED <<status, acceptedAttempt, attempts, job, locals, copies, faults>>

-----------------------------------------------------------------------------
(***************************************************************************)
(* Faults.                                                                 *)
(***************************************************************************)
Strike(kind) ==
  /\ faults[kind] < FaultBudget[kind]
  /\ faults' = [faults EXCEPT ![kind] = @ + 1]

(* The job stays active until the stalled check finds its lock expired.    *)
Crash(w) ==
  /\ pc[w] # "idle"
  /\ Strike("crash")
  /\ Release(w)
  /\ UNCHANGED <<rows, job, copies>>

(* The lock expires while its worker is alive: the run goes on beside the  *)
(* run of whoever takes the job next.                                      *)
LoseLock(s) ==
  /\ RunIsAlive(s)
  /\ Strike("lock_lost")
  /\ Stall(s)
  /\ UNCHANGED <<rows, pc, locals, copies>>

DbError(w) ==
  /\ pc[w] \in Statements \ {"transport"}
  /\ Strike("db_error")
  /\ Goto(w, "throw")
  /\ UNCHANGED <<rows, job, locals, copies>>

(* The relay queued the mail but its answer timed out, which the transport *)
(* reports as a transient failure.                                         *)
LoseReply(w) ==
  /\ pc[w] = "transport"
  /\ Strike("lost_reply")
  /\ copies' = [copies EXCEPT ![cur[w]] = @ + 1]
  /\ outcome' = [outcome EXCEPT ![w] = "failed_transient"]
  /\ Goto(w, "finish")
  /\ UNCHANGED <<rows, job, cur, chain, number>>

(* The socket has no "end" or "close" handler and its timeout dies with    *)
(* it: the worker waits for good, renewing its lock, until it is killed.   *)
PeerClose(w) ==
  /\ pc[w] = "transport"
  /\ Strike("peer_close")
  /\ \E taken \in {0, 1} : copies' = [copies EXCEPT ![cur[w]] = @ + taken]
  /\ Goto(w, "hung")
  /\ UNCHANGED <<rows, job, locals>>

(* Nothing re-creates the jobs: the console adds one when it creates the   *)
(* send, and no process looks for queued sends without a job.              *)
RedisRestart ==
  /\ \E s \in Sends : job[s].state \in {"waiting", "active", "delayed"}
  /\ Strike("redis_restart")
  /\ job' = [s \in Sends |-> IF job[s].state = "absent" THEN job[s]
                             ELSE [job[s] EXCEPT !.state = "lost", !.holder = NoWorker]]
  /\ UNCHANGED <<rows, pc, locals, copies>>

-----------------------------------------------------------------------------
Processor(w) ==
  \/ FindSend(w) \/ MarkDispatching(w) \/ LogDispatching(w) \/ ResolveRoute(w)
  \/ NextAttemptNumber(w) \/ CreateDispatchAttempt(w) \/ Transport(w)
  \/ FinishAttempt(w) \/ WriteVerdict(w) \/ LogVerdict(w)
  \/ CompleteJob(w) \/ FailJob(w)

Queue(s) == Enqueue(s) \/ PromoteDelayed(s) \/ RecoverStalled(s)

Fault ==
  \/ \E w \in Workers : Crash(w) \/ DbError(w) \/ LoseReply(w) \/ PeerClose(w)
  \/ \E s \in Sends : LoseLock(s)
  \/ RedisRestart

Next ==
  \/ \E s \in Sends : Queue(s)
  \/ \E w \in Workers, s \in Sends : TakeJob(w, s)
  \/ \E w \in Workers : Processor(w)
  \/ Fault

Spec == Init /\ [][Next]_vars

(***************************************************************************)
(* Fairness: the console finishes its request, BullMQ hands out, delays    *)
(* and recovers jobs, and the processor runs on until it is done: the      *)
(* relay or the socket's timeout answers, except after a PeerClose.  No    *)
(* fault is ever required to happen.                                       *)
(***************************************************************************)
Fairness ==
  /\ \A s \in Sends : WF_vars(Queue(s))
  /\ \A w \in Workers, s \in Sends : WF_vars(TakeJob(w, s))
  /\ \A w \in Workers : WF_vars(Processor(w))

FairSpec == Spec /\ Fairness

-----------------------------------------------------------------------------
(***************************************************************************)
(* Properties.                                                             *)
(***************************************************************************)
Quiet(kinds) == \A k \in kinds : faults[k] = 0

(* Nothing interrupted a run.  A Redis restart may have happened: it loses *)
(* jobs, it does not disturb the run in progress.                          *)
Undisturbed == Quiet(FaultKinds \ {"redis_restart"})

RunningOn(s) == \E w \in Workers : cur[w] = s

(* A send is shown as accepted only with the attempt that was accepted:    *)
(* whatever faults strike, dispatch_accepted_attempt_id names a row of the *)
(* send's own attempts that finished as accepted, so callbacks correlate   *)
(* and the history of the send is true (finish, then markAcceptedByMta).   *)
AcceptedIsBacked ==
  \A s \in Sends :
     /\ status[s] = "accepted_by_mta" => acceptedAttempt[s] # 0
     /\ acceptedAttempt[s] # 0 =>
          /\ acceptedAttempt[s] <= Len(attempts[s])
          /\ attempts[s][acceptedAttempt[s]].status = "accepted"

(* As long as no live worker loses its lock, one send is in the hands of   *)
(* at most one worker: crashes, errors and stalled-job recovery never      *)
(* start a second run beside the first.                                    *)
ExclusiveRun ==
  Quiet({"lock_lost"}) =>
    \A v, w \in Workers : cur[v] = cur[w] /\ cur[v] # NoSend => v = w

(* The recipient gets the mail once when no run is interrupted: retries    *)
(* and failover nodes are tried only after a refusal.                      *)
SingleCopy == Undisturbed => \A s \in Sends : copies[s] <= 1

(* A mail that a relay took is never reported as failed or deferred while  *)
(* no run is interrupted.                                                  *)
NoFalseFailure ==
  Undisturbed =>
    \A s \in Sends : copies[s] > 0 => status[s] \in {"dispatching", "accepted_by_mta"}

(* A deferred send that no worker has in hand has a job that will run      *)
(* again.  The status budget counts attempt rows and the queue counts      *)
(* failed runs, so the two must never run out in the wrong order.          *)
DeferredHasRetry ==
  Quiet({"lock_lost", "db_error", "redis_restart"}) /\ faults["crash"] <= MaxStalled =>
    \A s \in Sends :
       status[s] = "deferred" /\ ~RunningOn(s) =>
         job[s].state \in {"waiting", "active", "delayed"}

(* Once a worker is done with a send, the event log holds the status the   *)
(* send was left in: the status update and the append are two statements.  *)
StatusIsLogged ==
  Undisturbed =>
    \A s \in Sends : ~RunningOn(s) => status[s] \in log[s] \cup {"queued"}

(* As long as no live worker loses its lock, a send costs a bounded number *)
(* of attempts, whatever else strikes: the budget may be overrun by one    *)
(* chain, and by one more per crash or database error.  (Two runs at once  *)
(* can make each other fail at the unique index, again and again.)         *)
Within(n, runs) ==
  n < MaxAttempts \/ \E c \in Chains : n <= MaxAttempts - 1 + Len(c) * runs

AttemptBudget ==
  Quiet({"lock_lost"}) =>
    \A s \in Sends : Within(Len(attempts[s]), 1 + faults["crash"] + faults["db_error"])

(* The workers, which never consult the transition table of the domain     *)
(* package, move a send along its legal transitions while no run is        *)
(* interrupted.                                                            *)
LegalTransitions ==
  [][Undisturbed' => \A s \in Sends :
        status'[s] # status[s] => CanTransition(status[s], status'[s])]_vars

(* The abstract specification of the status column that the workers write. *)
Lifecycle == INSTANCE SendLifecycle

(* Every send the console created comes to rest: accepted by a relay, or   *)
(* failed for good.                                                        *)
AtRest(s) == status[s] \in {"accepted_by_mta", "failed_permanent", "failed_transient"}
EverySendSettles == \A s \in Sends : <>[]AtRest(s)
=============================================================================
