# A TLA+ model of supermailer

supermailer sends single e-mails for API clients. A **management console** (HTTP API,
Postgres) creates a *send* and puts a job into a **BullMQ queue** (Redis). **Mail
workers** take the job, hand the mail to a SendSMTP **relay node** over SMTP and write what
happened into the row of the send. The relays call the console back with what became of
the mail; the console shows the result, tells the client by a **result webhook**, and lets it
**poll**. Administrators watch all of this in a **browser client**.

This directory models that life of a send from the API request to the poll that returns its
result, the routing that picks the relay, the SMTP dialogue with it, and the page on which
an administrator looks the send up. TLC checks small instances; TLAPS proves every
safety property of the passing runs for all instances that satisfy the stated assumptions.
Liveness is checked by TLC alone.

## 1. Inventory

Paths are relative to `src/`; *console* is `apps/management-console/src/server`,
*worker* is `apps/mail-worker/src`, *client* is `apps/management-console/src/client`.

| component | state | operations | hard about it | what makes it correct |
|---|---|---|---|---|
| send state machine (`packages/domain`) | none (pure) | `canTransitionSendState`, `applyDeliveryEvent` | both processes must agree with it, one never calls it | final states are final; duplicates and late events change nothing |
| client API and its keys (*console* `routes/external-api.ts`, `services/send-enqueue.ts`, `auth.ts`, `routes/admin.ts`) | `api_keys`, `sends`, `callback_endpoints`, `outbound_webhook_deliveries`, `audit_logs`, the queue | `requireApiKey`, the posting and reading routes, creation, revocation and deletion of keys | up to nine statements without a transaction, one of them in Redis, beside administrators who revoke the key | the answer and the tables agree; a revoked key creates nothing |
| send-dispatch queue (*console* `queue/send-dispatch.ts`, *worker* `queue/primitives.ts`) | one job per send in Redis | add, take, complete, fail, delay, recover stalled | locks expire, workers die, Redis keeps nothing on disk | at most one run per send; a deferred send has a run to come |
| worker processor (*worker* `queue/send-dispatch-worker.ts`, `persistence/database.ts`) | `sends.status`, `dispatch_accepted_*`, `send_dispatch_attempts`, `delivery_events` | the statements of `processor` | no transaction; blind writes; retries, failover, re-runs | accepted sends name an accepted attempt; one mail; every send settles |
| SMTP transport and node probe (*worker* `dispatch/smtp.ts`; *console* `services/smtp-node-probe.ts`) | a socket and its transcript | `dispatch`, `probeSmtpNode` | no protocol state, the whole transcript is matched on every chunk; timeouts; closed sockets | one mail per call; given up means not taken |
| delivery-event ingestion (*console* `services/delivery-events.ts`, `routes/delivery-events.ts`) | `delivery_events`, `sends.status` | `ingestDeliveryEvent` | repeated, concurrent, late and contradicting callbacks | results are recorded once, shown, and stay |
| result webhook (same file) | `outbound_webhook_deliveries` | `deliverOutboundResultWebhook` | the POST may fail after it was taken | told once per result, and told at all |
| routing (*console* `repositories/routing-rules.ts`, `routes/admin.ts`; *worker* `resolveRouteForSend`) | `routing_rules`, failover rows, nodes | `createRuleset`, node create, patch and tombstone, two resolutions | several reads while versions and nodes change | a pinned node is explained by the recorded version; a deleted node is out |
| send-result polling (*console* `repositories/sends.ts`) | none of its own; the client keeps a cursor | `listResultsUpdatedSince` | a cursor over a column that writers move and commit late | no update is skipped |
| admin sessions and history (*console* `repositories/admin-sessions.ts`, `sends.ts`) and the browser client (*client* `App.tsx`) | sessions; location, view, list and open row of a tab | login, logout, `listAdminHistory`, the effects and handlers of the page | requests are never aborted, effects feed each other | what the page says is what was asked; no row is passed over |
| reporting, suppressions, migrations, configuration, health, contracts, test and postfix packages, `tmp_app.tsx` | see `PROJECT.json` | | read-only, unused, one-off or pure | |

How they interact: the console and the workers never call each other. They share the
queue (the console only adds) and two tables, `sends` and `delivery_events`, which both
write without locks, conditions or transactions. A relay sees a worker's SMTP dialogue and calls
the console over HTTP; the two are not ordered. Clients and browsers see the same rows
through reads that take no lock either. `PROJECT.json` lists the hazards that
follow, each at its line with the properties that cover it.

## 2. Modules

| module | what it is |
|---|---|
| `SendStateMachine` | states, transition table and event judgement of `packages/domain` |
| `SendLifecycle` | abstract specification of `sends.status`: created queued, moves along the table |
| `SendDispatch` | queue, processor, worker persistence and their faults |
| `SendDispatchProofs` | theorems about it: attempt rows and locks; status, mails and retries; the cost of a send |
| `DeliveryIngestion`, `DeliveryIngestionProofs` | callbacks, `ingestDeliveryEvent`, result webhook and their faults |
| `SendPipeline`, `SendPipelineProofs` | `SendDispatch` extended by an instance of `DeliveryIngestion` over the same `status` and `acceptedAttempt` |
| `Routing`, `RoutingProofs` | SMTP nodes, versions of the ruleset, and the route of a send, resolved by the console and again by the worker |
| `SmtpTransport`, `SmtpTransportProofs` | the worker's `dispatch` and the console's probe against a relay |
| `ClientApi`, `ClientApiProofs` | requests of clients from the key to the answer, and the routes of the keys |
| `ResultPolling`, `ResultPollingProofs` | `GET /send-results` against the writers of `updated_at` |
| `AdminTab`, `AdminTabProofs` | one browser tab on the history of sends, its requests, and the sessions |
| `MC*` | model values and bounds for TLC |

### SendDispatch

A step is one `await` of the code, because that is where other processes get in. The
processor of worker `w` is at `pc[w]`:

| location | code | action |
|---|---|---|
| `find` | `findSendById` and the skip list | `FindSend` |
| `mark_dispatching`, `log_dispatching` | `updateSendState`, `appendDeliveryEvent` | `MarkDispatching`, `LogDispatching` |
| `route` | `resolveRouteForSend` | `ResolveRoute`: any chain of `Chains`; the empty one is the early return |
| `number`, `insert` | `getNextAttemptNumber`, `createDispatchAttempt` | two steps, with the unique index in between |
| `transport` | `transport.dispatch` | `Transport`, or the faults `LoseReply` and `PeerClose` |
| `finish` | `finishDispatchAttempt` and the `for` loop over the nodes | `FinishAttempt` |
| `verdict`, `log_verdict` | the status and the event of the five ways out | `WriteVerdict`, `LogVerdict` with `Verdict` |
| `return`, `throw` | what BullMQ does next | `CompleteJob`, `FailJob` |

`attempts[s]` is the sequence of attempt rows: numbers are handed out as `max + 1` and are
unique per send, so the i-th row has number i. `acceptedAttempt[s]` is
`dispatch_accepted_attempt_id` (0 for null). `log[s]` is the set of types of the events
the workers appended. `copies[s]` counts mails that relays took; it is ground truth for
the properties, no code reads it. BullMQ is modelled from how it is used: job ids are
never freed (`removeOnComplete: false` in the job overrides the worker's counts), a
failed job is delayed until it has failed `JobAttempts` times, a job whose lock expired goes
back `MaxStalled` times and then fails. `JobAttempts` is the `attempts` option: five in
`enqueueSendDispatchJob`, which the tests use, one in the console's enqueuer.

### SmtpTransport

`dispatch` keeps no protocol state. `transcript` is every reply line received; `Data` takes a
chunk of any number of lines off the `wire` and runs the handler: if some line after the first
is a `220 `, the whole conversation (`Envelope`) is written, once more on every chunk; if some line
after the first is a `250 `, `421 `, `550 ` or `554 `, the socket is destroyed and the *first*
code of the transcript is classified. `ProbeData` is the probe's handler, which matches the
first line too and writes once. `Timeout`, `Lost` (ECONNREFUSED, ENOTFOUND, ECONNRESET) and `OddError`
are the ways out without an answer; `PeerClose` is the way in which there is none. The relay
(`Greet`, `Comply`, `Refuse`, `Quit`, `Shutdown`) reads its `inbox` in order at its own pace, also
after the socket was destroyed unless `LoseRest` drops what was unread. Two consequences of the
handler are visible in the model and hide no property: a relay whose banner has one line is never
recognised by `dispatch`, which then times out as transient although the probe calls that node healthy;
and the answer to EHLO ends the dialogue, so that later refusals are reported as accepted
(`.sisyphus/notepads/customer-email-platform/learnings.md:47` knows the second).

### ClientApi

A request `r` runs `requireApiKey` (`find_key`, `audit_failure`, or `mark_used` and `audit_used`) and
then its handler: `handle` is the check of the body, a read, or the way into `create_endpoint`
or `find_endpoint`, `find_route`, `create_send`, `enqueue`, `set_job` and `create_hook`. An
administrator's request creates a key, or reads the list and then revokes or deletes. Foreign
keys are modelled as migration 0006 makes them: a row needs its key (`KeyExists`), and a key with
rows cannot be deleted (`Referenced`): the request fails with 500. The repository disagrees with
itself here: `learnings.md:145` calls hard deletion acceptable "because current schema has no downstream
foreign-key dependencies on `api_keys`", and `db/schema.ts:199,232` declare none, but the migration's lines 3 and 18 do. Each request has its own new id, so `sends[r]` and `endpoints[r]` are the rows it
created. `late` remembers which requests arrived after their key was revoked. Scopes are left
out, since they are fixed at the creation of a key; so are the administrators' own audit rows.

### DeliveryIngestion

A request slot `r` runs `ingestDeliveryEvent` for one callback: `find_event`, `find_send`
(what it reads is kept in `seen` and used two statements later), `judge`, `append`,
`set_status`, `find_webhook`, `post`, `mark_delivered` / `mark_failed`. `Answer` is the
response: 200 and 202 acknowledge, 400 does not, and a relay repeats what is not
acknowledged. A callback comes in one of two formats, `normalized` with an id of its own, or a
line of a relay's log whose word `FinalStatus` translates. It carries some of the send id, the queue id
and the attempt id (`ids`), and is looked up by the first of them (`Locator`). The last two match
once `markAcceptedByMta` has stored them, if it does (`stored`): the worker may find no queue id in the
relay's answer, and stores one attempt of several. `EventKey` is the
key built from that: the callback's own id if there is one, else send id, queue id, word and time, without the
attempt id, and with the time of arrival if the callback has none. `Judge` is
`createAggregateFromSend` with `applyDeliveryEvent`. A callback endpoint is never
deactivated and the console creates sends of kind `individual` only, so the early returns for
these are left out. Signature, JSON and format checks come before any state is
touched and are left out too.

On its own the module starts where a relay may begin to report: it has taken the mail, the send is
`dispatching`, and the worker has not stored the acceptance. The worker is then two actions,
`StoreAcceptance` and, for a lost answer, `TryAgain`, blind writes both; `SendPipeline` has the real
one. `early` is a history variable: the callbacks that found their send still with the worker.
What becomes of those differs by their word. A result (delivered, bounced) is not legal there: it is
answered 200 as stale and lost. An intermediate step (accepted, deferred, a failure) is legal, is judged by the status
read then, and is written two statements later over whatever the row shows by that time, a final status included.

### Routing

An administrative request `a` is `BeginRuleset`, one `CheckRule` per rule and
`InsertRuleset` (`createRuleset`), or `BeginDelete`, `CheckReferenced` and `Tombstone` (the
DELETE route); `CreateNode` and `PatchNode` are single statements. `rules` holds the
committed rules of all versions: `match` is a domain or `Default`, `chain` the primary node
and its failover nodes in order. `number` tells apart what two concurrent requests would insert
under one version. `send[s]` is the creation of a send: `ReadVersion`, `FindExact`,
`FindDefault`, `FindNodes` (`findRouteForRecipient`), each ending early with `Store`; `pin` is
what is stored, the version and the node or neither. `run[s]` is
`resolveRouteForSend` of the worker: `TryPinned`, `ReadLatest`, `FindExactNodes`,
`FindDefaultNodes`. Its queries join rules with live nodes: a result has a row for every rule that
matches and every live place of its chain (`LiveRows`), rule by rule and along each chain
(`InOrder`). Priorities and ids only order rules that match alike, so the rules may come out
in any order. A deleted node may be set active again by an update; it stays deleted.

### SendPipeline

Steps of the workers leave the console's variables alone and the other way round; a
relay reports on a mail it has taken, whatever it likes and by any id, also while the worker is
still waiting for the end of the dialogue. All variables but `status` and `acceptedAttempt` belong to
one side.

### ResultPolling

`at` is `updated_at` as committed, `pending` the statements that have their stamp and are not
committed. Workers and inserts are stamped by the database, `setStatus` and `setQueueJobId` by
the console's clock in whole milliseconds, up to `Skew` off. The client asks for rows after
`Since`, its last `updatedAt` less a `Lookback`, and takes `Limit` of them in order
(`Page`); what it stores is cut to milliseconds. Time counts half milliseconds, so that rounding
shows. `CLIENT_API.md:257-261` advises the lookback; `PollingAssumption` says how long it has to
be, and `PageSuffices` how much may change within it before a page overflows with known rows.

### AdminTab

One tab: `location` and `past` (URL and back button), `cookie`, `status`, `view` (search and
page), `list`, `selected` and `events`. An event handler or an answer changes state; then
`Effects` runs every effect of `App.tsx` whose dependencies changed since `rendered`, with the
values of that render. A request in flight remembers what its closure would; the server's verdict
(`Judge`) and the arrival of the answer (`Arrive`) are separate, in any order, and `Drop` loses one.
`HistoryPage` is the walk from page to page with `listAdminHistory`'s cursor, `PageAfter` one step of it. `asked`, `crossed` and
`turned` are ghosts for the properties. Simplified: nothing reaches the tab while it renders
(`Settled`); equal requests in flight are one; a list is read when its answer arrives; all
pages but the history and the login form are one; ids of sends grow with creation; the
provenance filter, which behaves as the search does, is left out.

## 3. Runs

| run | instance | shows |
|---|---|---|
| `dispatch_faults` | 1 send, 2 workers, chains of 0, 1 and 2 nodes, `MaxAttempts = JobAttempts = 2`, `MaxStalled = 1`, one fault of each of six kinds | which property survives which faults |
| `dispatch_settles` | 2 sends, 1 worker, one crash, fairness | `EverySendSettles` |
| `ingestion_faults` | 1 send that is dispatching, 3 callbacks (delivered by send id with an id of its own; a bounce by queue id with a time; a delay by send id), 2 request slots, one fault out of crash, error and late webhook row, the worker, fairness | what is recorded, shown, announced, refused and lost |
| `pipeline_lifecycle` | 1 send, 1 worker, chains of 0 to 2 nodes, 2 request slots, 2 reports by send id (delivered, soft bounce), one fault of the console | what the two writers together can do to the status |
| `routing_rules` | 2 nodes, 1 domain, 5 rulesets to submit (two of them illegal), 3 versions, 1 administrative request at a time, 1 send | what is pinned, and what the worker takes, under changing rules |
| `smtp_dialogue` | both clients, refusals 421, 451 and 550, up to 3 envelopes, one refusal, loss, odd error and shutdown | what the verdict says about the mail |
| `client_api` | 2 keys, 2 requests, 1 administrator, one crash, database error and Redis error | what a client was told and what the tables hold |
| `result_polling` | 4 sends, 2 updates each, pages of 3, delay 1, lookback 3, 6 ticks | no update stays unseen |
| `admin_tab` | histories of 0 and 3 sends that grow to 4 at most, pages of 2, 2 logins, 1 step back, 3 events, 1 mishap | what the page claims is what was asked |
| `console_job_retry` | 1 job attempt | **violation**: a deferred send is stranded |
| `delivered_regress` | reports by send id, no fault | **violation**: delivered is overwritten with accepted_by_mta |
| `sends_link` | the menu entry of the page while a filter is set | **violation**: URL and filter swap for ever |

The three violations are disagreements between the code and the repository's own plan and
notes; `findings` in `PROJECT.json` quotes both sides. A fourth disagreement, over the foreign
keys of `api_keys`, needs no violated property to be seen: `client_api` passes with the keys as migrated, and
its mutant shows what the notes' schema would allow.

What the passing properties say, with the faults they exclude:

* `AcceptedIsBacked` (none excluded): an accepted send names one of its attempt rows, and that row
  is accepted.
* `ExclusiveRun` (lost locks): at most one worker runs a send.
* `AttemptBudget` (lost locks): a send costs the budget of attempts, overrun by at most one chain, and by one
  more for each crash or database error. It fails when a live worker loses its lock: two runs of a send
  can make each other fail at the unique index, and a run that fails there is retried without a look at the budget.
* `DeferredHasRetry` (lost locks, database errors, Redis restarts, more crashes than
  BullMQ forgives): a deferred send has a run to come. A database error uses up a job
  attempt and is excluded because the code does strand sends then.
* `SingleCopy`, `NoFalseFailure`, `StatusIsLogged`, `LegalTransitions` (every fault that
  interrupts a run): one mail; what was taken is not reported failed; status and event log agree;
  the blind writes follow the transition table. Each fails when a run is interrupted: a worker
  that dies after `markAcceptedByMta` leaves a job whose next run does not skip the
  accepted send, sets it back to dispatching and mails it again.
* `TakenIsNotFailed`, `PipelineLifecycle` (faults that interrupt a run of the worker): the same over both processes,
  with nothing assumed of the relays. A mail on its way is shown as failed or deferred only if a relay
  reported that word early; the status leaves its lifecycle only where an intermediate step was reported
  early, or two recorded results contradict each other. These exceptions are what the code does, and the run contains both.
* `OneMailPerDialogue`: however often `dispatch` writes its conversation, one call leaves at most one mail.
  `PermanentIsUntaken` (unknown socket errors): a send is given up only if the relay does not
  have the mail. `AcceptedArrives` (refusals, losses, shutdowns): what was called accepted is taken.
* `OutcomeIsBacked`, `OnePostPerEvent`, `TerminalIsLeftByEarlyReports` (none):
  evidence before status; at most one webhook call per recorded result; nothing takes a send out of a
  final status but an intermediate step that was reported while the worker was at it.
* `AckedResultIsShown` (crashes, errors), `ResultIsAnnounced`, `EveryResultLands` (all faults):
  a result that was acknowledged is shown; its client was called; every reported result that some stored id of its send
  matches arrives, those included that were refused before the acceptance was stored and repeated until then.
  The first and the last are about callbacks whose key is theirs alone (a relay that reports two steps under one
  message id loses the second), that did not find the send with the worker (those are answered 200 and lost), and of
  sends of which no intermediate step was reported early (it may be written over the result).
* `PinIsExplained`, `RunKeepsVersion`, `DeletedStaysOut` (one administrative request at a time: nothing
  locks what `createRuleset` and the DELETE route have read): the pinned node stands in the rule that
  governed the send; the worker falls back within the recorded version; a deleted node is never
  routed to again. A send stored without a version is resolved by the latest one, which is recorded nowhere.
* `AnswerMatchesRows` (database and Redis errors, crashes, each where the code has no answer to
  it): an accepted request has row, job, job id and webhook; a refused one has nothing; no row is without a
  job. `RevokedKeyCreatesNothing`, `CallbackStaysWithKey` (none). `DeletedKeyLeavesNothing` (none): a key that could be
  deleted is one under which no client was ever told 201 or 202 and no row or job is left, wherever requests stood
  at the time. Its mutant, `CreateSend` without the foreign key, is the schema that `learnings.md:145` describes.
* `NothingFallsBehind`, `EveryResultIsSeen`: an update the client does not know is always still
  ahead of its next question, and is returned in the end. Both rest on a lookback longer than
  delay and skew; the second also on pages larger than what changes within it.
* `ShowsWhatItSays`, `EventsAreOfSelected` (answers that overtook one another), `SessionIsTrue` (requests
  that overlap a login or logout), `NoSendSkipped` (sends of one millisecond): every change of view, location
  or login asks again; an open row shows its own events; the tab knows whether it is
  logged in; turning the pages shows every send.

`Quiet(kinds)` in a property names the excluded faults; the runs contain them, so the
premise is false in some states and true in most.

**Bounds.** One send is enough for every property of one row: sends share workers
and request slots but no rows; `dispatch_settles` has two, which compete for
the worker. Two workers are what a lost lock needs. A budget of two with
chains of up to two nodes reaches the budget inside a chain, between chains and exactly at
its end. One fault of each kind gives every pair of different faults in each order; in `ingestion_faults` and
`pipeline_lifecycle` one fault strikes in all, at any statement, beside every order of callbacks and worker. Two
request slots race any two callbacks; two client requests race for one key and share one endpoint.
`MaxEnvelopes = 3` lets the conversation arrive twice behind the first one, which is what a second mail
would need. Four sends are one more than a page of results, so that pages fill up; three sends on
pages of two, with a fourth created meanwhile, cross a page boundary. Counters that only
bound the exploration (`FaultBudget`, `MaxTime`, `MaxUpdates`, `MaxEvents`, `MaxVisits`, ...) are
named as such where they are declared. `CHECK_DEADLOCK FALSE` is set where the
system may stop: when all sends are at rest nothing happens. Callbacks and polls may always be
repeated, so those runs check for deadlock.

**Fairness.** The console finishes its request, BullMQ hands out and delays jobs and
looks for stalled ones (timers), the processor runs on, because every database call and relay
answers or times out (15 s), except after `PeerClose`, which has no handler in the
code. A callback request that was begun is served, `fetch` having a time-out of its own. A relay repeats a
callback until it gets a 2xx however busy the console is: strong fairness for `Retry`. A worker that the
relay answered stores the acceptance: weak fairness for `StoreAcceptance`, which its next statement is. A
relay reads what has arrived and the socket's timer runs. Clients poll at an
interval and statements end. React renders what changed and requests are answered. No
fault is ever required.

## 4. Proofs

All theorems are about `Spec` of their module, for any value of the constants that satisfies the
module's assumption; those that assume more say so here.

**`SendDispatchProofs`** proves every invariant of the module and `LegalTransitions`, in three parts.

*Attempt rows and locks.* `AcceptedIsBacked` is not inductive:
whether the row named by a `markAcceptedByMta` is accepted depends on what the
worker did two statements before. The invariant adds `LocalInv` (what each location
knows: a send in hand, a chain that is not empty, an outcome), and `RowInv`: a worker between
`insert` and `verdict` owns a row that exists (`OpenRow`), no two workers own the same row (`OneOwner`, from
the unique index, and needed because a lost lock lets two runs of a send overlap), and a
worker that is about to store an acceptance has an accepted row (`AcceptedRow`). Rows are
never removed and a finished row is written by its owner only.
`RunsAreExclusive` follows from: while no lock was lost, a worker with a
send in hand is the holder of that send's active job, or the job was lost with Redis and cannot be
handed out again.

*Status, mails and retries.* `RunsAndRests` says, while no run was interrupted, what is known
of a send at each statement of the run that has it in hand (`RunState`: status, mails sent, what is
logged) and of a send nobody has in hand (`RestState`, with the state of its job), and that
an active job has a run (`ActiveRuns`). `SingleCopy`, `NoFalseFailure`, `StatusIsLogged` and
`LegalTransitions` are read off it, and so is `WorkersImplementLifecycle`: if the fault
budgets allow no interruption, `Spec` implements `SendLifecycle`, `[Lifecycle!Next]_status` step by step.
`DeferredSendsRetry` assumes `JobAttempts >= MaxAttempts` and adds `RetryInv`: a run
that may end deferred has inserted an attempt row that the queue has not counted
yet, so the queue's count of failed runs stays below the number of rows and the budget of the status
runs out first; stalls are bounded by crashes. The console's single job attempt does not
satisfy the assumption, which is what `console_job_retry` shows.

*The cost of a send.* `AttemptBudget` rests on `BudgetInv`: a run that does not know its route yet
finds the send within the budget for the runs cut short so far (`BudgetRun`), resolving the route charges the whole
chain to the run (`WithinChain`), so that rows written plus nodes left stay within one run more, and a
run that ends deferred has a last attempt number below the maximum. A send that nobody has in hand is
within the budget or has no job left to run (`BudgetSend`); one run at a time comes from `LockInv`.

**`DeliveryIngestionProofs`** proves every invariant of the module and `TerminalIsLeftByEarlyReports`, from a
start before the acceptance is stored and with the worker's writes in between. The
invariant is a conjunction: `RequestInv` (what each slot has read and judged; a slot about to write anything but a
result serves an early callback), `OneOwner` (no two slots own one stored event: the unique key), `EventInv` and
`StatusInv` (evidence and reachable statuses, and what is known of a row of which no step was reported early), `PostInv`
(posts made and posts owed, `Told` and `Owed`, never exceed the result events), and for the conditional properties
`SettleInv`, `AckInv` and `AnnounceInv` (a stored result that is not shown or not announced has a slot on its way to do
it). `Grounded` says on what ground a callback is acknowledged: it was early, its key is recorded, or a result is shown
already, which stays because by then the worker is done with the send and only results are written.

**`ClientApiProofs`** proves every invariant of the module, and `CreationIsAudited`, which no run checks. Its parts: a request that was not begun has no rows; one past the check passed it
with its own key and was not late (`KeyChecked`, `LateDenied`: a revoked key never comes back); the use
was audited before the handler; a looked-up endpoint has the key's owner and keeps it. For `AnswerMatchesRows`, `AnswerInv` says that
no answer and no webhook row come before the last statement (`Unanswered`), what is in the tables and in Redis
at each statement (`Queued`), and what an answer therefore stands for (`Told`). `DeletedKeyLeavesNothing` combines
both: the foreign keys keep a key that a row names (`KeysInUseStay`), and whatever was answered 201 or 202 has its row.

**`ResultPollingProofs`** proves `NothingFallsBehind` for any number of sends, pages, delays and skews. It is
inductive together with `Stamped` (a running statement was stamped about when it started) and `UnseenBefore`:
a pending statement is at most `MaxDelay` old and the cursor at most `Skew` ahead, so what is committed late still
lies after `cursor - Lookback`, and a page that leaves a row out ends before it.

**`SmtpTransportProofs`** proves the invariants of the module. `InboxInv`: what an open relay has not read
begins with a suffix of the conversation, so it meets a QUIT before a second message, however often
the conversation was written. `FirstLine`: the first line a client heard is a 220, or
the relay closed without the mail.

**`SendPipelineProofs`** proves `TakenIsNotFailed` and `PipelineLifecycle` with no assumption about the relays.
`OrderlyPipelineRefines` concludes that the two writers implement `SendLifecycle` in every behaviour
in which no run is interrupted, no intermediate step is reported early and recorded results agree (`Orderly`); nothing in the
code ensures the last two, and `delivered_regress` shows one way to miss them.
The invariant `HandsInv` says whose the row is. Until `dispatch_accepted_attempt_id` is set it belongs to the run that
has it in hand (`HandRun`): no result is legal from what a request can read there, so whoever else writes serves an
early report. From then on it belongs to the console (`HandRequest`), as no run will write it again (`HandSend`). What an
early report may add to either is bounded by the words reported (`EarlyTypes`). `ConsoleStep` sums up what a
handler may do to a request and to a send, so that the workers' half of the proof never opens the console's.

**`RoutingProofs`** proves every property of the module. The first lemmas say what the queries return, for
any finite set of rules: the latest version is the greatest (`LatestIsGreatest`), the node picked from a chain is
its first live one (`FirstLiveNode`), and a chain the worker gets from the join consists of live nodes of the
rules that matched (`JoinedNodes`). `RouteInv` relates what a creation has read, and stored, to the rules of its version
(`Backed`), and what a run has resolved to the rules of the version stored with its send (`Bound`). Both survive
new rulesets because rules are only added (`RulesGrow`). They give `RunKeepsVersion`, and `DeletedStaysOut` with
them, as a run has no nodes before it resolves and every query reads the deletion mark. `PinIsExplained` says more than `RouteInv`:
that the rule was the one to *govern* the domain, which a rule added to the version
afterwards could spoil. `PinsAreExplained` therefore assumes one administrator, so that a version under way is later
than every committed one (`Newer`) and a committed version is fixed (`VersionsAreFixed`). Nothing in `createRuleset`
keeps two administrators from inserting one version, so the assumption cannot be dropped.

**`AdminTabProofs`** proves every invariant of the module, for all histories, page sizes and bounds, each with an
invariant of its own:

* `SettledInv`: when the effects rest, location and view agree. `LoadedInv`: once a page is rendered with a session,
  its list was asked for, and is in flight, there, or failed. They give `ShowsWhatItSays`.
* `EventsInv`: unless requests for events crossed, the one in flight is for the open row.
* `SkipInv`: what the pages up to the current one reach has been seen (`TurnInv`). It rests on the walk of the
  server. `PageStep` unfolds `HistoryPage` once, `ReachShrinks` shows that a send created later never makes a page
  reach further back, and `PageShowsDue` that what a page reaches and the one before it did not is on it,
  unless it shares its millisecond.
* `LoadingInv` and `SessionInv`, the largest: while nothing overlaps a login or a logout, every request in flight
  carries the token of the cookie, and the verdict it got is still true (`RequestsTrue`); a login is alone and
  beside a logout only events are loaded (`LoginAlone`, `LogoutAlone`), since otherwise a late answer could turn the status
  back; `Waits` and `FormStays` tie the status to the request that will change it.

The walk and the minimum of a set are defined over all pages and all finite sets. The library's induction
theorems take an operator and cannot be used, so these proofs go by the least counterexample: `LeastOf`
(from the well-foundedness of `<` on `Nat`, which takes a set), and `Induction` and `WalkExists` from it.

Model-checked only: liveness (`EverySendSettles`, `EveryResultLands`, `EveryResultIsSeen`, `AcceptedArrives`),
which TLAPS cannot prove under fairness, as it needs `ENABLED`. The other properties that TLC checks in a
passing run are all stated by a theorem; the two that fail in a run of their own have none.

## 5. What is left out, and the plan

Not modelled, with reasons in `components`: reporting (read-only aggregates), suppressions (a
table nothing uses), migrations, configuration, bootstrap and health servers, contracts, test and
postfix packages, and `tmp_app.tsx`, an older copy of the client that nothing imports. Of the browser
client, the routing editor and the key and reporting pages are left out (forms over one request
each), and all rendering. Payloads are left out: a mail is its send. Time is left out except in
`ResultPolling` and the stamps of `AdminTab`: delays elapse at any moment.

Behaviour of the code that no property can hold against, stated here instead: a webhook marked
`retry_scheduled` is never retried, since nothing reads `nextAttemptAt`; a send the worker gives up
itself never fires its webhook; two administrators at once may insert one version twice or keep a
rule to a deleted node; Redis errors and crashes in the middle of a request leave a send
without a job. A final result by send id that overtakes the worker's `markAcceptedByMta` is
ignored as stale, answered 200 (`delivery-events.ts:511`, `routes/delivery-events.ts:99-102`) and lost, and so is its webhook.
`deferred`, `accepted_by_mta` or a failure by send id, judged at `dispatching`, is written unconditionally (`delivery-events.ts:538`) and may
replace a final status set in between, against `learnings.md:51` ("without moving terminal sends
backward") and the plan's line 174. Deleting an API key that was ever used fails with 500, against `learnings.md:145`.
A relay that closes without an answer hangs its worker; two sends of one millisecond may fall between two pages of the history;
overtaken answers in the browser stay on the page, and a late denial undoes a login. For these the
properties of their neighbourhood state the exception, and `hazards` lists them without a property.

What would come next:

1. `ClientApi` composed with `SendDispatch` and `DeliveryIngestion`, so that a late webhook row and a lost
   job are steps of the creation and no longer faults.
2. `SmtpTransport` under `SendDispatch`: its outcomes and `taken` as a refinement of `Transport`, `LoseReply` and `PeerClose`.
3. The routing editor of the browser client against a second administrator.
