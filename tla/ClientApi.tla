----------------------------- MODULE ClientApi -----------------------------
(***************************************************************************)
(* The client API of the management console: requests that a client makes  *)
(* with its API key, from the look-up of the key to the answer, and the    *)
(* administrators who create, revoke and delete keys meanwhile.            *)
(*                                                                         *)
(* A request is a sequence of awaited statements without a transaction:    *)
(* the check of the key, two audit statements, the row of the send, its    *)
(* job, the job id, the row of its webhook.  A statement may reject and    *)
(* the process may die between any two.                                    *)
(***************************************************************************)
EXTENDS Naturals

CONSTANTS
  Requests,     \* requests of clients; each can create one row, under a new id
  Keys,         \* API keys
  Admins,       \* concurrent requests of administrators to the key routes
  FaultBudget,  \* how often each kind of fault may strike: bounds the model
  NoKey,        \* a header that is missing, malformed or fits no key
  None          \* SQL null

(***************************************************************************)
(* crash:       the console dies, and with it every request being served   *)
(* db_error:    a database statement rejects                               *)
(* redis_error: adding the job rejects, whether or not the job was added   *)
(***************************************************************************)
FaultKinds == {"crash", "db_error", "redis_error"}

ASSUME ClientApiAssumption ==
  /\ FaultBudget \in [FaultKinds -> Nat]
  /\ NoKey \notin Keys
  /\ None \notin Requests
  /\ "own" \notin Requests

VARIABLES
  keys,       \* api_keys: absent, live, revoked_at set, or deleted
  endpoints,  \* callback_endpoints: the owner of the endpoint a request created
  sends,      \* sends: the row a request created, or None
  queue,      \* requests whose send has a job
  hooks,      \* outbound_webhook_deliveries: where the result of a send goes
  audit,      \* audit_logs: the rows that name a request
  req,        \* per request: operation, key and callback it asks for
  pc,         \* per request: the next statement
  answer,     \* per request: the status code the client saw, 0 before
  late,       \* requests that arrived after their key was revoked (history)
  admin,      \* per administrator: the next statement and the key in hand
  faults

tables == <<keys, endpoints, sends, queue, hooks, audit>>
vars   == <<keys, endpoints, sends, queue, hooks, audit, req, pc, answer, late,
            admin, faults>>

KeyStates == {"absent", "live", "revoked", "deleted"}
Operations == {"read", "endpoint", "raw", "individual"}
Callbacks == Requests \cup {"own", None}   \* an endpoint, a URL of its own, or none
Statements == {"find_key", "audit_failure", "mark_used", "audit_used", "handle",
               "create_endpoint", "find_endpoint", "find_route", "create_send",
               "enqueue", "set_job", "create_hook"}
Answers == {0, 200, 201, 202, 400, 401, 500}

Request == [op : Operations, key : Keys \cup {NoKey}, callback : Callbacks]
SendRow == [key : Keys, endpoint : Requests \cup {None}, job : {"null", "set"}]
AuditRow == [type : {"api_key_used", "api_key_auth_failure"}, by : Requests]
AdminStatements == {"idle", "revoke", "delete"}

ASSUME NullAssumption == None \notin SendRow \cup Keys

TypeOK ==
  /\ keys \in [Keys -> KeyStates]
  /\ endpoints \in [Requests -> Keys \cup {None}]
  /\ sends \in [Requests -> SendRow \cup {None}]
  /\ queue \subseteq Requests
  /\ hooks \in [Requests -> Callbacks]
  /\ audit \subseteq AuditRow
  /\ req \in [Requests -> Request \cup {None}]
  /\ pc \in [Requests -> Statements \cup {"new", "done"}]
  /\ answer \in [Requests -> Answers]
  /\ late \subseteq Requests
  /\ admin \in [Admins -> [at : AdminStatements, key : Keys \cup {NoKey}]]
  /\ faults \in [FaultKinds -> Nat]

Init ==
  /\ keys = [k \in Keys |-> "absent"]
  /\ endpoints = [r \in Requests |-> None]
  /\ sends = [r \in Requests |-> None]
  /\ queue = {}
  /\ hooks = [r \in Requests |-> None]
  /\ audit = {}
  /\ req = [r \in Requests |-> None]
  /\ pc = [r \in Requests |-> "new"]
  /\ answer = [r \in Requests |-> 0]
  /\ late = {}
  /\ admin = [a \in Admins |-> [at |-> "idle", key |-> NoKey]]
  /\ faults = [k \in FaultKinds |-> 0]

-----------------------------------------------------------------------------
(***************************************************************************)
(* requireApiKey.                                                          *)
(***************************************************************************)
Goto(r, statement) == pc' = [pc EXCEPT ![r] = statement] /\ UNCHANGED answer

Reply(r, code) ==
  /\ pc' = [pc EXCEPT ![r] = "done"]
  /\ answer' = [answer EXCEPT ![r] = code]

Unchanged == UNCHANGED <<tables, req, late, admin, faults>>

(* A client sends a request with a key it was given, or with none.  The    *)
(* callback of a raw send is the id of some endpoint; that of an           *)
(* individual send is a URL of its own.                                    *)
Submit(r) ==
  /\ pc[r] = "new"
  /\ \E op \in Operations, k \in Keys \cup {NoKey}, c \in Callbacks :
       /\ k \in Keys => keys[k] # "absent"
       /\ c \in Requests => op = "raw" /\ endpoints[c] # None
       /\ c = "own" => op = "individual"
       /\ req' = [req EXCEPT ![r] = [op |-> op, key |-> k, callback |-> c]]
       /\ late' = IF k \in Keys /\ keys[k] = "live" THEN late ELSE late \cup {r}
  /\ Goto(r, "find_key")
  /\ UNCHANGED <<tables, admin, faults>>

(* Mutant: revoked_at is not looked at.                                    *)
FindKeyRevokedToo(r) ==
  LET k == req[r].key IN
  /\ pc[r] = "find_key"
  /\ Goto(r, IF k \in Keys /\ keys[k] \in {"live", "revoked"} THEN "mark_used" ELSE "audit_failure")
  /\ Unchanged

(* findByKeyPrefix, and the comparison of the hash and of revoked_at.      *)
(* Every key has the one scope there is, so the scope check always passes. *)
FindKey(r) ==
  LET k == req[r].key IN
  /\ pc[r] = "find_key"
  /\ Goto(r, IF k \in Keys /\ keys[k] = "live" THEN "mark_used" ELSE "audit_failure")
  /\ Unchanged

(* Mutant: a wrong status code.                                            *)
AuditFailureForbidden(r) ==
  /\ pc[r] = "audit_failure"
  /\ audit' = audit \cup {[type |-> "api_key_auth_failure", by |-> r]}
  /\ Reply(r, 403)
  /\ UNCHANGED <<keys, endpoints, sends, queue, hooks, req, late, admin, faults>>

AuditFailure(r) ==
  /\ pc[r] = "audit_failure"
  /\ audit' = audit \cup {[type |-> "api_key_auth_failure", by |-> r]}
  /\ Reply(r, 401)
  /\ UNCHANGED <<keys, endpoints, sends, queue, hooks, req, late, admin, faults>>

(* last_used_at is for display only and left out.                          *)
MarkUsed(r) ==
  /\ pc[r] = "mark_used"
  /\ Goto(r, "audit_used")
  /\ Unchanged

AuditUsed(r) ==
  /\ pc[r] = "audit_used"
  /\ audit' = audit \cup {[type |-> "api_key_used", by |-> r]}
  /\ Goto(r, "handle")
  /\ UNCHANGED <<keys, endpoints, sends, queue, hooks, req, late, admin, faults>>

-----------------------------------------------------------------------------
(***************************************************************************)
(* The handlers.                                                           *)
(***************************************************************************)

(* The body is checked, which may fail, before anything is read; GET       *)
(* requests read what belongs to the key and answer.                       *)
Handle(r) ==
  /\ pc[r] = "handle"
  /\ \/ req[r].op = "read" /\ Reply(r, 200)
     \/ Reply(r, 400)
     \/ req[r].op = "endpoint" /\ Goto(r, "create_endpoint")
     \/ req[r].op = "raw" /\ req[r].callback # None /\ Goto(r, "find_endpoint")
     \/ req[r].op = "raw" /\ req[r].callback = None /\ Goto(r, "find_route")
     \/ req[r].op = "individual" /\ Goto(r, "find_route")
  /\ Unchanged

(* A foreign key: the row of the key has to be there still.                *)
KeyExists(r) == keys[req[r].key] \in {"live", "revoked"}

CreateEndpoint(r) ==
  /\ pc[r] = "create_endpoint"
  /\ IF KeyExists(r)
     THEN /\ endpoints' = [endpoints EXCEPT ![r] = req[r].key]
          /\ Reply(r, 201)
     ELSE Reply(r, 500) /\ UNCHANGED endpoints
  /\ UNCHANGED <<keys, sends, queue, hooks, audit, req, late, admin, faults>>

(* Mutant: findById instead of findByIdForApiKey.                          *)
FindAnyEndpoint(r) ==
  /\ pc[r] = "find_endpoint"
  /\ IF endpoints[req[r].callback] # None THEN Goto(r, "find_route") ELSE Reply(r, 400)
  /\ Unchanged

(* findByIdForApiKey; no operation deactivates an endpoint.                *)
FindEndpoint(r) ==
  /\ pc[r] = "find_endpoint"
  /\ IF endpoints[req[r].callback] = req[r].key THEN Goto(r, "find_route") ELSE Reply(r, 400)
  /\ Unchanged

(* The mail is parsed, which may throw, and its route looked up (see       *)
(* Routing); without a route the send is created all the same.             *)
FindRoute(r) ==
  /\ pc[r] = "find_route"
  /\ Goto(r, "create_send") \/ Reply(r, 400)
  /\ Unchanged

(* Mutant: no foreign key on api_key_id.                                   *)
CreateSendUnchecked(r) ==
  /\ pc[r] = "create_send"
  /\ sends' = [sends EXCEPT ![r] = [key |-> req[r].key, job |-> "null", endpoint |->
                 IF req[r].callback \in Requests THEN req[r].callback ELSE None]]
  /\ Goto(r, "enqueue")
  /\ UNCHANGED <<keys, endpoints, queue, hooks, audit, req, late, admin, faults>>

CreateSend(r) ==
  /\ pc[r] = "create_send"
  /\ IF KeyExists(r)
     THEN /\ sends' = [sends EXCEPT ![r] = [key |-> req[r].key, job |-> "null", endpoint |->
                         IF req[r].callback \in Requests THEN req[r].callback ELSE None]]
          /\ Goto(r, "enqueue")
     ELSE Reply(r, 400) /\ UNCHANGED sends
  /\ UNCHANGED <<keys, endpoints, queue, hooks, audit, req, late, admin, faults>>

Enqueue(r) ==
  /\ pc[r] = "enqueue"
  /\ queue' = queue \cup {r}
  /\ Goto(r, "set_job")
  /\ UNCHANGED <<keys, endpoints, sends, hooks, audit, req, late, admin, faults>>

(* Mutant: the webhook row is created only when there is no endpoint.      *)
SetQueueJobIdOnly(r) ==
  /\ pc[r] = "set_job"
  /\ sends' = [sends EXCEPT ![r].job = "set"]
  /\ IF req[r].callback # "own" THEN Reply(r, 202) ELSE Goto(r, "create_hook")
  /\ UNCHANGED <<keys, endpoints, queue, hooks, audit, req, late, admin, faults>>

SetQueueJobId(r) ==
  /\ pc[r] = "set_job"
  /\ sends' = [sends EXCEPT ![r].job = "set"]
  /\ IF req[r].callback = None THEN Reply(r, 202) ELSE Goto(r, "create_hook")
  /\ UNCHANGED <<keys, endpoints, queue, hooks, audit, req, late, admin, faults>>

CreateHook(r) ==
  /\ pc[r] = "create_hook"
  /\ hooks' = [hooks EXCEPT ![r] = req[r].callback]
  /\ Reply(r, 202)
  /\ UNCHANGED <<keys, endpoints, sends, queue, audit, req, late, admin, faults>>

-----------------------------------------------------------------------------
(***************************************************************************)
(* The administrators' routes.                                             *)
(***************************************************************************)
AdminAt(a, statement, k) == admin' = [admin EXCEPT ![a] = [at |-> statement, key |-> k]]
AdminOnly == UNCHANGED <<endpoints, sends, queue, hooks, audit, req, pc, answer, late, faults>>

(* Every route ends with an audit row of its own, which is left out: no    *)
(* code reads it.                                                          *)
CreateKey(a, k) ==
  /\ admin[a].at = "idle"
  /\ keys[k] = "absent"
  /\ keys' = [keys EXCEPT ![k] = "live"]
  /\ UNCHANGED admin /\ AdminOnly

(* The list is read; an unknown or an already revoked key ends the request.*)
BeginRevoke(a, k) ==
  /\ admin[a].at = "idle"
  /\ keys[k] = "live"
  /\ AdminAt(a, "revoke", k)
  /\ UNCHANGED keys /\ AdminOnly

Revoke(a) ==
  LET k == admin[a].key IN
  /\ admin[a].at = "revoke"
  /\ keys' = [keys EXCEPT ![k] = IF @ = "deleted" THEN @ ELSE "revoked"]
  /\ AdminAt(a, "idle", NoKey)
  /\ AdminOnly

BeginDelete(a, k) ==
  /\ admin[a].at = "idle"
  /\ keys[k] \in {"live", "revoked"}
  /\ AdminAt(a, "delete", k)
  /\ UNCHANGED keys /\ AdminOnly

Referenced(k) ==
  \E r \in Requests : endpoints[r] = k \/ (sends[r] # None /\ sends[r].key = k)

(* Migration 0006 gives sends and callback_endpoints foreign keys, which   *)
(* reject the deletion of a key that was ever used to create something:    *)
(* the request fails with 500.  Neither schema.ts:199,232 nor the note     *)
(* that made hard deletion acceptable (learnings.md:145) knows of them.    *)
Delete(a) ==
  LET k == admin[a].key IN
  /\ admin[a].at = "delete"
  /\ keys' = IF Referenced(k) THEN keys ELSE [keys EXCEPT ![k] = "deleted"]
  /\ AdminAt(a, "idle", NoKey)
  /\ AdminOnly

-----------------------------------------------------------------------------
(***************************************************************************)
(* Faults.                                                                 *)
(***************************************************************************)
Strike(kind) ==
  /\ faults[kind] < FaultBudget[kind]
  /\ faults' = [faults EXCEPT ![kind] = @ + 1]

(* What the try block of the two sending routes catches is answered with   *)
(* 400; other errors end in the framework's handler.                       *)
Caught == {"find_route", "create_send", "set_job", "create_hook"}

DbError(r) ==
  /\ \/ pc[r] \in Statements \ {"handle", "enqueue"}
     \/ pc[r] = "handle" /\ req[r].op = "read"
  /\ Strike("db_error")
  /\ Reply(r, IF pc[r] \in Caught THEN 400 ELSE 500)
  /\ UNCHANGED <<tables, req, late, admin>>

AdminDbError(a) ==
  /\ admin[a].at # "idle"
  /\ Strike("db_error")
  /\ AdminAt(a, "idle", NoKey)
  /\ UNCHANGED <<tables, req, pc, answer, late>>

RedisError(r) ==
  /\ pc[r] = "enqueue"
  /\ Strike("redis_error")
  /\ queue' \in {queue, queue \cup {r}}
  /\ Reply(r, 400)
  /\ UNCHANGED <<keys, endpoints, sends, hooks, audit, req, late, admin>>

(* The requests being served end without an answer.                        *)
Crash ==
  /\ Strike("crash")
  /\ pc' = [r \in Requests |-> IF pc[r] = "new" THEN "new" ELSE "done"]
  /\ admin' = [a \in Admins |-> [at |-> "idle", key |-> NoKey]]
  /\ UNCHANGED <<tables, req, answer, late>>

-----------------------------------------------------------------------------
Serve(r) ==
  \/ FindKey(r) \/ AuditFailure(r) \/ MarkUsed(r) \/ AuditUsed(r) \/ Handle(r)
  \/ CreateEndpoint(r) \/ FindEndpoint(r) \/ FindRoute(r)
  \/ CreateSend(r) \/ Enqueue(r) \/ SetQueueJobId(r) \/ CreateHook(r)

Administer(a) ==
  \/ \E k \in Keys : CreateKey(a, k) \/ BeginRevoke(a, k) \/ BeginDelete(a, k)
  \/ Revoke(a) \/ Delete(a)

Next ==
  \/ \E r \in Requests : Submit(r) \/ Serve(r) \/ DbError(r) \/ RedisError(r)
  \/ \E a \in Admins : Administer(a) \/ AdminDbError(a)
  \/ Crash

Spec == Init /\ [][Next]_vars

-----------------------------------------------------------------------------
(***************************************************************************)
(* Properties.                                                             *)
(***************************************************************************)
Quiet(kinds) == \A k \in kinds : faults[k] = 0

Created(r) == sends[r] # None \/ endpoints[r] # None

(* What a request leaves behind and what it was told agree.  An accepted   *)
(* send has its job, its job id and its webhook; a refused one has nothing *)
(* unless Redis or the database failed under it, so the client may repeat  *)
(* it; and no send is left without a job, with nobody to add it.           *)
AnswerMatchesRows ==
  \A r \in Requests :
     /\ answer[r] = 202 => r \in queue /\ sends[r].job = "set" /\ hooks[r] = req[r].callback
     /\ answer[r] \in {400, 401, 500} /\ Quiet({"db_error", "redis_error"}) => ~Created(r)
     /\ r \in queue => sends[r] # None
     /\ sends[r] # None /\ r \notin queue /\ Quiet({"crash", "redis_error"}) => pc[r] = "enqueue"

(* A request that arrived after its key was revoked or deleted creates     *)
(* nothing, whatever administrators do to the key meanwhile: a revoked key *)
(* never comes back.                                                       *)
RevokedKeyCreatesNothing == \A r \in late : ~Created(r) /\ r \notin queue

(* The result of a send goes to an endpoint of the client that sent it.    *)
CallbackStaysWithKey ==
  \A r \in Requests :
     /\ sends[r] # None /\ sends[r].endpoint # None => endpoints[sends[r].endpoint] = sends[r].key
     /\ hooks[r] \in Requests => sends[r] # None /\ hooks[r] = sends[r].endpoint

(* A key that an administrator managed to delete is one under which        *)
(* nothing was ever taken: no request with it left a row or a job, none    *)
(* was told 201 or 202, and none will be, although a request may stand     *)
(* anywhere between the check of the key and its inserts.  It is the       *)
(* foreign keys of migration 0006 that decide the race; with the schema    *)
(* that schema.ts:199,232 declare and learnings.md:145 relies on ("no      *)
(* downstream foreign-key dependencies on api_keys") it would be lost.     *)
DeletedKeyLeavesNothing ==
  \A r \in Requests :
     req[r] # None /\ req[r].key \in Keys /\ keys[req[r].key] = "deleted" =>
       ~Created(r) /\ r \notin queue /\ answer[r] \notin {201, 202}

(* Whatever a request created, the audit log says which request used which *)
(* key, also if the request failed or the console died on the way.         *)
CreationIsAudited ==
  \A r \in Requests : Created(r) => [type |-> "api_key_used", by |-> r] \in audit
=============================================================================
