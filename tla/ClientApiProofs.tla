-------------------------- MODULE ClientApiProofs --------------------------
(***************************************************************************)
(* Theorems about ClientApi, for every number of requests, keys and        *)
(* administrators and every fault budget.                                  *)
(***************************************************************************)
EXTENDS ClientApi, TLAPS

(***************************************************************************)
(* The inductive invariant: what is known of a request at each statement.  *)
(***************************************************************************)
(* The statements behind requireApiKey's check, behind its audit row, and  *)
(* behind the look-up of the callback endpoint.                            *)
Checked == Statements \ {"find_key", "audit_failure"}
Handling == Checked \ {"mark_used", "audit_used"}
Sending == {"find_route", "create_send", "enqueue", "set_job", "create_hook"}
Stored == {"enqueue", "set_job", "create_hook"}

Untouched(r) ==
  pc[r] = "new" => /\ sends[r] = None /\ endpoints[r] = None /\ hooks[r] = None
                   /\ r \notin queue /\ r \notin late

WellFormed(r) ==
  pc[r] # "new" =>
    /\ req[r] \in Request
    /\ req[r].callback \in Requests => req[r].op = "raw"
    /\ req[r].callback = "own" => req[r].op = "individual"
    /\ pc[r] = "find_endpoint" => req[r].callback \in Requests

KeyChecked(r) == pc[r] \in Checked => req[r].key \in Keys /\ r \notin late

UseAudited(r) ==
  pc[r] \in Handling \/ Created(r) => [type |-> "api_key_used", by |-> r] \in audit

EndpointFound(r) ==
  pc[r] \in Sending /\ req[r].callback \in Requests =>
    endpoints[req[r].callback] = req[r].key

RowsOwned(r) ==
  /\ pc[r] \in Stored => sends[r] # None
  /\ sends[r] # None =>
       /\ sends[r].key = req[r].key
       /\ sends[r].endpoint = IF req[r].callback \in Requests THEN req[r].callback ELSE None
       /\ req[r].callback \in Requests => endpoints[req[r].callback] = req[r].key
  /\ endpoints[r] # None => endpoints[r] = req[r].key
  /\ hooks[r] \in Requests => sends[r] # None /\ sends[r].endpoint = hooks[r]

LateDenied(r) ==
  r \in late =>
    /\ ~Created(r) /\ r \notin queue
    /\ req[r].key \in Keys => keys[req[r].key] \in {"revoked", "deleted"}

RequestInv ==
  \A r \in Requests : /\ Untouched(r) /\ WellFormed(r) /\ KeyChecked(r) /\ UseAudited(r)
                      /\ EndpointFound(r) /\ RowsOwned(r) /\ LateDenied(r)

AdminInv ==
  \A a \in Admins : admin[a].at # "idle" =>
    admin[a].key \in Keys /\ keys[admin[a].key] # "absent"

(* The foreign keys of migration 0006: the key of a row is there still.    *)
KeysInUseStay == \A k \in Keys : Referenced(k) => keys[k] \in {"live", "revoked"}

IInv == TypeOK /\ RequestInv /\ AdminInv /\ KeysInUseStay

-----------------------------------------------------------------------------
THEOREM InitInv == Init => IInv
<1> SUFFICES ASSUME Init PROVE IInv
  OBVIOUS
<1>1. TypeOK
  BY ClientApiAssumption
     DEF Init, TypeOK, Statements, KeyStates, Callbacks, Answers, AdminStatements, FaultKinds
<1>2. RequestInv
  BY ClientApiAssumption
     DEF Init, RequestInv, Untouched, WellFormed, KeyChecked, UseAudited, EndpointFound, RowsOwned,
         LateDenied, Created, Checked, Handling, Sending, Stored, Statements
<1>3. AdminInv /\ KeysInUseStay
  BY NullAssumption DEF Init, AdminInv, KeysInUseStay, Referenced
<1> QED
  BY <1>1, <1>2, <1>3 DEF IInv

USE DEF Unchanged, tables, Goto, Reply, Created, Statements, Checked, Handling, Sending, Stored

(* Storing the job id keeps the row otherwise as it is.                    *)
LEMMA SetJobRow ==
  ASSUME IInv, NEW r \in Requests, SetQueueJobId(r)
  PROVE  /\ sends' \in [Requests -> SendRow \cup {None}]
         /\ sends'[r] # None
         /\ sends'[r].key = sends[r].key /\ sends'[r].endpoint = sends[r].endpoint
         /\ sends'[r].job = "set"
         /\ \A q \in Requests \ {r} : sends'[q] = sends[q]
<1> DEFINE row == [key |-> sends[r].key, endpoint |-> sends[r].endpoint, job |-> "set"]
<1>1. sends[r] \in SendRow /\ sends \in [Requests -> SendRow \cup {None}]
  BY DEF IInv, TypeOK, RequestInv, RowsOwned, SetQueueJobId
<1>2. row \in SendRow /\ [sends[r] EXCEPT !.job = "set"] = row
  BY <1>1 DEF SendRow
<1>3. sends' = [sends EXCEPT ![r] = row]
  BY <1>2 DEF SetQueueJobId
<1> QED
  BY <1>1, <1>2, <1>3, NullAssumption

THEOREM NextTypes == IInv /\ [Next]_vars => TypeOK'
<1> SUFFICES ASSUME IInv, [Next]_vars PROVE TypeOK'
  OBVIOUS
<1> USE ClientApiAssumption DEF TypeOK, KeyStates, Answers
<1> USE DEF IInv
<1>1. ASSUME NEW r \in Requests, Submit(r) PROVE TypeOK'
  BY <1>1 DEF Submit, Request
<1>2. ASSUME NEW r \in Requests, FindKey(r) PROVE TypeOK'
  BY <1>2 DEF FindKey
<1>3. ASSUME NEW r \in Requests, AuditFailure(r) PROVE TypeOK'
  BY <1>3 DEF AuditFailure, AuditRow
<1>4. ASSUME NEW r \in Requests, MarkUsed(r) PROVE TypeOK'
  BY <1>4 DEF MarkUsed
<1>5. ASSUME NEW r \in Requests, AuditUsed(r) PROVE TypeOK'
  BY <1>5 DEF AuditUsed, AuditRow
<1>6. ASSUME NEW r \in Requests, Handle(r) PROVE TypeOK'
  BY <1>6 DEF Handle
<1>7. ASSUME NEW r \in Requests, CreateEndpoint(r) PROVE TypeOK'
  BY <1>7 DEF CreateEndpoint, RequestInv, KeyChecked
<1>8. ASSUME NEW r \in Requests, FindEndpoint(r) PROVE TypeOK'
  BY <1>8 DEF FindEndpoint
<1>9. ASSUME NEW r \in Requests, FindRoute(r) PROVE TypeOK'
  BY <1>9 DEF FindRoute
<1>10. ASSUME NEW r \in Requests, CreateSend(r) PROVE TypeOK'
  <2> DEFINE row == [key |-> req[r].key, job |-> "null", endpoint |->
                       IF req[r].callback \in Requests THEN req[r].callback ELSE None]
  <2>1. row \in SendRow
    BY <1>10 DEF CreateSend, RequestInv, KeyChecked, SendRow
  <2>2. sends' \in [Requests -> SendRow \cup {None}]
    BY <1>10, <2>1 DEF CreateSend
  <2> QED
    BY <1>10, <2>2 DEF CreateSend
<1>11. ASSUME NEW r \in Requests, Enqueue(r) PROVE TypeOK'
  BY <1>11 DEF Enqueue
<1>12. ASSUME NEW r \in Requests, SetQueueJobId(r) PROVE TypeOK'
  <2>1. sends' \in [Requests -> SendRow \cup {None}]
    BY <1>12, SetJobRow
  <2> QED
    BY <1>12, <2>1 DEF SetQueueJobId
<1>13. ASSUME NEW r \in Requests, CreateHook(r) PROVE TypeOK'
  BY <1>13 DEF CreateHook, RequestInv, WellFormed, Request
<1>14. ASSUME NEW r \in Requests, DbError(r) PROVE TypeOK'
  BY <1>14 DEF DbError, Strike, FaultKinds
<1>15. ASSUME NEW r \in Requests, RedisError(r) PROVE TypeOK'
  BY <1>15 DEF RedisError, Strike, FaultKinds
<1>16. ASSUME NEW a \in Admins, Administer(a) PROVE TypeOK'
  <2>1. ASSUME NEW k \in Keys, CreateKey(a, k) PROVE TypeOK'
    BY <2>1 DEF CreateKey, AdminOnly
  <2>2. ASSUME NEW k \in Keys, BeginRevoke(a, k) PROVE TypeOK'
    BY <2>2 DEF BeginRevoke, AdminOnly, AdminAt, AdminStatements
  <2>3. ASSUME NEW k \in Keys, BeginDelete(a, k) PROVE TypeOK'
    BY <2>3 DEF BeginDelete, AdminOnly, AdminAt, AdminStatements
  <2>4. CASE Revoke(a)
    BY <2>4 DEF Revoke, AdminOnly, AdminAt, AdminStatements
  <2>5. CASE Delete(a)
    BY <2>5 DEF Delete, AdminOnly, AdminAt, AdminStatements
  <2> QED
    BY <1>16, <2>1, <2>2, <2>3, <2>4, <2>5 DEF Administer
<1>17. ASSUME NEW a \in Admins, AdminDbError(a) PROVE TypeOK'
  BY <1>17 DEF AdminDbError, AdminAt, Strike, FaultKinds, AdminStatements
<1>18. CASE Crash
  BY <1>18 DEF Crash, Strike, FaultKinds, AdminStatements
<1>19. CASE UNCHANGED vars
  BY <1>19 DEF vars
<1> QED
  BY <1>1, <1>2, <1>3, <1>4, <1>5, <1>6, <1>7, <1>8, <1>9, <1>10, <1>11, <1>12, <1>13, <1>14,
     <1>15, <1>16, <1>17, <1>18, <1>19 DEF Next, Serve

-----------------------------------------------------------------------------
(* What is known of one request, in a name of its own.                     *)
Known(q) == /\ Untouched(q) /\ WellFormed(q) /\ KeyChecked(q) /\ UseAudited(q)
            /\ EndpointFound(q) /\ RowsOwned(q) /\ LateDenied(q)

THEOREM NextRequests == IInv /\ [Next]_vars => RequestInv'
<1> SUFFICES ASSUME IInv, [Next]_vars, NEW q \in Requests PROVE Known(q)'
  BY DEF Known, RequestInv
<1>0. \A r \in Requests : Known(r)
  BY DEF IInv, RequestInv, Known
<1> USE ClientApiAssumption, NullAssumption
<1> USE DEF IInv, TypeOK, Known, Untouched, WellFormed, KeyChecked, UseAudited,
   EndpointFound, RowsOwned, LateDenied
<1>1. ASSUME NEW r \in Requests, Submit(r) PROVE Known(q)'
  <2>1. CASE q # r
    BY <1>0, <1>1, <2>1 DEF Submit
  <2>2. CASE q = r
    <3>1. PICK op \in Operations, k \in Keys \cup {NoKey}, c \in Callbacks :
            /\ k \in Keys => keys[k] # "absent"
            /\ c \in Requests => op = "raw"
            /\ c = "own" => op = "individual"
            /\ req' = [req EXCEPT ![r] = [op |-> op, key |-> k, callback |-> c]]
            /\ late' = IF k \in Keys /\ keys[k] = "live" THEN late ELSE late \cup {r}
      BY <1>1 DEF Submit
    <3>2. req'[r] = [op |-> op, key |-> k, callback |-> c] /\ req'[r] \in Request
      BY <3>1 DEF Request
    <3>3. pc[r] = "new" /\ pc'[r] = "find_key" /\ UNCHANGED <<tables, admin, faults>>
      BY <1>1 DEF Submit
    <3> QED
      BY <1>0, <2>2, <3>1, <3>2, <3>3 DEF KeyStates
  <2> QED
    BY <2>1, <2>2
<1>2. ASSUME NEW r \in Requests, FindKey(r) PROVE Known(q)'
  BY <1>0, <1>2 DEF FindKey
<1>3. ASSUME NEW r \in Requests, AuditFailure(r) PROVE Known(q)'
  BY <1>0, <1>3 DEF AuditFailure
<1>4. ASSUME NEW r \in Requests, MarkUsed(r) PROVE Known(q)'
  BY <1>0, <1>4 DEF MarkUsed
<1>5. ASSUME NEW r \in Requests, AuditUsed(r) PROVE Known(q)'
  BY <1>0, <1>5 DEF AuditUsed
<1>6. ASSUME NEW r \in Requests, Handle(r) PROVE Known(q)'
  <2>1. CASE q # r
    BY <1>0, <1>6, <2>1 DEF Handle
  <2>2. CASE q = r
    BY <1>0, <1>6, <2>2 DEF Handle, Request, Callbacks
  <2> QED
    BY <2>1, <2>2
<1>7. ASSUME NEW r \in Requests, CreateEndpoint(r) PROVE Known(q)'
  <2>1. pc[r] = "create_endpoint" /\ req[r].key \in Keys /\ r \notin late
    BY <1>0, <1>7 DEF CreateEndpoint
  <2>2. \A p \in Requests \ {r} : endpoints'[p] = endpoints[p]
    BY <1>7 DEF CreateEndpoint
  <2>3. endpoints'[r] \in {endpoints[r], req[r].key}
    BY <1>7 DEF CreateEndpoint
  <2>4. \A p \in Requests : endpoints[p] # None => endpoints'[p] = endpoints[p]
    <3>1. endpoints[r] # None => endpoints[r] = req[r].key
      BY <1>0
    <3> QED
      BY <2>2, <2>3, <3>1
  <2>5. /\ pc'[r] = "done" /\ \A p \in Requests \ {r} : pc'[p] = pc[p]
        /\ UNCHANGED <<keys, sends, queue, hooks, audit, req, late, admin, faults>>
    BY <1>7 DEF CreateEndpoint
  <2>6. CASE q = r
    BY <1>0, <2>1, <2>4, <2>3, <2>5, <2>6 DEF SendRow
  <2>7. CASE q # r
    <3>1. sends[q] # None => sends[q].key \in Keys
      BY DEF SendRow
    <3>2. req[q].callback \in Requests /\ endpoints[req[q].callback] = req[q].key /\
       req[q].key \in Keys
            => endpoints'[req[q].callback] = req[q].key
      BY <2>4
    <3> QED
      BY <1>0, <2>2, <2>5, <2>7, <3>1, <3>2
  <2> QED
    BY <2>6, <2>7
<1>8. ASSUME NEW r \in Requests, FindEndpoint(r) PROVE Known(q)'
  BY <1>0, <1>8 DEF FindEndpoint
<1>9. ASSUME NEW r \in Requests, FindRoute(r) PROVE Known(q)'
  BY <1>0, <1>9 DEF FindRoute
<1>10. ASSUME NEW r \in Requests, CreateSend(r) PROVE Known(q)'
  BY <1>0, <1>10 DEF CreateSend, KeyExists, SendRow
<1>11. ASSUME NEW r \in Requests, Enqueue(r) PROVE Known(q)'
  BY <1>0, <1>11 DEF Enqueue
<1>12. ASSUME NEW r \in Requests, SetQueueJobId(r) PROVE Known(q)'
  <2>1. /\ sends'[r] # None /\ sends[r] # None
        /\ sends'[r].key = sends[r].key /\ sends'[r].endpoint = sends[r].endpoint
        /\ \A p \in Requests \ {r} : sends'[p] = sends[p]
    BY <1>0, <1>12, SetJobRow DEF SetQueueJobId
  <2>2. /\ pc[r] = "set_job" /\ pc' = [pc EXCEPT ![r] = pc'[r]]
        /\ pc'[r] \in {"done", "create_hook"}
        /\ UNCHANGED <<keys, endpoints, queue, hooks, audit, req, late, admin, faults>>
    BY <1>12 DEF SetQueueJobId
  <2>3. CASE q = r
    BY <1>0, <2>1, <2>2, <2>3
  <2>4. CASE q # r
    BY <1>0, <2>1, <2>2, <2>4
  <2> QED
    BY <2>3, <2>4
<1>13. ASSUME NEW r \in Requests, CreateHook(r) PROVE Known(q)'
  BY <1>0, <1>13 DEF CreateHook
<1>14. ASSUME NEW r \in Requests, DbError(r) PROVE Known(q)'
  BY <1>0, <1>14 DEF DbError, Strike, Caught
<1>15. ASSUME NEW r \in Requests, RedisError(r) PROVE Known(q)'
  BY <1>0, <1>15 DEF RedisError, Strike, Caught
<1>16. ASSUME NEW a \in Admins, Administer(a) PROVE Known(q)'
  BY <1>0, <1>16 DEF Administer, CreateKey, BeginRevoke, BeginDelete, Revoke, Delete,
     AdminOnly, AdminAt, AdminInv, KeyStates
<1>17. ASSUME NEW a \in Admins, AdminDbError(a) PROVE Known(q)'
  BY <1>0, <1>17 DEF AdminDbError, AdminAt, Strike
<1>18. CASE Crash
  BY <1>0, <1>18 DEF Crash, Strike
<1>19. CASE UNCHANGED vars
  BY <1>0, <1>19 DEF vars
<1> QED
  BY <1>1, <1>2, <1>3, <1>4, <1>5, <1>6, <1>7, <1>8, <1>9, <1>10, <1>11, <1>12, <1>13,
     <1>14, <1>15, <1>16, <1>17, <1>18, <1>19 DEF Next, Serve

(* An administrator acts on a key that was created.                        *)
THEOREM NextAdmins == IInv /\ [Next]_vars => AdminInv'
<1> SUFFICES ASSUME IInv, [Next]_vars PROVE AdminInv'
  OBVIOUS
<1> USE ClientApiAssumption DEF IInv, TypeOK, AdminInv
<1>1. ASSUME NEW r \in Requests, Submit(r) \/ Serve(r) \/ DbError(r) \/ RedisError(r) PROVE
   AdminInv'
  <2>1. UNCHANGED <<keys, admin>>
    BY <1>1 DEF Serve, Submit, FindKey, AuditFailure, MarkUsed, AuditUsed, Handle, CreateEndpoint,
       FindEndpoint, FindRoute, CreateSend, Enqueue, SetQueueJobId, CreateHook, DbError, RedisError
  <2> QED
    BY <2>1
<1>2. ASSUME NEW a \in Admins, Administer(a) PROVE AdminInv'
  BY <1>2 DEF Administer, CreateKey, BeginRevoke, BeginDelete, Revoke, Delete, AdminAt, KeyStates
<1>3. ASSUME NEW a \in Admins, AdminDbError(a) PROVE AdminInv'
  BY <1>3 DEF AdminDbError, AdminAt
<1>4. CASE Crash
  BY <1>4 DEF Crash
<1>5. CASE UNCHANGED vars
  BY <1>5 DEF vars
<1> QED
  BY <1>1, <1>2, <1>3, <1>4, <1>5 DEF Next

(* The foreign keys hold between the check of a key and its deletion.      *)
THEOREM NextKeysInUse == IInv /\ [Next]_vars => KeysInUseStay'
<1> SUFFICES ASSUME IInv, [Next]_vars, NEW k \in Keys, Referenced(k)'
             PROVE  keys'[k] \in {"live", "revoked"}
  BY DEF KeysInUseStay
<1> USE ClientApiAssumption, NullAssumption DEF IInv, TypeOK, KeysInUseStay
<1>1. ASSUME NEW r \in Requests, CreateEndpoint(r) PROVE keys'[k] \in {"live", "revoked"}
  BY <1>1 DEF CreateEndpoint, KeyExists, Referenced
<1>2. ASSUME NEW r \in Requests, CreateSend(r) PROVE keys'[k] \in {"live", "revoked"}
  BY <1>2 DEF CreateSend, KeyExists, Referenced
<1>3. ASSUME NEW r \in Requests, SetQueueJobId(r) PROVE keys'[k] \in {"live", "revoked"}
  <2>1. UNCHANGED <<keys, endpoints>>
    BY <1>3 DEF SetQueueJobId
  <2>2. sends[r] # None
    BY <1>3 DEF SetQueueJobId, RequestInv, RowsOwned
  <2>3. Referenced(k)
    BY <1>3, <2>1, <2>2, SetJobRow DEF Referenced
  <2> QED
    BY <2>1, <2>3
<1>4. ASSUME NEW r \in Requests,
             Submit(r) \/ FindKey(r) \/ AuditFailure(r) \/ MarkUsed(r) \/ AuditUsed(r) \/ Handle(r)
             \/ FindEndpoint(r) \/ FindRoute(r) \/ Enqueue(r) \/ CreateHook(r) \/ DbError(r)
                \/ RedisError(r)
      PROVE  keys'[k] \in {"live", "revoked"}
  <2>1. UNCHANGED <<keys, sends, endpoints>>
    BY <1>4 DEF Submit, FindKey, AuditFailure, MarkUsed, AuditUsed, Handle, FindEndpoint, FindRoute,
       Enqueue, CreateHook, DbError, RedisError
  <2> QED
    BY <2>1 DEF Referenced
<1>5. ASSUME NEW a \in Admins, Administer(a) PROVE keys'[k] \in {"live", "revoked"}
  <2>1. Referenced(k)
    BY <1>5 DEF Administer, CreateKey, BeginRevoke, BeginDelete, Revoke, Delete, AdminOnly,
       Referenced
  <2> QED
    BY <1>5, <2>1
       DEF Administer, CreateKey, BeginRevoke, BeginDelete, Revoke, Delete, AdminInv, KeyStates
<1>6. ASSUME NEW a \in Admins, AdminDbError(a) PROVE keys'[k] \in {"live", "revoked"}
  BY <1>6 DEF AdminDbError, Referenced
<1>7. CASE Crash
  BY <1>7 DEF Crash, Referenced
<1>8. CASE UNCHANGED vars
  BY <1>8 DEF vars, Referenced
<1> QED
  BY <1>1, <1>2, <1>3, <1>4, <1>5, <1>6, <1>7, <1>8 DEF Next, Serve

-----------------------------------------------------------------------------
THEOREM Inductive == Spec => []IInv
<1>1. IInv /\ [Next]_vars => IInv'
  BY NextTypes, NextRequests, NextAdmins, NextKeysInUse DEF IInv
<1> QED
  BY <1>1, InitInv, PTL DEF Spec

(* Every variable keeps its type: requests, rows and answers are only ever *)
(* what the handlers, the repositories and the routes can produce.         *)
THEOREM TypesHold == Spec => []TypeOK
<1>1. IInv => TypeOK
  BY DEF IInv
<1> QED
  BY <1>1, Inductive, PTL

(* requireApiKey: a request that arrives after its key was revoked or      *)
(* deleted never creates a row or a job, for any number of keys, requests  *)
(* and administrators racing with it.                                      *)
THEOREM RevokedKeysAreDead == Spec => []RevokedKeyCreatesNothing
<1>1. IInv => RevokedKeyCreatesNothing
  BY DEF IInv, TypeOK, RequestInv, LateDenied, RevokedKeyCreatesNothing
<1> QED
  BY <1>1, Inductive, PTL

(* findByIdForApiKey: the result of a send is only ever posted to an       *)
(* endpoint of the client whose key created the send.                      *)
THEOREM CallbacksStay == Spec => []CallbackStaysWithKey
<1>1. IInv => CallbackStaysWithKey
  <2> SUFFICES ASSUME IInv, NEW r \in Requests
               PROVE  /\ sends[r] # None /\ sends[r].endpoint # None
                           => endpoints[sends[r].endpoint] = sends[r].key
                      /\ hooks[r] \in Requests => sends[r] # None /\ hooks[r] = sends[r].endpoint
    BY DEF CallbackStaysWithKey
  <2>1. RowsOwned(r)
    BY DEF IInv, RequestInv
  <2> QED
    BY <2>1 DEF RowsOwned
<1> QED
  BY <1>1, Inductive, PTL

(* The audit row of requireApiKey precedes whatever the handler stores.    *)
THEOREM CreationsAreAudited == Spec => []CreationIsAudited
<1>1. IInv => CreationIsAudited
  BY DEF IInv, RequestInv, UseAudited, CreationIsAudited
<1> QED
  BY <1>1, Inductive, PTL

-----------------------------------------------------------------------------
(***************************************************************************)
(* The answer and the tables.  A request has no row before its insert, no  *)
(* webhook and no answer before its end; what fails under it without       *)
(* Redis or the database failing has inserted nothing.                     *)
(***************************************************************************)
Unanswered(r) == pc[r] # "done" => answer[r] = 0 /\ hooks[r] = None

Queued(r) ==
  /\ pc[r] \notin Stored \cup {"done"} => ~Created(r) /\ r \notin queue
  /\ pc[r] \in {"set_job", "create_hook"} => r \in queue
  /\ pc[r] = "create_hook" => sends[r].job = "set"
  /\ r \in queue => sends[r] # None

Told(r) ==
  /\ answer[r] = 201 => endpoints[r] # None
  /\ answer[r] = 202 => r \in queue /\ sends[r].job = "set" /\ hooks[r] = req[r].callback
  /\ answer[r] \in {400, 401, 500} /\ Quiet({"db_error", "redis_error"}) => ~Created(r)
  /\ sends[r] # None /\ r \notin queue /\ Quiet({"crash", "redis_error"}) => pc[r] = "enqueue"

Accounted(r) == Unanswered(r) /\ Queued(r) /\ Told(r)

AnswerInv == \A r \in Requests : Accounted(r)

(* A fault that struck stays counted.                                      *)
LEMMA StrikeCounts ==
  ASSUME TypeOK, NEW k \in FaultKinds, Strike(k), NEW kinds \in SUBSET FaultKinds
  PROVE  /\ Quiet(kinds)' => Quiet(kinds)
         /\ k \in kinds => ~Quiet(kinds)'
BY DEF TypeOK, Strike, Quiet

(* What another request or an administrator does is not seen in the rows   *)
(* of this one.                                                            *)
LEMMA OthersKeep ==
  ASSUME NEW q \in Requests, Accounted(q),
         pc'[q] = pc[q], answer'[q] = answer[q], sends'[q] = sends[q],
         endpoints'[q] = endpoints[q], hooks'[q] = hooks[q], req'[q] = req[q],
         q \in queue' <=> q \in queue,
         Quiet({"db_error", "redis_error"})' => Quiet({"db_error", "redis_error"}),
         Quiet({"crash", "redis_error"})' => Quiet({"crash", "redis_error"})
  PROVE  Accounted(q)'
BY DEF Accounted, Unanswered, Queued, Told

LEMMA NextAnswers == IInv /\ AnswerInv /\ [Next]_vars => AnswerInv'
<1> SUFFICES ASSUME IInv, AnswerInv, [Next]_vars, NEW q \in Requests PROVE Accounted(q)'
  BY DEF AnswerInv
<1>0. TypeOK /\ Accounted(q) /\ \A r \in Requests : Known(r) /\ Accounted(r)
  BY DEF AnswerInv, IInv, RequestInv, Known
<1> USE NullAssumption
<1>1. ASSUME faults' = faults
      PROVE  /\ Quiet({"db_error", "redis_error"})' => Quiet({"db_error", "redis_error"})
             /\ Quiet({"crash", "redis_error"})' => Quiet({"crash", "redis_error"})
  BY <1>1 DEF Quiet
<1>2. ASSUME NEW r \in Requests, Serve(r) \/ Submit(r), q # r PROVE Accounted(q)'
  <2>1. faults' = faults
    BY <1>2 DEF Serve, Submit, FindKey, AuditFailure, MarkUsed, AuditUsed, Handle,
       CreateEndpoint, FindEndpoint, FindRoute, CreateSend, Enqueue, SetQueueJobId, CreateHook
  <2>2. /\ pc'[q] = pc[q] /\ answer'[q] = answer[q] /\ endpoints'[q] = endpoints[q]
        /\ hooks'[q] = hooks[q] /\ req'[q] = req[q] /\ (q \in queue' <=> q \in queue)
    BY <1>0, <1>2 DEF TypeOK, Serve, Submit, FindKey, AuditFailure, MarkUsed, AuditUsed,
       Handle, CreateEndpoint, FindEndpoint, FindRoute, CreateSend, Enqueue, SetQueueJobId,
       CreateHook
  <2>3. sends'[q] = sends[q]
    BY <1>0, <1>2 DEF TypeOK, Serve, Submit, FindKey, AuditFailure, MarkUsed, AuditUsed,
       Handle, CreateEndpoint, FindEndpoint, FindRoute, CreateSend, Enqueue, SetQueueJobId,
       CreateHook
  <2> QED
    BY <1>0, <1>1, <2>1, <2>2, <2>3, OthersKeep
<1> USE DEF Accounted, Unanswered, Queued, Told
<1>3. ASSUME Submit(q) PROVE Accounted(q)'
  BY <1>0, <1>1, <1>3 DEF Submit, TypeOK
<1>4. ASSUME FindKey(q) PROVE Accounted(q)'
  BY <1>0, <1>1, <1>4 DEF FindKey, TypeOK
<1>5. ASSUME AuditFailure(q) PROVE Accounted(q)'
  BY <1>0, <1>1, <1>5 DEF AuditFailure, TypeOK
<1>6. ASSUME MarkUsed(q) PROVE Accounted(q)'
  BY <1>0, <1>1, <1>6 DEF MarkUsed, TypeOK
<1>7. ASSUME AuditUsed(q) PROVE Accounted(q)'
  BY <1>0, <1>1, <1>7 DEF AuditUsed, TypeOK
<1>8. ASSUME Handle(q) PROVE Accounted(q)'
  BY <1>0, <1>1, <1>8 DEF Handle, TypeOK
<1>9. ASSUME CreateEndpoint(q) PROVE Accounted(q)'
  BY <1>0, <1>1, <1>9 DEF CreateEndpoint, TypeOK, Known, KeyChecked
<1>10. ASSUME FindEndpoint(q) PROVE Accounted(q)'
  BY <1>0, <1>1, <1>10 DEF FindEndpoint, TypeOK
<1>11. ASSUME FindRoute(q) PROVE Accounted(q)'
  BY <1>0, <1>1, <1>11 DEF FindRoute, TypeOK
<1>12. ASSUME CreateSend(q) PROVE Accounted(q)'
  BY <1>0, <1>1, <1>12 DEF CreateSend, TypeOK, SendRow
<1>13. ASSUME Enqueue(q) PROVE Accounted(q)'
  BY <1>0, <1>1, <1>13 DEF Enqueue, TypeOK, Known, RowsOwned
<1>14. ASSUME SetQueueJobId(q) PROVE Accounted(q)'
  <2>a. pc[q] = "set_job" /\ q \in queue /\ hooks[q] = None /\ answer[q] = 0
    BY <1>0, <1>14 DEF SetQueueJobId
  <2>b. sends'[q] # None /\ sends'[q].job = "set"
    BY <1>14, SetJobRow
  <2>1. /\ pc[q] = "set_job" /\ q \in queue /\ hooks[q] = None /\ answer[q] = 0
        /\ sends'[q] # None /\ sends'[q].job = "set"
        /\ UNCHANGED <<keys, endpoints, queue, hooks, audit, req, late, admin, faults>>
    BY <1>14, <2>a, <2>b DEF SetQueueJobId
  <2>2. \/ req[q].callback = None /\ pc'[q] = "done" /\ answer'[q] = 202
        \/ pc'[q] = "create_hook" /\ answer'[q] = 0
    BY <1>0, <1>14, <2>1 DEF SetQueueJobId, TypeOK
  <2> QED
    BY <2>1, <2>2
<1>15. ASSUME CreateHook(q) PROVE Accounted(q)'
  BY <1>0, <1>1, <1>15 DEF CreateHook, TypeOK, Known, RowsOwned
<1>16. ASSUME NEW r \in Requests, DbError(r) \/ RedisError(r) PROVE Accounted(q)'
  BY <1>0, <1>16, StrikeCounts DEF DbError, RedisError, TypeOK, FaultKinds, Known, RowsOwned
<1>17. ASSUME NEW a \in Admins, Administer(a) \/ AdminDbError(a) PROVE Accounted(q)'
  BY <1>0, <1>1, <1>17, StrikeCounts, OthersKeep
     DEF Administer, CreateKey, BeginRevoke, BeginDelete, Revoke, Delete, AdminOnly, AdminDbError,
         FaultKinds
<1>18. CASE Crash
  <2>1. UNCHANGED <<sends, endpoints, hooks, queue, req, answer>>
    BY <1>18 DEF Crash
  <2>2. pc'[q] = IF pc[q] = "new" THEN "new" ELSE "done"
    BY <1>18 DEF Crash
  <2>3. /\ Quiet({"db_error", "redis_error"})' => Quiet({"db_error", "redis_error"})
        /\ ~Quiet({"crash", "redis_error"})'
    BY <1>0, <1>18, StrikeCounts DEF Crash, FaultKinds
  <2>4. CASE pc[q] = "new"
    BY <1>0, <2>1, <2>2, <2>3, <2>4
  <2>5. CASE pc[q] # "new"
    BY <1>0, <2>1, <2>2, <2>3, <2>5
  <2> QED
    BY <2>4, <2>5
<1>19. CASE UNCHANGED vars
  BY <1>0, <1>19 DEF vars, Quiet
<1> QED
  BY <1>2, <1>3, <1>4, <1>5, <1>6, <1>7, <1>8, <1>9, <1>10, <1>11, <1>12, <1>13, <1>14, <1>15,
     <1>16, <1>17, <1>18, <1>19 DEF Next, Serve

LEMMA AnswersInductive == Spec => [](IInv /\ AnswerInv)
<1>1. Init => AnswerInv
  <2> SUFFICES ASSUME Init, NEW r \in Requests PROVE Accounted(r)
    BY DEF AnswerInv
  <2>1. /\ pc[r] = "new" /\ answer[r] = 0 /\ hooks[r] = None /\ sends[r] = None
        /\ endpoints[r] = None /\ queue = {}
    BY DEF Init
  <2> QED
    BY <2>1 DEF Accounted, Unanswered, Queued, Told
<1> QED
  BY <1>1, Inductive, NextAnswers, PTL DEF Spec

(* What a request leaves in the tables and in Redis agrees with what its   *)
(* client was told, at every interleaving and wherever it is cut off.      *)
THEOREM AnswersAreTrue == Spec => []AnswerMatchesRows
<1>1. AnswerInv => AnswerMatchesRows
  <2>1. ASSUME NEW r \in Requests, Accounted(r)
        PROVE  /\ answer[r] = 202 =>
                    r \in queue /\ sends[r].job = "set" /\ hooks[r] = req[r].callback
               /\ answer[r] \in {400, 401, 500} /\ Quiet({"db_error", "redis_error"})
                    => ~Created(r)
               /\ r \in queue => sends[r] # None
               /\ sends[r] # None /\ r \notin queue /\ Quiet({"crash", "redis_error"})
                    => pc[r] = "enqueue"
    BY <2>1 DEF Accounted, Queued, Told
  <2> QED
    BY <2>1, Zenon DEF AnswerInv, AnswerMatchesRows
<1> QED
  BY <1>1, AnswersInductive, PTL

(* The deletion of a key races with requests that passed its check: if it  *)
(* succeeds, no client was ever told that something of its was taken under *)
(* the key, and no row or job is left that names it.                       *)
THEOREM DeletedKeysLeaveNothing == Spec => []DeletedKeyLeavesNothing
<1>1. IInv /\ AnswerInv => DeletedKeyLeavesNothing
  <2> SUFFICES ASSUME IInv, AnswerInv, NEW r \in Requests, req[r].key \in Keys,
                      keys[req[r].key] = "deleted"
               PROVE  ~Created(r) /\ r \notin queue /\ answer[r] \notin {201, 202}
    BY DEF DeletedKeyLeavesNothing
  <2>1. RowsOwned(r) /\ Accounted(r)
    BY DEF IInv, RequestInv, AnswerInv
  <2>2. ~Referenced(req[r].key)
    BY DEF IInv, KeysInUseStay
  <2>3. sends[r] = None /\ endpoints[r] = None
    BY <2>1, <2>2 DEF RowsOwned, Referenced
  <2> QED
    BY <2>1, <2>3 DEF Accounted, Queued, Told
<1> QED
  BY <1>1, AnswersInductive, PTL
=============================================================================
