------------------------- MODULE SendDispatchProofs -------------------------
(***************************************************************************)
(* Theorems about SendDispatch, for every set of sends, workers and        *)
(* chains, every retry budget and every fault budget.                      *)
(***************************************************************************)
EXTENDS SendDispatch, SequenceTheorems, TLAPS

-----------------------------------------------------------------------------
(***************************************************************************)
(* Type correctness.  TypeOK is not inductive alone: the processor takes   *)
(* the head of the chain it iterates, and writes the transport's outcome   *)
(* into an attempt row.                                                    *)
(***************************************************************************)
InLoop == {"number", "insert", "transport", "finish"}

LocalInv ==
  \A w \in Workers :
     /\ pc[w] = "idle" <=> cur[w] = NoSend
     /\ pc[w] \in InLoop => chain[w] # <<>>
     /\ pc[w] = "finish" => outcome[w] \in AttemptStates \ {"started"}

(* Writing the status of one row keeps the table a table, as long.         *)
LEMMA RowStatusWrite ==
  ASSUME NEW rs \in Seq(Attempt), NEW i \in 1 .. Len(rs), NEW o \in AttemptStates
  PROVE  LET new == [rs EXCEPT ![i].status = o] IN
         /\ new \in Seq(Attempt)
         /\ Len(new) = Len(rs)
         /\ new[i].status = o
         /\ \A j \in 1 .. Len(rs) : j # i => new[j] = rs[j]
<1> DEFINE row == [rs[i] EXCEPT !.status = o]
<1>1. rs[i] \in Attempt
  BY ElementOfSeq
<1>2. row \in Attempt /\ row.status = o
  BY <1>1 DEF Attempt
<1>3. [rs EXCEPT ![i].status = o] = [rs EXCEPT ![i] = row]
  BY LenProperties
<1> HIDE DEF row
<1> QED
  BY <1>2, <1>3, ExceptSeq

LEMMA RowStatusType ==
  ASSUME NEW rs \in Seq(Attempt), NEW i, NEW o \in AttemptStates
  PROVE  [rs EXCEPT ![i].status = o] \in Seq(Attempt)
<1>1. CASE i \in 1 .. Len(rs)
  BY <1>1, RowStatusWrite
<1>2. CASE i \notin 1 .. Len(rs)
  <2>1. [rs EXCEPT ![i].status = o] = rs
    BY <1>2, LenProperties
  <2> QED
    BY <2>1
<1> QED
  BY <1>1, <1>2

LEMMA VerdictType == ASSUME NEW w PROVE Verdict(w) \in EventTypes
  BY DEF Verdict, EventTypes, SendStates

THEOREM InitTypes == Init => TypeOK /\ LocalInv
<1> SUFFICES ASSUME Init PROVE TypeOK /\ LocalInv
  OBVIOUS
<1>1. TypeOK
  BY DispatchAssumption
     DEF Init, TypeOK, SendStates, Job, JobStates, Locations, Outcomes, FaultKinds
<1>2. LocalInv
  BY DispatchAssumption DEF Init, LocalInv, InLoop
<1> QED
  BY <1>1, <1>2

LEMMA StalledJobType ==
  ASSUME NEW s \in Sends, job \in [Sends -> Job], Stall(s)
  PROVE  job' \in [Sends -> Job]
<1>1. job[s] \in Job
  OBVIOUS
<1>2. job'[s] = [state   |-> IF job[s].stalled < MaxStalled THEN "waiting" ELSE "failed",
                 made    |-> job[s].made,
                 stalled |-> job[s].stalled + 1,
                 holder  |-> NoWorker]
  BY <1>1 DEF Stall, Job
<1>3. job'[s] \in Job
  BY <1>1, <1>2 DEF Job, JobStates
<1>4. job' = [job EXCEPT ![s] = job'[s]]
  BY DEF Stall
<1> QED
  BY <1>3, <1>4

LEMMA StrikeType ==
  ASSUME NEW k \in FaultKinds, faults \in [FaultKinds -> Nat], Strike(k)
  PROVE  faults' \in [FaultKinds -> Nat]
BY DEF Strike

LEMMA ReleaseTypes ==
  ASSUME TypeOK, LocalInv, NEW w \in Workers, Release(w)
  PROVE  /\ pc' \in [Workers -> Locations]
         /\ cur' \in [Workers -> Sends \cup {NoSend}]
         /\ chain' \in [Workers -> Seq(Nodes)]
         /\ number' \in [Workers -> Nat]
         /\ outcome' \in [Workers -> Outcomes]
         /\ LocalInv'
<1>1. /\ pc' \in [Workers -> Locations]
      /\ cur' \in [Workers -> Sends \cup {NoSend}]
      /\ number' \in [Workers -> Nat]
      /\ outcome' \in [Workers -> Outcomes]
  BY DEF Release, TypeOK, Locations, Outcomes
<1>2. chain' \in [Workers -> Seq(Nodes)]
  BY EmptySeq DEF Release, TypeOK
<1>3. LocalInv'
  BY DEF Release, LocalInv, TypeOK, InLoop
<1> QED
  BY <1>1, <1>2, <1>3

(* A worker with a job in hand works on a send of Sends.                   *)
LEMMA BusyHasSend ==
  ASSUME TypeOK, LocalInv, NEW w \in Workers, pc[w] # "idle"
  PROVE  cur[w] \in Sends
BY DEF TypeOK, LocalInv

THEOREM NextTypes == TypeOK /\ LocalInv /\ [Next]_vars => TypeOK' /\ LocalInv'
<1> SUFFICES ASSUME TypeOK, LocalInv, [Next]_vars PROVE TypeOK' /\ LocalInv'
  OBVIOUS
<1>1. ASSUME NEW s \in Sends, Enqueue(s) PROVE TypeOK' /\ LocalInv'
  BY <1>1 DEF Enqueue, TypeOK, LocalInv, InLoop, rows, locals, Job, JobStates
<1>2. ASSUME NEW s \in Sends, PromoteDelayed(s) PROVE TypeOK' /\ LocalInv'
  BY <1>2 DEF PromoteDelayed, TypeOK, LocalInv, InLoop, rows, locals, Job, JobStates
<1>3. ASSUME NEW s \in Sends, RecoverStalled(s) PROVE TypeOK' /\ LocalInv'
  <2>1. job' \in [Sends -> Job]
    BY <1>3, StalledJobType DEF RecoverStalled, TypeOK
  <2> QED
    BY <1>3, <2>1 DEF RecoverStalled, TypeOK, LocalInv, rows, locals
<1>4. ASSUME NEW w \in Workers, NEW s \in Sends, TakeJob(w, s) PROVE TypeOK' /\ LocalInv'
  <2>1. job' \in [Sends -> Job]
    <3>1. job[s] \in Job
      BY DEF TypeOK
    <3>2. job'[s] = [state |-> "active", made |-> job[s].made,
                     stalled |-> job[s].stalled, holder |-> w]
      BY <1>4, <3>1 DEF TakeJob, TypeOK, Job
    <3>3. job'[s] \in Job
      BY <3>1, <3>2 DEF Job, JobStates
    <3> QED
      BY <1>4, <3>3 DEF TakeJob, TypeOK
  <2>2. cur' \in [Workers -> Sends \cup {NoSend}] /\ pc' \in [Workers -> Locations]
    BY <1>4 DEF TakeJob, TypeOK, Locations, Statements
  <2>3. LocalInv'
    BY <1>4, DispatchAssumption DEF TakeJob, TypeOK, LocalInv, InLoop
  <2> QED
    BY <1>4, <2>1, <2>2, <2>3 DEF TakeJob, TypeOK, rows
<1>5. ASSUME NEW w \in Workers, FindSend(w) PROVE TypeOK' /\ LocalInv'
  BY <1>5 DEF FindSend, Goto, TypeOK, LocalInv, InLoop, rows, locals, Locations, Statements
<1>6. ASSUME NEW w \in Workers, MarkDispatching(w) PROVE TypeOK' /\ LocalInv'
  BY <1>6 DEF MarkDispatching, Goto, TypeOK, LocalInv, InLoop, locals, Locations, Statements,
              SendStates
<1>7. ASSUME NEW w \in Workers, LogDispatching(w) PROVE TypeOK' /\ LocalInv'
  BY <1>7 DEF LogDispatching, Goto, TypeOK, LocalInv, InLoop, locals, Locations, Statements,
              EventTypes, SendStates
<1>8. ASSUME NEW w \in Workers, ResolveRoute(w) PROVE TypeOK' /\ LocalInv'
  BY <1>8, DispatchAssumption
     DEF ResolveRoute, Goto, TypeOK, LocalInv, InLoop, rows, Locations, Statements, Outcomes
<1>9. ASSUME NEW w \in Workers, NextAttemptNumber(w) PROVE TypeOK' /\ LocalInv'
  BY <1>9, BusyHasSend
     DEF NextAttemptNumber, Goto, TypeOK, LocalInv, InLoop, rows, Locations, Statements
<1>10. ASSUME NEW w \in Workers, CreateDispatchAttempt(w) PROVE TypeOK' /\ LocalInv'
  <2>1. pc[w] = "insert" /\ cur[w] \in Sends
    BY <1>10, BusyHasSend DEF CreateDispatchAttempt
  <2>2. attempts' \in [Sends -> Seq(Attempt)]
    <3>1. chain[w] \in Seq(Nodes) /\ chain[w] # <<>>
      BY <2>1 DEF TypeOK, LocalInv, InLoop
    <3>2. Head(chain[w]) \in Nodes
      BY <3>1, HeadTailProperties
    <3>3. [node |-> Head(chain[w]), status |-> "started"] \in Attempt
      BY <3>2 DEF Attempt, AttemptStates
    <3>4. Append(attempts[cur[w]], [node |-> Head(chain[w]), status |-> "started"])
            \in Seq(Attempt)
      BY <2>1, <3>3, AppendProperties DEF TypeOK
    <3> QED
      BY <1>10, <2>1, <3>4 DEF CreateDispatchAttempt, TypeOK
  <2>3. pc' \in [Workers -> Locations] /\ LocalInv'
    BY <1>10, <2>1
       DEF CreateDispatchAttempt, Goto, TypeOK, LocalInv, InLoop, locals, Locations, Statements
  <2> QED
    BY <1>10, <2>2, <2>3 DEF CreateDispatchAttempt, TypeOK, locals
<1>11. ASSUME NEW w \in Workers, Transport(w) PROVE TypeOK' /\ LocalInv'
  BY <1>11, BusyHasSend
     DEF Transport, Goto, TypeOK, LocalInv, InLoop, rows, Locations, Statements, Outcomes,
         AttemptStates
<1>13. ASSUME NEW w \in Workers, WriteVerdict(w) PROVE TypeOK' /\ LocalInv'
  BY <1>13, VerdictType
     DEF WriteVerdict, Goto, TypeOK, LocalInv, InLoop, locals, Locations, Statements, EventTypes
<1>14. ASSUME NEW w \in Workers, LogVerdict(w) PROVE TypeOK' /\ LocalInv'
  BY <1>14, VerdictType
     DEF LogVerdict, Goto, TypeOK, LocalInv, InLoop, locals, Locations, Statements
<1>15. ASSUME NEW w \in Workers, CompleteJob(w) PROVE TypeOK' /\ LocalInv'
  <2>1. job' \in [Sends -> Job]
    <3> DEFINE s == cur[w]
    <3>1. s \in Sends /\ job[s] \in Job
      BY <1>15, BusyHasSend DEF CompleteJob, TypeOK
    <3>2. CASE ~Holds(w, s)
      BY <1>15, <3>2 DEF CompleteJob, TypeOK
    <3>3. CASE Holds(w, s)
      <4>1. job' = [job EXCEPT ![s] = job'[s]]
        BY <1>15, <3>1, <3>3 DEF CompleteJob, TypeOK
      <4>2. job'[s] = [state |-> "completed", made |-> job[s].made,
                       stalled |-> job[s].stalled, holder |-> NoWorker]
        BY <1>15, <3>1, <3>3 DEF CompleteJob, TypeOK, Job
      <4>3. job'[s] \in Job
        BY <3>1, <4>2 DEF Job, JobStates
      <4> QED
        BY <3>1, <4>1, <4>3 DEF TypeOK
    <3> QED
      BY <3>2, <3>3
  <2> QED
    BY <1>15, <2>1, ReleaseTypes DEF CompleteJob, TypeOK, rows
<1>16. ASSUME NEW w \in Workers, FailJob(w) PROVE TypeOK' /\ LocalInv'
  <2>1. job' \in [Sends -> Job]
    <3> DEFINE s == cur[w]
               failed == [state |-> IF job[s].made + 1 < JobAttempts THEN "delayed"
                                                                     ELSE "failed",
                          made |-> job[s].made + 1,
                          stalled |-> job[s].stalled, holder |-> NoWorker]
    <3>1. s \in Sends /\ job[s] \in Job
      BY <1>16, BusyHasSend DEF FailJob, TypeOK
    <3>2. CASE ~Holds(w, s)
      BY <1>16, <3>2 DEF FailJob, TypeOK
    <3>3. CASE Holds(w, s)
      <4>1. job' = [job EXCEPT ![s] = job'[s]]
        BY <1>16, <3>1, <3>3 DEF FailJob, TypeOK
      <4>2. job'[s] = failed
        BY <1>16, <3>1, <3>3 DEF FailJob, TypeOK, Job
      <4>3. job'[s] \in Job
        BY <3>1, <4>2 DEF Job, JobStates
      <4> QED
        BY <3>1, <4>1, <4>3 DEF TypeOK
    <3> QED
      BY <3>2, <3>3
  <2> QED
    BY <1>16, <2>1, ReleaseTypes DEF FailJob, TypeOK, rows
<1>12. ASSUME NEW w \in Workers, FinishAttempt(w) PROVE TypeOK' /\ LocalInv'
  <2>1. pc[w] = "finish" /\ cur[w] \in Sends
    BY <1>12, BusyHasSend DEF FinishAttempt
  <2>2. attempts' \in [Sends -> Seq(Attempt)]
    <3> DEFINE rs == attempts[cur[w]]
               new == [rs EXCEPT ![number[w]].status = outcome[w]]
    <3>1. rs \in Seq(Attempt) /\ outcome[w] \in AttemptStates
      BY <2>1 DEF TypeOK, LocalInv
    <3>2. new \in Seq(Attempt)
      BY <3>1, RowStatusType
    <3>3. attempts' = [attempts EXCEPT ![cur[w]] = new]
      BY <1>12 DEF FinishAttempt
    <3> HIDE DEF new
    <3> QED
      BY <2>1, <3>2, <3>3 DEF TypeOK
  <2>3. chain' \in [Workers -> Seq(Nodes)]
    <3>1. chain[w] \in Seq(Nodes) /\ chain[w] # <<>>
      BY <2>1 DEF TypeOK, LocalInv, InLoop
    <3>2. Tail(chain[w]) \in Seq(Nodes)
      BY <3>1, HeadTailProperties
    <3> QED
      BY <1>12, <3>2 DEF FinishAttempt, TypeOK
  <2>4. LocalInv'
    <3>1. CASE outcome[w] = "failed_transient" /\ Len(chain[w]) > 1
      <4>1. Tail(chain[w]) # <<>>
        <5>1. chain[w] \in Seq(Nodes) /\ chain[w] # <<>>
          BY <2>1 DEF TypeOK, LocalInv, InLoop
        <5>2. Len(Tail(chain[w])) = Len(chain[w]) - 1 /\ Len(chain[w]) \in Nat
          BY <5>1, HeadTailProperties, LenProperties
        <5> QED
          BY <3>1, <5>2, EmptySeq
      <4> QED
        BY <1>12, <2>1, <3>1, <4>1 DEF FinishAttempt, Goto, TypeOK, LocalInv, InLoop
    <3>2. CASE ~(outcome[w] = "failed_transient" /\ Len(chain[w]) > 1)
      BY <1>12, <2>1, <3>2 DEF FinishAttempt, Goto, TypeOK, LocalInv, InLoop
    <3> QED
      BY <3>1, <3>2
  <2> QED
    BY <1>12, <2>2, <2>3, <2>4
       DEF FinishAttempt, Goto, TypeOK, Locations, Statements
<1>17. ASSUME NEW w \in Workers, Crash(w) PROVE TypeOK' /\ LocalInv'
  <2>1. faults' \in [FaultKinds -> Nat]
    BY <1>17, StrikeType DEF Crash, TypeOK, FaultKinds
  <2> QED
    BY <1>17, <2>1, ReleaseTypes DEF Crash, TypeOK, rows
<1>18. ASSUME NEW w \in Workers, DbError(w) PROVE TypeOK' /\ LocalInv'
  <2>1. faults' \in [FaultKinds -> Nat]
    BY <1>18, StrikeType DEF DbError, TypeOK, FaultKinds
  <2> QED
    BY <1>18, <2>1
       DEF DbError, Goto, TypeOK, LocalInv, InLoop, rows, locals, Locations, Statements
<1>19. ASSUME NEW w \in Workers, LoseReply(w) PROVE TypeOK' /\ LocalInv'
  <2>1. faults' \in [FaultKinds -> Nat]
    BY <1>19, StrikeType DEF LoseReply, TypeOK, FaultKinds
  <2>2. copies' \in [Sends -> Nat]
    BY <1>19, BusyHasSend DEF LoseReply, TypeOK
  <2> QED
    BY <1>19, <2>1, <2>2
       DEF LoseReply, Goto, TypeOK, LocalInv, InLoop, rows, Locations, Statements,
           Outcomes, AttemptStates
<1>23. ASSUME NEW w \in Workers, PeerClose(w) PROVE TypeOK' /\ LocalInv'
  <2>1. faults' \in [FaultKinds -> Nat]
    BY <1>23, StrikeType DEF PeerClose, TypeOK, FaultKinds
  <2>2. copies' \in [Sends -> Nat]
    BY <1>23, BusyHasSend DEF PeerClose, TypeOK
  <2> QED
    BY <1>23, <2>1, <2>2
       DEF PeerClose, Goto, TypeOK, LocalInv, InLoop, rows, locals, Locations
<1>20. ASSUME NEW s \in Sends, LoseLock(s) PROVE TypeOK' /\ LocalInv'
  <2>1. job' \in [Sends -> Job] /\ faults' \in [FaultKinds -> Nat]
    BY <1>20, StalledJobType, StrikeType DEF LoseLock, TypeOK, FaultKinds
  <2> QED
    BY <1>20, <2>1 DEF LoseLock, TypeOK, LocalInv, rows, locals
<1>21. ASSUME RedisRestart PROVE TypeOK' /\ LocalInv'
  <2>1. faults' \in [FaultKinds -> Nat]
    BY <1>21, StrikeType DEF RedisRestart, TypeOK, FaultKinds
  <2>2. job' \in [Sends -> Job]
    <3>1. ASSUME NEW s \in Sends
          PROVE  [job[s] EXCEPT !.state = "lost", !.holder = NoWorker] \in Job
      <4>1. job[s] \in Job
        BY DEF TypeOK
      <4> QED
        BY <4>1 DEF Job, JobStates
    <3> QED
      BY <1>21, <3>1 DEF RedisRestart, TypeOK
  <2> QED
    BY <1>21, <2>1, <2>2 DEF RedisRestart, TypeOK, LocalInv, rows, locals
<1>22. CASE UNCHANGED vars
  BY <1>22 DEF vars, TypeOK, LocalInv
<1> QED
  BY <1>1, <1>2, <1>3, <1>4, <1>5, <1>6, <1>7, <1>8, <1>9, <1>10, <1>11, <1>12, <1>13,
     <1>14, <1>15, <1>16, <1>17, <1>18, <1>19, <1>20, <1>21, <1>22, <1>23
     DEF Next, Queue, Processor, Fault

(* Every variable keeps its type along every behaviour.                    *)
THEOREM TypeCorrectness == Spec => []TypeOK
<1>1. Init => TypeOK /\ LocalInv
  BY InitTypes
<1>2. TypeOK /\ LocalInv /\ [Next]_vars => TypeOK' /\ LocalInv'
  BY NextTypes
<1> QED
  BY <1>1, <1>2, PTL DEF Spec

-----------------------------------------------------------------------------
(***************************************************************************)
(* The attempt table, under any faults.  A row being sent is open and has  *)
(* one owner (the unique index on the attempt number sees to that), so a   *)
(* row that finished as accepted is never written again, and the worker    *)
(* that writes acceptedAttempt still finds its row accepted.               *)
(***************************************************************************)
Sending == {"transport", "finish"}

OpenRow ==
  \A w \in Workers :
     pc[w] \in Sending =>
       number[w] \in 1 .. Len(attempts[cur[w]]) /\ attempts[cur[w]][number[w]].status = "started"

OneOwner ==
  \A v, w \in Workers :
     pc[v] \in Sending /\ pc[w] \in Sending /\ cur[v] = cur[w] /\ number[v] = number[w]
       => v = w

AcceptedRow ==
  \A w \in Workers :
     pc[w] \in {"verdict", "log_verdict"} /\ outcome[w] = "accepted" =>
       number[w] \in 1 .. Len(attempts[cur[w]]) /\ attempts[cur[w]][number[w]].status = "accepted"

RowInv == OpenRow /\ OneOwner /\ AcceptedRow /\ AcceptedIsBacked

LEMMA InitRows == Init => RowInv
  BY DEF Init, RowInv, OpenRow, OneOwner, AcceptedRow, AcceptedIsBacked, Sending

(* A step that writes no attempt row, moves no worker into sending or into *)
(* an accepted verdict and leaves the send rows alone keeps RowInv.        *)
LEMMA RowFrame ==
  ASSUME RowInv,
         UNCHANGED <<attempts, acceptedAttempt>>,
         \A s \in Sends : status'[s] = "accepted_by_mta" => status[s] = "accepted_by_mta",
         \A w \in Workers :
            pc'[w] \in Sending \cup {"verdict", "log_verdict"} =>
              \/ /\ cur'[w] = cur[w]
                 /\ number'[w] = number[w]
                 /\ outcome'[w] = outcome[w] \/ pc'[w] = "finish"
                 /\ \/ pc'[w] \in Sending /\ pc[w] \in Sending
                    \/ pc'[w] \notin Sending /\ pc[w] \in {"verdict", "log_verdict"}
              \/ pc'[w] = "verdict" /\ outcome'[w] # "accepted"
  PROVE  RowInv'
BY DEF RowInv, OpenRow, OneOwner, AcceptedRow, AcceptedIsBacked, Sending

THEOREM NextRows == TypeOK /\ LocalInv /\ RowInv /\ [Next]_vars => RowInv'
<1> SUFFICES ASSUME TypeOK, LocalInv, RowInv, [Next]_vars PROVE RowInv'
  OBVIOUS
<1>1. ASSUME NEW s \in Sends, Queue(s) PROVE RowInv'
  BY <1>1, RowFrame
     DEF Queue, Enqueue, PromoteDelayed, RecoverStalled, rows, locals, Sending
<1>2. ASSUME NEW w \in Workers, NEW s \in Sends, TakeJob(w, s) PROVE RowInv'
  BY <1>2, RowFrame DEF TakeJob, rows, TypeOK, Sending
<1>3. ASSUME NEW w \in Workers, FindSend(w) PROVE RowInv'
  BY <1>3, RowFrame DEF FindSend, Goto, rows, locals, TypeOK, Sending
<1>4. ASSUME NEW w \in Workers, MarkDispatching(w) PROVE RowInv'
  BY <1>4, RowFrame, BusyHasSend DEF MarkDispatching, Goto, locals, TypeOK, Sending
<1>5. ASSUME NEW w \in Workers, LogDispatching(w) PROVE RowInv'
  BY <1>5, RowFrame DEF LogDispatching, Goto, locals, TypeOK, Sending
<1>6. ASSUME NEW w \in Workers, ResolveRoute(w) PROVE RowInv'
  BY <1>6, RowFrame DEF ResolveRoute, Goto, rows, TypeOK, Sending
<1>7. ASSUME NEW w \in Workers, NextAttemptNumber(w) PROVE RowInv'
  BY <1>7, RowFrame DEF NextAttemptNumber, Goto, rows, TypeOK, Sending
<1>8. ASSUME NEW w \in Workers, CreateDispatchAttempt(w) PROVE RowInv'
  <2>1. pc[w] = "insert" /\ cur[w] \in Sends
    BY <1>8, BusyHasSend DEF CreateDispatchAttempt
  <2>2. CASE number[w] # Len(attempts[cur[w]]) + 1
    BY <1>8, <2>2, RowFrame DEF CreateDispatchAttempt, Goto, locals, TypeOK, Sending
  <2>3. CASE number[w] = Len(attempts[cur[w]]) + 1
    <3> DEFINE s == cur[w]
               row == [node |-> Head(chain[w]), status |-> "started"]
    <3>1. attempts[s] \in Seq(Attempt) /\ row \in Attempt
      <4>1. chain[w] \in Seq(Nodes) /\ chain[w] # <<>>
        BY <2>1 DEF TypeOK, LocalInv, InLoop
      <4> QED
        BY <2>1, <4>1, HeadTailProperties DEF TypeOK, Attempt, AttemptStates
    <3>2. /\ attempts'[s] = Append(attempts[s], row)
          /\ \A u \in Sends : u # s => attempts'[u] = attempts[u]
      BY <1>8, <2>1, <2>3 DEF CreateDispatchAttempt, TypeOK
    <3>3. /\ Len(attempts[s]) \in Nat
          /\ Len(attempts'[s]) = Len(attempts[s]) + 1
          /\ \A i \in 1 .. Len(attempts[s]) : attempts'[s][i] = attempts[s][i]
          /\ attempts'[s][number[w]] = row
      BY <2>3, <3>1, <3>2, AppendProperties, LenProperties
    <3>4. /\ pc' = [pc EXCEPT ![w] = "transport"]
          /\ UNCHANGED <<status, acceptedAttempt, cur, number, outcome>>
      BY <1>8, <2>3 DEF CreateDispatchAttempt, Goto, locals
    <3>5. \A u \in Sends : \A i \in 1 .. Len(attempts[u]) :
            i \in 1 .. Len(attempts'[u]) /\ attempts'[u][i].status = attempts[u][i].status
      BY <3>2, <3>3
    <3>6. \A v \in Workers : pc[v] # "idle" => cur[v] \in Sends
      BY BusyHasSend
    <3> HIDE DEF s
    <3>7. OpenRow'
      <4> SUFFICES ASSUME NEW v \in Workers, pc'[v] \in Sending
                   PROVE  /\ number'[v] \in 1 .. Len(attempts'[cur'[v]])
                          /\ attempts'[cur'[v]][number'[v]].status = "started"
        BY DEF OpenRow
      <4>1. CASE v = w
        BY <4>1, <2>1, <2>3, <3>3, <3>4 DEF TypeOK, s
      <4>2. CASE v # w
        <5>1. pc[v] \in Sending /\ cur[v] \in Sends
          BY <4>2, <3>4, <3>6 DEF TypeOK, Sending
        <5> QED
          BY <5>1, <3>4, <3>5 DEF RowInv, OpenRow
      <4> QED
        BY <4>1, <4>2
    <3>8. OneOwner'
      <4>1. \A v \in Workers : v # w /\ pc[v] \in Sending /\ cur[v] = cur[w] =>
              number[v] # number[w]
        BY <2>1, <2>3, <3>3 DEF RowInv, OpenRow, s
      <4> QED
        BY <3>4, <4>1 DEF RowInv, OneOwner, Sending, TypeOK
    <3>9. AcceptedRow'
      BY <3>4, <3>5, <3>6 DEF RowInv, AcceptedRow, TypeOK
    <3>10. AcceptedIsBacked'
      BY <3>4, <3>5 DEF RowInv, AcceptedIsBacked, TypeOK
    <3> QED
      BY <3>7, <3>8, <3>9, <3>10 DEF RowInv
  <2> QED
    BY <2>2, <2>3
<1>9. ASSUME NEW w \in Workers, Transport(w) PROVE RowInv'
  BY <1>9, RowFrame DEF Transport, Goto, rows, TypeOK, Sending
<1>10. ASSUME NEW w \in Workers, FinishAttempt(w) PROVE RowInv'
  <2> DEFINE s == cur[w]
             n == number[w]
  <2>1. pc[w] = "finish" /\ s \in Sends
    BY <1>10, BusyHasSend DEF FinishAttempt
  <2>2. /\ attempts[s] \in Seq(Attempt)
        /\ n \in 1 .. Len(attempts[s])
        /\ attempts[s][n].status = "started"
        /\ outcome[w] \in AttemptStates \ {"started"}
    BY <2>1 DEF TypeOK, LocalInv, RowInv, OpenRow, Sending
  <2>3. /\ attempts'[s] = [attempts[s] EXCEPT ![n].status = outcome[w]]
        /\ \A u \in Sends : u # s => attempts'[u] = attempts[u]
    BY <1>10, <2>1 DEF FinishAttempt, TypeOK
  <2>4. /\ Len(attempts'[s]) = Len(attempts[s])
        /\ attempts'[s][n].status = outcome[w]
        /\ \A i \in 1 .. Len(attempts[s]) : i # n => attempts'[s][i].status = attempts[s][i].status
    BY <2>2, <2>3, RowStatusWrite
  <2>5. /\ UNCHANGED <<status, acceptedAttempt, cur, number, outcome>>
        /\ pc' = [pc EXCEPT ![w] = "number"] \/ pc' = [pc EXCEPT ![w] = "verdict"]
        /\ outcome[w] = "accepted" => pc'[w] = "verdict"
    BY <1>10 DEF FinishAttempt, Goto, TypeOK
  <2>6. \A u \in Sends : \A i \in 1 .. Len(attempts[u]) :
          /\ i \in 1 .. Len(attempts'[u])
          /\ u # s \/ i # n => attempts'[u][i].status = attempts[u][i].status
    BY <2>3, <2>4
  <2>7. \A v \in Workers : pc[v] # "idle" => cur[v] \in Sends
    BY BusyHasSend
  <2>8. \A v \in Workers : v # w => pc'[v] = pc[v]
    BY <2>5 DEF TypeOK
  <2>9. pc'[w] \in {"number", "verdict"}
    BY <2>5 DEF TypeOK
  <2>10. OpenRow'
    <3> SUFFICES ASSUME NEW v \in Workers, pc'[v] \in Sending
                 PROVE  /\ number'[v] \in 1 .. Len(attempts'[cur'[v]])
                        /\ attempts'[cur'[v]][number'[v]].status = "started"
      BY DEF OpenRow
    <3>1. v # w /\ pc[v] \in Sending
      BY <2>8, <2>9 DEF Sending
    <3>2. cur[v] # s \/ number[v] # n
      BY <3>1, <2>1 DEF RowInv, OneOwner, Sending
    <3>3. /\ cur[v] \in Sends
          /\ number[v] \in 1 .. Len(attempts[cur[v]])
          /\ attempts[cur[v]][number[v]].status = "started"
      BY <3>1, <2>7 DEF RowInv, OpenRow, Sending
    <3> HIDE DEF s, n
    <3> QED
      BY <3>2, <3>3, <2>5, <2>6
  <2>11. OneOwner'
    BY <2>5, <2>8, <2>9 DEF RowInv, OneOwner, Sending
  <2>12. AcceptedRow'
    <3> SUFFICES ASSUME NEW v \in Workers,
                        pc'[v] \in {"verdict", "log_verdict"}, outcome'[v] = "accepted"
                 PROVE  /\ number'[v] \in 1 .. Len(attempts'[cur'[v]])
                        /\ attempts'[cur'[v]][number'[v]].status = "accepted"
      BY DEF AcceptedRow
    <3>1. CASE v = w
      BY <3>1, <2>2, <2>4, <2>5
    <3>2. CASE v # w
      <4>1. /\ cur[v] \in Sends
            /\ number[v] \in 1 .. Len(attempts[cur[v]])
            /\ attempts[cur[v]][number[v]].status = "accepted"
        BY <3>2, <2>5, <2>7, <2>8 DEF RowInv, AcceptedRow
      <4>2. cur[v] # s \/ number[v] # n
        BY <4>1, <2>2
      <4> HIDE DEF s, n
      <4> QED
        BY <4>1, <4>2, <2>5, <2>6
    <3> QED
      BY <3>1, <3>2
  <2>13. AcceptedIsBacked'
    <3> SUFFICES ASSUME NEW u \in Sends
                 PROVE  /\ status'[u] = "accepted_by_mta" => acceptedAttempt'[u] # 0
                        /\ acceptedAttempt'[u] # 0 =>
                             /\ acceptedAttempt'[u] <= Len(attempts'[u])
                             /\ attempts'[u][acceptedAttempt'[u]].status = "accepted"
      BY DEF AcceptedIsBacked
    <3>1. acceptedAttempt[u] # 0 => acceptedAttempt[u] \in 1 .. Len(attempts[u])
      BY LenProperties DEF RowInv, AcceptedIsBacked, TypeOK
    <3>2. acceptedAttempt[u] # 0 => attempts[u][acceptedAttempt[u]].status = "accepted"
      BY DEF RowInv, AcceptedIsBacked
    <3>3. acceptedAttempt[u] # 0 => u # s \/ acceptedAttempt[u] # n
      BY <3>2, <2>2
    <3>4. status'[u] = "accepted_by_mta" => acceptedAttempt'[u] # 0
      BY <2>5 DEF RowInv, AcceptedIsBacked
    <3> HIDE DEF s, n
    <3> QED
      BY <3>1, <3>2, <3>3, <3>4, <2>5, <2>6
  <2> QED
    BY <2>10, <2>11, <2>12, <2>13 DEF RowInv
<1>11. ASSUME NEW w \in Workers, WriteVerdict(w) PROVE RowInv'
  <2>1. pc[w] = "verdict" /\ cur[w] \in Sends
    BY <1>11, BusyHasSend DEF WriteVerdict
  <2>2. /\ UNCHANGED <<attempts, cur, number, outcome>>
        /\ pc' = [pc EXCEPT ![w] = "log_verdict"]
        /\ status' = [status EXCEPT ![cur[w]] = Verdict(w)]
    BY <1>11 DEF WriteVerdict, Goto, locals
  <2>3. OpenRow' /\ OneOwner' /\ AcceptedRow'
    BY <2>1, <2>2 DEF RowInv, OpenRow, OneOwner, AcceptedRow, Sending, TypeOK
  <2>4. Verdict(w) = "accepted_by_mta" <=> outcome[w] = "accepted"
    BY DEF Verdict
  <2>5. AcceptedIsBacked'
    <3>1. CASE outcome[w] = "accepted"
      <4>1. acceptedAttempt' = [acceptedAttempt EXCEPT ![cur[w]] = number[w]]
        BY <1>11, <2>4, <3>1 DEF WriteVerdict
      <4>2. number[w] \in 1 .. Len(attempts[cur[w]]) /\ attempts[cur[w]][number[w]].status = "accepted"
        BY <2>1, <3>1 DEF RowInv, AcceptedRow
      <4>3. number[w] # 0 /\ number[w] <= Len(attempts[cur[w]])
        BY <4>2
      <4> QED
        BY <2>1, <2>2, <4>1, <4>2, <4>3 DEF RowInv, AcceptedIsBacked, TypeOK
    <3>2. CASE outcome[w] # "accepted"
      BY <1>11, <2>1, <2>2, <2>4, <3>2 DEF WriteVerdict, RowInv, AcceptedIsBacked, TypeOK
    <3> QED
      BY <3>1, <3>2
  <2> QED
    BY <2>3, <2>5 DEF RowInv
<1>12. ASSUME NEW w \in Workers, LogVerdict(w) PROVE RowInv'
  BY <1>12, RowFrame DEF LogVerdict, Goto, locals, TypeOK, Sending
<1>13. ASSUME NEW w \in Workers, CompleteJob(w) \/ FailJob(w) \/ Crash(w) PROVE RowInv'
  BY <1>13, RowFrame DEF CompleteJob, FailJob, Crash, Release, rows, TypeOK, Sending
<1>14. ASSUME NEW w \in Workers, DbError(w) PROVE RowInv'
  BY <1>14, RowFrame DEF DbError, Goto, rows, locals, TypeOK, Sending
<1>15. ASSUME NEW w \in Workers, LoseReply(w) PROVE RowInv'
  BY <1>15, RowFrame DEF LoseReply, Goto, rows, TypeOK, Sending
<1>18. ASSUME NEW w \in Workers, PeerClose(w) PROVE RowInv'
  BY <1>18, RowFrame DEF PeerClose, Goto, rows, locals, TypeOK, Sending
<1>16. ASSUME NEW s \in Sends, LoseLock(s) PROVE RowInv'
  BY <1>16, RowFrame DEF LoseLock, rows, locals, Sending
<1>17. CASE RedisRestart \/ UNCHANGED vars
  BY <1>17, RowFrame DEF RedisRestart, rows, locals, vars, Sending
<1> QED
  BY <1>1, <1>2, <1>3, <1>4, <1>5, <1>6, <1>7, <1>8, <1>9, <1>10, <1>11, <1>12, <1>13,
     <1>14, <1>15, <1>16, <1>17, <1>18 DEF Next, Processor, Fault

(* Whatever crashes, lost locks, errors and restarts happen, a send shown  *)
(* as accepted names an attempt of its own that a relay accepted.          *)
THEOREM AcceptedSendsAreBacked == Spec => []AcceptedIsBacked
<1>1. Init => TypeOK /\ LocalInv /\ RowInv
  BY InitTypes, InitRows
<1>2. TypeOK /\ LocalInv /\ RowInv /\ [Next]_vars => (TypeOK /\ LocalInv /\ RowInv)'
  BY NextTypes, NextRows
<1>3. RowInv => AcceptedIsBacked
  BY DEF RowInv
<1> QED
  BY <1>1, <1>2, <1>3, PTL DEF Spec

-----------------------------------------------------------------------------
(***************************************************************************)
(* One run at a time.  While no lock is lost, a worker with a send in hand *)
(* holds its job, or Redis has forgotten the job, which then never leaves  *)
(* "lost": either way no other worker can take it.                         *)
(***************************************************************************)
RunHoldsJob ==
  \A w \in Workers :
     cur[w] # NoSend => Holds(w, cur[w]) \/ job[cur[w]].state = "lost"

OneRun == \A v, w \in Workers : cur[v] = cur[w] /\ cur[v] # NoSend => v = w

LockInv == Quiet({"lock_lost"}) => RunHoldsJob /\ OneRun

(* Faults only accumulate: a quiet step starts from a quiet state.         *)
LEMMA QuietBefore ==
  ASSUME TypeOK, [Next]_vars, NEW K \in SUBSET FaultKinds, Quiet(K)'
  PROVE  Quiet(K)
<1>1. faults' = faults \/ \E k \in FaultKinds : faults' = [faults EXCEPT ![k] = @ + 1]
  BY DEF Next, vars, Queue, Enqueue, PromoteDelayed, RecoverStalled, TakeJob, Processor,
         FindSend, MarkDispatching, LogDispatching, ResolveRoute, NextAttemptNumber,
         CreateDispatchAttempt, Transport, FinishAttempt, WriteVerdict, LogVerdict,
         CompleteJob, FailJob, Fault, Crash, DbError, LoseReply, PeerClose, LoseLock,
         RedisRestart, Strike, FaultKinds
<1>2. CASE faults' = faults
  BY <1>2 DEF Quiet
<1>3. ASSUME NEW k \in FaultKinds, faults' = [faults EXCEPT ![k] = @ + 1]
      PROVE  Quiet(K)
  BY <1>3 DEF Quiet, TypeOK
<1> QED
  BY <1>1, <1>2, <1>3

(* Steps that touch neither the queue nor what a worker has in hand.       *)
LEMMA LockFrame ==
  ASSUME RunHoldsJob, OneRun, UNCHANGED <<job, cur>>
  PROVE  RunHoldsJob' /\ OneRun'
BY DEF RunHoldsJob, OneRun, Holds

LEMMA NextLocks == TypeOK /\ LocalInv /\ LockInv /\ [Next]_vars => LockInv'
<1> SUFFICES ASSUME TypeOK, LocalInv, LockInv, [Next]_vars, Quiet({"lock_lost"})'
             PROVE  RunHoldsJob' /\ OneRun'
  BY DEF LockInv
<1>0. Quiet({"lock_lost"}) /\ RunHoldsJob /\ OneRun
  <2>1. {"lock_lost"} \in SUBSET FaultKinds
    BY DEF FaultKinds
  <2>2. Quiet({"lock_lost"})
    BY <2>1, QuietBefore
  <2> QED
    BY <2>2 DEF LockInv
<1>1. ASSUME NEW s \in Sends, Queue(s) PROVE RunHoldsJob' /\ OneRun'
  <2>1. cur' = cur
    BY <1>1 DEF Queue, Enqueue, PromoteDelayed, RecoverStalled, locals
  <2>2. ASSUME NEW w \in Workers, cur[w] = s PROVE job[s].state \in {"active", "lost"}
    BY <1>0, <2>2, DispatchAssumption DEF RunHoldsJob, Holds
  <2>3. ASSUME NEW w \in Workers, cur[w] = s, job[s].state = "active" PROVE RunIsAlive(s)
    BY <1>0, <2>3, DispatchAssumption DEF RunHoldsJob, RunIsAlive
  <2>4. \A w \in Workers : cur[w] # s
    BY <1>1, <2>2, <2>3 DEF Queue, Enqueue, PromoteDelayed, RecoverStalled
  <2>5. \A u \in Sends : u # s => job'[u] = job[u]
    BY <1>1 DEF Queue, Enqueue, PromoteDelayed, RecoverStalled, Stall, TypeOK
  <2> QED
    BY <1>0, <2>1, <2>4, <2>5 DEF RunHoldsJob, OneRun, Holds, TypeOK
<1>2. ASSUME NEW w \in Workers, NEW s \in Sends, TakeJob(w, s)
      PROVE  RunHoldsJob' /\ OneRun'
  <2>1. \A v \in Workers : cur[v] # s
    BY <1>0, <1>2, DispatchAssumption DEF TakeJob, RunHoldsJob, Holds
  <2>2. /\ cur' = [cur EXCEPT ![w] = s]
        /\ job'[s].state = "active" /\ job'[s].holder = w
        /\ \A u \in Sends : u # s => job'[u] = job[u]
    BY <1>2 DEF TakeJob, TypeOK, Job
  <2> QED
    BY <1>0, <2>1, <2>2 DEF RunHoldsJob, OneRun, Holds, TypeOK
<1>3. ASSUME NEW w \in Workers, CompleteJob(w) \/ FailJob(w)
      PROVE  RunHoldsJob' /\ OneRun'
  <2>1. cur[w] \in Sends /\ cur' = [cur EXCEPT ![w] = NoSend]
    BY <1>3, BusyHasSend DEF CompleteJob, FailJob, Release
  <2>2. \A u \in Sends : u # cur[w] => job'[u] = job[u]
    BY <1>3, <2>1 DEF CompleteJob, FailJob, TypeOK
  <2>3. \A v \in Workers : v # w => cur[v] # cur[w]
    BY <1>0, <2>1, DispatchAssumption DEF OneRun
  <2> QED
    BY <1>0, <2>1, <2>2, <2>3 DEF RunHoldsJob, OneRun, Holds, TypeOK
<1>4. ASSUME NEW w \in Workers, Crash(w) PROVE RunHoldsJob' /\ OneRun'
  BY <1>0, <1>4 DEF Crash, Release, RunHoldsJob, OneRun, Holds, TypeOK
<1>5. CASE RedisRestart
  <2>1. \A s \in Sends : job[s].state # "absent" => job'[s].state = "lost"
    BY <1>5 DEF RedisRestart, TypeOK, Job
  <2>2. cur' = cur
    BY <1>5 DEF RedisRestart, locals
  <2> QED
    BY <1>0, <2>1, <2>2 DEF RunHoldsJob, OneRun, Holds, TypeOK
<1>6. ASSUME NEW s \in Sends, LoseLock(s) PROVE FALSE
  BY <1>0, <1>6 DEF LoseLock, Strike, Quiet, TypeOK, FaultKinds
<1>7. ASSUME NEW w \in Workers,
             \/ FindSend(w) \/ MarkDispatching(w) \/ LogDispatching(w) \/ ResolveRoute(w)
             \/ NextAttemptNumber(w) \/ CreateDispatchAttempt(w) \/ Transport(w)
             \/ FinishAttempt(w) \/ WriteVerdict(w) \/ LogVerdict(w) \/ DbError(w)
             \/ LoseReply(w) \/ PeerClose(w)
      PROVE  RunHoldsJob' /\ OneRun'
  <2>1. UNCHANGED <<job, cur>>
    BY <1>7 DEF FindSend, MarkDispatching, LogDispatching, ResolveRoute,
         NextAttemptNumber, CreateDispatchAttempt, Transport, FinishAttempt, WriteVerdict,
         LogVerdict, DbError, LoseReply, PeerClose, locals
  <2> QED
    BY <1>0, <2>1, LockFrame
<1>8. CASE UNCHANGED vars
  BY <1>0, <1>8, LockFrame DEF vars
<1> QED
  BY <1>1, <1>2, <1>3, <1>4, <1>5, <1>6, <1>7, <1>8 DEF Next, Processor, Fault

(* Unless a live worker loses its lock, no two workers ever have the same  *)
(* send in hand: crashes, stalled-job recovery, retries and a Redis        *)
(* restart never start a run beside another.                               *)
THEOREM RunsAreExclusive == Spec => []ExclusiveRun
<1>1. Init => TypeOK /\ LocalInv /\ LockInv
  <2>1. Init => LockInv
    BY DEF Init, LockInv, RunHoldsJob, OneRun
  <2> QED
    BY <2>1, InitTypes
<1>2. TypeOK /\ LocalInv /\ LockInv /\ [Next]_vars => (TypeOK /\ LocalInv /\ LockInv)'
  BY NextTypes, NextLocks
<1>3. LockInv => ExclusiveRun
  BY DEF LockInv, ExclusiveRun, OneRun
<1> QED
  BY <1>1, <1>2, <1>3, PTL DEF Spec

-----------------------------------------------------------------------------
(***************************************************************************)
(* What ties the statement a worker is at to the row of its send: what     *)
(* holds while no run is interrupted, and how the two retry budgets fit    *)
(* together.                                                               *)
(***************************************************************************)
(***************************************************************************)
(* While no run is interrupted.  Fresh is what the queue hands out again;  *)
(* a mail is unsent until the transport's answer, and a send at rest shows *)
(* what its last run did.                                                  *)
(***************************************************************************)
Fresh == {"queued", "deferred"}
Working == {"log_dispatching", "route", "number", "insert", "transport", "finish", "verdict"}
Unsent == {"find", "mark_dispatching", "log_dispatching", "route", "number", "insert",
           "transport"}
Sent == {"finish", "verdict", "log_verdict"}

RunState(w) ==
  LET s == cur[w] IN
  /\ pc[w] # "hung"
  /\ pc[w] \in {"find", "mark_dispatching"} => status[s] \in Fresh
  /\ pc[w] \in Working => status[s] = "dispatching"
  /\ pc[w] = "log_verdict" => status[s] = Verdict(w)
  /\ pc[w] = "throw" => status[s] = "deferred"
  /\ pc[w] = "return" => status[s] \notin Fresh
  /\ pc[w] \in {"throw", "return"} => status[s] \in log[s]
  /\ pc[w] \in Unsent \cup {"throw"} => copies[s] = 0
  /\ pc[w] \in Sent => copies[s] <= 1 /\ (copies[s] > 0 => outcome[w] = "accepted")
  /\ pc[w] = "return" => copies[s] <= 1 /\ (copies[s] > 0 => status[s] = "accepted_by_mta")
  /\ pc[w] = "insert" => number[w] = Len(attempts[s]) + 1

RestState(s) ==
  ~RunningOn(s) =>
    /\ status[s] \in log[s] \cup {"queued"}
    /\ copies[s] <= 1
    /\ copies[s] > 0 => status[s] = "accepted_by_mta"
    /\ job[s].state \in {"absent", "waiting", "delayed"} =>
         status[s] \in Fresh /\ copies[s] = 0

ActiveRuns == \A s \in Sends : job[s].state = "active" => RunIsAlive(s)

RunsAndRests ==
  /\ \A w \in Workers : pc[w] # "idle" => RunState(w)
  /\ \A s \in Sends : RestState(s)
  /\ ActiveRuns

StatusInv == Undisturbed => RunsAndRests

IInv == TypeOK /\ LocalInv /\ LockInv /\ StatusInv

-----------------------------------------------------------------------------
(***************************************************************************)
(* What a statement of the processor leaves alone.                         *)
(***************************************************************************)
OwnStep(w) ==
  /\ pc[w] # "idle"
  /\ UNCHANGED <<job, cur>>
  /\ \A v \in Workers \ {w} :
       /\ pc'[v] = pc[v] /\ chain'[v] = chain[v]
       /\ number'[v] = number[v] /\ outcome'[v] = outcome[v]
  /\ \A u \in Sends \ {cur[w]} :
       /\ status'[u] = status[u] /\ log'[u] = log[u]
       /\ attempts'[u] = attempts[u] /\ copies'[u] = copies[u]
       /\ acceptedAttempt'[u] = acceptedAttempt[u]

Statement(w) ==
  \/ FindSend(w) \/ MarkDispatching(w) \/ LogDispatching(w) \/ ResolveRoute(w)
  \/ NextAttemptNumber(w) \/ CreateDispatchAttempt(w) \/ Transport(w)
  \/ FinishAttempt(w) \/ WriteVerdict(w) \/ LogVerdict(w)

LEMMA StatementIsOwnStep ==
  ASSUME TypeOK, LocalInv, NEW w \in Workers,
         Statement(w) \/ DbError(w) \/ LoseReply(w) \/ PeerClose(w)
  PROVE  OwnStep(w)
<1>1. CASE FindSend(w) \/ MarkDispatching(w) \/ LogDispatching(w) \/ ResolveRoute(w)
  BY <1>1, BusyHasSend
     DEF FindSend, MarkDispatching, LogDispatching, ResolveRoute, OwnStep, Goto, TypeOK, rows, locals
<1>2. CASE NextAttemptNumber(w) \/ CreateDispatchAttempt(w) \/ Transport(w)
  BY <1>2, BusyHasSend
     DEF NextAttemptNumber, CreateDispatchAttempt, Transport, OwnStep, Goto, TypeOK, rows, locals
<1>3. CASE FinishAttempt(w)
  <2>1. cur[w] \in Sends /\ pc[w] # "idle"
    BY <1>3, BusyHasSend DEF FinishAttempt
  <2>2. \A u \in Sends \ {cur[w]} : attempts'[u] = attempts[u]
    BY <1>3, <2>1 DEF FinishAttempt, TypeOK
  <2>3. /\ UNCHANGED <<job, cur, status, acceptedAttempt, log, copies, number, outcome>>
        /\ \A v \in Workers \ {w} : pc'[v] = pc[v] /\ chain'[v] = chain[v]
    BY <1>3 DEF FinishAttempt, Goto, TypeOK
  <2> QED
    BY <2>1, <2>2, <2>3 DEF OwnStep
<1>4. CASE WriteVerdict(w) \/ LogVerdict(w)
  BY <1>4, BusyHasSend DEF WriteVerdict, LogVerdict, OwnStep, Goto, TypeOK, locals
<1>5. CASE DbError(w)
  BY <1>5, BusyHasSend DEF DbError, OwnStep, Goto, TypeOK, rows, locals, Statements
<1>6. CASE LoseReply(w)
  BY <1>6, BusyHasSend DEF LoseReply, OwnStep, Goto, TypeOK, rows
<1>7. CASE PeerClose(w)
  BY <1>7, BusyHasSend DEF PeerClose, OwnStep, Goto, TypeOK, rows, locals
<1> QED
  BY <1>1, <1>2, <1>3, <1>4, <1>5, <1>6, <1>7 DEF Statement

(* The only fault that interrupts no run is the restart of Redis.          *)
LEMMA UndisturbedSteps ==
  ASSUME TypeOK, [Next]_vars, Undisturbed'
  PROVE  /\ Undisturbed /\ Quiet({"lock_lost"})
         /\ \/ \E s \in Sends : Enqueue(s) \/ PromoteDelayed(s) \/ RecoverStalled(s)
            \/ \E w \in Workers, s \in Sends : TakeJob(w, s)
            \/ \E w \in Workers : Statement(w) \/ CompleteJob(w) \/ FailJob(w)
            \/ RedisRestart
            \/ UNCHANGED vars
<1>1. Undisturbed
  BY QuietBefore DEF Undisturbed, FaultKinds
<1>2. ASSUME NEW k \in FaultKinds \ {"redis_restart"}, Strike(k) PROVE FALSE
  BY <1>2 DEF Strike, Undisturbed, Quiet, TypeOK
<1>3. ASSUME NEW w \in Workers, Crash(w) \/ DbError(w) \/ LoseReply(w) \/ PeerClose(w) PROVE FALSE
  BY <1>2, <1>3 DEF Crash, DbError, LoseReply, PeerClose, FaultKinds
<1>4. ASSUME NEW s \in Sends, LoseLock(s) PROVE FALSE
  BY <1>2, <1>4 DEF LoseLock, FaultKinds
<1> QED
  BY <1>1, <1>3, <1>4 DEF Next, Queue, Processor, Fault, Statement, Undisturbed, Quiet, FaultKinds

(* Such a statement disturbs no other run and no send at rest.             *)
LEMMA StatusFrame ==
  ASSUME TypeOK, LocalInv, OneRun, RunsAndRests, NEW w \in Workers, OwnStep(w), RunState(w)'
  PROVE  RunsAndRests'
<1>1. cur[w] \in Sends /\ cur[w] # NoSend
  BY BusyHasSend, DispatchAssumption DEF OwnStep
<1>2. ASSUME NEW v \in Workers, pc'[v] # "idle" PROVE RunState(v)'
  <2>1. CASE v # w
    <3>1. pc'[v] = pc[v] /\ cur'[v] = cur[v] /\ Verdict(v)' = Verdict(v)
          /\ number'[v] = number[v] /\ outcome'[v] = outcome[v]
      BY <2>1 DEF OwnStep, Verdict
    <3>2. cur[v] \in Sends /\ cur[v] # cur[w]
      BY <1>1, <1>2, <2>1, <3>1, BusyHasSend DEF OneRun
    <3>3. /\ status'[cur[v]] = status[cur[v]] /\ log'[cur[v]] = log[cur[v]]
          /\ attempts'[cur[v]] = attempts[cur[v]] /\ copies'[cur[v]] = copies[cur[v]]
      BY <3>2 DEF OwnStep
    <3>4. RunState(v)
      BY <1>2, <3>1 DEF RunsAndRests
    <3> QED
      BY <3>1, <3>3, <3>4 DEF RunState
  <2> QED
    BY <2>1
<1>3. ASSUME NEW u \in Sends PROVE RestState(u)'
  <2>1. CASE u = cur[w]
    BY <2>1 DEF RestState, RunningOn, OwnStep
  <2>2. CASE u # cur[w]
    <3>1. /\ status'[u] = status[u] /\ log'[u] = log[u] /\ copies'[u] = copies[u]
          /\ job' = job /\ cur' = cur
      BY <2>2 DEF OwnStep
    <3> QED
      BY <3>1 DEF RunsAndRests, RestState, RunningOn
  <2> QED
    BY <2>1, <2>2
<1>4. ActiveRuns'
  BY DEF RunsAndRests, ActiveRuns, RunIsAlive, Holds, OwnStep
<1> QED
  BY <1>2, <1>3, <1>4 DEF RunsAndRests

(* The run's own statements.                                               *)
LEMMA StatementKeepsRun ==
  ASSUME TypeOK, LocalInv, NEW w \in Workers, pc[w] # "idle", RunState(w), Statement(w)
  PROVE  RunState(w)'
<1> DEFINE s == cur[w]
<1>0. s \in Sends /\ copies[s] \in Nat
  BY BusyHasSend DEF TypeOK
<1> USE DEF RunState, Unsent, Sent, Working, Fresh
<1>1. CASE FindSend(w)
  BY <1>0, <1>1 DEF FindSend, Goto, TypeOK, rows, locals, SkippedStates
<1>2. CASE MarkDispatching(w)
  BY <1>0, <1>2 DEF MarkDispatching, Goto, TypeOK, locals
<1>3. CASE LogDispatching(w)
  BY <1>0, <1>3 DEF LogDispatching, Goto, TypeOK, locals
<1>4. CASE ResolveRoute(w)
  BY <1>0, <1>4 DEF ResolveRoute, Goto, TypeOK, rows
<1>5. CASE NextAttemptNumber(w)
  BY <1>0, <1>5 DEF NextAttemptNumber, Goto, TypeOK, rows
<1>6. CASE CreateDispatchAttempt(w)
  BY <1>0, <1>6 DEF CreateDispatchAttempt, Goto, TypeOK, locals
<1>7. CASE Transport(w)
  BY <1>0, <1>7 DEF Transport, Goto, TypeOK, rows
<1>8. CASE FinishAttempt(w)
  BY <1>0, <1>8 DEF FinishAttempt, Goto, TypeOK
<1>9. CASE WriteVerdict(w)
  <2>1. Verdict(w)' = Verdict(w) /\ status'[s] = Verdict(w)
    BY <1>0, <1>9 DEF WriteVerdict, Verdict, TypeOK, locals
  <2> QED
    BY <1>0, <1>9, <2>1 DEF WriteVerdict, Goto, TypeOK, locals
<1>10. CASE LogVerdict(w)
  <2>1. /\ status[s] = Verdict(w) /\ status' = status /\ Verdict(w) \in log'[s]
        /\ copies' = copies /\ cur' = cur
        /\ pc'[w] = IF Verdict(w) = "deferred" THEN "throw" ELSE "return"
    BY <1>0, <1>10 DEF LogVerdict, Goto, TypeOK, locals
  <2>2. /\ Verdict(w) # "queued"
        /\ outcome[w] = "accepted" => Verdict(w) = "accepted_by_mta"
    BY DEF Verdict
  <2>3. copies[s] <= 1 /\ (copies[s] > 0 => outcome[w] = "accepted")
    BY <1>10 DEF LogVerdict
  <2>4. Verdict(w) = "deferred" => copies[s] = 0
    BY <1>0, <2>2, <2>3
  <2> QED
    BY <2>1, <2>2, <2>3, <2>4
<1> QED
  BY <1>1, <1>2, <1>3, <1>4, <1>5, <1>6, <1>7, <1>8, <1>9, <1>10 DEF Statement

THEOREM NextStatus == IInv /\ [Next]_vars => StatusInv'
<1> SUFFICES ASSUME IInv, [Next]_vars, Undisturbed' PROVE RunsAndRests'
  BY DEF StatusInv
<1>0. /\ TypeOK /\ LocalInv /\ RunHoldsJob /\ OneRun /\ RunsAndRests
      /\ job \in [Sends -> Job]
  BY UndisturbedSteps DEF IInv, LockInv, StatusInv, TypeOK
<1>1. ASSUME NEW w \in Workers, Statement(w) PROVE RunsAndRests'
  <2>1. OwnStep(w)
    BY <1>0, <1>1, StatementIsOwnStep
  <2>2. RunState(w)'
    BY <1>0, <1>1, <2>1, StatementKeepsRun DEF RunsAndRests, OwnStep
  <2> QED
    BY <1>0, <2>1, <2>2, StatusFrame
<1>2. ASSUME NEW s \in Sends, Enqueue(s) \/ PromoteDelayed(s) PROVE RunsAndRests'
  <2>1. /\ UNCHANGED <<status, log, attempts, copies, pc, cur, number, outcome>>
        /\ job[s].state \in {"absent", "delayed"} /\ job'[s].state = "waiting"
        /\ \A u \in Sends \ {s} : job'[u] = job[u]
    BY <1>0, <1>2 DEF Enqueue, PromoteDelayed, rows, locals, Job
  <2>2. \A v \in Workers : RunState(v) => RunState(v)'
    BY <2>1 DEF RunState, Verdict
  <2>3. \A u \in Sends : RestState(u)'
    BY <1>0, <2>1 DEF RunsAndRests, RestState, RunningOn
  <2>4. ActiveRuns'
    BY <1>0, <2>1 DEF RunsAndRests, ActiveRuns, RunIsAlive, Holds
  <2> QED
    BY <1>0, <2>1, <2>2, <2>3, <2>4 DEF RunsAndRests
<1>3. ASSUME NEW s \in Sends, RecoverStalled(s) PROVE FALSE
  BY <1>0, <1>3 DEF RecoverStalled, RunsAndRests, ActiveRuns
<1>4. ASSUME NEW w \in Workers, NEW s \in Sends, TakeJob(w, s) PROVE RunsAndRests'
  <2>1. /\ UNCHANGED <<status, log, attempts, copies, number, outcome>>
        /\ pc[w] = "idle" /\ job[s].state = "waiting"
        /\ pc' = [pc EXCEPT ![w] = "find"] /\ cur' = [cur EXCEPT ![w] = s]
        /\ job'[s].state = "active" /\ job'[s].holder = w
        /\ \A u \in Sends \ {s} : job'[u] = job[u]
    BY <1>0, <1>4 DEF TakeJob, rows, Job
  <2>2. ~RunningOn(s)
    BY <1>0, <2>1, DispatchAssumption DEF RunHoldsJob, RunningOn, Holds
  <2>3. status[s] \in Fresh /\ copies[s] = 0
    BY <1>0, <2>1, <2>2 DEF RunsAndRests, RestState
  <2>4. RunState(w)'
    BY <1>0, <2>1, <2>3 DEF RunState, TypeOK, Unsent, Sent, Working
  <2>5. ASSUME NEW v \in Workers, v # w, pc'[v] # "idle" PROVE RunState(v)'
    <3>1. RunState(v) /\ pc'[v] = pc[v] /\ cur'[v] = cur[v] /\ Verdict(v)' = Verdict(v)
      BY <1>0, <2>1, <2>5 DEF RunsAndRests, TypeOK, Verdict
    <3> QED
      BY <2>1, <3>1 DEF RunState
  <2>6. ASSUME NEW u \in Sends PROVE RestState(u)'
    <3>1. CASE u = s
      BY <1>0, <2>1, <3>1 DEF RestState, RunningOn, TypeOK
    <3>2. CASE u # s
      <4>1. cur[w] = NoSend
        BY <1>0, <2>1 DEF LocalInv
      <4>2. RunningOn(u) => RunningOn(u)'
        BY <1>0, <2>1, <4>1, DispatchAssumption DEF RunningOn, TypeOK
      <4> QED
        BY <1>0, <2>1, <3>2, <4>2 DEF RunsAndRests, RestState
    <3> QED
      BY <3>1, <3>2
  <2>7. ActiveRuns'
    <3> SUFFICES ASSUME NEW u \in Sends, job'[u].state = "active"
                 PROVE  \E v \in Workers : job'[u].holder = v /\ cur'[v] = u
      BY DEF ActiveRuns, RunIsAlive, Holds
    <3>1. CASE u = s
      BY <1>0, <2>1, <3>1 DEF TypeOK
    <3>2. CASE u # s
      <4>1. PICK v \in Workers : job[u].holder = v /\ cur[v] = u
        BY <1>0, <2>1, <3>2 DEF RunsAndRests, ActiveRuns, RunIsAlive, Holds
      <4>2. v # w
        BY <1>0, <2>1, <4>1, DispatchAssumption DEF LocalInv
      <4> QED
        BY <1>0, <2>1, <3>2, <4>1, <4>2 DEF TypeOK
    <3> QED
      BY <3>1, <3>2
  <2> QED
    BY <2>4, <2>5, <2>6, <2>7 DEF RunsAndRests
<1>5. ASSUME NEW w \in Workers, CompleteJob(w) \/ FailJob(w) PROVE RunsAndRests'
  <2> DEFINE s == cur[w]
  <2>1. /\ UNCHANGED <<status, log, attempts, copies>>
        /\ pc[w] \in {"return", "throw"} /\ s \in Sends
        /\ pc' = [pc EXCEPT ![w] = "idle"] /\ cur' = [cur EXCEPT ![w] = NoSend]
        /\ number' = [number EXCEPT ![w] = 0] /\ outcome' = [outcome EXCEPT ![w] = "none"]
        /\ \A u \in Sends \ {s} : job'[u] = job[u]
    BY <1>0, <1>5, BusyHasSend DEF CompleteJob, FailJob, Release, rows, TypeOK
  <2>2. RunState(w)
    BY <1>0, <2>1 DEF RunsAndRests
  <2>3. /\ pc[w] = "return" => job'[s].state \in {"completed", "lost"}
        /\ pc[w] = "throw" => job'[s].state \in {"delayed", "failed", "lost"}
    BY <1>0, <1>5, <2>1, DispatchAssumption DEF CompleteJob, FailJob, RunHoldsJob, Job
  <2>4. \A v \in Workers \ {w} : cur[v] # s
    BY <1>0, <2>1, DispatchAssumption DEF OneRun
  <2>5. ASSUME NEW v \in Workers, pc'[v] # "idle" PROVE RunState(v)'
    <3>1. v # w /\ pc'[v] = pc[v] /\ cur'[v] = cur[v] /\ number'[v] = number[v]
          /\ outcome'[v] = outcome[v]
      BY <1>0, <2>1, <2>5 DEF TypeOK
    <3>2. RunState(v) /\ Verdict(v)' = Verdict(v)
      BY <1>0, <2>5, <3>1 DEF RunsAndRests, Verdict
    <3> QED
      BY <2>1, <3>1, <3>2 DEF RunState
  <2>6. ASSUME NEW u \in Sends PROVE RestState(u)'
    <3>1. CASE u = s
      <4>1. /\ status[s] \in log[s] /\ copies[s] <= 1
            /\ copies[s] > 0 => status[s] = "accepted_by_mta"
            /\ pc[w] = "throw" => status[s] = "deferred" /\ copies[s] = 0
        BY <1>0, <2>1, <2>2 DEF RunState, TypeOK
      <4> QED
        BY <2>1, <2>3, <3>1, <4>1 DEF RestState, Fresh
    <3>2. CASE u # s
      <4>1. RunningOn(u) => RunningOn(u)'
        BY <1>0, <2>1, <3>2 DEF RunningOn, TypeOK
      <4> QED
        BY <1>0, <2>1, <3>2, <4>1 DEF RunsAndRests, RestState
    <3> QED
      BY <3>1, <3>2
  <2>7. ActiveRuns'
    <3> SUFFICES ASSUME NEW u \in Sends, job'[u].state = "active"
                 PROVE  \E v \in Workers : job'[u].holder = v /\ cur'[v] = u
      BY DEF ActiveRuns, RunIsAlive, Holds
    <3>1. u # s /\ job'[u] = job[u]
      BY <2>1, <2>3
    <3>2. PICK v \in Workers : job[u].holder = v /\ cur[v] = u
      BY <1>0, <3>1 DEF RunsAndRests, ActiveRuns, RunIsAlive, Holds
    <3> QED
      BY <1>0, <2>1, <3>1, <3>2 DEF TypeOK
  <2> QED
    BY <2>5, <2>6, <2>7 DEF RunsAndRests
<1>6. CASE RedisRestart
  <2>1. /\ UNCHANGED <<status, log, attempts, copies, pc, cur, number, outcome>>
        /\ \A u \in Sends : \/ job[u].state = "absent" /\ job'[u] = job[u]
                            \/ job'[u].state = "lost"
    BY <1>0, <1>6 DEF RedisRestart, rows, locals, Job
  <2>2. \A v \in Workers : RunState(v) => RunState(v)'
    BY <2>1 DEF RunState, Verdict
  <2>3. \A u \in Sends : RestState(u)'
    BY <1>0, <2>1 DEF RunsAndRests, RestState, RunningOn
  <2>4. ActiveRuns'
    BY <2>1 DEF ActiveRuns
  <2> QED
    BY <1>0, <2>1, <2>2, <2>3, <2>4 DEF RunsAndRests
<1>7. CASE UNCHANGED vars
  <2>1. \A v \in Workers : RunState(v)' = RunState(v)
    BY <1>7 DEF vars, RunState, Verdict
  <2> QED
    BY <1>0, <1>7, <2>1 DEF vars, RunsAndRests, RestState, RunningOn, ActiveRuns, RunIsAlive, Holds
<1> QED
  BY <1>0, <1>1, <1>2, <1>3, <1>4, <1>5, <1>6, <1>7, UndisturbedSteps

THEOREM InductiveStatus == Spec => []IInv
<1>1. Init => IInv
  <2> SUFFICES ASSUME Init PROVE IInv
    OBVIOUS
  <2>1. TypeOK /\ LocalInv
    BY InitTypes
  <2>2. LockInv
    BY DEF Init, LockInv, RunHoldsJob, OneRun
  <2>3. StatusInv
    BY DEF Init, StatusInv, RunsAndRests, RestState, RunningOn, ActiveRuns, Fresh
  <2> QED
    BY <2>1, <2>2, <2>3 DEF IInv
<1>2. IInv /\ [Next]_vars => IInv'
  BY NextTypes, NextLocks, NextStatus DEF IInv
<1> QED
  BY <1>1, <1>2, PTL DEF Spec

(* What is known of a send, whether a worker has it in hand or not.        *)
LEMMA SendState ==
  ASSUME IInv, Undisturbed, NEW s \in Sends
  PROVE  /\ copies[s] <= 1
         /\ copies[s] > 0 => status[s] \in {"dispatching", "accepted_by_mta"}
<1>0. RunsAndRests /\ LocalInv /\ TypeOK
  BY DEF IInv, StatusInv
<1>1. CASE ~RunningOn(s)
  BY <1>0, <1>1 DEF RunsAndRests, RestState
<1>2. ASSUME NEW w \in Workers, cur[w] = s
      PROVE  /\ copies[s] <= 1
             /\ copies[s] > 0 => status[s] \in {"dispatching", "accepted_by_mta"}
  <2>1. pc[w] # "idle"
    BY <1>0, <1>2, DispatchAssumption DEF LocalInv
  <2>2. RunState(w) /\ copies[s] \in Nat /\ pc[w] \in Locations
    BY <1>0, <2>1 DEF RunsAndRests, TypeOK
  <2>3. outcome[w] = "accepted" => Verdict(w) = "accepted_by_mta"
    BY DEF Verdict
  <2> QED
    BY <1>2, <2>1, <2>2, <2>3
       DEF RunState, Unsent, Sent, Working, Locations, Statements
<1> QED
  BY <1>1, <1>2 DEF RunningOn

(* Without interruptions the recipient gets one mail at most: a retry or a *)
(* failover node follows only a run that sent none.                        *)
THEOREM OneMail == Spec => []SingleCopy
<1>1. IInv => SingleCopy
  BY SendState DEF SingleCopy
<1> QED
  BY <1>1, InductiveStatus, PTL

(* What a relay took is not shown as failed, deferred or queued.           *)
THEOREM NoFailureIsFalse == Spec => []NoFalseFailure
<1>1. IInv => NoFalseFailure
  BY SendState DEF NoFalseFailure
<1> QED
  BY <1>1, InductiveStatus, PTL

(* A worker that is done with a send has logged the status it left.        *)
THEOREM StatusesAreLogged == Spec => []StatusIsLogged
<1>1. IInv => StatusIsLogged
  BY DEF IInv, StatusInv, RunsAndRests, RestState, StatusIsLogged
<1> QED
  BY <1>1, InductiveStatus, PTL

LEMMA StatusMoves ==
  ASSUME IInv, [Next]_vars, Undisturbed'
  PROVE  \/ status' = status
         \/ \E s \in Sends, to \in SendStates :
              CanTransition(status[s], to) /\ status' = [status EXCEPT ![s] = to]
<1> DEFINE Moved == \E s \in Sends, to \in SendStates :
                     CanTransition(status[s], to) /\ status' = [status EXCEPT ![s] = to]
<1>0. TypeOK /\ LocalInv /\ RunsAndRests
  BY UndisturbedSteps DEF IInv, StatusInv
<1> USE DEF CanTransition, SendTransitions, SendStates
<1>1. ASSUME NEW w \in Workers, MarkDispatching(w)
      PROVE  Moved
  <2>1. /\ cur[w] \in Sends /\ status[cur[w]] \in Fresh
        /\ status' = [status EXCEPT ![cur[w]] = "dispatching"]
    BY <1>0, <1>1, BusyHasSend DEF MarkDispatching, RunsAndRests, RunState
  <2> QED
    BY <2>1 DEF Fresh
<1>2. ASSUME NEW w \in Workers, WriteVerdict(w)
      PROVE  Moved
  <2>1. /\ cur[w] \in Sends /\ status[cur[w]] = "dispatching"
        /\ status' = [status EXCEPT ![cur[w]] = Verdict(w)]
    BY <1>0, <1>2, BusyHasSend DEF WriteVerdict, RunsAndRests, RunState, Working
  <2>2. Verdict(w) \in {"accepted_by_mta", "failed_permanent", "deferred", "failed_transient"}
    BY DEF Verdict
  <2> QED
    BY <2>1, <2>2
<1>3. ASSUME NEW w \in Workers, Statement(w) \/ CompleteJob(w) \/ FailJob(w),
             ~MarkDispatching(w), ~WriteVerdict(w)
      PROVE  status' = status
  BY <1>3
     DEF Statement, FindSend, LogDispatching, ResolveRoute, NextAttemptNumber,
         CreateDispatchAttempt, Transport, FinishAttempt, LogVerdict, CompleteJob, FailJob, rows
<1>4. ASSUME NEW s \in Sends, Enqueue(s) \/ PromoteDelayed(s) \/ RecoverStalled(s)
      PROVE  status' = status
  BY <1>4 DEF Enqueue, PromoteDelayed, RecoverStalled, rows
<1>5. ASSUME NEW w \in Workers, NEW s \in Sends, TakeJob(w, s) PROVE status' = status
  BY <1>5 DEF TakeJob, rows
<1>6. RedisRestart \/ UNCHANGED vars => status' = status
  BY DEF RedisRestart, rows, vars
<1>7. SUFFICES status' = status \/ Moved
  OBVIOUS
<1> HIDE DEF Moved, CanTransition, SendTransitions, SendStates
<1>8. ASSUME NEW w \in Workers, Statement(w) \/ CompleteJob(w) \/ FailJob(w)
      PROVE  status' = status \/ Moved
  BY <1>1, <1>2, <1>3, <1>8
<1> QED
  BY <1>0, <1>4, <1>5, <1>6, <1>8, UndisturbedSteps

(* The processor writes the status twice in a run, blindly, and never      *)
(* consults the transition table: it keeps to it because of where it is.   *)
THEOREM TransitionsAreLegal == Spec => LegalTransitions
<1>1. IInv /\ [Next]_vars =>
        [Undisturbed' => \A s \in Sends :
           status'[s] # status[s] => CanTransition(status[s], status'[s])]_vars
  <2> SUFFICES ASSUME IInv, [Next]_vars, Undisturbed', NEW s \in Sends, status'[s] # status[s]
               PROVE  CanTransition(status[s], status'[s])
    OBVIOUS
  <2>1. PICK u \in Sends, to \in SendStates :
          CanTransition(status[u], to) /\ status' = [status EXCEPT ![u] = to]
    BY StatusMoves
  <2>2. u = s /\ status'[s] = to
    BY <2>1 DEF IInv, TypeOK
  <2> QED
    BY <2>1, <2>2
<1> QED
  BY <1>1, InductiveStatus, PTL DEF Spec, LegalTransitions

(* Workers that are not interrupted implement the abstract lifecycle of    *)
(* the status column, on any number of sends; Redis may be restarted.      *)
THEOREM WorkersImplementLifecycle ==
  ASSUME \A k \in FaultKinds \ {"redis_restart"} : FaultBudget[k] = 0
  PROVE  Spec => Lifecycle!Spec
<1>1. Init => Undisturbed /\ Lifecycle!Init
  BY DEF Init, Undisturbed, Quiet, Lifecycle!Init
<1>2. TypeOK /\ Undisturbed /\ [Next]_vars => Undisturbed'
  <2> SUFFICES ASSUME TypeOK, Undisturbed, [Next]_vars PROVE Undisturbed'
    OBVIOUS
  <2>1. ASSUME NEW k \in FaultKinds \ {"redis_restart"}, Strike(k) PROVE FALSE
    BY <2>1 DEF Strike, TypeOK
  <2>2. faults' = faults \/ \E k \in FaultKinds : Strike(k)
    BY DEF Next, vars, Queue, Enqueue, PromoteDelayed, RecoverStalled, TakeJob, Processor,
           FindSend, MarkDispatching, LogDispatching, ResolveRoute, NextAttemptNumber,
           CreateDispatchAttempt, Transport, FinishAttempt, WriteVerdict, LogVerdict,
           CompleteJob, FailJob, Fault, Crash, DbError, LoseReply, PeerClose, LoseLock,
           RedisRestart, FaultKinds
  <2>3. CASE Strike("redis_restart")
    BY <2>3 DEF Strike, Undisturbed, Quiet, TypeOK
  <2>4. CASE faults' = faults
    BY <2>4 DEF Undisturbed, Quiet
  <2> QED
    BY <2>1, <2>2, <2>3, <2>4
<1>3. IInv /\ Undisturbed' /\ [Next]_vars => [Lifecycle!Next]_status
  <2> SUFFICES ASSUME IInv, Undisturbed', [Next]_vars PROVE [Lifecycle!Next]_status
    OBVIOUS
  <2>1. CASE status' = status
    BY <2>1
  <2>2. ASSUME NEW s \in Sends, NEW to \in SendStates,
               CanTransition(status[s], to), status' = [status EXCEPT ![s] = to]
        PROVE  Lifecycle!Next
    BY <2>2
       DEF Lifecycle!Next, Lifecycle!Transition, Lifecycle!CanTransition,
           Lifecycle!SendTransitions, Lifecycle!SendStates, CanTransition, SendTransitions,
           SendStates
  <2> QED
    BY <2>1, <2>2, StatusMoves
<1>4. IInv => TypeOK
  BY DEF IInv
<1> QED
  BY <1>1, <1>2, <1>3, <1>4, InductiveStatus, PTL DEF Spec, Lifecycle!Spec

-----------------------------------------------------------------------------
(***************************************************************************)
(* The two retry budgets.  The status budget counts attempt rows, the      *)
(* queue counts failed runs of the job; a run that ends deferred has       *)
(* inserted a row, so the queue is never ahead.  Crashes may happen, and   *)
(* each lets one more job stall.                                           *)
(***************************************************************************)
Patient == Quiet({"lock_lost", "db_error", "redis_restart"})

RetryRun(w) ==
  LET s == cur[w] IN
  /\ pc[w] = "insert" => number[w] = Len(attempts[s]) + 1
  /\ \/ pc[w] \in {"transport", "finish"}
     \/ pc[w] \in {"verdict", "log_verdict"} /\ outcome[w] # "no_route"
     => number[w] = Len(attempts[s]) /\ job[s].made < Len(attempts[s])
  /\ pc[w] = "throw" => job[s].made < Len(attempts[s]) /\ Len(attempts[s]) < MaxAttempts
  /\ pc[w] = "log_verdict" => status[s] = Verdict(w)
  /\ pc[w] = "return" => status[s] # "deferred"

Waits(s) == job[s].state \in {"waiting", "active", "delayed"}

RetrySend(s) ==
  /\ job[s].state # "lost"
  /\ job[s].made <= Len(attempts[s])
  /\ job[s].stalled <= faults["crash"]
  /\ job[s].state = "active" /\ ~RunIsAlive(s) => job[s].stalled < faults["crash"]
  /\ faults["crash"] <= MaxStalled /\ status[s] = "deferred" /\ ~RunningOn(s) => Waits(s)

RunsRetry ==
  /\ \A w \in Workers : pc[w] # "idle" => RetryRun(w)
  /\ \A s \in Sends : RetrySend(s)

RetryInv == Patient => RunsRetry

LEMMA PatientSteps ==
  ASSUME TypeOK, [Next]_vars, Patient'
  PROVE  /\ Patient /\ Quiet({"lock_lost"})
         /\ \/ /\ faults' = faults
               /\ \/ \E s \in Sends : Enqueue(s) \/ PromoteDelayed(s) \/ RecoverStalled(s)
                  \/ \E w \in Workers, s \in Sends : TakeJob(w, s)
                  \/ \E w \in Workers : Statement(w) \/ CompleteJob(w) \/ FailJob(w)
                  \/ UNCHANGED vars
            \/ /\ faults'["crash"] = faults["crash"]
               /\ \E w \in Workers : LoseReply(w) \/ PeerClose(w)
            \/ /\ faults'["crash"] = faults["crash"] + 1
               /\ \E w \in Workers : Crash(w)
<1>1. Patient
  BY QuietBefore DEF Patient, FaultKinds
<1>2. ASSUME NEW k \in {"lock_lost", "db_error", "redis_restart"}, Strike(k) PROVE FALSE
  BY <1>2 DEF Strike, Patient, Quiet, TypeOK, FaultKinds
<1>3. ASSUME NEW w \in Workers, DbError(w) PROVE FALSE
  BY <1>2, <1>3 DEF DbError
<1>4. ASSUME NEW s \in Sends, LoseLock(s) PROVE FALSE
  BY <1>2, <1>4 DEF LoseLock
<1>5. ~RedisRestart
  BY <1>2 DEF RedisRestart
<1>6. ASSUME NEW w \in Workers, LoseReply(w) \/ PeerClose(w)
      PROVE  faults'["crash"] = faults["crash"]
  BY <1>6 DEF LoseReply, PeerClose, Strike, TypeOK, FaultKinds
<1>7. ASSUME NEW w \in Workers, Crash(w) PROVE faults'["crash"] = faults["crash"] + 1
  BY <1>7 DEF Crash, Strike, TypeOK, FaultKinds
<1>8. ASSUME NEW s \in Sends, Enqueue(s) \/ PromoteDelayed(s) \/ RecoverStalled(s)
      PROVE  faults' = faults
  BY <1>8 DEF Enqueue, PromoteDelayed, RecoverStalled
<1>9. ASSUME NEW w \in Workers, Statement(w) \/ CompleteJob(w) \/ FailJob(w)
      PROVE  faults' = faults
  BY <1>9
     DEF Statement, FindSend, MarkDispatching, LogDispatching, ResolveRoute, NextAttemptNumber,
         CreateDispatchAttempt, Transport, FinishAttempt, WriteVerdict, LogVerdict, CompleteJob,
         FailJob
<1>10. ASSUME NEW w \in Workers, NEW s \in Sends, TakeJob(w, s) PROVE faults' = faults
  BY <1>10 DEF TakeJob
<1>11. (UNCHANGED vars) => faults' = faults
  BY DEF vars
<1>12. Quiet({"lock_lost"})
  BY <1>1 DEF Patient, Quiet
<1> QED
  BY <1>1, <1>3, <1>4, <1>5, <1>6, <1>7, <1>8, <1>9, <1>10, <1>11, <1>12
     DEF Next, Queue, Processor, Fault, Statement

LEMMA RetryTypes ==
  ASSUME TypeOK, NEW s \in Sends
  PROVE  /\ Len(attempts[s]) \in Nat /\ job[s] \in Job
         /\ job[s].made \in Nat /\ job[s].stalled \in Nat
         /\ faults["crash"] \in Nat
BY LenProperties DEF TypeOK, Job, FaultKinds

(* A statement of one run disturbs no other run and no other send.         *)
LEMMA RetryFrame ==
  ASSUME TypeOK, LocalInv, OneRun, RunsRetry, NEW w \in Workers, OwnStep(w), RetryRun(w)',
         Len(attempts'[cur[w]]) \in Nat, Len(attempts[cur[w]]) <= Len(attempts'[cur[w]]),
         faults'["crash"] = faults["crash"]
  PROVE  RunsRetry'
<1>1. cur[w] \in Sends /\ cur[w] # NoSend /\ job' = job /\ cur' = cur
  BY BusyHasSend, DispatchAssumption DEF OwnStep
<1>2. ASSUME NEW v \in Workers, pc'[v] # "idle", v # w PROVE RetryRun(v)'
  <2>1. /\ pc'[v] = pc[v] /\ Verdict(v)' = Verdict(v)
        /\ number'[v] = number[v] /\ outcome'[v] = outcome[v]
    BY <1>2 DEF OwnStep, Verdict
  <2>2. cur[v] \in Sends /\ cur[v] # cur[w]
    BY <1>1, <1>2, <2>1, BusyHasSend DEF OneRun
  <2>3. status'[cur[v]] = status[cur[v]] /\ attempts'[cur[v]] = attempts[cur[v]]
    BY <2>2 DEF OwnStep
  <2>4. RetryRun(v)
    BY <1>2, <2>1 DEF RunsRetry
  <2> QED
    BY <1>1, <2>1, <2>3, <2>4 DEF RetryRun
<1>3. ASSUME NEW u \in Sends PROVE RetrySend(u)'
  <2>1. /\ RunningOn(u)' = RunningOn(u) /\ RunIsAlive(u)' = RunIsAlive(u)
        /\ Waits(u)' = Waits(u)
    BY <1>1 DEF RunningOn, RunIsAlive, Holds, Waits
  <2>2. RetrySend(u)
    BY DEF RunsRetry
  <2>3. CASE u = cur[w]
    <3>1. RunningOn(u)
      BY <2>3 DEF RunningOn
    <3>2. job[u].made <= Len(attempts'[u])
      BY <2>2, <2>3, RetryTypes DEF RetrySend
    <3> QED
      BY <1>1, <2>1, <2>2, <3>1, <3>2 DEF RetrySend
  <2>4. CASE u # cur[w]
    <3>1. status'[u] = status[u] /\ attempts'[u] = attempts[u]
      BY <2>4 DEF OwnStep
    <3> QED
      BY <1>1, <2>1, <2>2, <3>1 DEF RetrySend
  <2> QED
    BY <2>3, <2>4
<1> QED
  BY <1>2, <1>3 DEF RunsRetry

LEMMA StatementKeepsRetry ==
  ASSUME TypeOK, LocalInv, NEW w \in Workers, pc[w] # "idle", RetryRun(w), RetrySend(cur[w]),
         Statement(w) \/ LoseReply(w) \/ PeerClose(w)
  PROVE  /\ RetryRun(w)'
         /\ Len(attempts'[cur[w]]) \in Nat /\ Len(attempts[cur[w]]) <= Len(attempts'[cur[w]])
<1> DEFINE s == cur[w]
<1>0. /\ s \in Sends /\ Len(attempts[s]) \in Nat
      /\ job[s].made \in Nat /\ job[s].made <= Len(attempts[s])
  BY BusyHasSend, RetryTypes DEF RetrySend
<1> USE DEF RetryRun
<1>1. CASE FindSend(w)
  BY <1>0, <1>1 DEF FindSend, Goto, TypeOK, rows, locals, SkippedStates
<1>2. CASE MarkDispatching(w)
  BY <1>0, <1>2 DEF MarkDispatching, Goto, TypeOK, locals
<1>3. CASE LogDispatching(w)
  BY <1>0, <1>3 DEF LogDispatching, Goto, TypeOK, locals
<1>4. CASE ResolveRoute(w)
  BY <1>0, <1>4 DEF ResolveRoute, Goto, TypeOK, rows
<1>5. CASE NextAttemptNumber(w)
  BY <1>0, <1>5 DEF NextAttemptNumber, Goto, TypeOK, rows
<1>6. CASE CreateDispatchAttempt(w)
  <2> DEFINE row == [node |-> Head(chain[w]), status |-> "started"]
  <2>1. number[w] = Len(attempts[s]) + 1
    BY <1>6 DEF CreateDispatchAttempt
  <2>2. /\ attempts' = [attempts EXCEPT ![s] = Append(@, row)]
        /\ pc' = [pc EXCEPT ![w] = "transport"] /\ UNCHANGED <<job, cur, number>>
    BY <1>6, <2>1 DEF CreateDispatchAttempt, Goto, locals
  <2>3. row \in Attempt /\ attempts[s] \in Seq(Attempt)
    <3>1. chain[w] \in Seq(Nodes) /\ chain[w] # <<>>
      BY <1>6 DEF CreateDispatchAttempt, TypeOK, LocalInv, InLoop
    <3> QED
      BY <1>0, <3>1, HeadTailProperties DEF TypeOK, Attempt, AttemptStates
  <2> HIDE DEF row
  <2>4. Len(attempts'[s]) = Len(attempts[s]) + 1
    BY <1>0, <2>2, <2>3, AppendProperties DEF TypeOK
  <2> QED
    BY <1>0, <2>1, <2>2, <2>4 DEF TypeOK
<1>7. CASE Transport(w)
  BY <1>0, <1>7 DEF Transport, Goto, TypeOK, rows
<1>8. CASE FinishAttempt(w)
  <2>1. Len(attempts'[s]) = Len(attempts[s])
    <3> DEFINE rs == attempts[s]
               new == [rs EXCEPT ![number[w]].status = outcome[w]]
    <3>1. rs \in Seq(Attempt) /\ outcome[w] \in AttemptStates /\ number[w] = Len(rs)
          /\ Len(rs) \in Nat /\ number[w] \in 1 .. Len(rs)
      BY <1>0, <1>8 DEF FinishAttempt, TypeOK, LocalInv
    <3>2. Len(new) = Len(rs)
      BY <3>1, RowStatusWrite
    <3>3. attempts'[s] = new
      BY <1>0, <1>8 DEF FinishAttempt, TypeOK
    <3> QED
      BY <3>2, <3>3
  <2>2. /\ UNCHANGED <<status, job, cur, number, outcome>>
        /\ pc' = [pc EXCEPT ![w] = "number"] \/ pc' = [pc EXCEPT ![w] = "verdict"]
        /\ pc[w] = "finish"
    BY <1>8 DEF FinishAttempt, Goto
  <2> QED
    BY <1>0, <2>1, <2>2 DEF TypeOK
<1>9. CASE WriteVerdict(w)
  <2>1. Verdict(w)' = Verdict(w) /\ status'[s] = Verdict(w)
    BY <1>0, <1>9 DEF WriteVerdict, Verdict, TypeOK, locals
  <2> QED
    BY <1>0, <1>9, <2>1 DEF WriteVerdict, Goto, TypeOK, locals
<1>10. CASE LogVerdict(w)
  <2>1. /\ status[s] = Verdict(w) /\ UNCHANGED <<status, attempts, job, cur>>
        /\ pc'[w] = IF Verdict(w) = "deferred" THEN "throw" ELSE "return"
        /\ pc[w] = "log_verdict"
    BY <1>0, <1>10 DEF LogVerdict, Goto, TypeOK, locals
  <2>2. Verdict(w) = "deferred" => outcome[w] # "no_route" /\ number[w] < MaxAttempts
    BY DEF Verdict
  <2> QED
    BY <1>0, <2>1, <2>2
<1>11. CASE LoseReply(w)
  BY <1>0, <1>11 DEF LoseReply, Goto, TypeOK, rows
<1>12. CASE PeerClose(w)
  BY <1>0, <1>12 DEF PeerClose, Goto, TypeOK, rows, locals
<1> QED
  BY <1>1, <1>2, <1>3, <1>4, <1>5, <1>6, <1>7, <1>8, <1>9, <1>10, <1>11, <1>12 DEF Statement

(* Runs and sends that the queue's steps leave alone.                      *)
LEMMA RunUndisturbed ==
  ASSUME NEW v \in Workers, RetryRun(v), UNCHANGED <<status, attempts>>,
         pc'[v] = pc[v], cur'[v] = cur[v], number'[v] = number[v], outcome'[v] = outcome[v],
         job'[cur[v]].made = job[cur[v]].made
  PROVE  RetryRun(v)'
<1>1. Verdict(v)' = Verdict(v)
  BY DEF Verdict
<1> QED
  BY <1>1 DEF RetryRun

LEMMA SendUndisturbed ==
  ASSUME NEW u \in Sends, RetrySend(u), UNCHANGED <<status, attempts, faults>>,
         job'[u] = job[u], RunningOn(u) => RunningOn(u)', RunIsAlive(u) => RunIsAlive(u)'
  PROVE  RetrySend(u)'
<1>1. Waits(u)' = Waits(u)
  BY DEF Waits
<1> QED
  BY <1>1 DEF RetrySend

(* A run that fails its job counts one failure more than the queue did:    *)
(* it has written the row of a transient attempt that is not yet counted,  *)
(* and MaxAttempts such rows end the send before JobAttempts end the job.  *)
LEMMA NextRetry ==
  ASSUME JobAttempts >= MaxAttempts
  PROVE  TypeOK /\ LocalInv /\ LockInv /\ RetryInv /\ [Next]_vars => RetryInv'
<1> SUFFICES ASSUME TypeOK, LocalInv, LockInv, RetryInv, [Next]_vars, Patient'
             PROVE  RunsRetry'
  BY DEF RetryInv
<1>0. Patient /\ RunHoldsJob /\ OneRun /\ RunsRetry /\ job \in [Sends -> Job]
  BY PatientSteps DEF LockInv, RetryInv, TypeOK
<1>1. ASSUME NEW w \in Workers, cur[w] # NoSend
      PROVE  cur[w] \in Sends /\ Holds(w, cur[w]) /\ pc[w] # "idle"
  <2>1. cur[w] \in Sends /\ pc[w] # "idle"
    BY <1>1 DEF LocalInv, TypeOK
  <2>2. job[cur[w]].state # "lost"
    BY <1>0, <2>1 DEF RunsRetry, RetrySend
  <2> QED
    BY <1>0, <1>1, <2>1, <2>2 DEF RunHoldsJob
<1>2. ASSUME NEW w \in Workers, Statement(w) \/ LoseReply(w) \/ PeerClose(w),
             faults'["crash"] = faults["crash"]
      PROVE  RunsRetry'
  <2>1. OwnStep(w)
    BY <1>2, StatementIsOwnStep
  <2>2. pc[w] # "idle" /\ RetryRun(w) /\ RetrySend(cur[w])
    BY <1>0, <2>1, BusyHasSend DEF OwnStep, RunsRetry
  <2>3. /\ RetryRun(w)' /\ Len(attempts'[cur[w]]) \in Nat
        /\ Len(attempts[cur[w]]) <= Len(attempts'[cur[w]])
    BY <1>2, <2>2, StatementKeepsRetry
  <2> QED
    BY <1>0, <1>2, <2>1, <2>3, RetryFrame
<1>3. ASSUME NEW s \in Sends, Enqueue(s) \/ PromoteDelayed(s), faults' = faults
      PROVE  RunsRetry'
  <2>1. /\ UNCHANGED <<status, attempts, pc, cur, number, outcome>>
        /\ job'[s].state = "waiting"
        /\ job'[s].made = job[s].made /\ job'[s].stalled = job[s].stalled
        /\ \A u \in Sends \ {s} : job'[u] = job[u]
    BY <1>0, <1>3 DEF Enqueue, PromoteDelayed, rows, locals, Job
  <2>2. ASSUME NEW v \in Workers, pc'[v] # "idle" PROVE RetryRun(v)'
    <3>1. RetryRun(v) /\ job'[cur[v]].made = job[cur[v]].made
      BY <1>0, <2>1, <2>2, BusyHasSend DEF RunsRetry
    <3> QED
      BY <2>1, <3>1, RunUndisturbed
  <2>3. ASSUME NEW u \in Sends PROVE RetrySend(u)'
    <3>1. CASE u = s
      BY <1>0, <1>3, <2>1, <3>1 DEF RunsRetry, RetrySend, Waits
    <3>2. CASE u # s
      <4>1. RunningOn(u)' = RunningOn(u) /\ RunIsAlive(u)' = RunIsAlive(u)
        BY <2>1, <3>2 DEF RunningOn, RunIsAlive, Holds
      <4> QED
        BY <1>0, <1>3, <2>1, <3>2, <4>1, SendUndisturbed DEF RunsRetry
    <3> QED
      BY <3>1, <3>2
  <2> QED
    BY <2>2, <2>3 DEF RunsRetry
<1>4. ASSUME NEW s \in Sends, RecoverStalled(s), faults' = faults PROVE RunsRetry'
  <2>1. /\ UNCHANGED <<status, attempts, pc, cur, number, outcome>>
        /\ job[s].state = "active" /\ ~RunIsAlive(s)
        /\ job'[s].state = IF job[s].stalled < MaxStalled THEN "waiting" ELSE "failed"
        /\ job'[s].made = job[s].made /\ job'[s].stalled = job[s].stalled + 1
        /\ \A u \in Sends \ {s} : job'[u] = job[u]
    BY <1>0, <1>4 DEF RecoverStalled, Stall, rows, locals, Job
  <2>2. ASSUME NEW v \in Workers, pc'[v] # "idle" PROVE RetryRun(v)'
    <3>1. RetryRun(v) /\ job'[cur[v]].made = job[cur[v]].made
      BY <1>0, <2>1, <2>2, BusyHasSend DEF RunsRetry
    <3> QED
      BY <2>1, <3>1, RunUndisturbed
  <2>3. ASSUME NEW u \in Sends PROVE RetrySend(u)'
    <3>1. CASE u = s
      <4>1. job[s].stalled \in Nat /\ faults["crash"] \in Nat
        BY RetryTypes
      <4>2. job[s].stalled < faults["crash"] /\ job[s].made <= Len(attempts[s])
        BY <1>0, <2>1 DEF RunsRetry, RetrySend
      <4>3. faults["crash"] <= MaxStalled => job'[s].state = "waiting"
        BY <2>1, <4>1, <4>2, DispatchAssumption
      <4>4. job'[s].state \in {"waiting", "failed"} /\ job'[s].stalled <= faults["crash"]
        BY <2>1, <4>1, <4>2
      <4> QED
        BY <1>4, <2>1, <3>1, <4>2, <4>3, <4>4 DEF RetrySend, Waits
    <3>2. CASE u # s
      <4>1. RunningOn(u)' = RunningOn(u) /\ RunIsAlive(u)' = RunIsAlive(u)
        BY <2>1, <3>2 DEF RunningOn, RunIsAlive, Holds
      <4> QED
        BY <1>0, <1>4, <2>1, <3>2, <4>1, SendUndisturbed DEF RunsRetry
    <3> QED
      BY <3>1, <3>2
  <2> QED
    BY <2>2, <2>3 DEF RunsRetry
<1>5. ASSUME NEW w \in Workers, NEW s \in Sends, TakeJob(w, s), faults' = faults
      PROVE  RunsRetry'
  <2>1. /\ UNCHANGED <<status, attempts, number, outcome>>
        /\ pc[w] = "idle" /\ job[s].state = "waiting"
        /\ pc' = [pc EXCEPT ![w] = "find"] /\ cur' = [cur EXCEPT ![w] = s]
        /\ job'[s].state = "active" /\ job'[s].holder = w
        /\ job'[s].made = job[s].made /\ job'[s].stalled = job[s].stalled
        /\ \A u \in Sends \ {s} : job'[u] = job[u]
    BY <1>0, <1>5 DEF TakeJob, rows, Job
  <2>2. pc'[w] = "find" /\ cur'[w] = s /\ cur[w] = NoSend
    BY <2>1 DEF TypeOK, LocalInv
  <2>3. \A v \in Workers \ {w} : pc'[v] = pc[v] /\ cur'[v] = cur[v]
    BY <2>1 DEF TypeOK
  <2>4. ASSUME NEW v \in Workers, pc'[v] # "idle" PROVE RetryRun(v)'
    <3>1. CASE v = w
      BY <2>2, <3>1 DEF RetryRun
    <3>2. CASE v # w
      <4>1. RetryRun(v) /\ job'[cur[v]].made = job[cur[v]].made
        BY <1>0, <2>1, <2>3, <2>4, <3>2, BusyHasSend DEF RunsRetry
      <4> QED
        BY <2>1, <2>3, <3>2, <4>1, RunUndisturbed
    <3> QED
      BY <3>1, <3>2
  <2>5. ASSUME NEW u \in Sends PROVE RetrySend(u)'
    <3>1. CASE u = s
      <4>1. RunIsAlive(s)' /\ RunningOn(s)'
        BY <2>1, <2>2 DEF RunIsAlive, RunningOn, Holds
      <4>2. RetrySend(s)
        BY <1>0 DEF RunsRetry
      <4> QED
        BY <1>5, <2>1, <3>1, <4>1, <4>2 DEF RetrySend
    <3>2. CASE u # s
      <4>1. RunningOn(u) => RunningOn(u)'
        BY <2>2, <2>3, DispatchAssumption DEF RunningOn
      <4>2. RunIsAlive(u) => RunIsAlive(u)'
        BY <2>1, <2>2, <2>3, <3>2, DispatchAssumption DEF RunIsAlive, Holds
      <4> QED
        BY <1>0, <1>5, <2>1, <3>2, <4>1, <4>2, SendUndisturbed DEF RunsRetry
    <3> QED
      BY <3>1, <3>2
  <2> QED
    BY <2>4, <2>5 DEF RunsRetry
<1>6. ASSUME NEW w \in Workers, CompleteJob(w) \/ FailJob(w), faults' = faults
      PROVE  RunsRetry'
  <2>0. PICK s \in Sends : s = cur[w]
    BY <1>6, BusyHasSend DEF CompleteJob, FailJob
  <2>1. /\ UNCHANGED <<status, attempts>>
        /\ pc[w] \in {"return", "throw"} /\ s = cur[w] /\ s # NoSend
        /\ pc' = [pc EXCEPT ![w] = "idle"] /\ cur' = [cur EXCEPT ![w] = NoSend]
        /\ number' = [number EXCEPT ![w] = 0] /\ outcome' = [outcome EXCEPT ![w] = "none"]
        /\ \A u \in Sends \ {s} : job'[u] = job[u]
    BY <1>6, <2>0, DispatchAssumption DEF CompleteJob, FailJob, Release, rows, TypeOK
  <2>2. RetryRun(w) /\ RetrySend(s) /\ Holds(w, s)
    BY <1>0, <1>1, <2>0, <2>1 DEF RunsRetry
  <2>3. /\ Len(attempts[s]) \in Nat /\ job[s].made \in Nat /\ job[s].stalled \in Nat
        /\ job[s] \in Job
    BY RetryTypes
  <2>4. RetrySend(s)'
    <3>1. CASE CompleteJob(w)
      <4>1. /\ job'[s].state = "completed"
            /\ job'[s].made = job[s].made /\ job'[s].stalled = job[s].stalled
        BY <1>0, <2>1, <2>2, <2>3, <3>1 DEF CompleteJob, Job
      <4>2. status[s] # "deferred"
        BY <2>0, <2>2, <3>1 DEF CompleteJob, RetryRun
      <4> QED
        BY <1>6, <2>1, <2>2, <4>1, <4>2 DEF RetrySend
    <3>2. CASE FailJob(w)
      <4>1. job[s].made < Len(attempts[s]) /\ Len(attempts[s]) < MaxAttempts
        BY <2>0, <2>2, <3>2 DEF FailJob, RetryRun
      <4>2. job[s].made + 1 < JobAttempts /\ job[s].made + 1 <= Len(attempts[s])
        BY <2>3, <4>1, DispatchAssumption
      <4>3. /\ job'[s].state = "delayed"
            /\ job'[s].made = job[s].made + 1 /\ job'[s].stalled = job[s].stalled
        BY <1>0, <2>1, <2>2, <2>3, <3>2, <4>2 DEF FailJob, Job
      <4> QED
        BY <1>6, <2>1, <2>2, <4>2, <4>3 DEF RetrySend, Waits
    <3> QED
      BY <1>6, <3>1, <3>2
  <2>5. \A v \in Workers \ {w} :
           /\ pc'[v] = pc[v] /\ cur'[v] = cur[v] /\ cur[v] # s
           /\ number'[v] = number[v] /\ outcome'[v] = outcome[v]
    BY <1>0, <2>1 DEF OneRun, TypeOK
  <2>6. ASSUME NEW v \in Workers, pc'[v] # "idle" PROVE RetryRun(v)'
    <3>1. v # w
      BY <2>1, <2>6 DEF TypeOK
    <3>2. RetryRun(v) /\ job'[cur[v]].made = job[cur[v]].made
      BY <1>0, <2>1, <2>5, <2>6, <3>1, BusyHasSend DEF RunsRetry
    <3> QED
      BY <2>1, <2>5, <3>1, <3>2, RunUndisturbed
  <2>7. ASSUME NEW u \in Sends, u # s PROVE RetrySend(u)'
    <3>1. RunningOn(u) => RunningOn(u)'
      BY <2>0, <2>5, <2>7 DEF RunningOn
    <3>2. RunIsAlive(u) => RunIsAlive(u)'
      BY <2>0, <2>1, <2>5, <2>7 DEF RunIsAlive, Holds
    <3> QED
      BY <1>0, <1>6, <2>1, <2>7, <3>1, <3>2, SendUndisturbed DEF RunsRetry
  <2> QED
    BY <2>4, <2>6, <2>7 DEF RunsRetry
<1>7. ASSUME NEW w \in Workers, Crash(w), faults'["crash"] = faults["crash"] + 1
      PROVE  RunsRetry'
  <2> DEFINE s == cur[w]
  <2>1. /\ UNCHANGED <<status, attempts, job>>
        /\ pc[w] # "idle" /\ s \in Sends /\ s # NoSend
        /\ pc' = [pc EXCEPT ![w] = "idle"] /\ cur' = [cur EXCEPT ![w] = NoSend]
        /\ number' = [number EXCEPT ![w] = 0] /\ outcome' = [outcome EXCEPT ![w] = "none"]
    BY <1>7, BusyHasSend, DispatchAssumption DEF Crash, Release, rows
  <2>2. \A v \in Workers \ {w} :
           /\ pc'[v] = pc[v] /\ cur'[v] = cur[v] /\ cur[v] # s
           /\ number'[v] = number[v] /\ outcome'[v] = outcome[v]
    BY <1>0, <2>1 DEF OneRun, TypeOK
  <2>3. ASSUME NEW v \in Workers, pc'[v] # "idle" PROVE RetryRun(v)'
    <3>1. v # w
      BY <2>1, <2>3 DEF TypeOK
    <3>2. RetryRun(v)
      BY <1>0, <2>2, <2>3, <3>1 DEF RunsRetry
    <3> QED
      BY <2>1, <2>2, <3>1, <3>2, RunUndisturbed
  <2>4. ASSUME NEW u \in Sends PROVE RetrySend(u)'
    <3>1. job[u].stalled \in Nat /\ faults["crash"] \in Nat
      BY RetryTypes
    <3>2. RetrySend(u)
      BY <1>0 DEF RunsRetry
    <3>3. job[u].stalled < faults'["crash"] /\ job[u].stalled <= faults'["crash"]
      BY <1>7, <3>1, <3>2 DEF RetrySend
    <3>4. faults'["crash"] <= MaxStalled => faults["crash"] <= MaxStalled
      BY <1>7, <3>1, DispatchAssumption
    <3>5. status[u] = "deferred" /\ ~RunningOn(u)' /\ faults["crash"] <= MaxStalled => Waits(u)
      <4>1. CASE u = s
        BY <1>1, <2>1, <4>1 DEF Holds, Waits
      <4>2. CASE u # s
        <5>1. RunningOn(u) => RunningOn(u)'
          BY <2>2, <4>2 DEF RunningOn
        <5> QED
          BY <3>2, <5>1 DEF RetrySend
      <4> QED
        BY <4>1, <4>2
    <3>6. Waits(u)' = Waits(u)
      BY <2>1 DEF Waits
    <3> QED
      BY <2>1, <3>1, <3>2, <3>3, <3>4, <3>5, <3>6 DEF RetrySend
  <2> QED
    BY <2>3, <2>4 DEF RunsRetry
<1>8. CASE UNCHANGED vars
  <2>1. \A v \in Workers : RetryRun(v)' = RetryRun(v)
    BY <1>8 DEF vars, RetryRun, Verdict
  <2>2. \A u \in Sends : RetrySend(u)' = RetrySend(u)
    BY <1>8 DEF vars, RetrySend, RunIsAlive, RunningOn, Holds, Waits
  <2> QED
    BY <1>0, <1>8, <2>1, <2>2 DEF vars, RunsRetry
<1>9. (faults' = faults) => faults'["crash"] = faults["crash"]
  OBVIOUS
<1> QED
  BY <1>2, <1>3, <1>4, <1>5, <1>6, <1>7, <1>8, <1>9, PatientSteps

(* A deferred send that no worker has in hand has a job that will run      *)
(* again, through crashes and lost replies: the queue's attempts must be   *)
(* no fewer than the budget of attempt rows, which the console's default   *)
(* for the jobs it adds does not ensure.                                   *)
THEOREM DeferredSendsRetry ==
  ASSUME JobAttempts >= MaxAttempts
  PROVE  Spec => []DeferredHasRetry
<1> DEFINE All == TypeOK /\ LocalInv /\ LockInv /\ RetryInv
<1>1. Init => All
  <2> SUFFICES ASSUME Init PROVE All
    OBVIOUS
  <2>1. TypeOK /\ LocalInv
    BY InitTypes
  <2>2. LockInv
    BY DEF Init, LockInv, RunHoldsJob, OneRun
  <2>3. RetryInv
    BY DEF Init, RetryInv, RunsRetry, RetrySend, FaultKinds
  <2> QED
    BY <2>1, <2>2, <2>3
<1>2. All /\ [Next]_vars => All'
  BY NextTypes, NextLocks, NextRetry
<1>3. All => DeferredHasRetry
  BY DEF DeferredHasRetry, RetryInv, Patient, RunsRetry, RetrySend, Waits
<1> HIDE DEF All
<1>4. Spec => []All
  BY <1>1, <1>2, PTL DEF Spec
<1> QED
  BY <1>3, <1>4, PTL

-----------------------------------------------------------------------------
(***************************************************************************)
(* How many attempts a send can cost.                                      *)
(***************************************************************************)
(***************************************************************************)
(* Within(n, i), as n attempts for i runs of the budget.  The route a run  *)
(* takes may be longer or shorter than the one before.                     *)
(***************************************************************************)
LEMMA ProductGrows ==
  ASSUME NEW a \in Nat, NEW b \in Nat, NEW i \in Nat, a <= b
  PROVE  a * i <= b * i /\ i * a <= i * b /\ a * i \in Nat
<1> DEFINE d == b - a
<1>1. d \in Nat /\ b = a + d
  OBVIOUS
<1> HIDE DEF d
<1>2. d * i \in Nat /\ i * d \in Nat /\ a * i \in Nat /\ i * a \in Nat
  BY <1>1
<1>3. b * i = a * i + d * i /\ i * b = i * a + i * d
  BY <1>1
<1> QED
  BY <1>2, <1>3

LEMMA ChainLength == ASSUME NEW c \in Chains PROVE Len(c) \in Nat
  BY DispatchAssumption, LenProperties

LEMMA WithinLess ==
  ASSUME NEW n \in Nat, NEW m \in Nat, NEW i \in Nat, NEW j \in Nat,
         m <= n, i <= j, Within(n, i)
  PROVE  Within(m, j)
<1>1. CASE n < MaxAttempts
  BY <1>1, DispatchAssumption DEF Within
<1>2. ASSUME NEW c \in Chains, n <= MaxAttempts - 1 + Len(c) * i PROVE Within(m, j)
  <2> DEFINE was == Len(c) * i
             is == Len(c) * j
  <2>1. was <= is /\ was \in Nat /\ is \in Nat
    BY ChainLength, ProductGrows
  <2>2. n <= MaxAttempts - 1 + was
    BY <1>2
  <2> HIDE DEF was, is
  <2>3. m <= MaxAttempts - 1 + is
    BY <2>1, <2>2, DispatchAssumption
  <2> QED
    BY <2>3 DEF Within, is
<1> QED
  BY <1>1, <1>2 DEF Within

LEMMA WithinChain ==
  ASSUME NEW n \in Nat, NEW i \in Nat, NEW c \in Chains, Within(n, i)
  PROVE  Within(n + Len(c), i + 1)
<1>0. Len(c) \in Nat
  BY ChainLength
<1> DEFINE more == Len(c) * (i + 1)
           old == Len(c) * i
<1>1. old \in Nat /\ more = old + Len(c)
  BY <1>0
<1>2. CASE n < MaxAttempts
  <2> HIDE DEF more, old
  <2>1. n + Len(c) <= MaxAttempts - 1 + more
    BY <1>0, <1>1, <1>2, DispatchAssumption
  <2> QED
    BY <2>1 DEF Within, more
<1>3. ASSUME NEW d \in Chains, n <= MaxAttempts - 1 + Len(d) * i
      PROVE  Within(n + Len(c), i + 1)
  <2>0. Len(d) \in Nat
    BY ChainLength
  <2> DEFINE oldD == Len(d) * i
             moreD == Len(d) * (i + 1)
  <2>1. oldD \in Nat /\ moreD = oldD + Len(d)
    BY <2>0
  <2>2. n <= MaxAttempts - 1 + oldD
    BY <1>3
  <2>3. CASE Len(c) <= Len(d)
    <3> HIDE DEF oldD, moreD
    <3>1. n + Len(c) <= MaxAttempts - 1 + moreD
      BY <1>0, <2>0, <2>1, <2>2, <2>3, DispatchAssumption
    <3> QED
      BY <3>1 DEF Within, moreD
  <2>4. CASE Len(d) <= Len(c)
    <3>1. oldD <= old
      BY <1>0, <2>0, <2>4, ProductGrows
    <3> HIDE DEF oldD, moreD, old, more
    <3>2. n + Len(c) <= MaxAttempts - 1 + more
      BY <1>0, <1>1, <2>1, <2>2, <3>1, DispatchAssumption
    <3> QED
      BY <3>2 DEF Within, more
  <2> QED
    BY <1>0, <2>0, <2>3, <2>4
<1> QED
  BY <1>2, <1>3 DEF Within

-----------------------------------------------------------------------------
(***************************************************************************)
(* While no lock is lost, one run at a time works on a send.  Before it    *)
(* knows its route, the send is within the budget for the runs cut short   *)
(* so far; from then on it is within the budget for one run more, even     *)
(* with the nodes of the route that are still to be tried.                 *)
(***************************************************************************)
Strikes == faults["crash"] + faults["db_error"]
Unrouted == {"find", "mark_dispatching", "log_dispatching", "route"}
Over == {"completed", "failed", "lost"}

BudgetRun(w) ==
  LET n == Len(attempts[cur[w]])
      left == Len(chain[w])
  IN
  /\ pc[w] \in Unrouted \cup {"throw"} => Within(n, Strikes)
  /\ pc[w] \in {"number", "insert"} => Within(n + left, Strikes + 1)
  /\ pc[w] \in {"transport", "finish"} => Within(n + left - 1, Strikes + 1)
  /\ pc[w] = "insert" => number[w] = n + 1
  /\ \/ pc[w] \in {"transport", "finish"}
     \/ pc[w] \in {"verdict", "log_verdict"} /\ outcome[w] # "no_route"
     => number[w] = n

BudgetSend(s) ==
  /\ Within(Len(attempts[s]), Strikes + 1)
  /\ ~RunningOn(s) => job[s].state \in Over \/ Within(Len(attempts[s]), Strikes)

RunsBudget ==
  /\ \A w \in Workers : pc[w] # "idle" => BudgetRun(w)
  /\ \A s \in Sends : BudgetSend(s)

BudgetInv == Quiet({"lock_lost"}) => RunsBudget

LEMMA BudgetTypes ==
  ASSUME TypeOK, NEW s \in Sends, NEW w \in Workers
  PROVE  /\ Len(attempts[s]) \in Nat /\ Len(chain[w]) \in Nat
         /\ Strikes \in Nat /\ faults["crash"] \in Nat /\ faults["db_error"] \in Nat
<1>1. attempts[s] \in Seq(Attempt) /\ chain[w] \in Seq(Nodes)
  BY DEF TypeOK
<1>2. faults["crash"] \in Nat /\ faults["db_error"] \in Nat
  BY DEF TypeOK, FaultKinds
<1> QED
  BY <1>1, <1>2, LenProperties DEF Strikes

(* A crash or a database error is counted; nothing else is.                *)
LEMMA LockedSteps ==
  ASSUME TypeOK, [Next]_vars, Quiet({"lock_lost"})'
  PROVE  /\ Quiet({"lock_lost"})
         /\ \/ /\ Strikes' = Strikes
               /\ \/ \E s \in Sends : Enqueue(s) \/ PromoteDelayed(s) \/ RecoverStalled(s)
                  \/ \E w \in Workers, s \in Sends : TakeJob(w, s)
                  \/ \E w \in Workers : CompleteJob(w) \/ FailJob(w)
                  \/ \E w \in Workers : Statement(w) \/ LoseReply(w) \/ PeerClose(w)
                  \/ RedisRestart
                  \/ UNCHANGED vars
            \/ /\ Strikes' = Strikes + 1
               /\ \E w \in Workers : Crash(w) \/ DbError(w)
<1>1. Quiet({"lock_lost"})
  BY QuietBefore DEF FaultKinds
<1>2. ASSUME NEW s \in Sends, LoseLock(s) PROVE FALSE
  BY <1>1, <1>2 DEF LoseLock, Strike, Quiet, TypeOK, FaultKinds
<1>3. ASSUME NEW w \in Workers, Crash(w) \/ DbError(w) PROVE Strikes' = Strikes + 1
  BY <1>3 DEF Crash, DbError, Strike, Strikes, TypeOK, FaultKinds
<1>4. ASSUME NEW w \in Workers, LoseReply(w) \/ PeerClose(w) PROVE Strikes' = Strikes
  BY <1>4 DEF LoseReply, PeerClose, Strike, Strikes, TypeOK, FaultKinds
<1>5. RedisRestart => Strikes' = Strikes
  BY DEF RedisRestart, Strike, Strikes, TypeOK, FaultKinds
<1>6. (faults' = faults) => Strikes' = Strikes
  BY DEF Strikes
<1>7. ASSUME NEW s \in Sends, Enqueue(s) \/ PromoteDelayed(s) \/ RecoverStalled(s)
      PROVE  faults' = faults
  BY <1>7 DEF Enqueue, PromoteDelayed, RecoverStalled
<1>8. ASSUME NEW w \in Workers, Statement(w) \/ CompleteJob(w) \/ FailJob(w)
      PROVE  faults' = faults
  BY <1>8
     DEF Statement, FindSend, MarkDispatching, LogDispatching, ResolveRoute, NextAttemptNumber,
         CreateDispatchAttempt, Transport, FinishAttempt, WriteVerdict, LogVerdict, CompleteJob,
         FailJob
<1>9. ASSUME NEW w \in Workers, NEW s \in Sends, TakeJob(w, s) PROVE faults' = faults
  BY <1>9 DEF TakeJob
<1>10. (UNCHANGED vars) => faults' = faults
  BY DEF vars
<1> QED
  BY <1>1, <1>2, <1>3, <1>4, <1>5, <1>6, <1>7, <1>8, <1>9, <1>10
     DEF Next, Queue, Processor, Fault, Statement

(* What a step leaves alone stays within the budget.                       *)
LEMMA RunInBudget ==
  ASSUME TypeOK, LocalInv, NEW v \in Workers, pc[v] # "idle", BudgetRun(v),
         Strikes' \in Nat, Strikes <= Strikes',
         pc'[v] = pc[v], cur'[v] = cur[v], chain'[v] = chain[v],
         number'[v] = number[v], outcome'[v] = outcome[v],
         attempts'[cur[v]] = attempts[cur[v]]
  PROVE  BudgetRun(v)'
<1> DEFINE n == Len(attempts[cur[v]])
           left == Len(chain[v])
<1>1. cur[v] \in Sends /\ n \in Nat /\ left \in Nat /\ Strikes \in Nat
  BY BusyHasSend, BudgetTypes
<1> HIDE DEF n, left
<1>2. pc[v] \in {"transport", "finish"} => n + left - 1 \in Nat
  <2>1. chain[v] \in Seq(Nodes) /\ (pc[v] \in {"transport", "finish"} => chain[v] # <<>>)
    BY DEF LocalInv, InLoop, TypeOK
  <2>2. pc[v] \in {"transport", "finish"} => left # 0
    BY <2>1, EmptySeq DEF left
  <2> QED
    BY <1>1, <2>2
<1>3. \A m \in Nat : Within(m, Strikes) => Within(m, Strikes')
  BY <1>1, WithinLess
<1>4. \A m \in Nat : Within(m, Strikes + 1) => Within(m, Strikes' + 1)
  BY <1>1, WithinLess
<1>5. n + left \in Nat
  BY <1>1
<1>6. Len(attempts'[cur'[v]]) = n /\ Len(chain'[v]) = left
  BY DEF n, left
<1>7. /\ pc[v] \in Unrouted \cup {"throw"} => Within(n, Strikes')
      /\ pc[v] \in {"number", "insert"} => Within(n + left, Strikes' + 1)
      /\ pc[v] \in {"transport", "finish"} => Within(n + left - 1, Strikes' + 1)
  BY <1>1, <1>2, <1>3, <1>4, <1>5 DEF BudgetRun, n, left
<1> QED
  BY <1>6, <1>7 DEF BudgetRun, Unrouted, n, left

LEMMA SendInBudget ==
  ASSUME TypeOK, NEW w \in Workers, NEW u \in Sends, BudgetSend(u),
         attempts'[u] = attempts[u],
         Strikes' \in Nat, Strikes <= Strikes',
         ~RunningOn(u)' => job'[u].state \in Over \/ Within(Len(attempts[u]), Strikes')
  PROVE  BudgetSend(u)'
<1>1. Len(attempts[u]) \in Nat /\ Strikes \in Nat
  BY BudgetTypes
<1>2. Within(Len(attempts[u]), Strikes' + 1)
  BY <1>1, WithinLess DEF BudgetSend
<1> QED
  BY <1>2 DEF BudgetSend

(* A statement of one run disturbs no other run and no other send.         *)
LEMMA BudgetFrame ==
  ASSUME TypeOK, LocalInv, OneRun, RunsBudget, NEW w \in Workers, OwnStep(w),
         Strikes' \in Nat, Strikes <= Strikes',
         BudgetRun(w)', Within(Len(attempts'[cur[w]]), Strikes' + 1)
  PROVE  RunsBudget'
<1>1. cur[w] \in Sends /\ cur[w] # NoSend /\ job' = job /\ cur' = cur
  BY BusyHasSend, DispatchAssumption DEF OwnStep
<1>2. ASSUME NEW v \in Workers, pc'[v] # "idle", v # w PROVE BudgetRun(v)'
  <2>1. /\ pc'[v] = pc[v] /\ chain'[v] = chain[v]
        /\ number'[v] = number[v] /\ outcome'[v] = outcome[v]
    BY <1>2 DEF OwnStep
  <2>2. cur[v] \in Sends /\ cur[v] # cur[w]
    BY <1>1, <1>2, <2>1, BusyHasSend DEF OneRun
  <2>3. attempts'[cur[v]] = attempts[cur[v]] /\ cur'[v] = cur[v]
    BY <1>1, <2>2 DEF OwnStep
  <2>4. BudgetRun(v) /\ pc[v] # "idle"
    BY <1>2, <2>1 DEF RunsBudget
  <2> QED
    BY <2>1, <2>3, <2>4, RunInBudget
<1>3. ASSUME NEW u \in Sends PROVE BudgetSend(u)'
  <2>1. CASE u = cur[w]
    <3>1. RunningOn(u)'
      BY <1>1, <2>1 DEF RunningOn
    <3> QED
      BY <2>1, <3>1 DEF BudgetSend
  <2>2. CASE u # cur[w]
    <3>1. attempts'[u] = attempts[u] /\ job'[u] = job[u] /\ RunningOn(u)' = RunningOn(u)
      BY <1>1, <2>2 DEF OwnStep, RunningOn
    <3>2. BudgetSend(u) /\ Len(attempts[u]) \in Nat /\ Strikes \in Nat
      BY BudgetTypes DEF RunsBudget
    <3>3. ~RunningOn(u)' => job'[u].state \in Over \/ Within(Len(attempts[u]), Strikes')
      BY <3>1, <3>2, WithinLess DEF BudgetSend
    <3> QED
      BY <3>1, <3>2, <3>3, SendInBudget
  <2> QED
    BY <2>1, <2>2
<1> QED
  BY <1>2, <1>3 DEF RunsBudget

(* The run's own statements: the route is paid for when it is resolved.    *)
LEMMA StatementKeepsBudget ==
  ASSUME TypeOK, LocalInv, NEW w \in Workers, pc[w] # "idle", BudgetRun(w),
         Within(Len(attempts[cur[w]]), Strikes + 1),
         Statement(w) \/ LoseReply(w) \/ PeerClose(w),
         Strikes' = Strikes
  PROVE  BudgetRun(w)' /\ Within(Len(attempts'[cur[w]]), Strikes + 1)
<1> DEFINE s == cur[w]
           n == Len(attempts[s])
           left == Len(chain[w])
<1>0. s \in Sends /\ n \in Nat /\ left \in Nat /\ Strikes \in Nat
  BY BusyHasSend, BudgetTypes
<1>a. chain[w] \in Seq(Nodes) /\ (pc[w] \in InLoop => chain[w] # <<>>)
  BY DEF TypeOK, LocalInv
<1>b. pc[w] \in InLoop => left > 0
  BY <1>0, <1>a, EmptySeq
<1>c. \A m \in Nat : m < MaxAttempts => Within(m, Strikes)
  BY DEF Within
<1> HIDE DEF n, left
<1>1. CASE FindSend(w) \/ MarkDispatching(w) \/ LogDispatching(w)
  <2>1. /\ UNCHANGED <<attempts, cur, chain, number, outcome>>
        /\ pc[w] \in Unrouted
        /\ pc'[w] \in Unrouted \cup {"return"}
    BY <1>1 DEF FindSend, MarkDispatching, LogDispatching, Goto, TypeOK, rows, locals, Unrouted
  <2> QED
    BY <2>1 DEF BudgetRun, Unrouted
<1>2. CASE ResolveRoute(w)
  <2>1. PICK c \in Chains :
          /\ UNCHANGED <<attempts, cur, number>> /\ pc[w] = "route"
          /\ chain'[w] = c /\ outcome'[w] = IF c = <<>> THEN "no_route" ELSE "none"
          /\ pc'[w] = IF c = <<>> THEN "verdict" ELSE "number"
    BY <1>2 DEF ResolveRoute, Goto, TypeOK, rows
  <2>2. Within(n + Len(c), Strikes + 1)
    BY <1>0, <2>1, WithinChain DEF BudgetRun, Unrouted, n
  <2> QED
    BY <2>1, <2>2 DEF BudgetRun, Unrouted, n
<1>3. CASE NextAttemptNumber(w)
  <2>1. /\ UNCHANGED <<attempts, cur, chain, outcome>> /\ pc[w] = "number"
        /\ pc'[w] = "insert" /\ number'[w] = n + 1
    BY <1>3 DEF NextAttemptNumber, Goto, TypeOK, rows, n
  <2> QED
    BY <2>1 DEF BudgetRun, Unrouted, n
<1>4. CASE CreateDispatchAttempt(w)
  <2> DEFINE row == [node |-> Head(chain[w]), status |-> "started"]
  <2>1. number[w] = n + 1 /\ pc[w] = "insert"
    BY <1>4 DEF CreateDispatchAttempt, BudgetRun, n
  <2>2. /\ attempts' = [attempts EXCEPT ![s] = Append(@, row)]
        /\ pc' = [pc EXCEPT ![w] = "transport"] /\ UNCHANGED <<cur, chain, number, outcome>>
    BY <1>4, <2>1 DEF CreateDispatchAttempt, Goto, locals, n
  <2>3. row \in Attempt /\ attempts[s] \in Seq(Attempt)
    BY <1>0, <1>a, <2>1, HeadTailProperties DEF TypeOK, Attempt, AttemptStates, InLoop
  <2> HIDE DEF row
  <2>4. Len(attempts'[s]) = n + 1 /\ pc'[w] = "transport"
    BY <1>0, <2>2, <2>3, AppendProperties DEF TypeOK, n
  <2>5. Within(n + left, Strikes + 1)
    BY <2>1 DEF BudgetRun, n, left
  <2>6. Within(n + 1, Strikes + 1) /\ n + 1 + left - 1 = n + left
    <3>1. left > 0
      BY <1>b, <2>1 DEF InLoop
    <3> QED
      BY <1>0, <2>5, <3>1, WithinLess
  <2>7. Within((n + 1) + left - 1, Strikes + 1)
    BY <2>5, <2>6
  <2> QED
    BY <2>1, <2>2, <2>4, <2>6, <2>7 DEF BudgetRun, Unrouted, left
<1>5. CASE Transport(w) \/ LoseReply(w)
  <2>1. /\ UNCHANGED <<attempts, cur, chain, number>> /\ pc[w] = "transport"
        /\ pc'[w] = "finish"
    BY <1>5 DEF Transport, LoseReply, Goto, TypeOK, rows
  <2> QED
    BY <2>1 DEF BudgetRun, Unrouted
<1>6. CASE FinishAttempt(w)
  <2>1. Len(attempts'[s]) = n
    <3> DEFINE rs == attempts[s]
               new == [rs EXCEPT ![number[w]].status = outcome[w]]
    <3>1. rs \in Seq(Attempt) /\ outcome[w] \in AttemptStates
      BY <1>0, <1>6 DEF FinishAttempt, TypeOK, LocalInv
    <3>2. number[w] = Len(rs)
      BY <1>6 DEF FinishAttempt, BudgetRun
    <3>3. Len(new) = Len(rs)
      <4>1. CASE number[w] \in 1 .. Len(rs)
        BY <3>1, <4>1, RowStatusWrite
      <4>2. CASE number[w] \notin 1 .. Len(rs)
        <5>1. new = rs
          BY <3>1, <4>2, LenProperties
        <5> QED
          BY <5>1
      <4> QED
        BY <4>1, <4>2
    <3>4. attempts'[s] = new
      BY <1>0, <1>6 DEF FinishAttempt, TypeOK
    <3> QED
      BY <3>3, <3>4 DEF n
  <2>2. pc[w] = "finish" /\ number[w] = n /\ Within(n + left - 1, Strikes + 1)
    BY <1>6 DEF FinishAttempt, BudgetRun, n, left
  <2>3. UNCHANGED <<cur, number, outcome>>
    BY <1>6 DEF FinishAttempt
  <2>4. CASE pc'[w] = "number" /\ chain'[w] = Tail(chain[w])
    <3>1. Len(chain'[w]) = left - 1
      BY <1>a, <2>2, <2>4, HeadTailProperties DEF InLoop, left
    <3>2. n + (left - 1) = n + left - 1
      BY <1>0
    <3> QED
      BY <2>1, <2>2, <2>3, <2>4, <3>1, <3>2 DEF BudgetRun, Unrouted, n
  <2>5. CASE pc'[w] = "verdict" /\ chain' = chain
    BY <2>1, <2>2, <2>3, <2>5 DEF BudgetRun, Unrouted, n
  <2> QED
    BY <1>6, <2>4, <2>5 DEF FinishAttempt, Goto, TypeOK
<1>7. CASE WriteVerdict(w)
  BY <1>7 DEF WriteVerdict, Goto, TypeOK, locals, BudgetRun, Unrouted
<1>8. CASE LogVerdict(w)
  <2>1. /\ UNCHANGED <<attempts, cur, chain, number, outcome>> /\ pc[w] = "log_verdict"
        /\ pc'[w] = IF Verdict(w) = "deferred" THEN "throw" ELSE "return"
    BY <1>8 DEF LogVerdict, Goto, TypeOK, locals
  <2>2. Verdict(w) = "deferred" => outcome[w] # "no_route" /\ number[w] < MaxAttempts
    BY DEF Verdict
  <2>3. Verdict(w) = "deferred" => Within(n, Strikes)
    BY <1>0, <1>c, <2>1, <2>2 DEF BudgetRun, n
  <2> QED
    BY <2>1, <2>3 DEF BudgetRun, Unrouted, n
<1>9. CASE PeerClose(w)
  BY <1>9 DEF PeerClose, Goto, TypeOK, rows, locals, BudgetRun, Unrouted
<1> QED
  BY <1>1, <1>2, <1>3, <1>4, <1>5, <1>6, <1>7, <1>8, <1>9 DEF Statement

(* A run that is over leaves its send within the budget, or the job with   *)
(* nothing to do; a run cut short has its route charged to the fault.      *)
LEMMA NextBudget == TypeOK /\ LocalInv /\ LockInv /\ BudgetInv /\ [Next]_vars => BudgetInv'
<1> SUFFICES ASSUME TypeOK, LocalInv, LockInv, BudgetInv, [Next]_vars, Quiet({"lock_lost"})'
             PROVE  RunsBudget'
  BY DEF BudgetInv
<1>0. RunHoldsJob /\ OneRun /\ RunsBudget /\ job \in [Sends -> Job]
  BY LockedSteps DEF LockInv, BudgetInv, TypeOK
<1>types. \A s \in Sends, w \in Workers : Len(attempts[s]) \in Nat /\ Strikes \in Nat
  BY BudgetTypes
<1>1. ASSUME NEW w \in Workers, Statement(w) \/ LoseReply(w) \/ PeerClose(w),
             Strikes' = Strikes
      PROVE  RunsBudget'
  <2>1. OwnStep(w)
    BY <1>1, StatementIsOwnStep
  <2>2. pc[w] # "idle" /\ cur[w] \in Sends /\ Strikes \in Nat
    BY <1>types, <2>1, BusyHasSend DEF OwnStep
  <2>3. BudgetRun(w) /\ BudgetSend(cur[w])
    BY <1>0, <2>2 DEF RunsBudget
  <2>4. BudgetRun(w)' /\ Within(Len(attempts'[cur[w]]), Strikes + 1)
    BY <1>1, <2>2, <2>3, StatementKeepsBudget DEF BudgetSend
  <2> QED
    BY <1>0, <1>1, <2>1, <2>2, <2>4, BudgetFrame
<1>2. ASSUME NEW w \in Workers, DbError(w), Strikes' = Strikes + 1 PROVE RunsBudget'
  <2>1. OwnStep(w)
    BY <1>2, StatementIsOwnStep
  <2>2. pc[w] # "idle" /\ cur[w] \in Sends /\ Strikes \in Nat /\ Len(attempts[cur[w]]) \in Nat
    BY <1>types, <2>1, BusyHasSend DEF OwnStep
  <2>3. Within(Len(attempts[cur[w]]), Strikes')
    BY <1>0, <1>2, <2>2 DEF RunsBudget, BudgetSend
  <2>4. attempts' = attempts /\ cur' = cur /\ pc'[w] = "throw"
    BY <1>2 DEF DbError, Goto, TypeOK, rows, locals
  <2>5. BudgetRun(w)'
    BY <2>3, <2>4 DEF BudgetRun, Unrouted
  <2>6. Within(Len(attempts'[cur[w]]), Strikes' + 1) /\ Strikes' \in Nat /\ Strikes <= Strikes'
    BY <1>2, <2>2, <2>3, <2>4, WithinLess
  <2> QED
    BY <1>0, <2>1, <2>5, <2>6, BudgetFrame
<1>3. ASSUME NEW s \in Sends, Enqueue(s) \/ PromoteDelayed(s) \/ RecoverStalled(s),
             Strikes' = Strikes
      PROVE  RunsBudget'
  <2>1. /\ UNCHANGED <<attempts, pc, cur, chain, number, outcome>>
        /\ job[s].state \notin Over
        /\ job[s].state = "active" => ~RunIsAlive(s)
        /\ \A u \in Sends \ {s} : job'[u] = job[u]
    BY <1>0, <1>3 DEF Enqueue, PromoteDelayed, RecoverStalled, Stall, rows, locals, Over
  <2>2. ~RunningOn(s)
    BY <1>0, <2>1, DispatchAssumption DEF RunHoldsJob, RunningOn, RunIsAlive, Holds, Over
  <2>3. ASSUME NEW v \in Workers, pc'[v] # "idle" PROVE BudgetRun(v)'
    BY <1>0, <1>3, <1>types, <2>1, <2>3, BusyHasSend, RunInBudget DEF RunsBudget
  <2>4. ASSUME NEW u \in Sends PROVE BudgetSend(u)'
    <3>1. BudgetSend(u) /\ RunningOn(u)' = RunningOn(u)
      BY <1>0, <2>1 DEF RunsBudget, RunningOn
    <3>2. ~RunningOn(u)' => job'[u].state \in Over \/ Within(Len(attempts[u]), Strikes')
      BY <1>3, <2>1, <2>2, <3>1 DEF BudgetSend
    <3> QED
      BY <1>3, <2>1, <3>1, <3>2 DEF BudgetSend
  <2> QED
    BY <2>3, <2>4 DEF RunsBudget
<1>4. ASSUME NEW w \in Workers, NEW s \in Sends, TakeJob(w, s), Strikes' = Strikes
      PROVE  RunsBudget'
  <2>1. /\ UNCHANGED <<attempts, chain, number, outcome>>
        /\ pc[w] = "idle" /\ job[s].state = "waiting"
        /\ pc' = [pc EXCEPT ![w] = "find"] /\ cur' = [cur EXCEPT ![w] = s]
        /\ \A u \in Sends \ {s} : job'[u] = job[u]
    BY <1>0, <1>4 DEF TakeJob, rows, Job
  <2>2. pc'[w] = "find" /\ cur'[w] = s /\ cur[w] = NoSend
    BY <2>1 DEF TypeOK, LocalInv
  <2>3. ~RunningOn(s)
    BY <1>0, <2>1, DispatchAssumption DEF RunHoldsJob, RunningOn, Holds
  <2>4. Within(Len(attempts[s]), Strikes)
    BY <1>0, <2>1, <2>3 DEF RunsBudget, BudgetSend, Over
  <2>5. ASSUME NEW v \in Workers, pc'[v] # "idle" PROVE BudgetRun(v)'
    <3>1. CASE v = w
      BY <1>4, <2>1, <2>2, <2>4, <3>1 DEF BudgetRun, Unrouted
    <3>2. CASE v # w
      <4>1. pc'[v] = pc[v] /\ cur'[v] = cur[v]
        BY <2>1, <3>2 DEF TypeOK
      <4> QED
        BY <1>0, <1>4, <1>types, <2>1, <2>5, <4>1, BusyHasSend, RunInBudget DEF RunsBudget
    <3> QED
      BY <3>1, <3>2
  <2>6. ASSUME NEW u \in Sends PROVE BudgetSend(u)'
    <3>1. BudgetSend(u)
      BY <1>0 DEF RunsBudget
    <3>2. CASE u = s
      <4>1. RunningOn(s)'
        BY <2>2 DEF RunningOn
      <4> QED
        BY <1>4, <2>1, <3>1, <3>2, <4>1 DEF BudgetSend
    <3>3. CASE u # s
      <4>1. \A v \in Workers \ {w} : cur'[v] = cur[v]
        BY <2>1 DEF TypeOK
      <4>2. RunningOn(u) => RunningOn(u)'
        BY <2>2, <4>1, DispatchAssumption DEF RunningOn
      <4> QED
        BY <1>4, <2>1, <3>1, <3>3, <4>2 DEF BudgetSend
    <3> QED
      BY <3>2, <3>3
  <2> QED
    BY <2>5, <2>6 DEF RunsBudget
<1>5. ASSUME NEW w \in Workers,
             \/ (CompleteJob(w) \/ FailJob(w)) /\ Strikes' = Strikes
             \/ Crash(w) /\ Strikes' = Strikes + 1
      PROVE  RunsBudget'
  <2>0. PICK s \in Sends : s = cur[w]
    BY <1>5, BusyHasSend DEF CompleteJob, FailJob, Crash
  <2>1. /\ attempts' = attempts /\ s # NoSend
        /\ pc' = [pc EXCEPT ![w] = "idle"] /\ cur' = [cur EXCEPT ![w] = NoSend]
        /\ chain' = [chain EXCEPT ![w] = <<>>]
        /\ number' = [number EXCEPT ![w] = 0] /\ outcome' = [outcome EXCEPT ![w] = "none"]
        /\ \A u \in Sends \ {s} : job'[u] = job[u]
    BY <1>5, <2>0, DispatchAssumption DEF CompleteJob, FailJob, Crash, Release, rows, TypeOK
  <2>2. Strikes \in Nat /\ Strikes' \in Nat /\ Strikes <= Strikes'
    BY <1>5, <1>types, <2>0
  <2>3. \A v \in Workers \ {w} :
           /\ pc'[v] = pc[v] /\ cur'[v] = cur[v] /\ cur[v] # s /\ chain'[v] = chain[v]
           /\ number'[v] = number[v] /\ outcome'[v] = outcome[v]
    BY <1>0, <2>0, <2>1 DEF OneRun, TypeOK
  <2>4. ASSUME NEW v \in Workers, pc'[v] # "idle" PROVE BudgetRun(v)'
    <3>1. v # w
      BY <2>1, <2>4 DEF TypeOK
    <3>2. BudgetRun(v) /\ pc[v] # "idle"
      BY <1>0, <2>3, <2>4, <3>1 DEF RunsBudget
    <3> QED
      BY <2>1, <2>2, <2>3, <3>1, <3>2, RunInBudget
  <2>5. job'[s].state \in Over \/ Within(Len(attempts[s]), Strikes')
    <3>1. CASE CompleteJob(w)
      BY <1>0, <2>0, <2>1, <3>1 DEF CompleteJob, RunHoldsJob, Over, Job
    <3>2. CASE FailJob(w) /\ Strikes' = Strikes
      BY <1>0, <2>0, <3>2 DEF FailJob, RunsBudget, BudgetRun
    <3>3. CASE Crash(w) /\ Strikes' = Strikes + 1
      BY <1>0, <3>3 DEF RunsBudget, BudgetSend
    <3> QED
      BY <1>5, <3>1, <3>2, <3>3
  <2>6. ASSUME NEW u \in Sends PROVE BudgetSend(u)'
    <3>1. BudgetSend(u) /\ Len(attempts[u]) \in Nat
      BY <1>0, <1>types DEF RunsBudget
    <3>2. ~RunningOn(u)' => job'[u].state \in Over \/ Within(Len(attempts[u]), Strikes')
      <4>1. CASE u = s
        BY <2>5, <4>1
      <4>2. CASE u # s
        <5>1. RunningOn(u) => RunningOn(u)'
          BY <2>0, <2>3, <4>2 DEF RunningOn
        <5> QED
          BY <2>1, <2>2, <3>1, <4>2, <5>1, WithinLess DEF BudgetSend
      <4> QED
        BY <4>1, <4>2
    <3> QED
      BY <2>1, <2>2, <3>1, <3>2, SendInBudget
  <2> QED
    BY <2>4, <2>6 DEF RunsBudget
<1>6. CASE RedisRestart /\ Strikes' = Strikes
  <2>1. /\ UNCHANGED <<attempts, pc, cur, chain, number, outcome>>
        /\ \A u \in Sends : job'[u] = job[u] \/ job'[u].state \in Over
    BY <1>0, <1>6 DEF RedisRestart, rows, locals, Job, Over
  <2>2. ASSUME NEW v \in Workers, pc'[v] # "idle" PROVE BudgetRun(v)'
    BY <1>0, <1>6, <1>types, <2>1, <2>2, BusyHasSend, RunInBudget DEF RunsBudget
  <2>3. ASSUME NEW u \in Sends PROVE BudgetSend(u)'
    <3>1. BudgetSend(u) /\ RunningOn(u)' = RunningOn(u)
      BY <1>0, <2>1 DEF RunsBudget, RunningOn
    <3> QED
      BY <1>6, <2>1, <3>1 DEF BudgetSend
  <2> QED
    BY <2>2, <2>3 DEF RunsBudget
<1>7. CASE UNCHANGED vars
  <2>1. \A v \in Workers : BudgetRun(v)' = BudgetRun(v)
    BY <1>7 DEF vars, BudgetRun, Strikes
  <2>2. \A u \in Sends : BudgetSend(u)' = BudgetSend(u)
    BY <1>7 DEF vars, BudgetSend, RunningOn, Strikes
  <2> QED
    BY <1>0, <1>7, <2>1, <2>2 DEF vars, RunsBudget
<1> QED
  BY <1>1, <1>2, <1>3, <1>4, <1>5, <1>6, <1>7, LockedSteps

(* Attempts are bounded for every number of sends, workers and chains and  *)
(* every budget, through crashes, database errors, lost replies and the    *)
(* loss of Redis, as long as no live worker loses its lock.                *)
THEOREM AttemptsAreBounded == Spec => []AttemptBudget
<1> DEFINE All == TypeOK /\ LocalInv /\ LockInv /\ BudgetInv
<1>1. Init => All
  <2> SUFFICES ASSUME Init PROVE All
    OBVIOUS
  <2>1. TypeOK /\ LocalInv
    BY InitTypes
  <2>2. LockInv
    BY DEF Init, LockInv, RunHoldsJob, OneRun
  <2>3. \A s \in Sends : Len(attempts[s]) = 0
    BY DEF Init
  <2>4. \A i : Within(0, i)
    BY DispatchAssumption DEF Within
  <2>5. \A s \in Sends : BudgetSend(s)
    BY <2>3, <2>4 DEF BudgetSend
  <2>6. \A w \in Workers : pc[w] = "idle"
    BY DEF Init
  <2>7. BudgetInv
    BY <2>5, <2>6 DEF BudgetInv, RunsBudget
  <2> QED
    BY <2>1, <2>2, <2>7
<1>2. All /\ [Next]_vars => All'
  BY NextTypes, NextLocks, NextBudget
<1>3. All => AttemptBudget
  <2> SUFFICES ASSUME All, Quiet({"lock_lost"}), NEW s \in Sends
               PROVE  Within(Len(attempts[s]), 1 + faults["crash"] + faults["db_error"])
    BY DEF AttemptBudget
  <2>1. Within(Len(attempts[s]), Strikes + 1)
    BY DEF BudgetInv, RunsBudget, BudgetSend
  <2>2. faults["crash"] \in Nat /\ faults["db_error"] \in Nat
    BY DEF TypeOK, FaultKinds
  <2>3. Strikes + 1 = 1 + faults["crash"] + faults["db_error"]
    BY <2>2 DEF Strikes
  <2> QED
    BY <2>1, <2>3
<1> HIDE DEF All
<1>4. Spec => []All
  BY <1>1, <1>2, PTL DEF Spec
<1> QED
  BY <1>3, <1>4, PTL
=============================================================================
