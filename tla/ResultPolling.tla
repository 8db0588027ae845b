--------------------------- MODULE ResultPolling ---------------------------
(***************************************************************************)
(* A client that follows the results of its sends with                     *)
(* GET /send-results?updatedSince=...&limit=..., as CLIENT_API.md tells it *)
(* to: it goes on from the last updatedAt it got, looking a little further *)
(* back.                                                                   *)
(*                                                                         *)
(* A row's updated_at is stamped when its statement starts and shows when  *)
(* the statement is committed, so rows appear, and even move, behind a     *)
(* cursor that has passed them.  Statements of the workers and inserts are *)
(* stamped by the database with now(), those of the console by the         *)
(* console's own clock in whole milliseconds, which is also what the       *)
(* answer shows of any stamp.                                              *)
(*                                                                         *)
(* The unit of time is half a millisecond.                                 *)
(***************************************************************************)
EXTENDS Integers, FiniteSets

CONSTANTS
  Sends,       \* the sends of the client's key; numbered, as the ids order them
  Limit,       \* the page size the client asks for, 1 to 500 in the code
  Lookback,    \* how far before its cursor the client asks
  MaxDelay,    \* the longest a statement takes from its stamp to its commit
  Skew,        \* how far the console's clock is off the database's
  MaxTime, MaxUpdates   \* bound the model

ASSUME PollingAssumption ==
  /\ Sends \subseteq Nat /\ IsFiniteSet(Sends)
  /\ Limit \in 1..500
  /\ {Lookback, MaxDelay, Skew, MaxTime, MaxUpdates} \subseteq Nat
  /\ Lookback > MaxDelay + 2 * Skew + 1   \* 1: what rounding takes off a stamp

VARIABLES
  clock,     \* the database's clock
  version,   \* updates committed to a send, 0 before its insert
  at,        \* sends.updated_at
  pending,   \* statements that run: the send, the stamp, when it was taken
  cursor,    \* client: the last updatedAt it stored
  seen       \* client: the version of each send it knows

vars == <<clock, version, at, pending, cursor, seen>>

Statement == [send : Sends, stamp : Int, since : Nat]

(* Besides the types: no stamp and no cursor is ahead of both clocks.      *)
TypeOK ==
  /\ clock \in Nat
  /\ version \in [Sends -> Nat]
  /\ at \in [Sends -> Int]
  /\ pending \subseteq Statement
  /\ \A p \in pending : clock \in p.since..(p.since + MaxDelay)
  /\ \A s \in Sends : at[s] <= clock + Skew
  /\ cursor \in Int /\ cursor <= clock + Skew
  /\ seen \in [Sends -> Nat]

Init ==
  /\ clock = 0
  /\ version = [s \in Sends |-> 0]
  /\ at = [s \in Sends |-> 0]
  /\ pending = {}
  /\ cursor = -(Lookback + Skew + 2)
  /\ seen = [s \in Sends |-> 0]

-----------------------------------------------------------------------------
(***************************************************************************)
(* The writers.                                                            *)
(***************************************************************************)
PendingOf(s) == {p \in pending : p.send = s}

(* What makes a page large enough: fewer than Limit sends change within    *)
(* the time the client looks back, give or take a stamp.                   *)
Window == Lookback + Skew + 2
PageSuffices(s) ==
  Cardinality({x \in Sends \ {s} : \/ version[x] > 0 /\ at[x] >= clock - Window
                                   \/ PendingOf(x) # {}}) + 1 < Limit

Begin(s, stamp) ==
  /\ version[s] + Cardinality(PendingOf(s)) < MaxUpdates
  /\ PageSuffices(s)
  /\ pending' = pending \cup {[send |-> s, stamp |-> stamp, since |-> clock]}
  /\ UNCHANGED <<clock, version, at, cursor, seen>>

(* Mutant: rounded up.                                                     *)
MillisecondUp(t) == t + (t % 2)

Millisecond(t) == t - (t % 2)

(* The insert of a send and every update of a worker: now().               *)
BeginInDatabase(s) == Begin(s, clock)

(* setQueueJobId and setStatus: new Date() of the console, evaluated before*)
(* the statement is sent.                                                  *)
BeginInConsole(s) ==
  /\ version[s] > 0
  /\ \E d \in -Skew..Skew : Begin(s, Millisecond(clock + d))

Commit(p) ==
  /\ pending' = pending \ {p}
  /\ version' = [version EXCEPT ![p.send] = @ + 1]
  /\ at' = [at EXCEPT ![p.send] = p.stamp]
  /\ UNCHANGED <<clock, cursor, seen>>

Tick ==
  /\ clock < MaxTime
  /\ \A p \in pending : clock - p.since < MaxDelay
  /\ clock' = clock + 1
  /\ UNCHANGED <<version, at, pending, cursor, seen>>

-----------------------------------------------------------------------------
(***************************************************************************)
(* The client and listResultsUpdatedSince.                                 *)
(***************************************************************************)
Earlier(x, y) == at[x] < at[y] \/ (at[x] = at[y] /\ x < y)

Rows(since) == {s \in Sends : version[s] > 0 /\ at[s] > since}

(* Mutant: in the order of the ids.                                        *)
PageById(since) ==
  {s \in Rows(since) : Cardinality({x \in Rows(since) : x < s}) < Limit}

(* where updated_at > since order by updated_at, id limit Limit            *)
Page(since) ==
  {s \in Rows(since) : Cardinality({x \in Rows(since) : Earlier(x, s)}) < Limit}

(* Mutants of Since: the client does not look back; it looks back further  *)
(* than its pages reach.                                                   *)
SinceCursor == cursor
SinceFarBack == cursor - 8 * Window
Since == cursor - Lookback

Poll ==
  LET page == Page(Since) IN
  /\ seen' = [s \in Sends |-> IF s \in page THEN version[s] ELSE seen[s]]
  /\ \E last \in page : /\ \A s \in page : at[s] <= at[last]
                        /\ cursor' = Millisecond(at[last])
  /\ UNCHANGED <<clock, version, at, pending>>

-----------------------------------------------------------------------------
Next ==
  \/ \E s \in Sends : BeginInDatabase(s) \/ BeginInConsole(s)
  \/ \E p \in pending : Commit(p)
  \/ Tick
  \/ Poll

(* The client polls at an interval and statements come to an end.          *)
Spec ==
  /\ Init /\ [][Next]_vars
  /\ WF_vars(Poll)
  /\ WF_vars(\E p \in pending : Commit(p))

-----------------------------------------------------------------------------
(***************************************************************************)
(* Properties.                                                             *)
(***************************************************************************)

(* A result the client does not know yet is never left behind: a later     *)
(* page can still contain it, however late and out of order statements are *)
(* committed, and although the answer rounds the stamps.                   *)
NothingFallsBehind ==
  \A s \in Sends : seen[s] # version[s] => at[s] > Since

(* The client learns the last state of every send: its pages never fill up *)
(* with what it knows already.                                             *)
EveryResultIsSeen == \A s \in Sends : <>[](seen[s] = version[s])
=============================================================================
