------------------------ MODULE ResultPollingProofs ------------------------
(***************************************************************************)
(* Theorems about ResultPolling, for any sends, page size, delay and skew  *)
(* that PollingAssumption admits.                                          *)
(***************************************************************************)
EXTENDS ResultPolling, FiniteSetTheorems, TLAPS

(* A running statement was stamped about when it started.                  *)
Stamped == \A p \in pending : p.stamp \in (p.since - Skew - 1)..(p.since + Skew)

(* What was never inserted was never seen.                                 *)
UnseenBefore == \A s \in Sends : version[s] = 0 => seen[s] = 0

IInv == TypeOK /\ Stamped /\ UnseenBefore /\ NothingFallsBehind

-----------------------------------------------------------------------------
LEMMA MillisecondRounds == \A t \in Int : Millisecond(t) \in Int /\ Millisecond(t) \in (t - 1)..t
BY DEF Millisecond

LEMMA PageRows ==
  ASSUME NEW since \in Int
  PROVE  Page(since) \subseteq Rows(since) /\ Rows(since) \subseteq Sends
BY DEF Page, Rows

(* order by updated_at, id limit Limit: a row that the page leaves out is  *)
(* not older than any row of the page.                                     *)
LEMMA LeftOutIsLater ==
  ASSUME TypeOK, NEW since \in Int,
         NEW last \in Page(since), NEW s \in Rows(since) \ Page(since)
  PROVE  at[last] <= at[s]
<1> DEFINE before(x) == {y \in Rows(since) : Earlier(y, x)}
<1>1. s \in Sends /\ last \in Sends /\ at[s] \in Int /\ at[last] \in Int
  BY PageRows DEF TypeOK
<1> SUFFICES ASSUME at[s] < at[last] PROVE FALSE
  BY <1>1
<1>2. IsFiniteSet(before(last)) /\ IsFiniteSet(before(s))
  <2>1. before(last) \subseteq Sends /\ before(s) \subseteq Sends
    BY PageRows
  <2> QED
    BY <2>1, FS_Subset, PollingAssumption
<1>3. before(s) \subseteq before(last)
  BY <1>1, PageRows DEF Earlier, TypeOK
<1>4. Cardinality(before(s)) <= Cardinality(before(last))
  BY <1>2, <1>3, FS_Subset
<1>5. Cardinality(before(last)) < Limit /\ ~(Cardinality(before(s)) < Limit)
  BY DEF Page
<1>6. Cardinality(before(last)) \in Nat /\ Cardinality(before(s)) \in Nat /\ Limit \in Nat
  BY <1>2, FS_CardinalityType, PollingAssumption
<1> QED
  BY <1>4, <1>5, <1>6

LEMMA CommitTypes ==
  ASSUME TypeOK, NEW p, p.send \in Sends, p.stamp \in Int, Commit(p)
  PROVE  version' \in [Sends -> Nat] /\ at' \in [Sends -> Int]
<1>1. version \in [Sends -> Nat] /\ at \in [Sends -> Int]
  BY DEF TypeOK
<1>2. version[p.send] + 1 \in Nat
  BY <1>1
<1> QED
  BY <1>1, <1>2 DEF Commit

-----------------------------------------------------------------------------
THEOREM InitInv == Init => IInv
<1> SUFFICES ASSUME Init PROVE IInv
  OBVIOUS
<1> USE PollingAssumption DEF Init
<1>1. TypeOK
  BY DEF TypeOK
<1>2. Stamped /\ UnseenBefore /\ NothingFallsBehind
  BY DEF Stamped, UnseenBefore, NothingFallsBehind
<1> QED
  BY <1>1, <1>2 DEF IInv

THEOREM NextInv == IInv /\ [Next]_vars => IInv'
<1> SUFFICES ASSUME IInv, [Next]_vars PROVE IInv'
  OBVIOUS
<1> USE PollingAssumption DEF IInv
<1>1. ASSUME NEW s \in Sends, NEW stamp \in (clock - Skew - 1)..(clock + Skew), Begin(s, stamp)
      PROVE  IInv'
  <2> DEFINE new == [send |-> s, stamp |-> stamp, since |-> clock]
  <2>1. clock \in Nat /\ new \in Statement
    BY DEF TypeOK, Statement
  <2>2. pending' = pending \cup {new} /\ UNCHANGED <<clock, version, at, cursor, seen>>
    BY <1>1 DEF Begin
  <2>3. TypeOK' /\ Stamped'
    BY <2>1, <2>2 DEF TypeOK, Stamped
  <2>4. UnseenBefore' /\ NothingFallsBehind'
    BY <2>2 DEF UnseenBefore, NothingFallsBehind, Since
  <2> QED
    BY <2>3, <2>4
<1>2. ASSUME NEW s \in Sends, BeginInDatabase(s) PROVE IInv'
  <2>1. clock \in (clock - Skew - 1)..(clock + Skew)
    BY Skew \in Nat DEF TypeOK
  <2> QED
    BY <1>1, <1>2, <2>1 DEF BeginInDatabase
<1>3. ASSUME NEW s \in Sends, BeginInConsole(s) PROVE IInv'
  <2>1. PICK d \in -Skew..Skew : Begin(s, Millisecond(clock + d))
    BY <1>3 DEF BeginInConsole
  <2>2. Millisecond(clock + d) \in (clock - Skew - 1)..(clock + Skew)
    BY MillisecondRounds DEF TypeOK
  <2> QED
    BY <1>1, <2>1, <2>2
<1>4. ASSUME NEW p \in pending, Commit(p) PROVE IInv'
  <2>1. /\ p \in Statement /\ clock \in p.since..(p.since + MaxDelay)
        /\ p.stamp \in (p.since - Skew - 1)..(p.since + Skew)
    BY DEF TypeOK, Stamped
  <2>2. p.send \in Sends /\ p.stamp \in Int /\ p.stamp <= clock + Skew /\ p.stamp > Since
    BY <2>1 DEF TypeOK, Statement, Since
  <2>3. TypeOK'
    <3>1. version' \in [Sends -> Nat] /\ at' \in [Sends -> Int]
      BY <1>4, <2>2, CommitTypes
    <3>2. \A s \in Sends : at'[s] = IF s = p.send THEN p.stamp ELSE at[s]
      BY <1>4 DEF TypeOK, Commit
    <3>3. \A s \in Sends : at'[s] <= clock + Skew
      BY <2>2, <3>2 DEF TypeOK
    <3>4. pending' \subseteq pending /\ UNCHANGED <<clock, cursor, seen>>
      BY <1>4 DEF Commit
    <3> QED
      BY <3>1, <3>3, <3>4 DEF TypeOK
  <2>4. Stamped' /\ UnseenBefore'
    BY <1>4, <2>2 DEF Commit, Stamped, UnseenBefore, TypeOK
  <2>5. NothingFallsBehind'
    BY <1>4, <2>2 DEF Commit, NothingFallsBehind, Since, TypeOK
  <2> QED
    BY <2>3, <2>4, <2>5
<1>5. CASE Tick
  BY <1>5 DEF Tick, TypeOK, Stamped, UnseenBefore, NothingFallsBehind, Since, Statement
<1>6. CASE Poll
  <2> DEFINE page == Page(Since)
  <2>1. PICK last \in page : cursor' = Millisecond(at[last])
    BY <1>6 DEF Poll
  <2>2. Since \in Int /\ page \subseteq Rows(Since) /\ Rows(Since) \subseteq Sends
    BY PageRows DEF Since, TypeOK
  <2>3. at[last] \in Int /\ at[last] <= clock + Skew
    BY <2>2 DEF TypeOK
  <2>4. cursor' \in Int /\ cursor' <= at[last]
    BY <2>1, <2>3, MillisecondRounds
  <2>5. /\ seen' = [s \in Sends |-> IF s \in page THEN version[s] ELSE seen[s]]
        /\ UNCHANGED <<clock, version, at, pending>>
    BY <1>6 DEF Poll
  <2>6. TypeOK' /\ Stamped'
    BY <2>3, <2>4, <2>5 DEF TypeOK, Stamped
  <2>7. UnseenBefore'
    BY <2>2, <2>5 DEF UnseenBefore
  <2>8. NothingFallsBehind'
    <3> SUFFICES ASSUME NEW s \in Sends, seen'[s] # version[s] PROVE at[s] > cursor' - Lookback
      BY <2>5 DEF NothingFallsBehind, Since
    <3>1. s \notin page /\ seen[s] # version[s]
      BY <2>5
    <3>2. at[s] > Since /\ version[s] > 0
      BY <3>1 DEF NothingFallsBehind, UnseenBefore, TypeOK
    <3>3. s \in Rows(Since) \ page
      BY <3>1, <3>2 DEF Rows
    <3>4. at[last] <= at[s]
      BY <2>1, <2>2, <3>3, LeftOutIsLater
    <3> QED
      BY <2>3, <2>4, <3>4 DEF TypeOK
  <2> QED
    BY <2>6, <2>7, <2>8
<1>7. CASE UNCHANGED vars
  BY <1>7 DEF vars, TypeOK, Stamped, UnseenBefore, NothingFallsBehind, Since
<1> QED
  BY <1>2, <1>3, <1>4, <1>5, <1>6, <1>7 DEF Next

THEOREM Inductive == Spec => []IInv
BY InitInv, NextInv, PTL DEF Spec

(* The types, and that no stamp and no cursor runs ahead of both clocks.   *)
THEOREM StampsAreBounded == Spec => []TypeOK
<1>1. IInv => TypeOK
  BY DEF IInv
<1> QED
  BY <1>1, Inductive, PTL

(* listResultsUpdatedSince with the look-back that CLIENT_API.md advises:  *)
(* no committed change of a send is ever behind the cursor unseen, as long *)
(* as the client looks back further than a statement takes from its stamp  *)
(* to its commit, twice the skew of the clocks and the rounding.           *)
THEOREM NothingIsSkipped == Spec => []NothingFallsBehind
<1>1. IInv => NothingFallsBehind
  BY DEF IInv
<1> QED
  BY <1>1, Inductive, PTL
=============================================================================
