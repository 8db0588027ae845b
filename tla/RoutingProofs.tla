---------------------------- MODULE RoutingProofs ----------------------------
(***************************************************************************)
(* Theorems about Routing, for any nodes, domains, rulesets, sends and     *)
(* administrators that RoutingAssumption admits.                           *)
(***************************************************************************)
EXTENDS Routing, FiniteSetTheorems, TLAPS

(* A version under way is a number.                                        *)
AdminInv == \A a \in Admins : admin[a].at \in {"check", "insert"} => admin[a].version # 0

(* The rules a send of a domain may go by, whichever others there are.     *)
Applies(r, s) == r.active /\ r.match \in {DomainOf[s], Default}

(* What a creation has read so far stands in the ruleset of its version,   *)
(* and so does what it has stored.                                         *)
Backed(c, s) ==
  /\ c.at \in {"exact", "default", "nodes"} => \E r \in rules : r.version = c.version
  /\ c.at = "nodes" => \E r \in RulesOf(c.version) : Applies(r, s) /\ c.chain = r.chain
  /\ c.pin # NoPin =>
       /\ c.at = "stored"
       /\ \E r \in RulesOf(c.pin.version) : Applies(r, s) /\ c.pin.node \in Range(r.chain)

(* A run of a send with a stored route looks for its version only, and has *)
(* no nodes before it has resolved.                                        *)
Bound(d, c, s) ==
  /\ d.at # "idle" => c.at = "stored"
  /\ d.at = "latest" => c.pin = NoPin
  /\ d.at \in {"exact", "default"} /\ c.pin # NoPin => d.version = c.pin.version
  /\ d.at # "resolved" => d.chain = <<>>
  /\ d.at = "resolved" /\ c.pin # NoPin =>
       \A n \in Range(d.chain) :
          \E r \in RulesOf(c.pin.version) : Applies(r, s) /\ n \in Range(r.chain)

RouteInv == \A s \in Sends : Backed(send[s], s) /\ Bound(run[s], send[s], s)

(* While one administrative request is served at a time: the version it is *)
(* to insert is later than all there are, and                              *)
Newer ==
  \A a \in Admins : admin[a].at \in {"check", "insert"} =>
     \A r \in rules : r.version < admin[a].version

(* what a creation has read, and stores, is what its version prescribes.   *)
Explained(c, s) ==
  /\ c.at = "default" => Matching(c.version, DomainOf[s]) = {}
  /\ c.at = "nodes" => \E r \in RulesOf(c.version) : Governs(r, s) /\ c.chain = r.chain
  /\ c.pin # NoPin =>
       \E r \in RulesOf(c.pin.version) : Governs(r, s) /\ c.pin.node \in Range(r.chain)

IInv == TypeOK /\ AdminInv /\ RouteInv
PinInv == Newer /\ \A s \in Sends : Explained(send[s], s)

-----------------------------------------------------------------------------
(***************************************************************************)
(* Least and greatest elements, from the well-foundedness of <.            *)
(***************************************************************************)
LEMMA LeastOf ==
  ASSUME NEW S \in SUBSET Nat, S # {}
  PROVE  \E x \in S : \A y \in S : x <= y
<1>1. PICK x \in S : \A y \in S : ~(<<y, x>> \in OpToRel(<, Nat))
  BY NatLessThanWellFounded, WFMin
<1>2. \A y \in S : ~(y < x)
  BY <1>1 DEF OpToRel
<1> QED
  BY <1>2

LEMMA MinIsLeast ==
  ASSUME NEW S \in SUBSET Nat, S # {}
  PROVE  Min(S) \in S /\ \A y \in S : Min(S) <= y
BY LeastOf DEF Min

LEMMA MaxIsGreatest ==
  ASSUME NEW S \in SUBSET Nat, S # {}, NEW bound \in Nat, \A x \in S : x <= bound
  PROVE  Max(S) \in S /\ \A y \in S : y <= Max(S)
<1> DEFINE gaps == {g \in Nat : \E x \in S : g + x = bound}
<1>1. \A x \in S : bound - x \in gaps
  <2> TAKE x \in S
  <2>1. bound - x \in Nat /\ (bound - x) + x = bound
    OBVIOUS
  <2> QED
    BY <2>1
<1>2. PICK g \in gaps : \A h \in gaps : g <= h
  <2>1. gaps \in SUBSET Nat /\ gaps # {}
    BY <1>1
  <2> QED
    BY <2>1, LeastOf
<1>3. PICK x \in S : g + x = bound
  OBVIOUS
<1>4. \A y \in S : y <= x
  BY <1>1, <1>2, <1>3
<1> QED
  BY <1>4 DEF Max

-----------------------------------------------------------------------------
(***************************************************************************)
(* What the queries return.                                                *)
(***************************************************************************)
(* max(version): the number of the latest ruleset, or 0.                   *)
LEMMA LatestIsGreatest ==
  ASSUME TypeOK
  PROVE  /\ Latest \in 0..MaxVersions
         /\ \A r \in rules : r.version <= Latest
         /\ Latest # 0 => \E r \in rules : r.version = Latest
<1> DEFINE S == {0} \cup {r.version : r \in rules}
<1>1. S \in SUBSET Nat /\ S # {} /\ \A x \in S : x <= MaxVersions
  <2>1. MaxVersions \in Nat /\ \A r \in rules : r.version \in 1..MaxVersions
    BY RoutingAssumption DEF TypeOK
  <2> QED
    BY <2>1
<1>2. Max(S) \in S /\ \A y \in S : y <= Max(S)
  BY <1>1, MaxIsGreatest, RoutingAssumption
<1>3. \A r \in rules : r.version \in S
  OBVIOUS
<1>4. Latest = Max(S)
  BY DEF Latest
<1>5. Latest # 0 => \E r \in rules : r.version = Latest
  BY <1>2, <1>4
<1>6. Latest \in 0..MaxVersions
  BY <1>1, <1>2, <1>4, RoutingAssumption
<1> HIDE DEF S
<1> QED
  BY <1>2, <1>3, <1>4, <1>5, <1>6

(* The node stored with a send: the first of the chain that is live.       *)
LEMMA FirstLiveNode ==
  ASSUME NEW chain \in Seq(Nodes), LiveAt(chain) # {}
  PROVE  LET first == Min(LiveAt(chain)) IN
         /\ chain[first] \in Range(chain) /\ Live(chain[first])
         /\ \A i \in DOMAIN chain : i < first => ~Live(chain[i])
<1> DEFINE first == Min(LiveAt(chain))
<1>1. LiveAt(chain) \in SUBSET Nat /\ LiveAt(chain) \subseteq DOMAIN chain
  BY DEF LiveAt
<1>2. first \in LiveAt(chain) /\ \A i \in LiveAt(chain) : first <= i
  BY <1>1, MinIsLeast
<1> HIDE DEF first
<1>3. first \in DOMAIN chain /\ Live(chain[first])
  BY <1>2 DEF LiveAt
<1>4. ASSUME NEW i \in DOMAIN chain, i < first PROVE ~Live(chain[i])
  <2>1. i \in Nat /\ first \in Nat /\ ~(first <= i)
    BY <1>1, <1>3, <1>4
  <2> QED
    BY <1>2, <2>1 DEF LiveAt
<1>5. chain[first] \in Range(chain)
  BY <1>3 DEF Range
<1> QED
  BY <1>3, <1>4, <1>5 DEF first

LEMMA ImageIsFinite ==
  ASSUME NEW S, IsFiniteSet(S), NEW T, NEW f \in [S -> T], \A t \in T : \E x \in S : f[x] = t
  PROVE  IsFiniteSet(T)
<1>1. f \in Surjection(S, T)
  BY DEF Surjection
<1> QED
  BY <1>1, FS_Surjection

LEMMA RowsAreFinite ==
  ASSUME TypeOK, NEW found \in SUBSET rules
  PROVE  IsFiniteSet(LiveRows(found))
<1> DEFINE rowsOf(r) == {[rule |-> r, place |-> i] : i \in LiveAt(r.chain)}
           tables == {rowsOf(r) : r \in found}
<1>1. IsFiniteSet(found)
  BY FS_Subset DEF TypeOK
<1>2. IsFiniteSet(tables)
  <2>1. [r \in found |-> rowsOf(r)] \in [found -> tables]
    OBVIOUS
  <2> HIDE DEF rowsOf
  <2>2. \A t \in tables : \E r \in found : [x \in found |-> rowsOf(x)][r] = t
    OBVIOUS
  <2> QED
    BY <1>1, <2>1, <2>2, ImageIsFinite
<1>3. ASSUME NEW r \in found PROVE IsFiniteSet(rowsOf(r))
  <2>1. r.chain \in Seq(Nodes)
    BY DEF TypeOK, Rule
  <2>2. IsFiniteSet(LiveAt(r.chain))
    <3>1. LiveAt(r.chain) \in SUBSET (1..Len(r.chain)) /\ Len(r.chain) \in Nat
      BY <2>1 DEF LiveAt
    <3>2. IsFiniteSet(1..Len(r.chain))
      BY <3>1, FS_Interval
    <3> QED
      BY <3>1, <3>2, FS_Subset
  <2>3. [i \in LiveAt(r.chain) |-> [rule |-> r, place |-> i]] \in [LiveAt(r.chain) -> rowsOf(r)]
    OBVIOUS
  <2>4. \A t \in rowsOf(r) : \E i \in LiveAt(r.chain) :
           [j \in LiveAt(r.chain) |-> [rule |-> r, place |-> j]][i] = t
    OBVIOUS
  <2> QED
    BY <2>2, <2>3, <2>4, ImageIsFinite
<1>4. IsFiniteSet(UNION tables)
  <2>1. \A t \in tables : IsFiniteSet(t)
    BY <1>3
  <2> HIDE DEF tables
  <2> QED
    BY <1>2, <2>1, FS_UNION
<1> QED
  BY <1>4 DEF LiveRows

(* The join: a chain of live nodes, each from the chain of a rule found.   *)
LEMMA JoinedNodes ==
  ASSUME TypeOK, NEW found \in SUBSET rules, NEW chain \in LiveChains(found)
  PROVE  /\ chain \in Seq(Nodes)
         /\ \A n \in Range(chain) : Live(n) /\ \E r \in found : n \in Range(r.chain)
<1> DEFINE rows == LiveRows(found)
           nodeOf(row) == row.rule.chain[row.place]
<1>1. PICK order \in SetToSeqs(rows) : chain = [i \in DOMAIN order |-> nodeOf(order[i])]
  BY DEF LiveChains
<1>2. Cardinality(rows) \in Nat
  BY RowsAreFinite, FS_CardinalityType
<1>3. order \in [1..Cardinality(rows) -> rows]
  BY <1>1 DEF SetToSeqs
<1>4. ASSUME NEW row \in rows
      PROVE  nodeOf(row) \in Nodes /\ Live(nodeOf(row)) /\
             \E r \in found : nodeOf(row) \in Range(r.chain)
  <2>1. PICK r \in found : \E i \in LiveAt(r.chain) : row = [rule |-> r, place |-> i]
    BY DEF LiveRows
  <2>2. PICK i \in LiveAt(r.chain) : row = [rule |-> r, place |-> i]
    BY <2>1
  <2>3. r.chain \in Seq(Nodes)
    BY DEF TypeOK, Rule
  <2>4. i \in DOMAIN r.chain /\ Live(r.chain[i]) /\ nodeOf(row) = r.chain[i]
    BY <2>2 DEF LiveAt
  <2> QED
    BY <2>3, <2>4 DEF Range
<1> HIDE DEF rows, nodeOf
<1>5. DOMAIN order = 1..Cardinality(rows) /\ \A i \in DOMAIN order : order[i] \in rows
  BY <1>3
<1>6. chain \in [1..Cardinality(rows) -> Nodes]
  BY <1>1, <1>4, <1>5
<1>7. ASSUME NEW n \in Range(chain)
      PROVE  Live(n) /\ \E r \in found : n \in Range(r.chain)
  <2>1. PICK i \in DOMAIN order : n = nodeOf(order[i])
    BY <1>1 DEF Range
  <2> QED
    BY <1>4, <1>5, <2>1
<1> QED
  BY <1>2, <1>6, <1>7

-----------------------------------------------------------------------------
(***************************************************************************)
(* The types.                                                              *)
(***************************************************************************)
THEOREM InitInv == Init => IInv
<1> SUFFICES ASSUME Init PROVE IInv
  OBVIOUS
<1> USE RoutingAssumption DEF Init
<1>1. IdleAdmin \in Administration
  BY DEF IdleAdmin, Administration
<1>2. NewSend \in Creation /\ NewRun \in Resolution
  BY DEF NewSend, NewRun, Pins, Creation, Resolution
<1>3. TypeOK
  BY <1>1, <1>2, FS_EmptySet DEF TypeOK, NodeStates, IdleAdmin
<1>4. AdminInv /\ RouteInv
  BY DEF AdminInv, RouteInv, Backed, Bound, IdleAdmin, NewSend, NewRun
<1> QED
  BY <1>3, <1>4 DEF IInv

(* Rules are only ever added.                                              *)
LEMMA RulesGrow == [Next]_vars => rules \subseteq rules'
<1> SUFFICES ASSUME [Next]_vars PROVE rules \subseteq rules'
  OBVIOUS
<1>1. CASE \E a \in Admins : InsertRuleset(a)
  BY <1>1 DEF InsertRuleset
<1>2. CASE ~\E a \in Admins : InsertRuleset(a)
  BY <1>2
     DEF Next, vars, CreateNode, PatchNode, Administer, BeginRuleset, CheckRule, BeginDelete,
         CheckReferenced, Tombstone, CreateSend, ReadVersion, FindExact, FindDefault, FindNodes,
         ResolveRoute, TryPinned, ReadLatest, FindExactNodes, FindDefaultNodes, EndRun
<1> QED
  BY <1>1, <1>2

(* One administrative request goes on, the others wait.                    *)
LEMMA AdminGoesOn ==
  ASSUME TypeOK, AdminInv, NEW a \in Admins, NEW next \in Administration,
         next.unchecked \subseteq next.ruleset,
         next.at \in {"check", "insert"} => next.version # 0,
         admin' = [admin EXCEPT ![a] = next]
  PROVE  /\ admin' \in [Admins -> Administration]
         /\ \A b \in Admins : admin'[b].unchecked \subseteq admin'[b].ruleset
         /\ AdminInv'
<1>1. admin \in [Admins -> Administration]
  BY DEF TypeOK
<1>2. \A b \in Admins : admin'[b] = IF b = a THEN next ELSE admin[b]
  BY <1>1
<1>3. \A b \in Admins : admin[b].unchecked \subseteq admin[b].ruleset
  BY DEF TypeOK
<1>4. admin' \in [Admins -> Administration]
  BY <1>1
<1>5. AdminInv'
  BY <1>2 DEF AdminInv
<1> QED
  BY <1>2, <1>3, <1>4, <1>5

THEOREM NextAdmins ==
  ASSUME TypeOK, AdminInv, NEW a \in Admins, Administer(a)
  PROVE  TypeOK' /\ AdminInv'
<1> USE RoutingAssumption
<1> DEFINE Kept == UNCHANGED <<node, rules, send, run>>
<1>0. /\ admin[a] \in Administration /\ IdleAdmin \in Administration
      /\ admin[a].unchecked \subseteq admin[a].ruleset
  BY DEF TypeOK, Administration, IdleAdmin
<1>kept. Kept /\ admin' \in [Admins -> Administration] /\
         (\A b \in Admins : admin'[b].unchecked \subseteq admin'[b].ruleset) => TypeOK'
  BY DEF TypeOK
<1>idle. admin' = [admin EXCEPT ![a] = IdleAdmin] =>
           /\ admin' \in [Admins -> Administration]
           /\ \A b \in Admins : admin'[b].unchecked \subseteq admin'[b].ruleset
           /\ AdminInv'
  <2>1. IdleAdmin.unchecked \subseteq IdleAdmin.ruleset /\ IdleAdmin.at = "idle"
    BY DEF IdleAdmin
  <2> QED
    BY <1>0, <2>1, AdminGoesOn
<1>1. ASSUME NEW ruleset \in Rulesets, BeginRuleset(a, ruleset) PROVE TypeOK' /\ AdminInv'
  <2> DEFINE next == [IdleAdmin EXCEPT !.at = "check", !.ruleset = ruleset,
                        !.unchecked = ruleset, !.version = Latest + 1]
  <2>1. Latest + 1 \in 1..MaxVersions
    BY <1>1, LatestIsGreatest DEF BeginRuleset
  <2>2. /\ next \in Administration /\ next.unchecked \subseteq next.ruleset
        /\ next.version # 0
    <3>1. ruleset \in SUBSET Rule
      OBVIOUS
    <3>2. \A version \in 1..MaxVersions : version \in 0..MaxVersions /\ version # 0
      OBVIOUS
    <3> HIDE RoutingAssumption
    <3> QED
      BY <2>1, <3>1, <3>2 DEF Administration, IdleAdmin
  <2>3. admin' = [admin EXCEPT ![a] = next] /\ Kept
    BY <1>1 DEF BeginRuleset
  <2> HIDE DEF next
  <2> QED
    BY <1>kept, <2>2, <2>3, AdminGoesOn
<1>2. CASE CheckRule(a)
  <2>1. PICK rule \in admin[a].unchecked :
          LET rest == admin[a].unchecked \ {rule} IN
          admin' = [admin EXCEPT ![a] =
                      IF \E n \in Range(rule.chain) : ~Live(n) THEN IdleAdmin
                      ELSE [@ EXCEPT !.unchecked = rest,
                                     !.at = IF rest = {} THEN "insert" ELSE "check"]]
    BY <1>2 DEF CheckRule
  <2> DEFINE rest == admin[a].unchecked \ {rule}
             next == [admin[a] EXCEPT !.unchecked = rest,
                                      !.at = IF rest = {} THEN "insert" ELSE "check"]
  <2>2. /\ next \in Administration /\ next.unchecked \subseteq next.ruleset
        /\ next.version # 0
    BY <1>0, <1>2 DEF Administration, AdminInv, CheckRule
  <2>3. admin' = [admin EXCEPT ![a] = IdleAdmin] \/ admin' = [admin EXCEPT ![a] = next]
    BY <2>1 DEF TypeOK
  <2>4. Kept
    BY <1>2 DEF CheckRule
  <2> HIDE DEF next
  <2> QED
    BY <1>kept, <1>idle, <2>2, <2>3, <2>4, AdminGoesOn
<1>3. CASE InsertRuleset(a)
  <2>1. admin' = [admin EXCEPT ![a] = IdleAdmin] /\ UNCHANGED <<node, send, run>>
    BY <1>3 DEF InsertRuleset
  <2> DEFINE version == admin[a].version
             number == Cardinality({r.number : r \in rules}) + 1
             row(new) == [version |-> version, number |-> number,
                          match |-> new.match, chain |-> new.chain, active |-> new.active]
             added == {row(new) : new \in admin[a].ruleset}
  <2>2. rules' = rules \/ rules' = rules \cup added
    BY <1>3 DEF InsertRuleset
  <2>3. version \in 1..MaxVersions
    BY <1>0, <1>3 DEF Administration, AdminInv, InsertRuleset
  <2>4. IsFiniteSet(admin[a].ruleset) /\ \A new \in admin[a].ruleset : new \in Rule
    BY <1>0, FS_EmptySet DEF Administration
  <2>5. IsFiniteSet(added)
    <3> DEFINE f == [new \in admin[a].ruleset |-> row(new)]
    <3>1. f \in [admin[a].ruleset -> added]
      OBVIOUS
    <3>2. \A t \in added : \E new \in admin[a].ruleset : f[new] = t
      OBVIOUS
    <3> HIDE DEF f, added
    <3> QED
      BY <2>4, <3>1, <3>2, ImageIsFinite
  <2>6. \A r \in added : /\ [match |-> r.match, chain |-> r.chain, active |-> r.active] \in Rule
                          /\ r.version \in 1..MaxVersions
    <3> TAKE r \in added
    <3>1. PICK new \in admin[a].ruleset : r = row(new)
      OBVIOUS
    <3> QED
      BY <2>3, <2>4, <3>1 DEF Rule
  <2> HIDE DEF added
  <2>7. IsFiniteSet(rules') /\ rules' \subseteq rules \cup added
    <3>1. IsFiniteSet(rules \cup added)
      BY <2>5, FS_Union DEF TypeOK
    <3> QED
      BY <2>2, <3>1 DEF TypeOK
  <2> QED
    BY <1>idle, <2>1, <2>6, <2>7 DEF TypeOK
<1>4. ASSUME NEW n \in Nodes, BeginDelete(a, n) PROVE TypeOK' /\ AdminInv'
  <2> DEFINE next == [IdleAdmin EXCEPT !.at = "referenced", !.node = n, !.version = Latest]
  <2>1. /\ next \in Administration /\ next.unchecked \subseteq next.ruleset
        /\ next.at = "referenced"
    BY LatestIsGreatest DEF Administration, IdleAdmin
  <2>2. admin' = [admin EXCEPT ![a] = next] /\ Kept
    BY <1>4 DEF BeginDelete
  <2> HIDE DEF next
  <2> QED
    BY <1>kept, <2>1, <2>2, AdminGoesOn
<1>5. CASE CheckReferenced(a)
  <2> DEFINE next == [admin[a] EXCEPT !.at = "tombstone"]
  <2>1. /\ next \in Administration /\ next.unchecked \subseteq next.ruleset
        /\ next.at = "tombstone"
    BY <1>0 DEF Administration
  <2>2. admin' = [admin EXCEPT ![a] = IdleAdmin] \/ admin' = [admin EXCEPT ![a] = next]
    BY <1>5 DEF CheckReferenced, TypeOK
  <2>3. Kept
    BY <1>5 DEF CheckReferenced
  <2> HIDE DEF next
  <2> QED
    BY <1>kept, <1>idle, <2>1, <2>2, <2>3, AdminGoesOn
<1>6. CASE Tombstone(a)
  <2>1. admin' = [admin EXCEPT ![a] = IdleAdmin] /\ UNCHANGED <<rules, send, run>>
    BY <1>6 DEF Tombstone
  <2>2. node' \in [Nodes -> NodeStates]
    BY <1>6 DEF Tombstone, TypeOK, NodeStates
  <2> QED
    BY <1>idle, <2>1, <2>2 DEF TypeOK
<1> QED
  BY <1>1, <1>2, <1>3, <1>4, <1>5, <1>6 DEF Administer

-----------------------------------------------------------------------------
(***************************************************************************)
(* Creation and dispatch of sends.                                         *)
(***************************************************************************)
LEMMA MatchingApplies ==
  \A s \in Sends : \A version, match :
     match \in {DomainOf[s], Default} =>
       /\ Matching(version, match) \subseteq RulesOf(version)
       /\ RulesOf(version) \subseteq rules
       /\ \A r \in Matching(version, match) : Applies(r, s) /\ r.version = version
BY DEF Matching, RulesOf, Applies

LEMMA RuleTypes ==
  ASSUME TypeOK
  PROVE  \A r \in rules : r.chain \in Seq(Nodes) /\ r.version \in 1..MaxVersions
BY DEF TypeOK, Rule

LEMMA CreationGoesOn ==
  ASSUME TypeOK, AdminInv, RouteInv, NEW s \in Sends, NEW next \in Creation,
         Backed(next, s), send[s].at # "stored",
         send' = [send EXCEPT ![s] = next], UNCHANGED <<node, rules, admin, run>>
  PROVE  IInv'
<1>1. TypeOK'
  BY DEF TypeOK
<1>2. AdminInv'
  BY DEF AdminInv
<1>3. RouteInv'
  <2> SUFFICES ASSUME NEW t \in Sends
               PROVE  Backed(send[t], t)' /\ Bound(run[t], send[t], t)'
    BY DEF RouteInv
  <2>1. Backed(send[t], t) /\ Bound(run[t], send[t], t)
    BY DEF RouteInv
  <2>2. send'[t] = IF t = s THEN next ELSE send[t]
    BY DEF TypeOK
  <2>3. Backed(send[t], t)'
    BY <2>1, <2>2 DEF Backed, RulesOf, Applies
  <2>4. Bound(run[t], send[t], t)'
    BY <2>1, <2>2 DEF Bound, RulesOf, Applies
  <2> QED
    BY <2>3, <2>4
<1> QED
  BY <1>1, <1>2, <1>3 DEF IInv

THEOREM NextCreation ==
  ASSUME IInv, NEW s \in Sends, CreateSend(s)
  PROVE  IInv'
<1> USE DEF IInv
<1> DEFINE Others == UNCHANGED <<node, rules, admin, run>>
           c == send[s]
<1>c. c \in Creation /\ Backed(c, s) /\ send \in [Sends -> Creation]
  BY DEF TypeOK, RouteInv
<1>pin. NoPin \in Pins /\ NewSend \in Creation /\ NewSend.pin = NoPin
  BY RoutingAssumption DEF Pins, NewSend, Creation, NoPin
<1>store. ASSUME NEW pin \in Pins, Store(s, pin), Others, c.at # "stored",
                 pin # NoPin => \E r \in RulesOf(pin.version) :
                                   Applies(r, s) /\ pin.node \in Range(r.chain)
          PROVE  IInv'
  <2> DEFINE next == [NewSend EXCEPT !.at = "stored", !.pin = pin]
  <2>1. next \in Creation /\ next.at = "stored" /\ next.pin = pin
    BY <1>pin DEF Creation, NewSend
  <2>2. send' = [send EXCEPT ![s] = next]
    BY <1>store DEF Store
  <2> HIDE DEF next
  <2>3. Backed(next, s)
    BY <1>store, <2>1 DEF Backed
  <2> QED
    BY <1>store, <2>1, <2>2, <2>3, CreationGoesOn
<1>read. ASSUME NEW version, NEW match \in {DomainOf[s], Default}, c.version = version,
                NEW rule \in Matching(version, match), c.at \in {"exact", "default"}, Others,
                send' = [send EXCEPT ![s].at = "nodes", ![s].chain = rule.chain]
         PROVE  IInv'
  <2> DEFINE next == [c EXCEPT !.at = "nodes", !.chain = rule.chain]
  <2>1. rule \in RulesOf(version) /\ rule \in rules /\ Applies(rule, s) /\ rule.version = version
    BY MatchingApplies
  <2>2. rule.chain \in Seq(Nodes)
    BY <2>1, RuleTypes
  <2>3. /\ next \in Creation /\ next.at = "nodes" /\ next.chain = rule.chain
        /\ next.version = version /\ next.pin = c.pin
    BY <1>c, <1>read, <2>2 DEF Creation
  <2>4. send' = [send EXCEPT ![s] = next]
    BY <1>c, <1>read
  <2> HIDE DEF next
  <2>5. Backed(next, s)
    BY <1>c, <1>read, <2>1, <2>3 DEF Backed
  <2> QED
    BY <1>read, <2>3, <2>4, <2>5, CreationGoesOn
<1>1. CASE ReadVersion(s)
  <2>1. CASE Latest = 0
    BY <1>1, <1>pin, <1>store, <2>1 DEF ReadVersion
  <2>2. CASE Latest # 0
    <3> DEFINE next == [c EXCEPT !.at = "exact", !.version = Latest]
    <3>1. /\ next \in Creation /\ next.at = "exact" /\ next.version = Latest
          /\ next.pin = c.pin
      BY <1>c, LatestIsGreatest DEF Creation
    <3>2. send' = [send EXCEPT ![s] = next] /\ Others /\ c.at = "new"
      BY <1>1, <1>c, <2>2 DEF ReadVersion
    <3> HIDE DEF next
    <3>3. \E r \in rules : r.version = Latest
      BY <2>2, LatestIsGreatest
    <3>4. Backed(next, s)
      BY <1>c, <3>1, <3>2, <3>3 DEF Backed
    <3> QED
      BY <3>1, <3>2, <3>4, CreationGoesOn
  <2> QED
    BY <2>1, <2>2
<1>2. CASE FindExact(s)
  <2>1. CASE send' = [send EXCEPT ![s].at = "default"]
    <3> DEFINE next == [c EXCEPT !.at = "default"]
    <3>1. /\ next \in Creation /\ next.at = "default" /\ next.version = c.version
          /\ next.pin = c.pin
      BY <1>c DEF Creation
    <3>2. send' = [send EXCEPT ![s] = next] /\ Others /\ c.at = "exact"
      BY <1>2, <1>c, <2>1 DEF FindExact
    <3> HIDE DEF next
    <3>3. Backed(next, s)
      BY <1>c, <3>1, <3>2 DEF Backed
    <3> QED
      BY <3>1, <3>2, <3>3, CreationGoesOn
  <2>2. CASE \E rule \in Matching(c.version, DomainOf[s]) :
               send' = [send EXCEPT ![s].at = "nodes", ![s].chain = rule.chain]
    BY <1>2, <1>read, <2>2 DEF FindExact
  <2> QED
    BY <1>2, <2>1, <2>2 DEF FindExact
<1>3. CASE FindDefault(s)
  <2>1. CASE Store(s, NoPin)
    BY <1>3, <1>pin, <1>store, <2>1 DEF FindDefault
  <2>2. CASE \E rule \in Matching(c.version, Default) :
               send' = [send EXCEPT ![s].at = "nodes", ![s].chain = rule.chain]
    BY <1>3, <1>read, <2>2 DEF FindDefault
  <2> QED
    BY <1>3, <2>1, <2>2 DEF FindDefault
<1>4. CASE FindNodes(s)
  <2>1. Others /\ c.at = "nodes"
    BY <1>4 DEF FindNodes
  <2>2. CASE LiveAt(c.chain) = {}
    BY <1>4, <1>pin, <1>store, <2>1, <2>2 DEF FindNodes
  <2>3. CASE LiveAt(c.chain) # {}
    <3> DEFINE first == c.chain[Min(LiveAt(c.chain))]
               pin == [version |-> c.version, node |-> first]
    <3>1. PICK r \in RulesOf(c.version) : Applies(r, s) /\ c.chain = r.chain
      BY <1>c, <2>1 DEF Backed
    <3>2. first \in Range(r.chain) /\ first \in Nodes /\ c.version \in 1..MaxVersions
      <4>1. c.chain \in Seq(Nodes)
        BY <1>c DEF Creation
      <4>2. first \in Range(c.chain)
        BY <2>3, <4>1, FirstLiveNode
      <4>3. \A n \in Range(c.chain) : n \in Nodes
        BY <4>1 DEF Range
      <4>4. c.version \in 1..MaxVersions
        BY <3>1, RuleTypes DEF RulesOf
      <4> QED
        BY <3>1, <4>2, <4>3, <4>4
    <3>3. pin \in Pins /\ pin.version = c.version /\ pin.node = first
      BY <3>2 DEF Pins
    <3>4. Store(s, pin)
      BY <1>4, <2>3 DEF FindNodes
    <3> HIDE DEF pin, first
    <3> QED
      BY <1>store, <2>1, <3>1, <3>2, <3>3, <3>4
  <2> QED
    BY <2>2, <2>3
<1> QED
  BY <1>1, <1>2, <1>3, <1>4 DEF CreateSend

LEMMA RunGoesOn ==
  ASSUME TypeOK, AdminInv, RouteInv, NEW s \in Sends, NEW next \in Resolution,
         Bound(next, send[s], s),
         run' = [run EXCEPT ![s] = next], UNCHANGED <<node, rules, admin, send>>
  PROVE  IInv'
<1>1. TypeOK'
  BY DEF TypeOK
<1>2. AdminInv'
  BY DEF AdminInv
<1>3. RouteInv'
  <2> SUFFICES ASSUME NEW t \in Sends
               PROVE  Backed(send[t], t)' /\ Bound(run[t], send[t], t)'
    BY DEF RouteInv
  <2>1. Backed(send[t], t) /\ Bound(run[t], send[t], t)
    BY DEF RouteInv
  <2>2. run'[t] = IF t = s THEN next ELSE run[t]
    BY DEF TypeOK
  <2>3. Backed(send[t], t)'
    BY <2>1 DEF Backed, RulesOf, Applies
  <2>4. Bound(run[t], send[t], t)'
    BY <2>1, <2>2 DEF Bound, RulesOf, Applies
  <2> QED
    BY <2>3, <2>4
<1> QED
  BY <1>1, <1>2, <1>3 DEF IInv

THEOREM NextRun ==
  ASSUME IInv, NEW s \in Sends, ResolveRoute(s)
  PROVE  IInv'
<1> USE DEF IInv
<1> DEFINE Others == UNCHANGED <<node, rules, admin, send>>
           c == send[s]
           d == run[s]
<1>c. /\ c \in Creation /\ d \in Resolution /\ run \in [Sends -> Resolution]
      /\ Backed(c, s) /\ Bound(d, c, s)
  BY DEF TypeOK, RouteInv
<1>new. NewRun \in Resolution /\ NewRun.at = "idle" /\ NewRun.chain = <<>>
  BY RoutingAssumption DEF NewRun, Resolution
<1>resolve. ASSUME NEW chain \in Seq(Nodes), Resolve(s, chain), Others, c.at = "stored",
                   c.pin # NoPin =>
                     \A n \in Range(chain) :
                        \E r \in RulesOf(c.pin.version) : Applies(r, s) /\ n \in Range(r.chain)
            PROVE  IInv'
  <2> DEFINE next == [NewRun EXCEPT !.at = "resolved", !.chain = chain]
  <2>1. next \in Resolution /\ next.at = "resolved" /\ next.chain = chain
    BY <1>new DEF Resolution, NewRun
  <2>2. run' = [run EXCEPT ![s] = next]
    BY <1>resolve DEF Resolve
  <2> HIDE DEF next
  <2>3. Bound(next, c, s)
    BY <1>resolve, <2>1 DEF Bound
  <2> QED
    BY <1>resolve, <2>1, <2>2, <2>3, RunGoesOn
<1>move. ASSUME NEW next \in Resolution, run' = [run EXCEPT ![s] = next], Others,
                next.at \in {"latest", "exact", "default"}, next.chain = <<>>, c.at = "stored",
                next.at = "latest" => c.pin = NoPin,
                next.at # "latest" /\ c.pin # NoPin => next.version = c.pin.version
         PROVE  IInv'
  <2>1. Bound(next, c, s)
    BY <1>move DEF Bound
  <2> QED
    BY <1>move, <2>1, RunGoesOn
<1>1. CASE TryPinned(s)
  <2>1. Others /\ c.at = "stored" /\ d.at = "idle" /\ d.chain = <<>>
    BY <1>1, <1>c DEF TryPinned, Bound
  <2>2. CASE c.pin # NoPin /\ Live(c.pin.node)
    <3>1. Resolve(s, <<c.pin.node>>)
      BY <1>1, <2>2 DEF TryPinned
    <3>2. c.pin.node \in Nodes
      BY <1>c, <2>2 DEF Creation, Pins
    <3>3. <<c.pin.node>> \in Seq(Nodes) /\ \A n \in Range(<<c.pin.node>>) : n = c.pin.node
      BY <3>2 DEF Range
    <3>4. \E r \in RulesOf(c.pin.version) : Applies(r, s) /\ c.pin.node \in Range(r.chain)
      BY <1>c, <2>2 DEF Backed
    <3> QED
      BY <1>resolve, <2>1, <3>1, <3>3, <3>4
  <2>3. CASE ~(c.pin # NoPin /\ Live(c.pin.node))
    <3> DEFINE next == [d EXCEPT !.at = IF c.pin = NoPin THEN "latest" ELSE "exact",
                                 !.version = c.pin.version]
    <3>1. c.pin.version \in 0..MaxVersions
      BY <1>c, RoutingAssumption DEF Creation, Pins, NoPin
    <3>2. /\ next \in Resolution /\ next.chain = <<>> /\ next.version = c.pin.version
          /\ next.at = IF c.pin = NoPin THEN "latest" ELSE "exact"
      BY <1>c, <2>1, <3>1 DEF Resolution
    <3>3. run' = [run EXCEPT ![s] = next]
      BY <1>1, <1>c, <2>3 DEF TryPinned
    <3> HIDE DEF next
    <3> QED
      BY <1>move, <2>1, <3>2, <3>3
  <2> QED
    BY <2>2, <2>3
<1>2. CASE ReadLatest(s)
  <2>1. Others /\ d.at = "latest" /\ d.chain = <<>> /\ c.at = "stored" /\ c.pin = NoPin
    BY <1>2, <1>c DEF ReadLatest, Bound
  <2>2. CASE Latest = 0
    <3>1. <<>> \in Seq(Nodes)
      OBVIOUS
    <3> QED
      BY <1>2, <1>resolve, <2>1, <2>2, <3>1 DEF ReadLatest
  <2>3. CASE Latest # 0
    <3> DEFINE next == [d EXCEPT !.at = "exact", !.version = Latest]
    <3>1. next \in Resolution /\ next.chain = <<>> /\ next.at = "exact"
      BY <1>c, <2>1, LatestIsGreatest DEF Resolution
    <3>2. run' = [run EXCEPT ![s] = next]
      BY <1>2, <1>c, <2>3 DEF ReadLatest
    <3> HIDE DEF next
    <3> QED
      BY <1>move, <2>1, <3>1, <3>2
  <2> QED
    BY <2>2, <2>3
<1>found. ASSUME NEW match \in {DomainOf[s], Default}, d.at \in {"exact", "default"},
                 NEW chain \in LiveChains(Matching(d.version, match)), Resolve(s, chain), Others
          PROVE  IInv'
  <2> DEFINE found == Matching(d.version, match)
  <2>1. /\ found \in SUBSET rules
        /\ \A r \in found : Applies(r, s) /\ r \in RulesOf(d.version)
    BY MatchingApplies
  <2>2. chain \in Seq(Nodes) /\ \A n \in Range(chain) : \E r \in found : n \in Range(r.chain)
    BY <2>1, JoinedNodes
  <2>3. c.at = "stored" /\ (c.pin # NoPin => d.version = c.pin.version)
    BY <1>c, <1>found DEF Bound
  <2> HIDE DEF found
  <2> QED
    BY <1>found, <1>resolve, <2>1, <2>2, <2>3
<1>3. CASE FindExactNodes(s)
  <2>1. /\ Others /\ d.at = "exact" /\ d.chain = <<>> /\ c.at = "stored"
        /\ c.pin # NoPin => d.version = c.pin.version
    BY <1>3, <1>c DEF FindExactNodes, Bound
  <2>2. CASE \E chain \in LiveChains(Matching(d.version, DomainOf[s])) : Resolve(s, chain)
    BY <1>found, <2>1, <2>2
  <2>3. CASE run' = [run EXCEPT ![s].at = "default"]
    <3> DEFINE next == [d EXCEPT !.at = "default"]
    <3>1. /\ next \in Resolution /\ next.chain = <<>> /\ next.at = "default"
          /\ next.version = d.version
      BY <1>c, <2>1 DEF Resolution
    <3>2. run' = [run EXCEPT ![s] = next]
      BY <1>c, <2>3
    <3> HIDE DEF next
    <3> QED
      BY <1>move, <2>1, <3>1, <3>2
  <2> QED
    BY <1>3, <2>2, <2>3 DEF FindExactNodes
<1>4. CASE FindDefaultNodes(s)
  BY <1>4, <1>found DEF FindDefaultNodes
<1>5. CASE EndRun(s)
  <2>1. Bound(NewRun, c, s)
    BY <1>new DEF Bound
  <2> QED
    BY <1>5, <1>new, <2>1, RunGoesOn DEF EndRun
<1> QED
  BY <1>1, <1>2, <1>3, <1>4, <1>5 DEF ResolveRoute

-----------------------------------------------------------------------------
(***************************************************************************)
(* The invariant.                                                          *)
(***************************************************************************)
(* What is backed stays backed: rules are added, sends left alone.         *)
LEMMA MoreRules ==
  ASSUME RouteInv, rules \subseteq rules', UNCHANGED <<send, run>>
  PROVE  RouteInv'
<1> SUFFICES ASSUME NEW s \in Sends
             PROVE  Backed(send[s], s)' /\ Bound(run[s], send[s], s)'
  BY DEF RouteInv
<1>1. Backed(send[s], s) /\ Bound(run[s], send[s], s)
  BY DEF RouteInv
<1>2. \A v : RulesOf(v) \subseteq RulesOf(v)'
  BY DEF RulesOf
<1>3. \A r : Applies(r, s)' <=> Applies(r, s)
  BY DEF Applies
<1> QED
  BY <1>1, <1>2, <1>3 DEF Backed, Bound

THEOREM NextInv == IInv /\ [Next]_vars => IInv'
<1> SUFFICES ASSUME IInv, [Next]_vars PROVE IInv'
  OBVIOUS
<1>1. ASSUME UNCHANGED <<rules, admin, send, run>>, node' \in [Nodes -> NodeStates] PROVE IInv'
  <2>1. TypeOK' /\ AdminInv'
    BY <1>1 DEF IInv, TypeOK, AdminInv
  <2> QED
    BY <1>1, <2>1, MoreRules DEF IInv
<1>2. ASSUME NEW n \in Nodes, CreateNode(n) PROVE IInv'
  BY <1>1, <1>2 DEF CreateNode, NodeStates, IInv, TypeOK
<1>3. ASSUME NEW n \in Nodes, NEW isActive \in BOOLEAN, PatchNode(n, isActive) PROVE IInv'
  BY <1>1, <1>3 DEF PatchNode, NodeStates, IInv, TypeOK
<1>4. ASSUME NEW a \in Admins, Administer(a) PROVE IInv'
  <2>1. TypeOK' /\ AdminInv'
    BY <1>4, NextAdmins DEF IInv
  <2>2. UNCHANGED <<send, run>>
    BY <1>4
       DEF Administer, BeginRuleset, CheckRule, InsertRuleset, BeginDelete, CheckReferenced,
           Tombstone
  <2>3. RouteInv'
    BY <2>2, RulesGrow, MoreRules DEF IInv
  <2> QED
    BY <2>1, <2>3 DEF IInv
<1>5. ASSUME NEW s \in Sends, CreateSend(s) \/ ResolveRoute(s) PROVE IInv'
  BY <1>5, NextCreation, NextRun
<1>6. CASE UNCHANGED vars
  BY <1>1, <1>6 DEF vars, IInv, TypeOK
<1> QED
  BY <1>2, <1>3, <1>4, <1>5, <1>6 DEF Next

THEOREM Inductive == Spec => []IInv
BY InitInv, NextInv, PTL DEF Spec

(* The types of routing.ts and database.ts, and that a route is stored     *)
(* whole or not at all.                                                    *)
THEOREM TypesHold == Spec => []TypeOK
<1>1. IInv => TypeOK
  BY DEF IInv
<1> QED
  BY <1>1, Inductive, PTL

(* resolveRouteForSend: a send with a stored route is dispatched through   *)
(* nodes of the ruleset of its version, however many administrators go on  *)
(* with rulesets and nodes while it waits and between its runs.            *)
THEOREM RunsKeepTheirVersion == Spec => []RunKeepsVersion
<1>1. IInv => RunKeepsVersion
  BY DEF IInv, RouteInv, Bound, Applies, RunKeepsVersion
<1> QED
  BY <1>1, Inductive, PTL

(* A node that has been deleted is never set undeleted by an update, and   *)
(* no run that resolves from then on goes through it.                      *)
THEOREM DeletedNodesStayOut == Spec => DeletedStaysOut
<1> DEFINE Stays == \A n \in Nodes : node[n] \in Deleted => node'[n] \in Deleted
           Out == \A s \in Sends :
                     run[s].at # "resolved" =>
                       \A n \in Range(run'[s].chain) : node[n] \notin Deleted
<1>1. ASSUME IInv, [Next]_vars PROVE Stays /\ Out
  <2>1. Stays
    <3>1. node \in [Nodes -> NodeStates]
      BY <1>1 DEF IInv, TypeOK
    <3>2. ASSUME NEW n \in Nodes, CreateNode(n) PROVE Stays
      BY <3>1, <3>2 DEF CreateNode, Deleted
    <3>3. ASSUME NEW n \in Nodes, NEW isActive \in BOOLEAN, PatchNode(n, isActive) PROVE Stays
      BY <3>1, <3>3 DEF PatchNode, Deleted
    <3>4. ASSUME NEW a \in Admins, Tombstone(a) PROVE Stays
      BY <3>1, <3>4 DEF Tombstone, Deleted
    <3>5. CASE UNCHANGED node
      BY <3>5
    <3> QED
      BY <1>1, <3>2, <3>3, <3>4, <3>5
         DEF Next, vars, Administer, BeginRuleset, CheckRule, InsertRuleset, BeginDelete,
             CheckReferenced, CreateSend, ReadVersion, FindExact, FindDefault, FindNodes,
             ResolveRoute, TryPinned, ReadLatest, FindExactNodes, FindDefaultNodes, EndRun
  <2>2. Out
    <3> SUFFICES ASSUME NEW s \in Sends, run[s].at # "resolved", NEW n \in Range(run'[s].chain)
                 PROVE  Live(n)
      BY DEF Live, Deleted
    <3>1. run \in [Sends -> Resolution] /\ run[s].chain = <<>>
      BY <1>1 DEF IInv, TypeOK, RouteInv, Bound
    <3>2. run'[s].chain # <<>>
      BY DEF Range
    <3>3. ResolveRoute(s)
      <4>1. ASSUME NEW t \in Sends, ResolveRoute(t), t # s PROVE run'[s] = run[s]
        BY <3>1, <4>1
           DEF ResolveRoute, TryPinned, ReadLatest, FindExactNodes, FindDefaultNodes, EndRun,
               Resolve
      <4>2. CASE UNCHANGED run
        BY <3>1, <3>2, <4>2
      <4> QED
        BY <1>1, <3>1, <3>2, <4>1, <4>2
           DEF Next, vars, CreateNode, PatchNode, Administer, BeginRuleset, CheckRule,
               InsertRuleset, BeginDelete, CheckReferenced, Tombstone, CreateSend, ReadVersion,
               FindExact, FindDefault, FindNodes
    <3>4. \A chain : Resolve(s, chain) => run'[s].chain = chain
      BY <3>1 DEF Resolve, NewRun, Resolution
    <3>5. CASE Resolve(s, <<send[s].pin.node>>) /\ Live(send[s].pin.node)
      BY <3>4, <3>5 DEF Range
    <3>6. ASSUME NEW match, NEW chain \in LiveChains(Matching(run[s].version, match)),
                 Resolve(s, chain)
          PROVE  Live(n)
      <4>1. Matching(run[s].version, match) \in SUBSET rules
        BY DEF Matching, RulesOf
      <4> QED
        BY <1>1, <3>4, <3>6, <4>1, JoinedNodes DEF IInv
    <3>7. Resolve(s, <<>>) \/ run'[s].chain = run[s].chain => FALSE
      BY <3>1, <3>2, <3>4
    <3>moved. \A at, version :
                run' \in {[run EXCEPT ![s].at = at],
                         [run EXCEPT ![s].at = at, ![s].version = version]} => FALSE
      BY <3>1, <3>7 DEF Resolution
    <3>8. CASE TryPinned(s)
      <4>1. \/ Resolve(s, <<send[s].pin.node>>) /\ Live(send[s].pin.node)
            \/ run' = [run EXCEPT ![s].at = IF send[s].pin = NoPin THEN "latest" ELSE "exact",
                                  ![s].version = send[s].pin.version]
        BY <3>8 DEF TryPinned
      <4> QED
        BY <3>5, <3>moved, <4>1
    <3>9. CASE ReadLatest(s)
      <4>1. Resolve(s, <<>>) \/ run' = [run EXCEPT ![s].at = "exact", ![s].version = Latest]
        BY <3>9 DEF ReadLatest
      <4> QED
        BY <3>7, <3>moved, <4>1
    <3>10. CASE FindExactNodes(s)
      <4>1. \/ \E chain \in LiveChains(Matching(run[s].version, DomainOf[s])) : Resolve(s, chain)
            \/ run' = [run EXCEPT ![s].at = "default"]
        BY <3>10 DEF FindExactNodes
      <4> QED
        BY <3>6, <3>moved, <4>1
    <3>11. CASE FindDefaultNodes(s)
      BY <3>6, <3>11 DEF FindDefaultNodes
    <3>12. CASE EndRun(s)
      BY <3>12 DEF EndRun
    <3> QED
      BY <3>3, <3>8, <3>9, <3>10, <3>11, <3>12 DEF ResolveRoute
  <2> QED
    BY <2>1, <2>2
<1>2. IInv /\ [Next]_vars => [Stays /\ Out]_vars
  BY <1>1
<1> QED
  BY <1>2, Inductive, PTL DEF Spec, DeletedStaysOut

-----------------------------------------------------------------------------
(***************************************************************************)
(* One administrative request at a time.                                   *)
(***************************************************************************)
(* The rulesets there are do not change.                                   *)
LEMMA VersionsAreFixed ==
  ASSUME IInv, Newer, [Next]_vars, NEW v, \E r \in rules : r.version = v
  PROVE  RulesOf(v)' = RulesOf(v)
<1>1. CASE UNCHANGED rules
  BY <1>1 DEF RulesOf
<1>2. ASSUME NEW a \in Admins, InsertRuleset(a) PROVE RulesOf(v)' = RulesOf(v)
  <2>1. v # admin[a].version
    <3> SUFFICES ASSUME v = admin[a].version PROVE FALSE
      OBVIOUS
    <3>1. PICK r \in rules : r.version = admin[a].version
      OBVIOUS
    <3>2. r.version \in 1..MaxVersions /\ admin[a].version \in 0..MaxVersions
      BY RuleTypes DEF IInv, TypeOK, Administration
    <3>3. r.version < admin[a].version
      BY <1>2 DEF InsertRuleset, Newer
    <3> QED
      BY <3>1, <3>2, <3>3, RoutingAssumption
  <2>2. \A r \in rules' \ rules : r.version = admin[a].version
    <3> DEFINE number == Cardinality({r.number : r \in rules}) + 1
               row(new) == [version |-> admin[a].version, number |-> number,
                            match |-> new.match, chain |-> new.chain, active |-> new.active]
    <3>1. rules' = rules \/ rules' = rules \cup {row(new) : new \in admin[a].ruleset}
      BY <1>2 DEF InsertRuleset
    <3>2. \A new : row(new).version = admin[a].version
      OBVIOUS
    <3> HIDE DEF row
    <3> QED
      BY <3>1, <3>2
  <2>3. rules \subseteq rules'
    BY RulesGrow
  <2> QED
    BY <2>1, <2>2, <2>3 DEF RulesOf
<1> QED
  BY <1>1, <1>2
     DEF Next, vars, CreateNode, PatchNode, Administer, BeginRuleset, CheckRule, BeginDelete,
         CheckReferenced, Tombstone, CreateSend, ReadVersion, FindExact, FindDefault, FindNodes,
         ResolveRoute, TryPinned, ReadLatest, FindExactNodes, FindDefaultNodes, EndRun

LEMMA NextNewer ==
  ASSUME \A a, b \in Admins : a = b, IInv, Newer, [Next]_vars
  PROVE  Newer'
<1> SUFFICES ASSUME NEW a \in Admins, admin'[a].at \in {"check", "insert"},
                    NEW r \in rules'
             PROVE  r.version < admin'[a].version
  BY DEF Newer
<1>0. admin \in [Admins -> Administration] /\ IdleAdmin.at = "idle"
  BY DEF IInv, TypeOK, IdleAdmin
<1>1. CASE UNCHANGED <<rules, admin>>
  BY <1>1 DEF Newer
<1>2. ASSUME NEW b \in Admins, Administer(b) PROVE r.version < admin'[a].version
  <2>0. a = b
    OBVIOUS
  <2>1. ASSUME NEW ruleset \in Rulesets, BeginRuleset(a, ruleset)
        PROVE  r.version < admin'[a].version
    <3>1. admin'[a].version = Latest + 1 /\ rules' = rules
      BY <1>0, <2>1 DEF BeginRuleset, IdleAdmin
    <3>2. r.version <= Latest /\ Latest \in Nat /\ r.version \in Nat
      BY <3>1, LatestIsGreatest, RuleTypes, RoutingAssumption DEF IInv
    <3> QED
      BY <3>1, <3>2
  <2>2. CASE CheckRule(a)
    <3>1. /\ admin[a].at = "check" /\ rules' = rules
          /\ admin'[a] = IdleAdmin \/ admin'[a].version = admin[a].version
      BY <1>0, <2>2 DEF CheckRule, Administration
    <3> QED
      BY <1>0, <3>1 DEF Newer
  <2>3. CASE InsertRuleset(a) \/ Tombstone(a)
    BY <1>0, <2>3 DEF InsertRuleset, Tombstone
  <2>4. ASSUME NEW n \in Nodes, BeginDelete(a, n) PROVE FALSE
    BY <1>0, <2>4 DEF BeginDelete, IdleAdmin
  <2>5. CASE CheckReferenced(a)
    <3>1. admin'[a].at \in {"idle", "tombstone"}
      BY <1>0, <2>5 DEF CheckReferenced, Administration
    <3> QED
      BY <3>1
  <2> QED
    BY <1>2, <2>0, <2>1, <2>2, <2>3, <2>4, <2>5 DEF Administer
<1> QED
  BY <1>1, <1>2
     DEF Next, vars, CreateNode, PatchNode, CreateSend, ReadVersion, FindExact, FindDefault,
         FindNodes, ResolveRoute, TryPinned, ReadLatest, FindExactNodes, FindDefaultNodes, EndRun

LEMMA NextExplained ==
  ASSUME IInv, Newer, [Next]_vars, NEW s \in Sends, Explained(send[s], s)
  PROVE  Explained(send[s], s)'
<1> DEFINE c == send[s]
<1>0. /\ c \in Creation /\ send \in [Sends -> Creation]
      /\ NewSend \in Creation /\ NewSend.pin = NoPin /\ Backed(c, s)
  BY RoutingAssumption DEF IInv, TypeOK, RouteInv, NewSend, Creation, Pins, NoPin
<1>1. CASE send'[s] = c
  <2> DEFINE known(v) == \E r \in rules : r.version = v
  <2>1. \A v : known(v) => RulesOf(v)' = RulesOf(v)
    BY VersionsAreFixed
  <2>2. \A v, match : known(v) => Matching(v, match)' = Matching(v, match)
    BY <2>1 DEF Matching
  <2>3. \A r \in rules : Governs(r, s)' <=> Governs(r, s)
    BY <2>2 DEF Governs
  <2>4. /\ c.at \in {"default", "nodes"} => known(c.version)
        /\ c.pin # NoPin => known(c.pin.version)
    BY <1>0 DEF Backed, RulesOf
  <2>5. \A v : RulesOf(v) \subseteq rules
    BY DEF RulesOf
  <2> HIDE DEF known
  <2> QED
    BY <1>1, <2>1, <2>2, <2>3, <2>4, <2>5 DEF Explained
<1>2. CASE CreateSend(s)
  <2>1. rules' = rules
    BY <1>2 DEF CreateSend, ReadVersion, FindExact, FindDefault, FindNodes
  <2>2. /\ \A v : RulesOf(v)' = RulesOf(v)
        /\ \A v, match : Matching(v, match)' = Matching(v, match)
        /\ \A r : Governs(r, s)' <=> Governs(r, s)
    BY <2>1 DEF RulesOf, Matching, Governs
  <2>3. ASSUME NEW pin \in Pins, Store(s, pin),
               pin # NoPin => \E r \in RulesOf(pin.version) :
                                 Governs(r, s) /\ pin.node \in Range(r.chain)
        PROVE  Explained(send[s], s)'
    <3>1. send'[s].at = "stored" /\ send'[s].pin = pin
      BY <1>0, <2>3 DEF Store, NewSend, Creation
    <3> QED
      BY <2>2, <2>3, <3>1 DEF Explained
  <2>4. ASSUME NEW next, send'[s] = next, next.pin = NoPin,
               next.at = "default" => Matching(next.version, DomainOf[s]) = {},
               next.at = "nodes" =>
                 \E r \in RulesOf(next.version) : Governs(r, s) /\ next.chain = r.chain
        PROVE  Explained(send[s], s)'
    BY <2>2, <2>4 DEF Explained
  <2>5. c.at # "stored" => c.pin = NoPin
    BY <1>0 DEF Backed
  <2>6. NoPin \in Pins
    BY DEF Pins
  <2>7. CASE ReadVersion(s)
    <3>1. \/ Store(s, NoPin)
          \/ send'[s] = [c EXCEPT !.at = "exact", !.version = Latest] /\ c.at = "new"
      BY <1>0, <2>7 DEF ReadVersion
    <3>2. ASSUME send'[s] = [c EXCEPT !.at = "exact", !.version = Latest], c.at = "new"
          PROVE  Explained(send[s], s)'
      <4>1. send'[s].at = "exact" /\ send'[s].pin = NoPin
        BY <1>0, <2>5, <3>2 DEF Creation
      <4> QED
        BY <2>4, <4>1
    <3> QED
      BY <2>3, <2>6, <3>1, <3>2
  <2>8. ASSUME NEW match, NEW rule \in Matching(c.version, match), c.at # "stored",
               Governs(rule, s),
               send' = [send EXCEPT ![s].at = "nodes", ![s].chain = rule.chain]
        PROVE  Explained(send[s], s)'
    <3>1. /\ send'[s].at = "nodes" /\ send'[s].pin = NoPin /\ send'[s].chain = rule.chain
          /\ send'[s].version = c.version
      BY <1>0, <2>5, <2>8 DEF Creation
    <3>2. rule \in RulesOf(c.version)
      BY DEF Matching
    <3> QED
      BY <2>4, <2>8, <3>1, <3>2
  <2>9. CASE FindExact(s)
    <3>1. ASSUME NEW rule \in Matching(c.version, DomainOf[s]) PROVE Governs(rule, s)
      BY DEF Matching, Governs
    <3>2. ASSUME Matching(c.version, DomainOf[s]) = {}, send' = [send EXCEPT ![s].at = "default"]
          PROVE  Explained(send[s], s)'
      <4>1. /\ send'[s].at = "default" /\ send'[s].pin = NoPin
            /\ send'[s].version = c.version
        BY <1>0, <2>5, <2>9, <3>2 DEF Creation, FindExact
      <4> QED
        BY <2>4, <3>2, <4>1
    <3> QED
      BY <2>8, <2>9, <3>1, <3>2 DEF FindExact
  <2>10. CASE FindDefault(s)
    <3>1. ASSUME NEW rule \in Matching(c.version, Default) PROVE Governs(rule, s)
      BY <2>10 DEF Matching, RulesOf, Governs, FindDefault, Explained
    <3> QED
      BY <2>3, <2>6, <2>8, <2>10, <3>1 DEF FindDefault
  <2>11. CASE FindNodes(s)
    <3>1. CASE LiveAt(c.chain) = {}
      BY <2>3, <2>6, <2>11, <3>1 DEF FindNodes
    <3>2. CASE LiveAt(c.chain) # {}
      <4> DEFINE first == c.chain[Min(LiveAt(c.chain))]
                 pin == [version |-> c.version, node |-> first]
      <4>1. c.chain \in Seq(Nodes) /\ first \in Range(c.chain)
        BY <1>0, <3>2, FirstLiveNode DEF Creation
      <4>2. PICK r \in RulesOf(c.version) : Governs(r, s) /\ c.chain = r.chain
        BY <2>11 DEF Explained, FindNodes
      <4>3. pin \in Pins /\ pin.version = c.version /\ pin.node = first
        <5>1. first \in Nodes
          BY <4>1 DEF Range
        <5>2. c.version \in 1..MaxVersions
          BY <4>2, RuleTypes DEF RulesOf, IInv
        <5> QED
          BY <5>1, <5>2 DEF Pins
      <4>4. Store(s, pin)
        BY <2>11, <3>2 DEF FindNodes
      <4> HIDE DEF pin, first
      <4> QED
        BY <2>3, <4>1, <4>2, <4>3, <4>4
    <3> QED
      BY <3>1, <3>2
  <2> QED
    BY <1>2, <2>7, <2>9, <2>10, <2>11 DEF CreateSend
<1>3. ASSUME NEW t \in Sends, CreateSend(t), t # s PROVE send'[s] = c
  BY <1>0, <1>3 DEF CreateSend, ReadVersion, FindExact, FindDefault, FindNodes, Store
<1>4. CASE UNCHANGED send
  BY <1>1, <1>4
<1> QED
  BY <1>1, <1>2, <1>3, <1>4
     DEF Next, vars, CreateNode, PatchNode, Administer, BeginRuleset, CheckRule, InsertRuleset,
         BeginDelete, CheckReferenced, Tombstone, ResolveRoute, TryPinned, ReadLatest,
         FindExactNodes, FindDefaultNodes, EndRun

(* findRouteForRecipient reads version, rules and nodes one after the      *)
(* other, without a transaction; even so the node stored with a send is    *)
(* that of a rule which the stored version prescribes for its domain, if   *)
(* administrative requests are served one at a time.                       *)
THEOREM PinsAreExplained ==
  ASSUME \A a, b \in Admins : a = b
  PROVE  Spec => []PinIsExplained
<1>1. Init => PinInv
  BY DEF Init, PinInv, Newer, Explained, IdleAdmin, NewSend
<1>2. IInv /\ PinInv /\ [Next]_vars => PinInv'
  <2> SUFFICES ASSUME IInv, PinInv, [Next]_vars PROVE PinInv'
    OBVIOUS
  <2>1. Newer'
    BY NextNewer DEF PinInv
  <2>2. \A s \in Sends : Explained(send[s], s)'
    BY NextExplained DEF PinInv
  <2> QED
    BY <2>1, <2>2 DEF PinInv
<1>3. PinInv => PinIsExplained
  BY DEF PinInv, Explained, PinIsExplained
<1> QED
  BY <1>1, <1>2, <1>3, Inductive, PTL DEF Spec

=============================================================================
