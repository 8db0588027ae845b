------------------------------- MODULE Routing -------------------------------
(***************************************************************************)
(* Which relay a send goes through.  Administrators keep SMTP nodes and    *)
(* versions of a ruleset; the console resolves a route when it creates a   *)
(* send and pins its first node; the worker resolves again, from the pin   *)
(* and the recorded version, each time it dispatches the send.             *)
(*                                                                         *)
(* Every read and write is a statement of its own; only the insertion of a *)
(* ruleset is in a transaction, which does not stop others from reading or *)
(* writing what it has read.                                               *)
(***************************************************************************)
EXTENDS Naturals, Sequences, FiniteSets, SequencesExt

CONSTANTS
  Nodes, Domains,
  Default,      \* the match of a default rule
  Rulesets,     \* the rulesets administrators submit, legal or not
  Admins,       \* administrative requests served at once
  Sends,
  DomainOf,     \* the recipient domain of a send
  MaxVersions,  \* bounds the model
  NoNode

Rule == [match : Domains \cup {Default}, chain : Seq(Nodes), active : BOOLEAN]

ASSUME RoutingAssumption ==
  /\ Default \notin Domains /\ NoNode \notin Nodes
  /\ DomainOf \in [Sends -> Domains]
  /\ MaxVersions \in Nat
  /\ \A ruleset \in Rulesets :
       /\ IsFiniteSet(ruleset)
       /\ \A rule \in ruleset : rule \in Rule /\ rule.chain # <<>>

VARIABLES
  node,   \* send_smtp_nodes: is_active and deleted_at of each row
  rules,  \* routing_rules with their failover nodes, as committed
  admin,  \* per administrative request: what to do next and what it has read
  send,   \* per send: how far its creation is, and the route stored with it
  run     \* per send: the worker's resolution

vars == <<node, rules, admin, send, run>>

(* An update may set a deleted node active again; it stays deleted.        *)
NodeStates == {"absent", "active", "inactive", "deleted", "deleted_active"}
Deleted == {"deleted", "deleted_active"}

NoPin == [version |-> 0, node |-> NoNode]
NewSend == [at |-> "new", version |-> 0, chain |-> <<>>, pin |-> NoPin]
NewRun == [at |-> "idle", version |-> 0, chain |-> <<>>]
IdleAdmin == [at |-> "idle", ruleset |-> {}, unchecked |-> {}, version |-> 0, node |-> NoNode]

(* A route is stored whole or not at all.                                  *)
Pins == {NoPin} \cup [version : 1 .. MaxVersions, node : Nodes]

Administration == [at : {"idle", "check", "insert", "referenced", "tombstone"},
                   ruleset : Rulesets \cup {{}}, unchecked : SUBSET Rule,
                   version : 0 .. MaxVersions, node : Nodes \cup {NoNode}]

Creation == [at : {"new", "exact", "default", "nodes", "stored"},
             version : 0 .. MaxVersions, chain : Seq(Nodes), pin : Pins]

Resolution == [at : {"idle", "latest", "exact", "default", "resolved"},
               version : 0 .. MaxVersions, chain : Seq(Nodes)]

TypeOK ==
  /\ node \in [Nodes -> NodeStates]
  /\ IsFiniteSet(rules)
  /\ \A r \in rules :
       /\ [match |-> r.match, chain |-> r.chain, active |-> r.active] \in Rule
       /\ r.version \in 1 .. MaxVersions
  /\ admin \in [Admins -> Administration]
  /\ \A a \in Admins : admin[a].unchecked \subseteq admin[a].ruleset
  /\ send \in [Sends -> Creation]
  /\ run \in [Sends -> Resolution]

Init ==
  /\ node \in [Nodes -> {"absent", "active"}]
  /\ rules = {}
  /\ admin = [a \in Admins |-> IdleAdmin]
  /\ send = [s \in Sends |-> NewSend]
  /\ run = [s \in Sends |-> NewRun]

-----------------------------------------------------------------------------
(* Mutant: the filter on deleted_at is forgotten.                          *)
LiveIfActive(n) == node[n] \in {"active", "deleted_active"}

Live(n) == node[n] = "active"

Latest == Max({0} \cup {r.version : r \in rules})

RulesOf(version) == {r \in rules : r.version = version}

(* Where in a chain live nodes stand.                                      *)
LiveAt(chain) == {i \in DOMAIN chain : Live(chain[i])}

Matching(version, match) == {r \in RulesOf(version) : r.match = match /\ r.active}

-----------------------------------------------------------------------------
(***************************************************************************)
(* Administrators.                                                         *)
(***************************************************************************)
CreateNode(n) ==
  /\ node[n] = "absent"
  /\ node' = [node EXCEPT ![n] = "active"]
  /\ UNCHANGED <<rules, admin, send, run>>

(* The update does not ask whether the node is deleted or in use.          *)
PatchNode(n, isActive) ==
  /\ node[n] # "absent"
  /\ node' = [node EXCEPT ![n] =
                IF @ \in Deleted THEN (IF isActive THEN "deleted_active" ELSE "deleted")
                ELSE (IF isActive THEN "active" ELSE "inactive")]
  /\ UNCHANGED <<rules, admin, send, run>>

Valid(ruleset) ==
  /\ Cardinality({r \in ruleset : r.match = Default /\ r.active}) = 1
  /\ \A p, q \in ruleset : p.match = q.match /\ p.match # Default => p = q

BeginRuleset(a, ruleset) ==
  /\ admin[a].at = "idle"
  /\ Latest < MaxVersions
  /\ Valid(ruleset)
  /\ admin' = [admin EXCEPT ![a] = [IdleAdmin EXCEPT
                 !.at = "check", !.ruleset = ruleset, !.unchecked = ruleset,
                 !.version = Latest + 1]]
  /\ UNCHANGED <<node, rules, send, run>>

(* One query per rule; a node that is not live rolls everything back.      *)
CheckRule(a) ==
  /\ admin[a].at = "check"
  /\ \E rule \in admin[a].unchecked :
       LET rest == admin[a].unchecked \ {rule} IN
       admin' = [admin EXCEPT ![a] =
                   IF \E n \in Range(rule.chain) : ~Live(n) THEN IdleAdmin
                   ELSE [@ EXCEPT !.unchecked = rest,
                                  !.at = IF rest = {} THEN "insert" ELSE "check"]]
  /\ UNCHANGED <<node, rules, send, run>>

(* The unique index on (version, domain, match_type) holds for exact rules *)
(* only: the domain of a default rule is null.                             *)
InsertRuleset(a) ==
  LET version == admin[a].version
      taken   == \E r \in RulesOf(version), new \in admin[a].ruleset :
                    r.match = new.match /\ r.match # Default
      number  == Cardinality({r.number : r \in rules}) + 1
  IN
  /\ admin[a].at = "insert"
  /\ rules' = IF taken THEN rules
              ELSE rules \cup
                   { [version |-> version, number |-> number,
                      match |-> new.match, chain |-> new.chain, active |-> new.active]
                     : new \in admin[a].ruleset }
  /\ admin' = [admin EXCEPT ![a] = IdleAdmin]
  /\ UNCHANGED <<node, send, run>>

BeginDelete(a, n) ==
  /\ admin[a].at = "idle"
  /\ node[n] # "absent"
  /\ admin' = [admin EXCEPT ![a] = [IdleAdmin EXCEPT
                 !.at = "referenced", !.node = n, !.version = Latest]]
  /\ UNCHANGED <<node, rules, send, run>>

CheckReferenced(a) ==
  /\ admin[a].at = "referenced"
  /\ admin' = [admin EXCEPT ![a] =
                 IF \E r \in RulesOf(admin[a].version) : admin[a].node \in Range(r.chain)
                 THEN IdleAdmin ELSE [@ EXCEPT !.at = "tombstone"]]
  /\ UNCHANGED <<node, rules, send, run>>

Tombstone(a) ==
  /\ admin[a].at = "tombstone"
  /\ node' = [node EXCEPT ![admin[a].node] = "deleted"]
  /\ admin' = [admin EXCEPT ![a] = IdleAdmin]
  /\ UNCHANGED <<rules, send, run>>

-----------------------------------------------------------------------------
(***************************************************************************)
(* The console creates a send: findRouteForRecipient, then the row.        *)
(***************************************************************************)
Store(s, pin) == send' = [send EXCEPT ![s] = [NewSend EXCEPT !.at = "stored", !.pin = pin]]

ReadVersion(s) ==
  /\ send[s].at = "new"
  /\ IF Latest = 0 THEN Store(s, NoPin)
     ELSE send' = [send EXCEPT ![s].at = "exact", ![s].version = Latest]
  /\ UNCHANGED <<node, rules, admin, run>>

(* The failover nodes of the rule are read too; they never change.  Of     *)
(* several rules any may come first: their order is up to administrators.  *)
FindExact(s) ==
  LET found == Matching(send[s].version, DomainOf[s]) IN
  /\ send[s].at = "exact"
  /\ \/ /\ found = {}
        /\ send' = [send EXCEPT ![s].at = "default"]
     \/ \E rule \in found :
          send' = [send EXCEPT ![s].at = "nodes", ![s].chain = rule.chain]
  /\ UNCHANGED <<node, rules, admin, run>>

(* Mutant: the version is read again.                                      *)
FindLatestDefault(s) ==
  /\ send[s].at = "default"
  /\ \E rule \in Matching(Latest, Default) :
       send' = [send EXCEPT ![s].at = "nodes", ![s].chain = rule.chain]
  /\ UNCHANGED <<node, rules, admin, run>>

FindDefault(s) ==
  LET found == Matching(send[s].version, Default) IN
  /\ send[s].at = "default"
  /\ IF found = {} THEN Store(s, NoPin)
     ELSE \E rule \in found :
            send' = [send EXCEPT ![s].at = "nodes", ![s].chain = rule.chain]
  /\ UNCHANGED <<node, rules, admin, run>>

(* Mutant: a rule without live nodes leaves its version in the row.        *)
FindNodesKeepVersion(s) ==
  LET chain == send[s].chain IN
  /\ send[s].at = "nodes"
  /\ Store(s, [version |-> send[s].version,
               node |-> IF LiveAt(chain) = {} THEN NoNode ELSE chain[Min(LiveAt(chain))]])
  /\ UNCHANGED <<node, rules, admin, run>>

FindNodes(s) ==
  LET chain == send[s].chain IN
  /\ send[s].at = "nodes"
  /\ Store(s, IF LiveAt(chain) = {} THEN NoPin
              ELSE [version |-> send[s].version, node |-> chain[Min(LiveAt(chain))]])
  /\ UNCHANGED <<node, rules, admin, run>>

-----------------------------------------------------------------------------
(***************************************************************************)
(* The worker dispatches a stored send: resolveRouteForSend.               *)
(***************************************************************************)
Resolve(s, chain) == run' = [run EXCEPT ![s] = [NewRun EXCEPT !.at = "resolved", !.chain = chain]]

(* Mutant: the recorded version is not used.                               *)
TryPinnedThenLatest(s) ==
  LET pin == send[s].pin IN
  /\ send[s].at = "stored" /\ run[s].at = "idle"
  /\ IF pin # NoPin /\ Live(pin.node) THEN Resolve(s, <<pin.node>>)
     ELSE run' = [run EXCEPT ![s].at = "latest"]
  /\ UNCHANGED <<node, rules, admin, send>>

TryPinned(s) ==
  LET pin == send[s].pin IN
  /\ send[s].at = "stored" /\ run[s].at = "idle"
  /\ IF pin # NoPin /\ Live(pin.node) THEN Resolve(s, <<pin.node>>)
     ELSE run' = [run EXCEPT ![s].at = IF pin = NoPin THEN "latest" ELSE "exact",
                             ![s].version = pin.version]
  /\ UNCHANGED <<node, rules, admin, send>>

ReadLatest(s) ==
  /\ run[s].at = "latest"
  /\ IF Latest = 0 THEN Resolve(s, <<>>)
     ELSE run' = [run EXCEPT ![s].at = "exact", ![s].version = Latest]
  /\ UNCHANGED <<node, rules, admin, send>>

(* The join of the matching rules with their live nodes, a row for each    *)
(* rule and place in its chain: rule by rule and in the order of each      *)
(* chain, while the order of the rules is up to administrators.            *)
LiveRows(found) == UNION {{[rule |-> r, place |-> i] : i \in LiveAt(r.chain)} : r \in found}

InOrder(rows) ==
  \A i, j \in DOMAIN rows :
     i < j /\ rows[i].rule = rows[j].rule =>
       rows[i].place < rows[j].place /\ \A k \in i..j : rows[k].rule = rows[i].rule

LiveChains(found) ==
  { [i \in DOMAIN rows |-> rows[i].rule.chain[rows[i].place]]
    : rows \in {order \in SetToSeqs(LiveRows(found)) : InOrder(order)} }

FindExactNodes(s) ==
  /\ run[s].at = "exact"
  /\ \E chain \in LiveChains(Matching(run[s].version, DomainOf[s])) :
       IF chain # <<>> THEN Resolve(s, chain)
       ELSE run' = [run EXCEPT ![s].at = "default"]
  /\ UNCHANGED <<node, rules, admin, send>>

FindDefaultNodes(s) ==
  /\ run[s].at = "default"
  /\ \E chain \in LiveChains(Matching(run[s].version, Default)) : Resolve(s, chain)
  /\ UNCHANGED <<node, rules, admin, send>>

(* The run is over and a later one resolves again.  A send without a route *)
(* has failed for good.                                                    *)
EndRun(s) ==
  /\ run[s].at = "resolved" /\ run[s].chain # <<>>
  /\ run' = [run EXCEPT ![s] = NewRun]
  /\ UNCHANGED <<node, rules, admin, send>>

-----------------------------------------------------------------------------
Administer(a) ==
  \/ \E ruleset \in Rulesets : BeginRuleset(a, ruleset)
  \/ CheckRule(a) \/ InsertRuleset(a)
  \/ \E n \in Nodes : BeginDelete(a, n)
  \/ CheckReferenced(a) \/ Tombstone(a)

CreateSend(s) == ReadVersion(s) \/ FindExact(s) \/ FindDefault(s) \/ FindNodes(s)

ResolveRoute(s) ==
  TryPinned(s) \/ ReadLatest(s) \/ FindExactNodes(s) \/ FindDefaultNodes(s) \/ EndRun(s)

Next ==
  \/ \E n \in Nodes : CreateNode(n) \/ \E isActive \in BOOLEAN : PatchNode(n, isActive)
  \/ \E a \in Admins : Administer(a)
  \/ \E s \in Sends : CreateSend(s) \/ ResolveRoute(s)

Spec == Init /\ [][Next]_vars

-----------------------------------------------------------------------------
(***************************************************************************)
(* Properties.  PinIsExplained holds while one administrative request is   *)
(* served at a time (Admins has one element): createRuleset does not lock  *)
(* the versions it has read, and two of them may insert under the same.    *)
(***************************************************************************)

(* The rule of a version that applies to a send.                           *)
Governs(r, s) ==
  /\ r.active
  /\ \/ r.match = DomainOf[s]
     \/ r.match = Default /\ Matching(r.version, DomainOf[s]) = {}

(* The route stored with a send can be explained later: its node stands in *)
(* the rule that its version has for the domain, although version, rule    *)
(* and nodes were read one after the other while administrators went on.   *)
PinIsExplained ==
  \A s \in Sends :
     send[s].pin # NoPin =>
       \E r \in RulesOf(send[s].pin.version) :
          Governs(r, s) /\ send[s].pin.node \in Range(r.chain)

(* A send that has a route stored is dispatched through the nodes of that  *)
(* version and no later one, on every run.                                 *)
RunKeepsVersion ==
  \A s \in Sends :
     send[s].pin # NoPin /\ run[s].at = "resolved" =>
       \A n \in Range(run[s].chain) :
          \E r \in RulesOf(send[s].pin.version) :
             r.active /\ r.match \in {DomainOf[s], Default} /\ n \in Range(r.chain)

(* A deleted node stays deleted and no run that resolves afterwards uses   *)
(* it, even if an update has set it active again.                          *)
DeletedStaysOut ==
  [][/\ \A n \in Nodes : node[n] \in Deleted => node'[n] \in Deleted
     /\ \A s \in Sends :
          run[s].at # "resolved" =>
            \A n \in Range(run'[s].chain) : node[n] \notin Deleted]_vars
=============================================================================
