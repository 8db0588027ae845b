------------------------------ MODULE MCRouting ------------------------------
(* Model values and bounds for the runs of Routing.                        *)
EXTENDS Routing

CONSTANTS n1, n2, d1, s1

MCDomainOf == [s \in Sends |-> d1]

R(match, chain, active) == [match |-> match, chain |-> chain, active |-> active]

(* A default with a failover node; a rule of its own for the domain; one   *)
(* that is switched off; no default; and two rules for a domain.           *)
MCRulesets ==
  { { R(Default, <<n1, n2>>, TRUE) },
    { R(d1, <<n2>>, TRUE), R(Default, <<n1>>, TRUE) },
    { R(d1, <<n2, n1>>, FALSE), R(Default, <<n2>>, TRUE) },
    { R(d1, <<n1>>, TRUE), R(Default, <<n2>>, FALSE) },
    { R(d1, <<n1>>, TRUE), R(d1, <<n2>>, TRUE), R(Default, <<n1>>, TRUE) } }
=============================================================================
