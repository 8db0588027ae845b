---------------------------- MODULE MCAdminTab ----------------------------
(* Histories for the model of AdminTab: none; three sends to two           *)
(* recipients; three to one, the first two within a millisecond.           *)
EXTENDS AdminTab

MCInitialRows ==
  {<<>>,
   <<[at |-> 1, to |-> "a"], [at |-> 3, to |-> "b"], [at |-> 5, to |-> "a"]>>,
   <<[at |-> 2, to |-> "a"], [at |-> 3, to |-> "a"], [at |-> 4, to |-> "a"]>>}
=============================================================================
