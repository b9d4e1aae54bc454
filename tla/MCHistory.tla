------------------------------ MODULE MCHistory ------------------------------
(* Instances of History for model checking.  Two peers write without a      *)
(* reader; each kind of reader follows one peer that writes.                *)
EXTENDS History

CONSTANTS n1, n2

MCNode == {n1, n2}

MCScenarios ==
  {[reader |-> "none", peers |-> {n1, n2}, kinds |-> {"edge", "other"},
    emitters |-> {n1, None}, events |-> 2],
   [reader |-> "query", peers |-> {n1}, kinds |-> {"edge"},
    emitters |-> {n1}, events |-> 3],
   [reader |-> "status", peers |-> {n1}, kinds |-> {"edge", "other"},
    emitters |-> {n1}, events |-> 2],
   [reader |-> "transitions", peers |-> {n1}, kinds |-> {"edge"},
    emitters |-> {n1}, events |-> 3]}
=============================================================================
