------------------------------ MODULE MCSession ------------------------------
(***************************************************************************)
(* Session for TLC: the records of the scenarios, which are interchangeable. *)
(***************************************************************************)
EXTENDS Session

MCRecords ==
    {[kind |-> "counter", key |-> "k", num |-> 1],
     [kind |-> "gauge",   key |-> "k", num |-> 1],
     [kind |-> "gauge",   key |-> "k", num |-> 2],
     [kind |-> "expect",  key |-> "k", num |-> 1],
     [kind |-> "actual",  key |-> "k", num |-> 2],
     [kind |-> "done",    key |-> "",  num |-> 0]}

Interchange == Permutations(Scens)
=============================================================================
