----------------------------- MODULE MCScenarios -----------------------------
(***************************************************************************)
(* The programs of Scenarios and the ones over an arena (ChaosMem) as one  *)
(* specification: a child runs a program of the first kind, and the one    *)
(* after it a program of the second, with an arena of its own.             *)
(***************************************************************************)
EXTENDS Scenarios, ChaosMem

VARIABLE arena      \* the child's program is one over an arena

oneVars == <<vars, memVars, arena>>

\* What the first child ran makes no difference to the second, so one program
\* stands for all: with the others the arena is a fixed one.
OneInit ==
    /\ Init /\ MemInit /\ arena = FALSE
    /\ scen # "slow_fsync" => client = "double_free" /\ pc = "start"

\* The next child; the first was undisturbed and on time.
next_child ==
    /\ scen = "slow_fsync" /\ tpc = "end" /\ dt = FSYNC /\ ~cut
    /\ ~arena /\ arena' = TRUE
    /\ UNCHANGED <<vars, memVars>>

OneNext ==
    \/ ~arena /\ Next /\ UNCHANGED <<memVars, arena>>
    \/ next_child
    \/ arena /\ MemNext /\ UNCHANGED <<vars, arena>>

\* The fairness of FairSpec; a program over an arena is promised nothing.
OneSpec == OneInit /\ [][OneNext]_oneVars /\ Fairness
=============================================================================
