---------------------------- MODULE RunContract ----------------------------
(***************************************************************************)
(* What a run promises whoever asked for it, without processes, threads or *)
(* pipes: the records the scenario emits arrive in order and without gaps, *)
(* nothing is delivered after DONE, the run ends only when everything      *)
(* emitted has been delivered or DONE was, and a verdict that says the     *)
(* scenario returned is always preceded by its DONE.                       *)
(***************************************************************************)
EXTENDS Naturals, Sequences

CONSTANTS
    Record,     \* event records
    IsDone(_),  \* the records of kind PG_EV_DONE
    Verdict,    \* what the run can end with
    Returned    \* the verdicts of a scenario that returned

VARIABLES phase, sent, log, verdict

vars == <<phase, sent, log, verdict>>

Init ==
    /\ phase = "idle" /\ verdict = "none"
    /\ sent = <<>> /\ log = <<>>

Finished(s) == \E i \in 1..Len(s) : IsDone(s[i])

Start ==
    /\ phase = "idle"
    /\ phase' = "running"
    /\ UNCHANGED <<sent, log, verdict>>

Refuse ==
    /\ phase = "idle"
    /\ phase' = "refused"
    /\ UNCHANGED <<sent, log, verdict>>

Emit ==
    /\ phase = "running"
    /\ \E e \in Record : sent' = Append(sent, e)
    /\ UNCHANGED <<phase, log, verdict>>

Deliver ==
    /\ phase = "running"
    /\ Len(log) < Len(sent) /\ ~Finished(log)
    /\ log' = Append(log, sent[Len(log) + 1])
    /\ UNCHANGED <<phase, sent, verdict>>

End ==
    /\ phase = "running"
    /\ Finished(log) \/ log = sent
    /\ \E v \in Verdict :
         /\ v \in Returned => Finished(log)
         /\ verdict' = v
    /\ phase' = "ended"
    /\ UNCHANGED <<sent, log>>

Next == Start \/ Refuse \/ Emit \/ Deliver \/ End

Spec == Init /\ [][Next]_vars
=============================================================================
