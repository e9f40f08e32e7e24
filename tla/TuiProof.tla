------------------------------ MODULE TuiProof ------------------------------
(***************************************************************************)
(* Proofs about TuiRun, for any set of workers and signals and for every   *)
(* capacity of the pipe, over the invariant of RunnerProof.  The steps of  *)
(* the child and the calls are the lemmas that HeadlessProof uses.         *)
(***************************************************************************)
EXTENDS TuiRun, RunnerProof

\* Where run_scenario is says whether the child exists, and what it has noted.
Lifecycle ==
    /\ ppc \in {"start", "close", "poll", "key", "read", "reap", "report", "back"}
    /\ ppc = "start" => child = "none"
    /\ child = "none" => ppc \in {"start", "back"} /\ (ppc = "back" => note = "refused")
    /\ child \in {"live", "zombie"} => ppc \in {"close", "poll", "key", "read", "reap"}
    /\ child = "reaped" => ppc \in {"report", "back"}
    /\ Parent \in writers => ppc = "close"
    /\ (child = "reaped" /\ ppc = "back" /\ note = "none") => status = "ok"

\* A hint of poll stays true until the record is read: the child only adds
\* records and only gives up write ends.
HintStays == ppc \in {"key", "read"} /\ "event" \in rev => pipe # <<>> \/ AtEof

\* DONE is not read twice, and the loop is left with DONE, at EOF or by a signal.
LoopLeft ==
    /\ ppc \in {"start", "close", "poll", "key", "read"} => ~HasDone(got)
    /\ ppc \in {"reap", "report", "back"} /\ child # "none" => HasDone(got) \/ AtEof \/ pr < 0

IInv == RunInv /\ Lifecycle /\ HintStays /\ LoopLeft

----------------------------------------------------------------------------
(* The inductive invariant *)

\* The invariant holds before run_scenario has done anything.
LEMMA InitIInv == Init => IInv
  <1>. SUFFICES ASSUME Init PROVE IInv
    OBVIOUS
  <1>1. RunInv
    BY RunInitKeeps DEF Init
  <1>2. ~HasDone(got)
    BY DEF Init, RunInit, HasDone
  <1>. QED  BY <1>1, <1>2 DEF Init, RunInit, IInv, Lifecycle, HintStays, LoopLeft

\* A step of the child, or its death by SIGTERM, leaves run_scenario where it is.
LEMMA ChildIInv == ASSUME IInv, ChildStep \/ sigterm, UNCHANGED tuiVars PROVE IInv'
  <1>1. RunInv' /\ ChildFrame
    BY ChildKeeps DEF IInv
  <1>2. AtEof => AtEof'
    BY <1>1 DEF ChildFrame, AtEof
  <1>3. pipe # <<>> => pipe' # <<>>
    <2>1. ASSUME NEW e \in Events, pipe' = Append(pipe, e) PROVE pipe' # <<>>
      BY <2>1, AppendProperties DEF IInv, RunInv, RunTypeOK
    <2>. QED  BY <1>1, <2>1 DEF ChildFrame
  <1>4. Lifecycle'
    BY <1>1 DEF IInv, Lifecycle, ChildFrame, tuiVars, Parent
  <1>5. HintStays'
    BY <1>2, <1>3 DEF IInv, HintStays, tuiVars
  <1>6. LoopLeft'
    BY <1>1, <1>2 DEF IInv, LoopLeft, ChildFrame, tuiVars, HasDone
  <1>. QED  BY <1>1, <1>4, <1>5, <1>6 DEF IInv

\* The steps of run_scenario.
LEMMA ParentIInv == ASSUME IInv, ParentStep \/ tui_poll_interrupted PROVE IInv'
  <1>. USE DEF IInv, Lifecycle, HintStays, LoopLeft, AtEof, Goes
  <1>1. CASE tui_refused
    <2>1. RunInv'
      BY <1>1, CallKeeps DEF tui_refused
    <2>. QED  BY <1>1, <2>1 DEF tui_refused, runVars, HasDone
  <1>2. CASE tui_start
    <2>1. RunInv'
      BY <1>2, CallKeeps DEF tui_start
    <2>. QED  BY <1>2, <2>1 DEF tui_start, pg_run_start_fork, HasDone
  <1>3. CASE tui_close
    <2>1. RunInv'
      BY <1>3, CallKeeps DEF tui_close
    <2>. QED  BY <1>3, <2>1 DEF tui_close, pg_run_start_parent, procVars, HasDone
  <1>4. CASE tui_poll \/ tui_poll_interrupted
    <2>1. RunInv'
      BY <1>4, CallKeeps DEF tui_poll, tui_poll_interrupted
    <2>2. "event" \in Ready => pipe # <<>> \/ AtEof
      BY DEF Ready
    <2>. QED  BY <1>4, <2>1, <2>2 DEF tui_poll, tui_poll_interrupted, runVars, HasDone
  <1>5. CASE tui_key_abort
    <2>1. RunInv'
      BY <1>5, CallKeeps DEF tui_key_abort
    <2>. QED  BY <1>5, <2>1 DEF tui_key_abort, pg_run_abort, pipeVars, HasDone
  <1>6. CASE tui_key_ignored \/ tui_no_key
    <2>1. RunInv'
      BY <1>6, CallKeeps DEF tui_key_ignored, tui_no_key
    <2>. QED  BY <1>6, <2>1 DEF tui_key_ignored, tui_no_key, runVars, HasDone
  <1>7. CASE tui_record
    <2>1. RunInv' /\ (HasDone(got') <=> HasDone(got) \/ Head(pipe).kind = "done")
      BY <1>7, PollKeeps DEF tui_record
    <2>2. /\ ppc = "read" /\ UNCHANGED <<child, status, writers, note>>
          /\ ppc' = IF Head(pipe).kind = "done" THEN "reap" ELSE "poll"
      BY <1>7 DEF tui_record, pg_run_poll_record, procVars
    <2>. QED  BY <2>1, <2>2
  <1>8. CASE tui_eof \/ tui_no_event
    <2>1. RunInv'
      BY <1>8, CallKeeps DEF tui_eof, tui_no_event
    <2>. QED  BY <1>8, <2>1 DEF tui_eof, tui_no_event, runVars, HasDone
  <1>9. CASE tui_reap
    <2>1. RunInv'
      BY <1>9, CallKeeps DEF tui_reap
    <2>. QED  BY <1>9, <2>1 DEF tui_reap, pg_run_reap, HasDone
  <1>10. CASE tui_report
    <2>1. RunInv'
      BY <1>10, CallKeeps DEF tui_report
    <2>2. child = "reaped" /\ status \in Statuses
      BY <1>10 DEF tui_report, RunInv, RunTypeOK, ProcessEnds
    <2>3. note' = "none" => status = "ok"
      BY <1>10, <2>2 DEF tui_report, Statuses, Exits
    <2>. QED  BY <1>10, <2>1, <2>2, <2>3 DEF tui_report, runVars, HasDone
  <1>. QED  BY <1>1, <1>2, <1>3, <1>4, <1>5, <1>6, <1>7, <1>8, <1>9, <1>10 DEF ParentStep

\* Every step keeps the invariant.
LEMMA NextIInv == IInv /\ [Next]_vars => IInv'
  <1>. SUFFICES ASSUME IInv, [Next]_vars PROVE IInv'
    OBVIOUS
  <1>1. CASE UNCHANGED vars \/ \E k \in {"q", "other"} : user_types(k)
    <2>1. /\ UNCHANGED runVars /\ UNCHANGED <<ppc, pr, rev, note>>
      BY <1>1 DEF vars, runVars, user_types
    <2>2. RunInv'
      BY <2>1, CallKeeps DEF IInv
    <2>. QED  BY <2>1, <2>2 DEF runVars, HasDone, IInv, Lifecycle, HintStays, LoopLeft, AtEof
  <1>. QED  BY <1>1, ParentIInv, ChildIInv DEF Next, Terminating

LEMMA SpecIInv == Spec => []IInv
  BY InitIInv, NextIInv, PTL DEF Spec

----------------------------------------------------------------------------
(* The theorems *)

\* A run that ends without a word in the log has shown the scenario's DONE,
\* unless a signal cut its poll short.
THEOREM TuiQuietMeansDone == Spec => []QuietMeansDone
  <1>1. IInv => QuietMeansDone
    <2>. SUFFICES ASSUME IInv, ppc = "back", note = "none", ~(pr < 0) PROVE HasDone(got)
      BY DEF QuietMeansDone, Seen, HasDone
    <2>1. child = "reaped" /\ status = "ok"
      BY DEF IInv, Lifecycle, RunInv, RunTypeOK
    <2>2. HasDone(Sent) /\ (HasDone(got) \/ AtEof)
      BY <2>1 DEF IInv, RunInv, DoneSent, LoopLeft
    <2>. QED  BY <2>2, EofFacts DEF AtEof, IInv
  <1>. QED  BY <1>1, SpecIInv, PTL

\* pg_run_poll without a timeout never meets an empty pipe with a writer left.
THEOREM TuiPollHintHolds == Spec => []PollHintHolds
  <1>1. IInv => PollHintHolds
    BY DEF IInv, HintStays, PollHintHolds
  <1>. QED  BY <1>1, SpecIInv, PTL

----------------------------------------------------------------------------
(* Refinement of RunContract *)

\* The start of run_scenario is the start of a run.
LEMMA RefineInit == Init => Contract!Init
  <1>. SUFFICES ASSUME Init PROVE Contract!Init
    OBVIOUS
  <1>1. got \o pipe = <<>>
    BY DEF Init, RunInit
  <1>. QED  BY <1>1 DEF Init, RunInit, Contract!Init

\* What the contract sees of the state.
Phase == CASE child = "none"   -> IF ppc = "start" THEN "idle" ELSE "refused"
           [] child = "reaped" -> "ended"
           [] OTHER            -> "running"
Outcome == IF child = "reaped" THEN Ending ELSE "none"

\* Until a poll is cut short every step is a step of the contract or not seen by it.
LEMMA RefineNext == IInv /\ [Next]_vars => [Contract!Next \/ pr < 0]_(Contract!vars)
  <1>. SUFFICES ASSUME IInv, [Next]_vars, ~(pr < 0) PROVE [Contract!Next]_(Contract!vars)
    OBVIOUS
  <1>. USE DEF IInv, Goes
  <1>0. ASSUME Phase' = Phase, Outcome' = Outcome, Sent' = Sent, got' = got
        PROVE  UNCHANGED Contract!vars
    BY <1>0 DEF Contract!vars, Phase, Outcome, Sent
  <1>1. CASE (ChildStep \/ sigterm) /\ UNCHANGED tuiVars
    <2>1. ChildFrame
      BY <1>1, ChildKeeps
    <2>2. Outcome = "none" /\ Outcome' = "none"
      BY <2>1 DEF ChildFrame, Outcome
    <2>5. Phase = "running" /\ Phase' = "running" /\ got' = got
      BY <2>1 DEF ChildFrame, Phase
    <2>3. CASE pipe' = pipe
      BY <1>0, <2>2, <2>5, <2>3 DEF Sent
    <2>4. CASE \E e \in Events : pipe' = Append(pipe, e)
      <3>1. PICK e \in Events : pipe' = Append(pipe, e)
        BY <2>4
      <3>2. Sent' = Append(Sent, e)
        BY <2>5, <3>1, SendFacts DEF RunInv, RunTypeOK, Sent
      <3>3. Contract!Emit
        BY <2>2, <2>5, <3>2 DEF Contract!Emit, Phase, Outcome, Sent
      <3>. QED  BY <3>3 DEF Contract!Next
    <2>. QED  BY <2>1, <2>3, <2>4 DEF ChildFrame
  <1>2. CASE tui_refused
    <2>1. Contract!Refuse
      BY <1>2 DEF tui_refused, runVars, Contract!Refuse, Lifecycle
    <2>. QED  BY <2>1 DEF Contract!Next
  <1>3. CASE tui_start
    <2>1. Contract!Start
      BY <1>3 DEF tui_start, pg_run_start_fork, Contract!Start, Lifecycle
    <2>. QED  BY <2>1 DEF Contract!Next
  <1>4. CASE \/ tui_close \/ tui_poll \/ tui_poll_interrupted \/ tui_key_abort \/ tui_key_ignored
             \/ tui_no_key \/ tui_eof \/ tui_no_event \/ \E k \in {"q", "other"} : user_types(k)
    <2>1. /\ UNCHANGED <<child, status, got, pipe>> /\ ppc # "back" /\ (ppc' = "start" <=> ppc = "start")
          /\ child = "reaped" => term' = term
      BY <1>4 DEF tui_close, pg_run_start_parent, tui_poll, tui_poll_interrupted, tui_key_abort,
                  pg_run_abort, tui_key_ignored, tui_no_key, tui_eof, tui_no_event, user_types,
                  runVars, procVars, pipeVars, Lifecycle
    <2>. QED  BY <1>0, <2>1 DEF Phase, Outcome, Ending, Sent
  <1>5. CASE tui_record
    <2>1. /\ Sent' = Sent /\ Len(got) < Len(Sent) /\ got' = Append(got, Sent[Len(got) + 1])
      BY <1>5, PollKeeps DEF tui_record
    <2>2. Phase = "running" /\ Phase' = "running" /\ Outcome' = Outcome /\ ~HasDone(got)
      BY <1>5 DEF tui_record, pg_run_poll_record, procVars, Phase, Outcome, Ending, Lifecycle,
                  LoopLeft, RunInv, RunTypeOK
    <2>3. Contract!Deliver
      BY <2>1, <2>2 DEF Contract!Deliver, Contract!Finished, HasDone, Phase, Outcome, Sent
    <2>. QED  BY <2>3 DEF Contract!Next
  <1>6. CASE tui_reap
    <2>1. /\ Phase = "running" /\ Phase' = "ended" /\ Sent' = Sent /\ got' = got
          /\ Outcome' = Ending /\ Ending \in Statuses \cup {"aborted"}
      BY <1>6 DEF Ending, tui_reap, pg_run_reap, Phase, Outcome, Sent, RunInv, RunTypeOK, ProcessEnds
    <2>2. HasDone(got) \/ got = Sent
      BY <1>6, EofFacts DEF tui_reap, pg_run_reap, LoopLeft, AtEof
    <2>3. Ending \in {"ok", "err"} => HasDone(got)
      BY <2>2 DEF Ending, RunInv, DoneSent
    <2>4. Contract!End
      BY <2>1, <2>2, <2>3 DEF Contract!End, Contract!Finished, HasDone, Phase, Outcome, Sent
    <2>. QED  BY <2>4 DEF Contract!Next
  <1>7. CASE tui_report
    BY <1>0, <1>7 DEF tui_report, runVars, Phase, Outcome, Ending, Sent, Lifecycle, RunInv, RunTypeOK
  <1>8. CASE UNCHANGED vars
    BY <1>0, <1>8 DEF vars, Phase, Outcome, Ending, Sent
  <1>. QED  BY <1>1, <1>2, <1>3, <1>4, <1>5, <1>6, <1>7, <1>8 DEF Next, ParentStep, Terminating

\* Until a signal cuts its poll short, run_scenario keeps the contract of a run.
THEOREM TuiImplementsContract == Spec => ImplementsContract
  BY SpecIInv, RefineInit, RefineNext, PTL DEF Spec, ImplementsContract
=============================================================================
