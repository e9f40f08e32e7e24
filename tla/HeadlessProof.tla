---------------------------- MODULE HeadlessProof ----------------------------
(***************************************************************************)
(* Proofs about Headless, for any set of workers and signals and for every *)
(* capacity of the pipe, over the invariant of RunnerProof.                *)
(***************************************************************************)
EXTENDS Headless, RunnerProof

\* Where run_headless is says whether the child exists.
Lifecycle ==
    /\ ~term
    /\ ppc = "start" => child = "none"
    /\ child = "none" => ppc \in {"start", "exited"} /\ report = "none"
    /\ child \in {"live", "zombie"} => ppc \in {"close", "poll", "reap"}
    /\ child = "reaped" => ppc \in {"report", "exited"}
    /\ report # "none" => ppc = "exited"
    /\ Parent \in writers => ppc = "close"

\* saw_done is whether DONE has been read, and the loop is left only with DONE or
\* with an empty pipe nobody can write to.
Accounted ==
    /\ sawDone <=> HasDone(got)
    /\ sawDone => ppc \in {"reap", "report", "exited"}
    /\ ppc \in {"reap", "report", "exited"} /\ child # "none" /\ ~sawDone => AtEof

IInv == RunInv /\ TypeOK /\ Lifecycle /\ Accounted /\ EarlyExitMeansWatchdog

----------------------------------------------------------------------------
(* The inductive invariant *)

\* The invariant holds before run_headless has done anything.
LEMMA InitIInv == Init => IInv
  <1>. SUFFICES ASSUME Init PROVE IInv
    OBVIOUS
  <1>1. RunInv
    BY RunInitKeeps DEF Init
  <1>2. ~HasDone(got)
    BY DEF Init, RunInit, HasDone
  <1>. QED  BY <1>1, <1>2 DEF Init, RunInit, IInv, RunInv, TypeOK, Lifecycle, Accounted,
                              EarlyExitMeansWatchdog

\* A step of the child leaves run_headless where it is.
LEMMA ChildIInv == ASSUME IInv, ChildStep, UNCHANGED headVars PROVE IInv'
  <1>1. RunInv' /\ ChildFrame
    BY ChildKeeps DEF IInv
  <1>2. AtEof => AtEof'
    BY <1>1 DEF ChildFrame, AtEof
  <1>3. HasDone(got') <=> HasDone(got)
    BY <1>1 DEF ChildFrame
  <1>4. TypeOK' /\ Lifecycle'
    BY <1>1 DEF IInv, RunInv, RunTypeOK, TypeOK, Lifecycle, ChildFrame, headVars, Parent
  <1>5. Accounted'
    BY <1>1, <1>2, <1>3 DEF IInv, Accounted, ChildFrame, headVars, HasDone
  <1>6. EarlyExitMeansWatchdog'
    BY <1>1 DEF IInv, Lifecycle, ChildFrame, EarlyExitMeansWatchdog, headVars
  <1>. QED  BY <1>1, <1>4, <1>5, <1>6 DEF IInv

\* The steps of run_headless.
LEMMA ParentIInv == ASSUME IInv, ParentStep PROVE IInv'
  <1>. USE DEF IInv, TypeOK, Lifecycle, Accounted, EarlyExitMeansWatchdog, AtEof
  <1>1. CASE \E c \in {1, 2} : headless_refused(c)
    <2>1. RunInv'
      BY <1>1, CallKeeps DEF headless_refused
    <2>. QED  BY <1>1, <2>1 DEF headless_refused, runVars, RunInv, HasDone
  <1>2. CASE headless_start
    <2>1. RunInv'
      BY <1>2, CallKeeps DEF headless_start
    <2>. QED  BY <1>2, <2>1 DEF headless_start, pg_run_start_fork, RunInv, HasDone, Parent, Child
  <1>3. CASE headless_close
    <2>1. RunInv'
      BY <1>3, CallKeeps DEF headless_close
    <2>. QED  BY <1>3, <2>1 DEF headless_close, pg_run_start_parent, procVars, RunInv, HasDone
  <1>4. CASE headless_record
    <2>1. RunInv' /\ (HasDone(got') <=> HasDone(got) \/ Head(pipe).kind = "done")
      BY <1>4, PollKeeps DEF headless_record
    <2>2. ~HasDone(got) /\ (sawDone' <=> Head(pipe).kind = "done")
      BY <1>4 DEF headless_record
    <2>. QED  BY <1>4, <2>1, <2>2 DEF headless_record, pg_run_poll_record, procVars, RunInv
  <1>5. CASE headless_eof
    <2>1. RunInv'
      BY <1>5, CallKeeps DEF headless_eof
    <2>. QED  BY <1>5, <2>1 DEF headless_eof, runVars, RunInv, HasDone
  <1>6. CASE headless_reap
    <2>1. RunInv'
      BY <1>6, CallKeeps DEF headless_reap
    <2>. QED  BY <1>6, <2>1 DEF headless_reap, pg_run_reap, RunInv, HasDone
  <1>7. CASE headless_report
    <2>1. RunInv'
      BY <1>7, CallKeeps DEF headless_report
    <2>2. ~sawDone => status \notin {"ok", "err"}
      <3>1. ~sawDone => Sent = got
        BY <1>7, EofFacts DEF headless_report, RunInv, ProcessEnds
      <3>. QED  BY <3>1 DEF RunInv, DoneSent
    <2>3. child = "reaped" /\ status \in Statuses
      BY <1>7 DEF headless_report, RunInv, RunTypeOK, ProcessEnds
    <2>. QED  BY <1>7, <2>1, <2>2, <2>3
              DEF headless_report, runVars, RunInv, HasDone, Statuses, Exits
  <1>. QED  BY <1>1, <1>2, <1>3, <1>4, <1>5, <1>6, <1>7 DEF ParentStep

\* Every step keeps the invariant.
LEMMA NextIInv == IInv /\ [Next]_vars => IInv'
  <1>. SUFFICES ASSUME IInv, [Next]_vars PROVE IInv'
    OBVIOUS
  <1>1. CASE UNCHANGED vars
    <2>1. RunInv'
      BY <1>1, CallKeeps DEF vars, runVars, IInv
    <2>. QED  BY <1>1, <2>1 DEF vars, HasDone, IInv, RunInv, TypeOK, Lifecycle, Accounted,
                                EarlyExitMeansWatchdog, AtEof
  <1>. QED  BY <1>1, ParentIInv, ChildIInv DEF Next, Terminating

LEMMA SpecIInv == Spec => []IInv
  BY InitIInv, NextIInv, PTL DEF Spec

----------------------------------------------------------------------------
(* The theorems *)

\* Type correctness of the runner under run_headless.
THEOREM HeadlessTypeOK == Spec => []TypeOK
  <1>1. IInv => TypeOK
    BY DEF IInv
  <1>. QED  BY <1>1, SpecIInv, PTL

\* However many threads the scenario has and however small the pipe is, a live
\* child always has a reader at the other end of its event pipe.
THEOREM HeadlessEventPipeOpen == Spec => []EventPipeOpen
  <1>1. IInv => EventPipeOpen
    BY DEF IInv, RunInv, ProcessEnds, EventPipeOpen
  <1>. QED  BY <1>1, SpecIInv, PTL

\* run_headless says "child exited N before PG_EV_DONE" of nothing but the
\* watchdog's exit.
THEOREM HeadlessEarlyExit == Spec => []EarlyExitMeansWatchdog
  <1>1. IInv => EarlyExitMeansWatchdog
    BY DEF IInv
  <1>. QED  BY <1>1, SpecIInv, PTL

\* A run without DONE ends with every written record printed.
THEOREM HeadlessNoLostEvents == Spec => []NoLostEvents
  <1>1. IInv => NoLostEvents
    BY DEF IInv, Accounted, AtEof, NoLostEvents
  <1>. QED  BY <1>1, SpecIInv, PTL

\* A thread that is about to re-raise its signal has its crash record in the pipe
\* or printed, unless the main thread had closed the pipe before.
THEOREM HeadlessCrashRecorded == Spec => []CrashRecorded
  <1>1. IInv => CrashRecorded
    BY DEF IInv, RunInv, CrashSent, Has, Sent, CrashRecorded
  <1>. QED  BY <1>1, SpecIInv, PTL

----------------------------------------------------------------------------
(* Refinement of RunContract *)

\* The start of run_headless is the start of a run.
LEMMA RefineInit == Init => Contract!Init
  <1>. SUFFICES ASSUME Init PROVE Contract!Init
    OBVIOUS
  <1>1. got \o pipe = <<>>
    BY DEF Init, RunInit
  <1>. QED  BY <1>1 DEF Init, RunInit, Contract!Init

\* What the contract sees of the state.
Phase == CASE child = "none"   -> IF ppc = "start" THEN "idle" ELSE "refused"
           [] child = "reaped" -> "ended"
           [] OTHER            -> "running"
Outcome == IF child = "reaped" THEN status ELSE "none"

\* Every step is a step of the contract or is not seen by it.
LEMMA RefineNext == IInv /\ [Next]_vars => [Contract!Next]_(Contract!vars)
  <1>. SUFFICES ASSUME IInv, [Next]_vars PROVE [Contract!Next]_(Contract!vars)
    OBVIOUS
  <1>. USE DEF IInv
  <1>0. ASSUME Phase' = Phase, Outcome' = Outcome, Sent' = Sent, got' = got
        PROVE  UNCHANGED Contract!vars
    BY <1>0 DEF Contract!vars, Phase, Outcome, Sent
  <1>1. CASE ChildStep /\ UNCHANGED headVars
    <2>1. ChildFrame
      BY <1>1, ChildKeeps
    <2>2. Phase = "running" /\ Phase' = "running" /\ Outcome = "none" /\ Outcome' = "none" /\ got' = got
      BY <2>1 DEF ChildFrame, Phase, Outcome
    <2>3. CASE pipe' = pipe
      BY <1>0, <2>2, <2>3 DEF Sent
    <2>4. CASE \E e \in Events : pipe' = Append(pipe, e)
      <3>1. PICK e \in Events : pipe' = Append(pipe, e)
        BY <2>4
      <3>2. Sent' = Append(Sent, e)
        BY <2>2, <3>1, SendFacts DEF RunInv, RunTypeOK, Sent
      <3>3. Contract!Emit
        BY <2>2, <3>2 DEF Contract!Emit, Phase, Outcome, Sent
      <3>. QED  BY <3>3 DEF Contract!Next
    <2>. QED  BY <2>1, <2>3, <2>4 DEF ChildFrame
  <1>2. CASE \E c \in {1, 2} : headless_refused(c)
    <2>1. Contract!Refuse
      BY <1>2 DEF headless_refused, runVars, Contract!Refuse, Lifecycle
    <2>. QED  BY <2>1 DEF Contract!Next
  <1>3. CASE headless_start
    <2>1. Contract!Start
      BY <1>3 DEF headless_start, pg_run_start_fork, Contract!Start, Lifecycle
    <2>. QED  BY <2>1 DEF Contract!Next
  <1>4. CASE headless_close \/ headless_eof
    BY <1>0, <1>4 DEF headless_close, pg_run_start_parent, headless_eof, runVars, procVars, Phase,
                      Outcome, Sent, Lifecycle
  <1>5. CASE headless_record
    <2>1. /\ Sent' = Sent /\ Len(got) < Len(Sent) /\ got' = Append(got, Sent[Len(got) + 1])
      BY <1>5, PollKeeps DEF headless_record
    <2>2. Phase = "running" /\ Phase' = "running" /\ Outcome' = Outcome /\ ~HasDone(got)
      BY <1>5 DEF headless_record, pg_run_poll_record, procVars, Phase, Outcome, Lifecycle,
                  Accounted, RunInv, RunTypeOK
    <2>3. Contract!Deliver
      BY <2>1, <2>2 DEF Contract!Deliver, Contract!Finished, HasDone, Phase, Outcome, Sent
    <2>. QED  BY <2>3 DEF Contract!Next
  <1>6. CASE headless_reap
    <2>1. /\ Phase = "running" /\ Phase' = "ended" /\ Sent' = Sent /\ got' = got
          /\ Outcome' = status /\ status \in Statuses
      BY <1>6 DEF headless_reap, pg_run_reap, Phase, Outcome, Sent, RunInv, RunTypeOK, ProcessEnds
    <2>2. HasDone(got) \/ got = Sent
      BY <1>6, EofFacts DEF headless_reap, pg_run_reap, Accounted, AtEof
    <2>3. status \in {"ok", "err"} => HasDone(got)
      BY <2>2 DEF RunInv, DoneSent, Lifecycle
    <2>4. Contract!End
      BY <2>1, <2>2, <2>3 DEF Contract!End, Contract!Finished, HasDone, Phase, Outcome, Sent
    <2>. QED  BY <2>4 DEF Contract!Next
  <1>7. CASE headless_report
    BY <1>0, <1>7 DEF headless_report, runVars, Phase, Outcome, Sent, Lifecycle, RunInv, RunTypeOK
  <1>8. CASE UNCHANGED vars
    BY <1>0, <1>8 DEF vars, Phase, Outcome, Sent
  <1>. QED  BY <1>1, <1>2, <1>3, <1>4, <1>5, <1>6, <1>7, <1>8 DEF Next, ParentStep, Terminating

\* run_headless implements the contract of a run.
THEOREM HeadlessImplementsContract == Spec => ImplementsContract
  BY SpecIInv, RefineInit, RefineNext, PTL DEF Spec, ImplementsContract, Contract!Spec
=============================================================================
