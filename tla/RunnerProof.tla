----------------------------- MODULE RunnerProof -----------------------------
(***************************************************************************)
(* What the child and the calls of runner.c preserve whichever front end   *)
(* makes the calls: the invariant of the two processes and the pipe that   *)
(* HeadlessProof and TuiProof build on, for any set of workers and signals *)
(* and for every capacity of the pipe.                                     *)
(***************************************************************************)
EXTENDS Runner, SequenceTheorems, TLAPS

HasDone(s) == \E i \in 1..Len(s) : s[i].kind = "done"
Has(s, e)  == \E i \in 1..Len(s) : s[i] = e

\* Everything written so far, read or not.
Sent == got \o pipe

\* The process and its ends of the pipe: a child that is not live has no thread
\* left, holds no end and has a status; a live one can write until its main
\* thread closed the pipe, and the parent reads until it has reaped the child.
ProcessEnds ==
    /\ child = "none" => readers = {} /\ writers = {} /\ pipe = <<>> /\ got = <<>>
    /\ child \in {"live", "zombie"} => Parent \in readers
    /\ child # "live" => wdog = "off" /\ \A t \in Threads : tpc[t] = "off"
    /\ child \in {"none", "live"} <=> status = "none"
    /\ Child \in writers => child = "live"
    /\ child = "live" /\ tpc[Main] # "exit" => Child \in writers
    /\ term => child # "none"

\* A scenario that returned has written its DONE; an exit status of 1 may also come
\* from the handler of SIGTERM.
DoneSent ==
    /\ tpc[Main] \in {"close", "exit"} \/ status = "ok" => HasDone(Sent)
    /\ status = "err" => HasDone(Sent) \/ term

\* A thread that is about to re-raise has written its crash record.
CrashSent == \A t \in Threads : tpc[t] = "raise" /\ FdOpen => Has(Sent, Event("crash", t))

\* The kinds of step the threads of the child are in.
ThreadPlaces ==
    /\ tpc[Main] # "ended"
    /\ \A w \in Workers : tpc[w] \in {"off", "run", "ended", "handler", "raise"}
    /\ \A t \in Threads : tpc[t] \in {"handler", "raise"} => fsig[t] \in FaultSigs

RunInv == RunTypeOK /\ ProcessEnds /\ DoneSent /\ CrashSent /\ ThreadPlaces

----------------------------------------------------------------------------
(* Records in the pipe *)

\* A record that is written goes behind all that was sent before it.
LEMMA SendFacts ==
    ASSUME NEW s \in Seq(Events), NEW p \in Seq(Events), NEW e \in Events
    PROVE  /\ Append(p, e) \in Seq(Events) /\ Len(Append(p, e)) = Len(p) + 1
           /\ s \o Append(p, e) = Append(s \o p, e)
           /\ HasDone(s \o p) => HasDone(s \o Append(p, e))
           /\ \A x : Has(s \o p, x) => Has(s \o Append(p, e), x)
           /\ e.kind = "done" => HasDone(s \o Append(p, e))
           /\ Has(s \o Append(p, e), e)
  <1>1. /\ s \o p \in Seq(Events) /\ Len(s \o p) = Len(s) + Len(p)
        /\ Len(s) \in Nat /\ Len(p) \in Nat
    BY ConcatProperties, LenProperties
  <1>2. /\ Append(p, e) \in Seq(Events) /\ Len(Append(p, e)) = Len(p) + 1
        /\ Append(s \o p, e) \in Seq(Events) /\ Len(Append(s \o p, e)) = Len(s \o p) + 1
        /\ \A i \in 1..Len(s \o p) : Append(s \o p, e)[i] = (s \o p)[i]
        /\ Append(s \o p, e)[Len(s \o p) + 1] = e
    BY <1>1, AppendProperties
  <1>3. s \o Append(p, e) = Append(s \o p, e)
    <2>1. <<e>> \in Seq(Events)
      OBVIOUS
    <2>2. Append(p, e) = p \o <<e>> /\ Append(s \o p, e) = (s \o p) \o <<e>>
      BY <1>1, AppendIsConcat
    <2>. QED  BY <2>1, <2>2, ConcatAssociative
  <1>4. \A i \in 1..Len(s \o p) : i \in 1..Len(Append(s \o p, e))
    BY <1>1, <1>2
  <1>5. Len(s \o p) + 1 \in 1..Len(Append(s \o p, e))
    BY <1>1, <1>2
  <1>. QED  BY <1>2, <1>3, <1>4, <1>5 DEF HasDone, Has

\* pg_run_poll moves the oldest unread record over: what was sent stays the same,
\* and DONE has been read exactly if it had been or is the record just read.
LEMMA TakeFacts ==
    ASSUME NEW s \in Seq(Events), NEW p \in Seq(Events), p # <<>>
    PROVE  /\ Head(p) \in Events /\ Tail(p) \in Seq(Events) /\ Len(Tail(p)) = Len(p) - 1
           /\ Append(s, Head(p)) \in Seq(Events)
           /\ Append(s, Head(p)) \o Tail(p) = s \o p
           /\ HasDone(Append(s, Head(p))) <=> HasDone(s) \/ Head(p).kind = "done"
           /\ Len(s) < Len(s \o p) /\ (s \o p)[Len(s) + 1] = Head(p)
  <1>1. /\ Head(p) \in Events /\ Tail(p) \in Seq(Events) /\ Len(Tail(p)) = Len(p) - 1
        /\ \A i \in 1..Len(Tail(p)) : Tail(p)[i] = p[i + 1]
        /\ Head(p) = p[1]
    BY HeadTailProperties
  <1>2. /\ Append(s, Head(p)) \in Seq(Events) /\ Len(Append(s, Head(p))) = Len(s) + 1
        /\ \A i \in 1..Len(s) : Append(s, Head(p))[i] = s[i]
        /\ Append(s, Head(p))[Len(s) + 1] = Head(p)
    BY <1>1, AppendProperties
  <1>3. /\ Len(s) \in Nat /\ Len(p) \in Nat /\ Len(p) > 0
    BY LenProperties, EmptySeq
  <1>4. /\ s \o p \in Seq(Events) /\ Len(s \o p) = Len(s) + Len(p)
        /\ \A i \in 1..Len(s) + Len(p) : (s \o p)[i] = IF i <= Len(s) THEN s[i] ELSE p[i - Len(s)]
    BY ConcatProperties
  <1>5. Append(s, Head(p)) \o Tail(p) = s \o p
    <2>. DEFINE a == Append(s, Head(p))
                q == Tail(p)
    <2>1. /\ a \o q \in Seq(Events) /\ Len(a \o q) = Len(a) + Len(q)
          /\ \A i \in 1..Len(a) + Len(q) : (a \o q)[i] = IF i <= Len(a) THEN a[i] ELSE q[i - Len(a)]
      BY <1>1, <1>2, ConcatProperties
    <2>2. Len(a \o q) = Len(s \o p)
      BY <1>1, <1>2, <1>3, <1>4, <2>1
    <2>3. ASSUME NEW i \in 1..Len(a \o q) PROVE (a \o q)[i] = (s \o p)[i]
      <3>1. (a \o q)[i] = IF i <= Len(a) THEN a[i] ELSE q[i - Len(a)]
        BY <2>1
      <3>2. (s \o p)[i] = IF i <= Len(s) THEN s[i] ELSE p[i - Len(s)]
        BY <1>4, <2>2
      <3>3. CASE i <= Len(s)
        BY <1>2, <1>3, <3>1, <3>2, <3>3
      <3>4. CASE i = Len(s) + 1
        BY <1>1, <1>2, <1>3, <3>1, <3>2, <3>4
      <3>5. CASE i > Len(s) + 1
        <4>1. i - Len(a) \in 1..Len(q) /\ i - Len(a) + 1 = i - Len(s)
          BY <1>1, <1>2, <1>3, <2>1, <3>5
        <4>. QED  BY <1>1, <1>2, <1>3, <3>1, <3>2, <3>5, <4>1
      <3>. QED  BY <1>3, <2>1, <3>3, <3>4, <3>5
    <2>. QED  BY <1>4, <2>1, <2>2, <2>3, SeqEqual
  <1>6. HasDone(Append(s, Head(p))) <=> HasDone(s) \/ Head(p).kind = "done"
    BY <1>2, <1>3 DEF HasDone
  <1>. QED  BY <1>1, <1>2, <1>3, <1>4, <1>5, <1>6

----------------------------------------------------------------------------
(* The steps of the child *)

\* A write of one record by a thread of a live child keeps the invariant, if the
\* thread is where the code writes such a record.
LEMMA WriteKeeps ==
    ASSUME RunInv, child = "live", Child \in writers,
           NEW k \in Kinds, NEW t \in Threads \cup {Watchdog}, WriteRecord(k, t),
           UNCHANGED <<child, status, fsig, armed, rc, term, got, writers, readers>>,
           wdog' \in {"off", "sleep", "emit", "exit"},
           \/ UNCHANGED tpc
           \/ k = "done" /\ tpc[Main] = "done" /\ Goto(Main, "close")
           \/ k = "crash" /\ t \in Threads /\ tpc[t] = "handler" /\ Goto(t, "raise")
    PROVE  RunInv' /\ Event(k, t) \in Events /\ pipe' = Append(pipe, Event(k, t))
  <1>. USE RunnerAssumption
  <1>1. /\ Event(k, t) \in Events /\ Event(k, t).kind = k
        /\ pipe' = Append(pipe, Event(k, t)) /\ Len(pipe) < PipeCap
    BY DEF Event, Events, WriteRecord
  <1>2. /\ pipe' \in Seq(Events) /\ Len(pipe') <= PipeCap
        /\ HasDone(Sent) => HasDone(Sent')
        /\ \A x : Has(Sent, x) => Has(Sent', x)
        /\ k = "done" => HasDone(Sent')
        /\ Has(Sent', Event(k, t))
    BY <1>1, SendFacts DEF RunInv, RunTypeOK, Sent
  <1>3. RunTypeOK'
    BY <1>2 DEF RunInv, RunTypeOK, Goto, Threads
  <1>4. ProcessEnds'
    BY DEF RunInv, RunTypeOK, ProcessEnds, Goto, Threads
  <1>5. DoneSent'
    BY <1>2 DEF RunInv, RunTypeOK, DoneSent, Goto, Threads
  <1>6. CrashSent'
    <2>. SUFFICES ASSUME NEW u \in Threads, tpc'[u] = "raise", FdOpen'
                  PROVE  Has(Sent', Event("crash", u))
      BY DEF CrashSent, Event
    <2>1. CASE tpc[u] = "raise"
      BY <1>2, <2>1 DEF RunInv, CrashSent, FdOpen
    <2>2. CASE tpc[u] # "raise"
      <3>1. k = "crash" /\ u = t
        BY <2>2 DEF RunInv, RunTypeOK, Goto, Threads
      <3>. QED  BY <1>2, <3>1
    <2>. QED  BY <2>1, <2>2
  <1>7. ThreadPlaces'
    BY DEF RunInv, RunTypeOK, ThreadPlaces, Goto, Threads
  <1>. QED  BY <1>1, <1>3, <1>4, <1>5, <1>6, <1>7 DEF RunInv

\* The end of the process keeps the invariant, provided a status that says the
\* scenario returned is only used once DONE was written or a SIGTERM was sent.
LEMMA DieKeeps ==
    ASSUME RunInv, child = "live", NEW s \in Statuses, Die(s),
           s = "ok" => HasDone(Sent), s = "err" => HasDone(Sent) \/ term
    PROVE  RunInv'
  <1>. USE RunnerAssumption DEF Die, Threads, Statuses, Signals, Exits, NoSig, Parent, Child
  <1>1. RunTypeOK'
    BY DEF RunInv, RunTypeOK
  <1>2. ProcessEnds'
    BY DEF RunInv, RunTypeOK, ProcessEnds
  <1>3. Sent' = Sent
    BY DEF Sent
  <1>4. DoneSent'
    BY <1>3 DEF RunInv, DoneSent, HasDone
  <1>5. CrashSent' /\ ThreadPlaces'
    BY DEF RunInv, CrashSent, ThreadPlaces
  <1>. QED  BY <1>1, <1>2, <1>4, <1>5 DEF RunInv

Quiet ==
    \/ child_setup \/ scenario_teardown \/ child_close
    \/ \E r \in {0, 1} : scenario_init(r) \/ scenario_run(r)
    \/ \E w \in Workers : spawn(w) \/ thread_return(w)
    \/ \E t \in Threads, s \in FaultSigs : fault(t, s)
    \/ chaos_thread_watchdog \/ watchdog_wake
    \/ \E t \in Threads : ~FdOpen /\ child_fault_handler(t)
    \/ ~FdOpen /\ watchdog_emit

\* The steps of the child that neither write nor end the process.
LEMMA QuietKeeps ==
    ASSUME RunInv, Quiet
    PROVE  /\ RunInv' /\ child = "live"
           /\ UNCHANGED <<pipe, got, child, status, term>> /\ writers' \subseteq writers
  <1>. USE RunnerAssumption
       DEF RunInv, RunTypeOK, ProcessEnds, ThreadPlaces, FdOpen, Threads, Parent, Child, NoSig,
           Goto, InScenario, pipeVars
  <1>0. /\ UNCHANGED <<pipe, got, child, status, term>> /\ writers' \subseteq writers
        /\ child = "live"
        /\ \A t \in Threads : tpc'[t] = "raise" => tpc[t] = "raise" \/ ~FdOpen
        /\ tpc'[Main] \in {"close", "exit"} => tpc[Main] \in {"close", "exit"}
    BY DEF Quiet, child_setup, scenario_teardown, child_close, scenario_init, scenario_run,
           spawn, thread_return, fault, chaos_thread_watchdog, watchdog_wake,
           child_fault_handler, watchdog_emit
  <1>1. Sent' = Sent
    BY <1>0 DEF Sent
  <1>2. DoneSent'
    BY <1>0, <1>1 DEF DoneSent, HasDone
  <1>3. CrashSent'
    BY <1>0, <1>1 DEF CrashSent, Has, Event
  <1>4. RunTypeOK' /\ ProcessEnds' /\ ThreadPlaces'
    <2>1. CASE child_setup           BY <2>1 DEF child_setup
    <2>2. CASE scenario_teardown     BY <2>2 DEF scenario_teardown
    <2>3. CASE child_close           BY <2>3 DEF child_close
    <2>4. CASE \E r \in {0, 1} : scenario_init(r) \/ scenario_run(r)
      BY <2>4, ZenonT(30) DEF scenario_init, scenario_run
    <2>5. CASE \E w \in Workers : spawn(w) \/ thread_return(w)
      BY <2>5, ZenonT(30) DEF spawn, thread_return
    <2>6. CASE \E t \in Threads, s \in FaultSigs : fault(t, s)
      BY <2>6 DEF fault
    <2>7. CASE chaos_thread_watchdog \/ watchdog_wake
      BY <2>7 DEF chaos_thread_watchdog, watchdog_wake
    <2>8. CASE \E t \in Threads : ~FdOpen /\ child_fault_handler(t)
      BY <2>8 DEF child_fault_handler
    <2>9. CASE ~FdOpen /\ watchdog_emit
      BY <2>9 DEF watchdog_emit
    <2>. QED  BY <2>1, <2>2, <2>3, <2>4, <2>5, <2>6, <2>7, <2>8, <2>9 DEF Quiet
  <1>. QED  BY <1>0, <1>2, <1>3, <1>4

\* What a step of the child or a SIGTERM may do to what a parent sees: nothing is
\* read, at most one record is written, and only while somebody can write.
ChildFrame ==
    /\ child = "live" /\ child' \in {"live", "zombie"}
    /\ got' = got /\ term' = term /\ writers' \subseteq writers
    /\ \/ pipe' = pipe
       \/ writers # {} /\ \E e \in Events : pipe' = Append(pipe, e)

\* Every step of the child keeps the invariant and the frame.
LEMMA ChildKeeps ==
    ASSUME RunInv, ChildStep \/ sigterm
    PROVE  RunInv' /\ ChildFrame
  <1>. USE RunnerAssumption
  <1>1. ASSUME NEW t \in Threads, tpc[t] # "off" PROVE child = "live"
    BY <1>1 DEF RunInv, ProcessEnds
  <1>2. ASSUME Quiet PROVE RunInv' /\ ChildFrame
    BY <1>2, QuietKeeps DEF ChildFrame
  <1>3. ASSUME child = "live", NEW s \in Statuses, Die(s),
               s = "ok" => HasDone(Sent), s = "err" => HasDone(Sent) \/ term
        PROVE  RunInv' /\ ChildFrame
    BY <1>3, DieKeeps DEF ChildFrame, Die
  <1>4. ASSUME child = "live", Child \in writers,
               NEW k \in Kinds, NEW t \in Threads \cup {Watchdog}, WriteRecord(k, t),
               UNCHANGED <<child, status, fsig, armed, rc, term, got, writers, readers>>,
               wdog' \in {"off", "sleep", "emit", "exit"},
               \/ UNCHANGED tpc
               \/ k = "done" /\ tpc[Main] = "done" /\ Goto(Main, "close")
               \/ k = "crash" /\ t \in Threads /\ tpc[t] = "handler" /\ Goto(t, "raise")
        PROVE  RunInv' /\ ChildFrame
    BY <1>4, WriteKeeps DEF ChildFrame
  <1>5. CASE pg_done
    BY <1>1, <1>4, <1>5 DEF pg_done, Kinds, Threads, RunInv, RunTypeOK, ProcessEnds
  <1>6. ASSUME NEW t \in Threads, pg_emit(t) PROVE RunInv' /\ ChildFrame
    BY <1>1, <1>4, <1>6 DEF pg_emit, InScenario, FdOpen, Kinds, procVars, RunInv, RunTypeOK
  <1>7. ASSUME NEW t \in Threads, child_fault_handler(t) PROVE RunInv' /\ ChildFrame
    <2>1. CASE FdOpen
      BY <1>1, <1>4, <1>7, <2>1 DEF child_fault_handler, FdOpen, Kinds, RunInv, RunTypeOK
    <2>2. CASE ~FdOpen
      BY <1>2, <1>7, <2>2 DEF Quiet
    <2>. QED  BY <2>1, <2>2
  <1>8. CASE watchdog_emit
    <2>1. CASE FdOpen
      BY <1>4, <1>8, <2>1 DEF watchdog_emit, FdOpen, Kinds, RunInv, ProcessEnds
    <2>2. CASE ~FdOpen
      BY <1>2, <1>8, <2>2 DEF Quiet
    <2>. QED  BY <2>1, <2>2
  <1>9. CASE child_exit
    BY <1>1, <1>3, <1>9 DEF child_exit, Statuses, Exits, Threads, RunInv, DoneSent
  <1>10. ASSUME NEW t \in Threads, raise_default(t) \/ \E s \in FaultSigs : fault_default(t, s)
         PROVE  RunInv' /\ ChildFrame
    <2>1. PICK s \in FaultSigs : Die(s) /\ tpc[t] # "off"
      BY <1>10 DEF raise_default, fault_default, InScenario, RunInv, ThreadPlaces
    <2>2. s \in Statuses /\ s \notin {"ok", "err"}
      BY DEF Statuses, Signals
    <2>. QED  BY <1>1, <1>3, <2>1, <2>2
  <1>11. CASE cpu_limit
    BY <1>3, <1>11 DEF cpu_limit, Statuses, Signals
  <1>12. CASE watchdog_exit
    BY <1>3, <1>12 DEF watchdog_exit, Statuses, Exits, RunInv, ProcessEnds
  <1>13. CASE sigterm
    BY <1>3, <1>13 DEF sigterm, Statuses, Exits
  <1>. QED  BY <1>2, <1>5, <1>6, <1>7, <1>8, <1>9, <1>10, <1>11, <1>12, <1>13
            DEF ChildStep, HarnessStep, ScenarioStep, Quiet

----------------------------------------------------------------------------
(* The calls of the parent *)

\* The invariant holds before anything was started.
LEMMA RunInitKeeps == RunInit => RunInv
  <1>. SUFFICES ASSUME RunInit PROVE RunInv
    OBVIOUS
  <1>. USE RunnerAssumption DEF RunInit, Threads, NoSig
  <1>1. <<>> \in Seq(Events) /\ Len(<<>>) = 0
    OBVIOUS
  <1>2. RunTypeOK
    <2>1. pipe \in Seq(Events) /\ Len(pipe) <= PipeCap /\ got \in Seq(Events)
      BY <1>1
    <2>. QED  BY <2>1 DEF RunTypeOK
  <1>3. ProcessEnds /\ CrashSent /\ ThreadPlaces
    BY DEF ProcessEnds, CrashSent, ThreadPlaces
  <1>4. DoneSent
    BY DEF DoneSent
  <1>. QED  BY <1>2, <1>3, <1>4 DEF RunInv

\* The calls that do not touch the pipe's contents: both halves of pg_run_start,
\* pg_run_abort and pg_run_reap.
LEMMA CallKeeps ==
    ASSUME RunInv,
           pg_run_start_fork \/ pg_run_start_parent \/ pg_run_abort \/ pg_run_reap \/ UNCHANGED runVars
    PROVE  RunInv'
  <1>. USE RunnerAssumption
       DEF pg_run_start_fork, pg_run_start_parent, pg_run_abort, pg_run_reap, runVars, procVars,
           pipeVars, Goto, RunInv
  <1>1. UNCHANGED <<got, pipe, status>>
    OBVIOUS
  <1>2. Sent' = Sent
    BY <1>1 DEF Sent
  <1>3. RunTypeOK'
    BY DEF RunTypeOK, Threads, Parent, Child
  <1>4. ProcessEnds'
    <2>. USE DEF RunTypeOK, ProcessEnds, Threads, Parent, Child
    <2>1. CASE pg_run_start_fork    BY <2>1
    <2>2. CASE pg_run_start_parent  BY <2>2
    <2>3. CASE pg_run_abort         BY <2>3
    <2>4. CASE pg_run_reap          BY <2>4
    <2>5. CASE UNCHANGED runVars    BY <2>5
    <2>. QED  BY <2>1, <2>2, <2>3, <2>4, <2>5
  <1>5. DoneSent'
    <2>1. HasDone(Sent') <=> HasDone(Sent)
      BY <1>2
    <2>2. term => term'
      BY DEF RunTypeOK
    <2>. QED  BY <1>1, <2>1, <2>2 DEF DoneSent, RunTypeOK, Threads
  <1>6. CrashSent'
    <2>. SUFFICES ASSUME NEW t \in Threads, tpc'[t] = "raise", FdOpen'
                  PROVE  Has(Sent', Event("crash", t))
      BY DEF CrashSent, Event
    <2>1. tpc[t] = "raise"
      BY DEF RunTypeOK, Threads
    <2>2. FdOpen
      BY <2>1 DEF FdOpen, ProcessEnds
    <2>. QED  BY <1>2, <2>1, <2>2 DEF CrashSent
  <1>7. ThreadPlaces'
    BY DEF ThreadPlaces, RunTypeOK, Threads
  <1>. QED  BY <1>3, <1>4, <1>5, <1>6, <1>7

\* pg_run_poll keeps the invariant and leaves what was sent as it is.
LEMMA PollKeeps ==
    ASSUME RunInv, pg_run_poll_record
    PROVE  /\ RunInv' /\ Sent' = Sent
           /\ Len(got) < Len(Sent) /\ got' = Append(got, Sent[Len(got) + 1])
           /\ HasDone(got') <=> HasDone(got) \/ Head(pipe).kind = "done"
  <1>. USE DEF pg_run_poll_record, procVars, RunInv
  <1>1. /\ Head(pipe) \in Events /\ Tail(pipe) \in Seq(Events) /\ Len(Tail(pipe)) = Len(pipe) - 1
        /\ got' \in Seq(Events) /\ Sent' = Sent
        /\ HasDone(got') <=> HasDone(got) \/ Head(pipe).kind = "done"
        /\ Len(got) < Len(Sent) /\ Sent[Len(got) + 1] = Head(pipe)
    BY TakeFacts DEF RunTypeOK, Sent
  <1>2. RunTypeOK'
    BY <1>1, RunnerAssumption DEF RunTypeOK
  <1>3. ProcessEnds' /\ ThreadPlaces'
    BY DEF ProcessEnds, ThreadPlaces
  <1>4. DoneSent' /\ CrashSent'
    BY <1>1 DEF DoneSent, CrashSent, HasDone, Has, FdOpen, Event
  <1>. QED  BY <1>1, <1>2, <1>3, <1>4

\* At end of file everything that was sent has been read.
LEMMA EofFacts == ASSUME RunInv, pipe = <<>> PROVE Sent = got
  BY ConcatEmptySeq DEF Sent, RunInv, RunTypeOK
=============================================================================
