------------------------------ MODULE Headless ------------------------------
(***************************************************************************)
(* run_headless of src/main.c over the runner: start the child, print each *)
(* record until DONE or EOF, reap, and report an end that had no DONE.     *)
(***************************************************************************)
EXTENDS Runner

VARIABLES
    ppc,      \* where run_headless is
    sawDone,  \* saw_done
    report,   \* the line about the child on stderr: "none", "signal" or "early"
    code      \* run_headless's result

headVars == <<ppc, sawDone, report, code>>
vars     == <<child, status, tpc, fsig, armed, wdog, rc, pipe, got, writers, readers, term,
              ppc, sawDone, report, code>>

Init ==
    /\ RunInit
    /\ ppc = "start" /\ sawDone = FALSE /\ report = "none" /\ code = 0

----------------------------------------------------------------------------
\* Mutant: a refused run reports the shell's 127.
headless_refused_127(c) ==
    /\ ppc = "start"
    /\ ppc' = "exited" /\ code' = 127
    /\ UNCHANGED runVars /\ UNCHANGED <<sawDone, report>>

\* The id is not registered (2), or pipe or fork fails (1).
headless_refused(c) ==
    /\ ppc = "start"
    /\ ppc' = "exited" /\ code' = c
    /\ UNCHANGED runVars /\ UNCHANGED <<sawDone, report>>

headless_start ==
    /\ ppc = "start"
    /\ pg_run_start_fork
    /\ ppc' = "close"
    /\ UNCHANGED <<sawDone, report, code>>

headless_close ==
    /\ ppc = "close"
    /\ pg_run_start_parent
    /\ ppc' = "poll"
    /\ UNCHANGED <<sawDone, report, code>>

\* Mutant: the loop does not stop at DONE.
headless_record_goes_on ==
    /\ ppc = "poll"
    /\ pg_run_poll_record
    /\ sawDone' = (sawDone \/ Head(pipe).kind = "done")
    /\ UNCHANGED <<ppc, report, code>>

\* One turn of the loop with a record: it is printed, and DONE ends the loop.
headless_record ==
    /\ ppc = "poll"
    /\ pg_run_poll_record
    /\ sawDone' = (Head(pipe).kind = "done")
    /\ ppc' = IF sawDone' THEN "reap" ELSE "poll"
    /\ UNCHANGED <<report, code>>

headless_eof ==
    /\ ppc = "poll" /\ AtEof
    /\ ppc' = "reap"
    /\ UNCHANGED runVars /\ UNCHANGED <<sawDone, report, code>>

headless_reap ==
    /\ ppc = "reap"
    /\ pg_run_reap
    /\ ppc' = "report"
    /\ UNCHANGED <<sawDone, report, code>>

\* "child died from signal" or "child exited N before PG_EV_DONE".
headless_report ==
    /\ ppc = "report"
    /\ report' = CASE sawDone                        -> "none"
                   [] ~sawDone /\ status \in Signals -> "signal"
                   [] OTHER                          -> "early"
    /\ ppc' = "exited"
    /\ UNCHANGED runVars /\ UNCHANGED <<sawDone, code>>

ParentStep ==
    \/ \E c \in {1, 2} : headless_refused(c)
    \/ headless_start \/ headless_close
    \/ headless_record \/ headless_eof
    \/ headless_reap \/ headless_report

\* The process is gone; the run has nothing left to do.
Terminating == ppc = "exited" /\ UNCHANGED vars

Next ==
    \/ ParentStep
    \/ ChildStep /\ UNCHANGED headVars
    \/ Terminating

----------------------------------------------------------------------------
(* The parent and the straight-line code of the child keep running.  A     *)
(* blocking write is strongly fair: the kernel wakes the writers of a full *)
(* pipe in turn.  Scenario code owes nothing: it may hang for ever.        *)
ByChild(A) == A /\ UNCHANGED headVars

Fairness ==
    /\ WF_vars(ParentStep)
    /\ WF_vars(ByChild(child_setup \/ child_close \/ child_exit))
    /\ WF_vars(ByChild(watchdog_wake \/ watchdog_exit))
    /\ SF_vars(ByChild(pg_done))
    /\ SF_vars(ByChild(watchdog_emit))
    /\ \A t \in Threads : /\ SF_vars(ByChild(child_fault_handler(t)))
                          /\ WF_vars(ByChild(raise_default(t)))

Spec     == Init /\ [][Next]_vars
FairSpec == Spec /\ Fairness

----------------------------------------------------------------------------
(* Properties *)

\* Every variable of the runner and of run_headless keeps its type.
TypeOK ==
    /\ RunTypeOK
    /\ ppc \in {"start", "close", "poll", "reap", "report", "exited"}
    /\ sawDone \in BOOLEAN
    /\ report \in {"none", "signal", "early"}
    /\ code \in {0, 1, 2}

\* While the child can write, the parent holds the read end: pg_run_reap waits
\* before it closes event_fd, so no record ever costs the child a SIGPIPE.
EventPipeOpen == child = "live" => Parent \in readers

\* "child exited N before PG_EV_DONE" is only ever said of the watchdog's
\* _exit(2): a scenario that returned, with 0 or not, has its DONE printed first.
EarlyExitMeansWatchdog == report = "early" => status = "exit2"

\* When run_headless returns from a run that had no DONE, every record the
\* child managed to write has been printed: the loop leaves nothing behind.
NoLostEvents ==
    (ppc = "exited" /\ child = "reaped" /\ ~sawDone) => pipe = <<>>

\* A child that died of a signal install_child_handlers covers had its
\* CHILD_CRASH record printed ("writes a final PG_EV_FAULT event before
\* re-raising the signal").
CrashReported ==
    (ppc = "exited" /\ status \in FaultSigs) => Seen("crash")

\* A thread that is about to re-raise its signal has its crash record on the way
\* to the parent, unless the main thread had closed the pipe: neither a full pipe
\* nor another thread that faults at the same time makes the handler skip it.
CrashRecorded ==
    \A t \in Threads : tpc[t] = "raise" /\ FdOpen =>
        \E i \in 1..Len(got \o pipe) : (got \o pipe)[i] = Event("crash", t)

\* "Parent sees PG_EV_WATCHDOG then EOF, reaps exit status 2."
WatchdogStatus ==
    (ppc = "exited" /\ status = "exit2") => Seen("watchdog")

\* Once a watchdog is armed run_headless returns, even if the scenario hangs
\* and even if the watchdog finds the pipe full.
WatchdogBoundsRun == (wdog # "off") ~> (ppc = "exited")

\* A run whose scenario returned, or in which a thread entered the fault
\* handler, ends: neither DONE nor the crash record can be blocked for ever.
EndingRunEnds ==
    (tpc[Main] \in {"done", "close", "exit"} \/ \E t \in Threads : tpc[t] = "handler")
        ~> (ppc = "exited")

\* run_headless keeps the contract of a run: records in order and without
\* gaps, nothing after DONE, and no end that leaves emitted records behind.
Contract == INSTANCE RunContract WITH
    Record   <- Events,
    IsDone   <- LAMBDA e : e.kind = "done",
    Verdict  <- Statuses,
    Returned <- {"ok", "err"},
    phase    <- CASE child = "none"   -> IF ppc = "start" THEN "idle" ELSE "refused"
                  [] child = "reaped" -> "ended"
                  [] OTHER            -> "running",
    sent     <- got \o pipe,
    log      <- got,
    verdict  <- IF child = "reaped" THEN status ELSE "none"

ImplementsContract == Contract!Spec
=============================================================================
