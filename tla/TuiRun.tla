------------------------------- MODULE TuiRun -------------------------------
(***************************************************************************)
(* run_scenario of src/tui/tui.c over the runner: one loop that polls the  *)
(* keyboard and the event pipe, shows records, lets q abort the child, and *)
(* reaps it.                                                               *)
(***************************************************************************)
EXTENDS Runner, Integers, FiniteSets

VARIABLES
    ppc,      \* where run_scenario is
    pr,       \* pr: what the last poll returned, -1 if a signal cut it short
    rev,      \* the revents of the last poll: which of "key" and "event" is ready
    key,      \* the keystroke that waits on stdin
    aborted,  \* aborted
    note      \* the last line of the log: "none", "signal", "exited" or "refused"

tuiVars == <<ppc, pr, rev, key, aborted, note>>
vars    == <<child, status, tpc, fsig, armed, wdog, rc, pipe, got, writers, readers, term,
             ppc, pr, rev, key, aborted, note>>

Init ==
    /\ RunInit
    /\ ppc = "start" /\ pr = 0 /\ rev = {} /\ key = "none" /\ aborted = FALSE /\ note = "none"

Goes(to) == ppc' = to /\ UNCHANGED <<pr, rev, key, aborted, note>>

----------------------------------------------------------------------------
tui_refused ==
    /\ ppc = "start"
    /\ ppc' = "back" /\ note' = "refused"
    /\ UNCHANGED runVars /\ UNCHANGED <<pr, rev, key, aborted>>

tui_start == ppc = "start" /\ pg_run_start_fork   /\ Goes("close")
tui_close == ppc = "close" /\ pg_run_start_parent /\ Goes("poll")

\* Mutant: revents of the pipe is not looked at.
Ready_unchecked == {"event"} \cup {x \in {"key"} : key # "none"}

\* POLLIN or POLLHUP on the pipe, POLLIN on stdin.
Ready == {x \in {"key", "event"} :
            IF x = "key" THEN key # "none" ELSE pipe # <<>> \/ writers = {}}

\* poll(pfds, 2, 100); a turn that times out changes nothing.
tui_poll ==
    /\ ppc = "poll" /\ Ready # {}
    /\ rev' = Ready /\ pr' = Cardinality(Ready) /\ ppc' = "key"
    /\ UNCHANGED runVars /\ UNCHANGED <<key, aborted, note>>

\* if (pr < 0) break; -- poll is never restarted after a handler (ncurses'
\* SIGWINCH) ran.
tui_poll_interrupted ==
    /\ ppc = "poll"
    /\ pr' = -1 /\ ppc' = "reap"
    /\ UNCHANGED runVars /\ UNCHANGED <<rev, key, aborted, note>>

\* Mutant: q is noted and no signal is sent.
tui_key_abort_no_kill ==
    /\ ppc = "key" /\ "key" \in rev /\ key = "q" /\ ~aborted
    /\ aborted' = TRUE /\ key' = "none" /\ ppc' = "read"
    /\ UNCHANGED runVars /\ UNCHANGED <<pr, rev, note>>

\* getch returns q and this is the first one.
tui_key_abort ==
    /\ ppc = "key" /\ "key" \in rev /\ key = "q" /\ ~aborted
    /\ pg_run_abort
    /\ aborted' = TRUE /\ key' = "none" /\ ppc' = "read"
    /\ UNCHANGED <<pr, rev, note>>

tui_key_ignored ==
    /\ ppc = "key" /\ "key" \in rev /\ (key = "q" => aborted)
    /\ key' = "none" /\ ppc' = "read"
    /\ UNCHANGED runVars /\ UNCHANGED <<pr, rev, aborted, note>>

tui_no_key ==
    /\ ppc = "key" /\ "key" \notin rev
    /\ Goes("read") /\ UNCHANGED runVars

\* Mutant: the loop does not stop at DONE.
tui_record_goes_on ==
    /\ ppc = "read" /\ "event" \in rev
    /\ pg_run_poll_record
    /\ Goes("poll")

tui_record ==
    /\ ppc = "read" /\ "event" \in rev
    /\ pg_run_poll_record
    /\ Goes(IF Head(pipe).kind = "done" THEN "reap" ELSE "poll")

\* Mutant: EOF is not taken for the end, and the loop spins on POLLHUP.
tui_eof_spins ==
    /\ ppc = "read" /\ "event" \in rev /\ AtEof
    /\ Goes("poll") /\ UNCHANGED runVars

tui_eof ==
    /\ ppc = "read" /\ "event" \in rev /\ AtEof
    /\ Goes("reap") /\ UNCHANGED runVars

tui_no_event ==
    /\ ppc = "read" /\ "event" \notin rev
    /\ Goes("poll") /\ UNCHANGED runVars

tui_reap == ppc = "reap" /\ pg_run_reap /\ Goes("report")

\* "child killed by signal" or "child exited".
tui_report ==
    /\ ppc = "report"
    /\ note' = CASE status \in Signals         -> "signal"
                 [] status \in {"err", "exit2"} -> "exited"
                 [] OTHER                       -> "none"
    /\ ppc' = "back"
    /\ UNCHANGED runVars /\ UNCHANGED <<pr, rev, key, aborted>>

ParentStep ==
    \/ tui_refused \/ tui_start \/ tui_close
    \/ tui_poll \/ tui_key_abort \/ tui_key_ignored \/ tui_no_key
    \/ tui_record \/ tui_eof \/ tui_no_event
    \/ tui_reap \/ tui_report

\* The user types while the run is on.
user_types(k) ==
    /\ ppc # "back" /\ key = "none"
    /\ key' = k
    /\ UNCHANGED runVars /\ UNCHANGED <<ppc, pr, rev, aborted, note>>

Terminating == ppc = "back" /\ UNCHANGED vars

Next ==
    \/ ParentStep
    \/ tui_poll_interrupted
    \/ \E k \in {"q", "other"} : user_types(k)
    \/ (ChildStep \/ sigterm) /\ UNCHANGED tuiVars
    \/ Terminating

----------------------------------------------------------------------------
\* As in Headless; a SIGTERM that was sent is delivered, and nobody has to type.
ByChild(A) == A /\ UNCHANGED tuiVars

Fairness ==
    /\ WF_vars(ParentStep)
    /\ WF_vars(ByChild(child_setup \/ child_close \/ child_exit))
    /\ WF_vars(ByChild(watchdog_wake \/ watchdog_exit))
    /\ WF_vars(ByChild(sigterm))
    /\ SF_vars(ByChild(pg_done))
    /\ SF_vars(ByChild(watchdog_emit))
    /\ \A t \in Threads : /\ SF_vars(ByChild(child_fault_handler(t)))
                          /\ WF_vars(ByChild(raise_default(t)))

Spec     == Init /\ [][Next]_vars
FairSpec == Spec /\ Fairness

----------------------------------------------------------------------------
(* Properties *)

\* A run that ends with no complaint in the log has shown the scenario's DONE,
\* unless a signal cut its poll short.
QuietMeansDone == (ppc = "back" /\ note = "none") => (Seen("done") \/ pr < 0)

\* pg_run_poll(&h, &ev, 0) never finds the pipe empty with a writer left, which
\* it would report as -2 and run_scenario would take for the end of the run.
PollHintHolds == (ppc = "read" /\ "event" \in rev) => (pipe # <<>> \/ AtEof)

\* Typing q during a run brings the user back to the menu, even if the scenario
\* hangs: the loop "never blocks on either" descriptor.  Only a loop that a signal
\* ended first may hang in waitpid.
AbortEndsRun == (key = "q") ~> (ppc = "back" \/ pr < 0)

\* Once a watchdog is armed run_scenario returns, even if the scenario hangs and
\* the pipe is full, as long as no signal ends the loop that drains the pipe.
WatchdogBoundsRun == (wdog # "off") ~> (ppc = "back" \/ pr < 0)

\* "If `timeout_ns` elapses before the scenario exits, emits PG_EV_FAULT(...) and
\* calls _exit(2)" (chaos_thread.h:36): an armed watchdog ends every run.
WatchdogAlwaysBoundsRun == (wdog # "off") ~> (ppc = "back")

\* However the loop ended, a child that is dead is collected: no zombie is left.
ZombieReaped == (child = "zombie") ~> (child = "reaped")

\* A child that exits with 1 after a SIGTERM counts as aborted: nothing tells the
\* handler's _exit(1), which no DONE precedes, from a scenario that returned an error.
Ending == IF status = "err" /\ term THEN "aborted" ELSE status

\* What run_scenario keeps of the contract that run_headless keeps.
Contract == INSTANCE RunContract WITH
    Record   <- Events,
    IsDone   <- LAMBDA e : e.kind = "done",
    Verdict  <- Statuses \cup {"aborted"},
    Returned <- {"ok", "err"},
    phase    <- CASE child = "none"   -> IF ppc = "start" THEN "idle" ELSE "refused"
                  [] child = "reaped" -> "ended"
                  [] OTHER            -> "running",
    sent     <- got \o pipe,
    log      <- got,
    verdict  <- IF child = "reaped" THEN Ending ELSE "none"

\* Until a signal cuts its poll short, every step of run_scenario is a step of the
\* contract or leaves the contract's state alone.
ImplementsContract == Contract!Init /\ [][Contract!Next \/ pr < 0]_(Contract!vars)
=============================================================================
