------------------------------- MODULE Runner -------------------------------
(***************************************************************************)
(* One scenario run: the forked child, the event pipe and the parent-side  *)
(* calls of src/core/runner.c, with the watchdog of chaos_thread.c.        *)
(*                                                                         *)
(* A record is one 256-byte pg_event_t.  write(2) of a record is one step  *)
(* (256 <= PIPE_BUF, so it is atomic and blocks while the pipe has no room *)
(* for all of it), and a reader therefore always finds whole records.      *)
(* The loop of the parent that uses these calls is in Headless and TuiRun. *)
(***************************************************************************)
EXTENDS Naturals, Sequences

CONSTANTS
    Main,       \* the thread of the child that runs pg_run_start's pid = 0 branch
    Workers,    \* the threads a scenario may create
    FaultSigs,  \* the signals install_child_handlers covers
    PipeCap,    \* records the kernel's pipe buffer holds (64 KiB / 256)
    MaxEvents   \* bound on the records scenario code emits in one run

Parent   == "parent"
Child    == "child"
Watchdog == "watchdog"
NoSig    == "none"

ASSUME RunnerAssumption ==
    /\ Main \notin Workers
    /\ Watchdog \notin {Main} \cup Workers
    /\ PipeCap \in Nat \ {0}
    /\ MaxEvents \in Nat
    /\ FaultSigs \cap {"none", "ok", "err", "exit2", "cpu"} = {}

Threads == {Main} \cup Workers

\* What waitpid reports: _exit(0), _exit(1), the watchdog's _exit(2), or a signal.
Exits    == {"ok", "err", "exit2"}
Signals  == FaultSigs \cup {"cpu"}   \* "cpu": SIGXCPU or SIGKILL
Statuses == Exits \cup Signals

Kinds  == {"data", "done", "crash", "watchdog"}
Events == [kind : Kinds, by : Threads \cup {Watchdog}]

VARIABLES
    child,    \* the process: "none", "live", "zombie" or "reaped"
    status,   \* how it ended, "none" while it has not
    tpc,      \* where each thread of the child is
    fsig,     \* the signal whose handler a thread is running
    armed,    \* signals whose handler SA_RESETHAND has not yet removed
    wdog,     \* the detached thread of chaos_thread_watchdog
    rc,       \* result of init / run
    pipe,     \* records written and not yet read
    got,      \* records pg_run_poll has returned, in order
    writers,  \* processes that hold the write end
    readers,  \* processes that hold the read end
    term      \* a SIGTERM was sent to the child while it lived

procVars == <<child, status, tpc, fsig, armed, wdog, rc, term>>
pipeVars == <<pipe, got, writers, readers>>
runVars  == <<child, status, tpc, fsig, armed, wdog, rc, pipe, got, writers, readers, term>>

RunInit ==
    /\ child = "none" /\ status = "none"
    /\ tpc = [t \in Threads |-> "off"]
    /\ fsig = [t \in Threads |-> NoSig]
    /\ armed = {} /\ wdog = "off" /\ rc = 0 /\ term = FALSE
    /\ pipe = <<>> /\ got = <<>>
    /\ writers = {} /\ readers = {}

Event(k, t) == [kind |-> k, by |-> t]

\* A blocking write of one record to the event pipe by the child.
WriteRecord(k, t) ==
    /\ Len(pipe) < PipeCap
    /\ pipe' = Append(pipe, Event(k, t))

FdOpen == Child \in writers

\* The child process ends: its threads stop and the kernel closes its ends.
Die(s) ==
    /\ child' = "zombie" /\ status' = s
    /\ tpc' = [t \in Threads |-> "off"]
    /\ fsig' = [t \in Threads |-> NoSig]
    /\ armed' = {} /\ wdog' = "off"
    /\ writers' = writers \ {Child}
    /\ readers' = readers \ {Child}
    /\ UNCHANGED <<rc, term, pipe, got>>

Goto(t, to) == tpc' = [tpc EXCEPT ![t] = to]

----------------------------------------------------------------------------
(* The child's main thread *)

\* After fork: close the read end, install the fault handlers, set RLIMIT_CPU.
child_setup ==
    /\ tpc[Main] = "boot"
    /\ Goto(Main, "init")
    /\ readers' = readers \ {Child}
    /\ armed' = FaultSigs
    /\ UNCHANGED <<child, status, fsig, wdog, rc, term, pipe, got, writers>>

\* rc = s->init(...); run is skipped when it is not 0, teardown is not.
scenario_init(r) ==
    /\ tpc[Main] = "init"
    /\ rc' = r
    /\ Goto(Main, IF r = 0 THEN "run" ELSE "teardown")
    /\ UNCHANGED <<child, status, fsig, armed, wdog, term, pipe, got, writers, readers>>

\* Mutant: a scenario that fails skips teardown and DONE.
scenario_run_no_done(r) ==
    /\ tpc[Main] = "run"
    /\ rc' = r
    /\ Goto(Main, IF r = 0 THEN "teardown" ELSE "close")
    /\ UNCHANGED <<child, status, fsig, armed, wdog, term, pipe, got, writers, readers>>

scenario_run(r) ==
    /\ tpc[Main] = "run"
    /\ rc' = r
    /\ Goto(Main, "teardown")
    /\ UNCHANGED <<child, status, fsig, armed, wdog, term, pipe, got, writers, readers>>

scenario_teardown ==
    /\ tpc[Main] = "teardown"
    /\ Goto(Main, "done")
    /\ UNCHANGED <<child, status, fsig, armed, wdog, rc, term, pipe, got, writers, readers>>

pg_done ==
    /\ tpc[Main] = "done"
    /\ WriteRecord("done", Main)
    /\ Goto(Main, "close")
    /\ UNCHANGED <<child, status, fsig, armed, wdog, rc, term, got, writers, readers>>

child_close ==
    /\ tpc[Main] = "close"
    /\ writers' = writers \ {Child}
    /\ Goto(Main, "exit")
    /\ UNCHANGED <<child, status, fsig, armed, wdog, rc, term, pipe, got, readers>>

child_exit ==
    /\ tpc[Main] = "exit"
    /\ Die(IF rc = 0 THEN "ok" ELSE "err")

----------------------------------------------------------------------------
(* Scenario code, in any thread of the child *)

InScenario(t) == tpc[t] \in {"init", "run", "teardown"}

\* A scenario creates a thread; nothing makes it join the thread before run
\* returns (race_counter's error path returns with writers still running).
spawn(w) ==
    /\ InScenario(Main)
    /\ tpc[w] = "off"
    /\ Goto(w, "run")
    /\ UNCHANGED <<child, status, fsig, armed, wdog, rc, term, pipe, got, writers, readers>>

thread_return(w) ==
    /\ tpc[w] = "run"
    /\ Goto(w, "ended")
    /\ UNCHANGED <<child, status, fsig, armed, wdog, rc, term, pipe, got, writers, readers>>

\* pg_logf, pg_count, ...  With the descriptor closed write fails with EBADF,
\* pg_emit returns and nothing changes: that is a stuttering step.
pg_emit(t) ==
    /\ InScenario(t) /\ FdOpen
    /\ Len(got) + Len(pipe) < MaxEvents
    /\ WriteRecord("data", t)
    /\ UNCHANGED procVars /\ UNCHANGED <<got, writers, readers>>

\* The thread raises s and the handler is still installed; SA_RESETHAND
\* restores the default action for the whole process on entry.
fault(t, s) ==
    /\ InScenario(t) /\ s \in armed
    /\ armed' = armed \ {s}
    /\ fsig' = [fsig EXCEPT ![t] = s]
    /\ Goto(t, "handler")
    /\ UNCHANGED <<child, status, wdog, rc, term>> /\ UNCHANGED pipeVars

\* A second thread raises a signal whose handler is already gone.
fault_default(t, s) ==
    /\ InScenario(t) /\ s \in FaultSigs \ armed
    /\ Die(s)

\* Mutant: g_child_event_fd is not set when the handler runs.
child_fault_handler_no_fd(t) ==
    /\ tpc[t] = "handler"
    /\ Goto(t, "raise")
    /\ UNCHANGED <<child, status, fsig, armed, wdog, rc, term>> /\ UNCHANGED pipeVars

\* Mutant: the handler writes its record and returns without raise(sig).
child_fault_handler_no_raise(t) ==
    /\ tpc[t] = "handler"
    /\ IF FdOpen THEN WriteRecord("crash", t) ELSE UNCHANGED pipe
    /\ Goto(t, "ended")
    /\ UNCHANGED <<child, status, fsig, armed, wdog, rc, term, got, writers, readers>>

\* child_fault_handler's single write ...
child_fault_handler(t) ==
    /\ tpc[t] = "handler"
    /\ IF FdOpen THEN WriteRecord("crash", t) ELSE UNCHANGED pipe
    /\ Goto(t, "raise")
    /\ UNCHANGED <<child, status, fsig, armed, wdog, rc, term, got, writers, readers>>

\* ... and raise(sig), which now has its default action.
raise_default(t) ==
    /\ tpc[t] = "raise"
    /\ Die(fsig[t])

\* RLIMIT_CPU runs out: soft and hard limit are equal, so Linux sends SIGKILL
\* and macOS SIGXCPU, for which no handler is installed.
cpu_limit ==
    /\ child = "live" /\ tpc[Main] # "boot"
    /\ Die("cpu")

----------------------------------------------------------------------------
(* chaos_thread_watchdog *)

chaos_thread_watchdog ==
    /\ InScenario(Main) /\ wdog = "off"
    /\ wdog' = "sleep"
    /\ UNCHANGED <<child, status, tpc, fsig, armed, rc, term>> /\ UNCHANGED pipeVars

watchdog_wake ==
    /\ wdog = "sleep"
    /\ wdog' = "emit"
    /\ UNCHANGED <<child, status, tpc, fsig, armed, rc, term>> /\ UNCHANGED pipeVars

watchdog_emit ==
    /\ wdog = "emit"
    /\ IF FdOpen THEN WriteRecord("watchdog", Watchdog) ELSE UNCHANGED pipe
    /\ wdog' = "exit"
    /\ UNCHANGED <<child, status, tpc, fsig, armed, rc, term, got, writers, readers>>

watchdog_exit ==
    /\ wdog = "exit"
    /\ Die("exit2")

----------------------------------------------------------------------------
(* The calls the parent makes *)

\* pipe() and fork() succeed: both processes hold both ends.
pg_run_start_fork ==
    /\ child = "none"
    /\ child' = "live"
    /\ Goto(Main, "boot")
    /\ writers' = {Parent, Child} /\ readers' = {Parent, Child}
    /\ UNCHANGED <<status, fsig, armed, wdog, rc, term, pipe, got>>

\* Mutant: the parent keeps its copy of the write end.
pg_run_start_parent_keeps == UNCHANGED runVars

\* The parent's close(evpipe[1]), without which it would never see EOF.
pg_run_start_parent ==
    /\ writers' = writers \ {Parent}
    /\ UNCHANGED procVars /\ UNCHANGED <<pipe, got, readers>>

\* pg_run_poll returns 1 ...
pg_run_poll_record ==
    /\ pipe # <<>>
    /\ got' = Append(got, Head(pipe))
    /\ pipe' = Tail(pipe)
    /\ UNCHANGED procVars /\ UNCHANGED <<writers, readers>>

\* Mutant: a hang-up is taken for EOF while records are still buffered.
AtEof_hangup == writers = {}

\* ... or 0: read(2) finds the pipe empty and no process that could write.
AtEof == pipe = <<>> /\ writers = {}

pg_run_abort ==
    /\ term' = (term \/ child = "live")
    /\ UNCHANGED <<child, status, tpc, fsig, armed, wdog, rc>> /\ UNCHANGED pipeVars

\* The handler of SIGTERM in the child is the one initscr() gave the TUI before the
\* fork, and install_child_handlers leaves it alone: it restores the terminal and
\* calls _exit(EXIT_FAILURE), so the child is not killed by a signal, and it writes
\* no DONE.
sigterm ==
    /\ term /\ child = "live"
    /\ Die("err")

\* Mutant: waitpid with WNOHANG, so event_fd may be closed under a live child.
pg_run_reap_nohang ==
    /\ child' = IF child = "zombie" THEN "reaped" ELSE child
    /\ readers' = readers \ {Parent}
    /\ UNCHANGED <<status, tpc, fsig, armed, wdog, rc, term, pipe, got, writers>>

\* waitpid blocks until the child is a zombie; only then is event_fd closed.
pg_run_reap ==
    /\ child = "zombie"
    /\ child' = "reaped"
    /\ readers' = readers \ {Parent}
    /\ UNCHANGED <<status, tpc, fsig, armed, wdog, rc, term, pipe, got, writers>>

----------------------------------------------------------------------------
\* Straight-line code of the harness: it runs to its next blocking call.
HarnessStep ==
    \/ child_setup \/ pg_done \/ child_close \/ child_exit
    \/ \E t \in Threads : child_fault_handler(t) \/ raise_default(t)
    \/ watchdog_wake \/ watchdog_emit \/ watchdog_exit

\* What the scenario does is up to the scenario.
ScenarioStep ==
    \/ \E r \in {0, 1} : scenario_init(r) \/ scenario_run(r)
    \/ scenario_teardown
    \/ \E w \in Workers : spawn(w) \/ thread_return(w)
    \/ \E t \in Threads : pg_emit(t)
    \/ \E t \in Threads, s \in FaultSigs : fault(t, s) \/ fault_default(t, s)
    \/ chaos_thread_watchdog
    \/ cpu_limit

ChildStep == HarnessStep \/ ScenarioStep

RunTypeOK ==
    /\ child \in {"none", "live", "zombie", "reaped"}
    /\ status \in Statuses \cup {"none"}
    /\ tpc \in [Threads -> {"off", "boot", "init", "run", "teardown", "done", "close",
                            "exit", "ended", "handler", "raise"}]
    /\ fsig \in [Threads -> FaultSigs \cup {NoSig}]
    /\ armed \in SUBSET FaultSigs
    /\ wdog \in {"off", "sleep", "emit", "exit"}
    /\ rc \in {0, 1}
    /\ term \in BOOLEAN
    /\ pipe \in Seq(Events) /\ Len(pipe) <= PipeCap
    /\ got \in Seq(Events)
    /\ writers \in SUBSET {Parent, Child}
    /\ readers \in SUBSET {Parent, Child}

Seen(k) == \E i \in 1..Len(got) : got[i].kind = k
=============================================================================
