------------------------------ MODULE Scenarios ------------------------------
(***************************************************************************)
(* The clock of src/chaos/chaos_io.c and the programs that measure time    *)
(* with it: clock_jump.c, slow_fsync.c and the cadence loop of             *)
(* flaky_environment.c; run with the programs of ThreadScenarios.  Times   *)
(* are small numbers of a uint64_t that wraps at Word.                     *)
(***************************************************************************)
EXTENDS ThreadScenarios

CONSTANTS
    Word,       \* uint64_t holds 0..Word-1
    Lags,       \* how much longer than asked for a step or a sleep may take
    TIMEOUT,    \* clock_jump: the loop's 100 ms
    BUMP,       \* the iteration at which the clock is set back
    JUMP,       \* by how much
    NET,        \* the iterations the safety net allows
    FSYNC,      \* the delay of chaos_io_fsync
    JITTER,     \* flaky_environment: jitter of the clock
    TARGET,     \* its period
    TICKS       \* its heartbeats

ASSUME TimeAssumption ==
    /\ {Word, TIMEOUT, BUMP, JUMP, NET, FSYNC, JITTER, TARGET, TICKS} \subseteq Nat \ {0}
    /\ Lags \subseteq Nat /\ JITTER <= FSYNC
    \* 2^64 ns are 584 years: the clock is not set back so far that the difference
    \* comes round to below the timeout, no heartbeat lasts half of it, no run all of it.
    /\ JUMP + TIMEOUT <= Word
    /\ \E late \in 0..Word :
         /\ Lags \subseteq 0..late
         /\ 2 * (TARGET + FSYNC + 2 * JITTER + late) <= Word
         /\ TICKS * (TARGET + FSYNC + JITTER + late) + JITTER <= Word

VARIABLES
    mono,       \* CLOCK_MONOTONIC
    cut,        \* history: a signal cut the delay of the last chaos_io_fsync short
    skew,       \* g_clock_skew_ns
    jitter,     \* g_clock_jitter_max_ns
    tpc,        \* where the program is
    began,      \* history: mono when the program took its first reading
    start,      \* start, t0
    prev,       \* prev of flaky_environment
    i,          \* iters, i
    dt          \* the last difference it computed

timeVars == <<mono, cut, skew, jitter, tpc, began, start, prev, i, dt>>
vars     == <<threadVars, timeVars>>

TimePrograms == {"clock_jump", "slow_fsync", "flaky_environment"}

Init ==
    /\ scen \in Programs \cup TimePrograms
    /\ ThreadInit
    /\ mono = 0 /\ cut = FALSE /\ skew = 0 /\ began = 0 /\ start = 0 /\ prev = 0 /\ i = 0 /\ dt = 0
    /\ jitter = IF scen = "flaky_environment" THEN JITTER ELSE 0   \* chaos_clock_jitter_set
    /\ tpc = IF scen \in TimePrograms THEN "start" ELSE "off"

----------------------------------------------------------------------------
\* What chaos_clock_now_ns may return at time m.
chaos_clock_now_ns(m) ==
    {(m + skew + j) % Word : j \in 0..(IF jitter > 0 THEN jitter - 1 ELSE 0)}

\* Mutant: elapsed time is a signed difference.
Elapsed_signed(now, then) == ((now - then + (Word \div 2)) % Word) - (Word \div 2)

\* now - start, a difference of uint64_t.
Elapsed(now, then) == (now - then) % Word

\* Mutant: chaos_io_fsync does not sleep.
Fsynced_early == \E lag \in Lags : mono' = mono + lag /\ cut' = FALSE

\* chaos_io_fsync returns after its nanosleep, whose EINTR is ignored: in the TUI
\* every resize of the terminal sends a SIGWINCH to the child too, which has
\* ncurses' handler, and the delay ends at once.
Fsynced ==
    \E slept \in 0..FSYNC, lag \in Lags :
        mono' = mono + slept + lag /\ cut' = (slept < FSYNC)

At(prog, from, to) == scen = prog /\ tpc = from /\ tpc' = to /\ UNCHANGED threadVars

\* The first reading.
time_start ==
    /\ \E next \in {<<"clock_jump", "check">>, <<"slow_fsync", "fsync">>, <<"flaky_environment", "work">>} :
         At(next[1], "start", next[2])
    /\ start' \in chaos_clock_now_ns(mono) /\ prev' = start' /\ began' = mono
    /\ i' = IF scen = "flaky_environment" THEN 1 ELSE 0
    /\ UNCHANGED <<mono, cut, skew, jitter, dt>>

\* clock_jump: while (now - start < 100ms) { iters++; at 1000 the clock is set back }
jump_check ==
    /\ mono' \in {mono + lag : lag \in Lags}
    /\ \E now \in chaos_clock_now_ns(mono') :
         IF Elapsed(now, start) < TIMEOUT
         THEN /\ At("clock_jump", "check", IF i + 1 > NET THEN "reset" ELSE "check")
              /\ i' = i + 1 /\ skew' = IF i + 1 = BUMP THEN -JUMP ELSE skew
         ELSE At("clock_jump", "check", "reset") /\ UNCHANGED <<i, skew>>
    /\ UNCHANGED <<cut, jitter, began, start, prev, dt>>

\* chaos_clock_skew_set(0)
jump_reset == At("clock_jump", "reset", "end") /\ skew' = 0 /\ UNCHANGED <<mono, cut, jitter, began, start, prev, i, dt>>

slow_fsync ==
    /\ At("slow_fsync", "fsync", "end")
    /\ Fsynced
    /\ \E now \in chaos_clock_now_ns(mono') : dt' = Elapsed(now, start)
    /\ UNCHANGED <<skew, jitter, began, start, prev, i>>

\* flaky_environment: the work of a heartbeat is a write and an fsync.
beat_work ==
    /\ At("flaky_environment", "work", "sleep")
    /\ Fsynced
    /\ UNCHANGED <<skew, jitter, began, start, prev, i, dt>>

deadline == (start + i * TARGET) % Word

\* The deadline is not reached: nanosleep for what remains, or until a signal.
beat_sleep ==
    /\ At("flaky_environment", "sleep", "sleep")
    /\ \E now \in chaos_clock_now_ns(mono), lag \in Lags :
         /\ now < deadline
         /\ \E slept \in 0..(deadline - now) : mono' = mono + slept + lag
    /\ UNCHANGED <<cut, skew, jitter, began, start, prev, i, dt>>

beat_due ==
    /\ At("flaky_environment", "sleep", "measure")
    /\ \E now \in chaos_clock_now_ns(mono) : now >= deadline
    /\ UNCHANGED <<mono, cut, skew, jitter, began, start, prev, i, dt>>

\* now is read again, with a jitter of its own.
beat_measure ==
    /\ \E to \in {"work", "end"} : At("flaky_environment", "measure", to) /\ (to = "end" <=> i = TICKS)
    /\ prev' \in chaos_clock_now_ns(mono)
    /\ dt' = Elapsed(prev', prev)
    /\ i' = i + 1 /\ jitter' = IF i = TICKS THEN 0 ELSE jitter
    /\ UNCHANGED <<mono, cut, skew, began, start>>

TimeNext == \/ time_start \/ jump_check \/ jump_reset \/ slow_fsync
            \/ beat_work \/ beat_sleep \/ beat_due \/ beat_measure

----------------------------------------------------------------------------
Ended == tpc = "end" \/ mpc = "end" \/ wdog = "fired"

\* Nobody is there who could end the program: the cancel timer or the watchdog
\* could not be made, and both failures are ignored.
Unguarded == wdog = "refused" \/ (timer = "refused" /\ handle[1] = "live")

Next ==
    \/ scen \in Programs /\ ThreadNext /\ UNCHANGED timeVars
    \/ TimeNext
    \/ (Ended \/ Unguarded) /\ UNCHANGED vars

ByThread(A) == scen \in Programs /\ A /\ UNCHANGED timeVars

\* Every thread runs on as long as it can, and sleeping threads wake up.
Fairness ==
    /\ WF_vars(ByThread(MainStep)) /\ WF_vars(ByThread(cancel_flag \/ cancel_request))
    /\ WF_vars(ByThread(watchdog_fires)) /\ WF_vars(TimeNext)
    /\ \A w \in Team : WF_vars(ByThread(Worker(w)))

Spec     == Init /\ [][Next]_vars
FairSpec == Spec /\ Fairness

----------------------------------------------------------------------------
(* Properties *)

\* Every program ends: deadlock_classic because its watchdog ends the process,
\* thread_cancel_midwrite because it is cancelled -- unless the thread that would
\* do it could not be made, which the programs do not notice.
RunEnds == TRUE ~> (Ended \/ Unguarded)

\* clock_jump promises that, once the clock is set back, the "loop runs past
\* intended deadline (safety net stops it)".  The code does not do that: the
\* difference is unsigned, and the loop ends before the net.
SafetyNetStops == (scen = "clock_jump" /\ tpc = "reset" /\ i >= BUMP) => i > NET

\* What it does instead: setting the clock back ends the loop at the next check
\* (unless the thread was held up for longer than the jump).
JumpEndsLoop == (scen = "clock_jump" /\ tpc = "reset" /\ mono - began < JUMP) => i <= BUMP

\* Measured times make sense.  slow_fsync reports the time that really passed,
\* and no less than the delay unless a signal cut that short.  Jitter lets the
\* clock step back, yet a heartbeat only comes out negative (which is a huge
\* number of milliseconds) if the fsync in it was cut, and then by less than the
\* jitter.
MeasuredTimesSane ==
    /\ (scen = "slow_fsync" /\ tpc = "end") => dt = mono - began /\ (dt < FSYNC => cut)
    /\ (scen = "flaky_environment" /\ tpc \in {"work", "end"}) =>
         dt < Word \div 2 \/ (cut /\ Word - dt < JITTER)
=============================================================================
