--------------------------- MODULE ThreadScenarios ---------------------------
(***************************************************************************)
(* src/chaos/chaos_thread.c (spawn, join, cancel, the cancel timer) and    *)
(* the programs whose threads share memory: race_counter.c,                *)
(* deadlock_classic.c, thread_cancel_midwrite.c, thundering_herd.c.        *)
(***************************************************************************)
EXTENDS Integers, FiniteSets

CONSTANTS
    WORKERS,    \* writers of race_counter, workers of thundering_herd
    WRITES,     \* increments of a writer
    ITERS,      \* iterations of a worker
    FIELDS      \* fields of the record of thread_cancel_midwrite

ASSUME ThreadAssumption ==
    WORKERS \in Nat /\ WORKERS >= 2 /\ WRITES \in Nat /\ WRITES >= 2
        /\ ITERS \in Nat \ {0} /\ FIELDS \in Nat \ {0}

Team == 1..WORKERS

VARIABLES
    scen,       \* the program
    mpc,        \* where its main thread is
    tried,      \* threads it has tried to start
    joined,     \* threads it has joined
    wpc,        \* where the other threads are
    handle,     \* their handles: null, live, freed
    lock,       \* who holds each mutex; 0: nobody
    shared,     \* counter; the fields of g_dst that are set; the iterations summed up
    reg,        \* a thread's copy of shared
    iter,       \* a thread's loop counter
    started,    \* thundering_herd's start flag
    timer,      \* cancel_after_fn
    wdog,       \* the watchdog: off, armed, refused, fired
    ret         \* what run() returns

mainVars  == <<scen, mpc, tried, joined, ret>>
workVars  == <<wpc, lock, shared, reg, iter>>
otherVars == <<handle, started, timer, wdog>>
threadVars == <<mainVars, workVars, otherVars>>

Programs == {"race_counter", "deadlock_classic", "thread_cancel_midwrite", "thundering_herd"}

\* The threads a program starts.
Crew == CASE scen = "thread_cancel_midwrite" -> 1
          [] scen = "deadlock_classic"       -> 2
          [] OTHER                           -> WORKERS

ThreadInit ==
    /\ mpc = CASE scen = "deadlock_classic" -> "arm" [] scen = "thundering_herd" -> "io" [] OTHER -> "spawn"
    /\ tried = 0 /\ joined = 0 /\ ret = 0
    /\ wpc = [w \in Team |-> "none"] /\ handle = [w \in Team |-> "null"]
    /\ lock = [m \in {"a", "b", "mu", "tot_mu"} |-> 0]
    /\ shared = 0 /\ reg = [w \in Team |-> 0] /\ iter = [w \in Team |-> 0]
    /\ started = FALSE /\ timer = "off" /\ wdog = "off"

Running == mpc # "end" /\ wdog # "fired"

----------------------------------------------------------------------------
(* The main thread *)

Main(at, to) == Running /\ mpc = at /\ mpc' = to /\ UNCHANGED <<scen, workVars>>

\* chaos_thread_watchdog, which says nothing when its thread cannot be made.
main_arm ==
    /\ Main("arm", "spawn")
    /\ wdog' \in {"armed", "refused"}
    /\ UNCHANGED <<tried, joined, ret, handle, started, timer>>

\* chaos_io_open
main_io ==
    /\ \/ Main("io", "spawn") /\ ret' = 0
       \/ Main("io", "end")   /\ ret' = 1
    /\ UNCHANGED <<tried, joined, otherVars>>

AfterSpawn == CASE scen = "thread_cancel_midwrite" -> "timer"
                [] scen = "thundering_herd"        -> "gun"
                [] OTHER                           -> "join"

\* chaos_thread_spawn and thread_wrap, or pthread_create.
main_spawn ==
    /\ Running /\ mpc = "spawn" /\ tried < Crew
    /\ tried' = tried + 1
    /\ wpc'    = [wpc EXCEPT ![tried'] = "start"]
    /\ handle' = [handle EXCEPT ![tried'] = "live"]
    /\ UNCHANGED <<scen, mpc, joined, ret, lock, shared, reg, iter, started, timer, wdog>>

\* The thread cannot be made: race_counter returns 1 at once, the others go on
\* with a NULL handle.
main_spawn_fails ==
    /\ Running /\ mpc = "spawn" /\ tried < Crew
    /\ tried' = tried + 1
    /\ IF scen = "race_counter" THEN mpc' = "end" /\ ret' = 1 ELSE UNCHANGED <<mpc, ret>>
    /\ UNCHANGED <<scen, joined, workVars, otherVars>>

main_spawned == tried = Crew /\ Main("spawn", AfterSpawn) /\ UNCHANGED <<tried, joined, ret, otherVars>>

\* chaos_thread_cancel_at_ns: refused for NULL, and when its thread cannot be made.
chaos_thread_cancel_at_ns ==
    /\ Main("timer", "join")
    /\ timer' \in IF handle[1] = "live" THEN {"sleep", "refused"} ELSE {"refused"}
    /\ UNCHANGED <<tried, joined, ret, handle, started, wdog>>

\* Mutant: the waiters are woken before the flag is set.
main_gun_unset ==
    /\ Running /\ mpc = "gun" /\ mpc' = "join"
    /\ wpc' = [w \in Team |-> IF wpc[w] = "waiting" THEN "woken" ELSE wpc[w]]
    /\ UNCHANGED <<started, scen, tried, joined, ret, lock, shared, reg, iter, handle, timer, wdog>>

\* started = 1 and the broadcast, in one critical section of start_mu.
main_gun ==
    /\ Running /\ mpc = "gun" /\ mpc' = "join"
    /\ started' = TRUE
    /\ wpc' = [w \in Team |-> IF wpc[w] = "waiting" THEN "woken" ELSE wpc[w]]
    /\ UNCHANGED <<scen, tried, joined, ret, lock, shared, reg, iter, handle, timer, wdog>>

\* chaos_thread_join: -1 for NULL; otherwise the handle is freed when the thread ended.
chaos_thread_join ==
    LET w == joined + 1 IN
    /\ Running /\ mpc = "join" /\ joined < Crew
    /\ handle[w] = "live" => wpc[w] = "end"
    /\ joined' = w
    /\ handle' = [handle EXCEPT ![w] = IF @ = "live" THEN "freed" ELSE @]
    /\ UNCHANGED <<scen, mpc, tried, ret, workVars, started, timer, wdog>>

main_return == joined = Crew /\ Main("join", "end") /\ UNCHANGED <<tried, joined, ret, otherVars>>

MainStep == \/ main_arm \/ main_io \/ main_spawn \/ main_spawn_fails \/ main_spawned
            \/ chaos_thread_cancel_at_ns \/ main_gun \/ chaos_thread_join \/ main_return

----------------------------------------------------------------------------
(* The timer thread and the watchdog *)

Timer(from, to) ==
    /\ wdog # "fired" /\ mpc # "end" /\ timer = from /\ timer' = to
    /\ UNCHANGED <<mainVars, workVars, handle, started, wdog>>

\* nanosleep is over: stop_flag is stored in the handle, then pthread_cancel(t->pt).
cancel_flag    == Timer("sleep", "flagged")
cancel_request == Timer("flagged", "requested")

watchdog_fires ==
    /\ wdog = "armed" /\ mpc # "end"
    /\ wdog' = "fired" /\ UNCHANGED <<mainVars, workVars, handle, started, timer>>

----------------------------------------------------------------------------
(* The other threads *)

Step(prog, w, from, to) ==
    /\ wdog # "fired" /\ mpc # "end" /\ scen = prog /\ wpc[w] = from
    /\ wpc' = [wpc EXCEPT ![w] = to]
    /\ UNCHANGED mainVars /\ UNCHANGED otherVars

Acquire(m, w) == lock[m] = 0 /\ lock' = [lock EXCEPT ![m] = w]
Release(m)    == lock' = [lock EXCEPT ![m] = 0]

\* writer_fn.  The compiler may keep the value it has just stored in a register
\* instead of loading it again.
writer_load(w) ==
    /\ Step("race_counter", w, "start", "store")
    /\ reg' \in {[reg EXCEPT ![w] = shared]} \cup (IF iter[w] > 0 THEN {reg} ELSE {})
    /\ UNCHANGED <<lock, shared, iter>>

\* Mutant: the stale copy is stored back and the increment forgotten.
writer_store_plain(w) ==
    /\ Step("race_counter", w, "store", IF iter[w] + 1 = WRITES THEN "end" ELSE "start")
    /\ shared' = reg[w] /\ iter' = [iter EXCEPT ![w] = @ + 1]
    /\ UNCHANGED <<lock, reg>>

writer_store(w) ==
    /\ Step("race_counter", w, "store", IF iter[w] + 1 = WRITES THEN "end" ELSE "start")
    /\ shared' = reg[w] + 1
    /\ reg' = [reg EXCEPT ![w] = @ + 1] /\ iter' = [iter EXCEPT ![w] = @ + 1]
    /\ UNCHANGED lock

\* locker_fn: T1 takes a then b, T2 takes b then a.
First(w)  == IF w = 1 THEN "a" ELSE "b"
Second(w) == IF w = 1 THEN "b" ELSE "a"

locker_fn(w) ==
    /\ \/ Step("deadlock_classic", w, "start",  "second") /\ Acquire(First(w), w)
       \/ Step("deadlock_classic", w, "second", "both")   /\ Acquire(Second(w), w)
       \/ Step("deadlock_classic", w, "both",   "one")    /\ Release(Second(w))
       \/ Step("deadlock_classic", w, "one",    "end")    /\ Release(First(w))
    /\ UNCHANGED <<shared, reg, iter>>

\* Mutant: the copier polls chaos_thread_should_stop.
Cancelled_polled == timer \in {"flagged", "requested"}

\* The copier heeds pthread_cancel, not the flag.
Cancelled == timer = "requested"

\* copier_fn: a field, then usleep, where a cancellation takes effect.
copier_field(w) ==
    /\ Step("thread_cancel_midwrite", w, "start", "usleep")
    /\ shared' = IF shared > iter[w] THEN shared ELSE iter[w] + 1
    /\ iter' = [iter EXCEPT ![w] = (@ + 1) % FIELDS]
    /\ UNCHANGED <<lock, reg>>

copier_usleep(w) ==
    /\ Step("thread_cancel_midwrite", w, "usleep", IF Cancelled THEN "end" ELSE "start")
    /\ UNCHANGED <<lock, shared, reg, iter>>

\* worker_fn waits for the starting gun, in a loop: pthread_cond_wait may return
\* without a broadcast.
worker_gate(w) ==
    /\ \/ Step("thundering_herd", w, "start", IF started THEN "go" ELSE "waiting")
       \/ Step("thundering_herd", w, "woken", IF started THEN "go" ELSE "waiting")
       \/ Step("thundering_herd", w, "waiting", "woken")
    /\ UNCHANGED <<lock, shared, reg, iter>>

\* Mutant: the sums are read before tot_mu is taken.
worker_work_unlocked(w) ==
    /\ \/ Step("thundering_herd", w, "go", "io")     /\ Acquire("mu", w) /\ UNCHANGED reg
       \/ Step("thundering_herd", w, "io", "sum")    /\ Release("mu")    /\ reg' = [reg EXCEPT ![w] = shared]
       \/ Step("thundering_herd", w, "sum", "add")   /\ Acquire("tot_mu", w) /\ UNCHANGED reg
    /\ UNCHANGED <<shared, iter>>

\* The fsync under mu, then the sums under tot_mu.
worker_work(w) ==
    /\ \/ Step("thundering_herd", w, "go", "io")     /\ Acquire("mu", w) /\ UNCHANGED reg
       \/ Step("thundering_herd", w, "io", "sum")    /\ Release("mu")    /\ UNCHANGED reg
       \/ Step("thundering_herd", w, "sum", "add")   /\ Acquire("tot_mu", w) /\ reg' = [reg EXCEPT ![w] = shared]
    /\ UNCHANGED <<shared, iter>>

worker_add(w) ==
    /\ Step("thundering_herd", w, "add", IF iter[w] + 1 = ITERS THEN "end" ELSE "go")
    /\ shared' = reg[w] + 1 /\ iter' = [iter EXCEPT ![w] = @ + 1]
    /\ Release("tot_mu") /\ UNCHANGED reg

Worker(w) == \/ writer_load(w) \/ writer_store(w) \/ locker_fn(w) \/ copier_field(w) \/ copier_usleep(w)
             \/ worker_gate(w) \/ worker_work(w) \/ worker_add(w)

ThreadNext == \/ MainStep \/ cancel_flag \/ cancel_request \/ watchdog_fires
              \/ \E w \in Team : Worker(w)

----------------------------------------------------------------------------
(* Properties *)

\* race_counter: however the writers interleave, and whatever the compiler keeps
\* in registers, at least 2 of all increments survive.  (3 is not a floor.)
RaceFloor == (scen = "race_counter" /\ mpc = "end" /\ ret = 0) => shared >= 2

\* thread_cancel_midwrite: as long as the timer thread may touch the handle, it
\* has not been freed, although main joins without waiting for the timer.
TimerHandleLive == timer \in {"sleep", "flagged"} => handle[1] = "live"

\* thundering_herd: every iteration of every worker that could be started is
\* summed up exactly once.
HerdTotals == (scen = "thundering_herd" /\ mpc = "end" /\ ret = 0) =>
    shared = ITERS * Cardinality({w \in Team : handle[w] = "freed"})
=============================================================================
