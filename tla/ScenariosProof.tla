--------------------------- MODULE ScenariosProof ---------------------------
(***************************************************************************)
(* Proofs about ThreadScenarios and Scenarios, for any number of threads,  *)
(* iterations and ticks: the floor of race_counter, the life of the handle *)
(* a cancel timer holds, the totals of thundering_herd, and the times that *)
(* clock_jump, slow_fsync and flaky_environment measure.                   *)
(***************************************************************************)
EXTENDS Scenarios, FiniteSetTheorems, TLAPS

(* race_counter *)

RaceTypes ==
    /\ tried \in 0..WORKERS /\ joined \in 0..WORKERS
    /\ shared \in Nat
    /\ reg \in [Team -> Nat] /\ iter \in [Team -> Nat]
    /\ wpc \in [Team -> {"none", "start", "store", "end"}]
    /\ handle \in [Team -> {"null", "live", "freed"}]
    /\ mpc \in {"spawn", "join", "end"}

\* A writer that has stored once holds at least 1, and so does the counter.
Stored == \A w \in Team : iter[w] >= 1 => (shared >= 1 /\ reg[w] >= 1)

\* When the last writer ends, its last store is not its first.
Floor == (\A w \in Team : wpc[w] = "end") => shared >= 2

\* Which threads are there, and which have ended.
Crewed ==
    /\ mpc = "spawn" => joined = 0 /\ \A w \in 1..tried : handle[w] = "live"
    /\ mpc = "join"  => /\ \A w \in Team : w <= joined => wpc[w] = "end"
                        /\ \A w \in Team : w > joined => handle[w] = "live"
    /\ (mpc = "end" /\ ret = 0) => \A w \in Team : wpc[w] = "end"

RaceInv == scen = "race_counter" => (RaceTypes /\ Stored /\ Floor /\ Crewed)

USE ThreadAssumption DEF Team

LEMMA RaceInit == Init => RaceInv
BY DEF Init, ThreadInit, RaceInv, RaceTypes, Stored, Floor, Crewed, Programs, TimePrograms

\* A program keeps its name.
LEMMA ScenKept == Next => scen' = scen
BY DEF Next, ThreadNext, TimeNext, MainStep, main_arm, main_io, main_spawn, main_spawn_fails,
       main_spawned, chaos_thread_cancel_at_ns, main_gun, chaos_thread_join, main_return, Main,
       cancel_flag, cancel_request, Timer, watchdog_fires, Worker, writer_load, writer_store,
       locker_fn, copier_field, copier_usleep, worker_gate, worker_work, worker_add, Step,
       time_start, jump_check, jump_reset, slow_fsync, beat_work, beat_sleep, beat_due,
       beat_measure, At, vars, threadVars, mainVars

\* The steps of the main thread preserve the invariant of race_counter.
LEMMA RaceMain ==
    ASSUME RaceInv, scen = "race_counter", MainStep
    PROVE  RaceInv'
<1>0. RaceTypes /\ Stored /\ Floor /\ Crewed BY DEF RaceInv
<1>1. CASE main_spawn
  BY <1>0, <1>1 DEF main_spawn, Crew, RaceInv, RaceTypes, Stored, Floor, Crewed
<1>2. CASE main_spawn_fails
  BY <1>0, <1>2 DEF main_spawn_fails, Crew, workVars, otherVars, RaceInv, RaceTypes, Stored, Floor, Crewed
<1>3. CASE main_spawned
  BY <1>0, <1>3 DEF main_spawned, Main, Crew, AfterSpawn, workVars, otherVars, RaceInv, RaceTypes, Stored, Floor, Crewed
<1>4. CASE chaos_thread_join
  <2>1. joined' = joined + 1 /\ joined' \in Team /\ handle[joined'] = "live" /\ wpc[joined'] = "end"
    BY <1>0, <1>4 DEF chaos_thread_join, Crew, RaceTypes, Crewed
  <2> QED BY <1>0, <1>4, <2>1, SMTT(30) DEF chaos_thread_join, Crew, workVars, RaceInv, RaceTypes, Stored, Floor, Crewed
<1>5. CASE main_return
  BY <1>0, <1>5 DEF main_return, Main, Crew, workVars, otherVars, RaceInv, RaceTypes, Stored, Floor, Crewed
<1>6. ~(main_arm \/ main_io \/ chaos_thread_cancel_at_ns \/ main_gun)
  BY <1>0 DEF main_arm, main_io, chaos_thread_cancel_at_ns, main_gun, Main, RaceTypes
<1> QED BY <1>1, <1>2, <1>3, <1>4, <1>5, <1>6 DEF MainStep

\* The steps of a writer preserve it.
LEMMA RaceWriter ==
    ASSUME RaceInv, scen = "race_counter", NEW w \in Team, Worker(w)
    PROVE  RaceInv'
<1>0. RaceTypes /\ Stored /\ Floor /\ Crewed BY DEF RaceInv
<1>1. CASE writer_load(w)
  BY <1>0, <1>1 DEF writer_load, Step, mainVars, otherVars, RaceInv, RaceTypes, Stored, Floor, Crewed
<1>2. CASE writer_store(w)
  <2>1. RaceTypes'
    BY <1>0, <1>2 DEF writer_store, Step, mainVars, otherVars, RaceTypes
  <2>2. Stored'
    BY <1>0, <1>2 DEF writer_store, Step, RaceTypes, Stored
  <2>3. Floor'
    <3>1. wpc'[w] = "end" => iter[w] >= 1
      BY <1>0, <1>2 DEF writer_store, Step, RaceTypes
    <3> QED BY <1>0, <1>2, <3>1 DEF writer_store, Step, RaceTypes, Stored, Floor
  <2>4. Crewed'
    BY <1>0, <1>2 DEF writer_store, Step, mainVars, otherVars, RaceTypes, Crewed
  <2> QED BY <2>1, <2>2, <2>3, <2>4 DEF RaceInv
<1>3. ~(locker_fn(w) \/ copier_field(w) \/ copier_usleep(w) \/ worker_gate(w) \/ worker_work(w) \/ worker_add(w))
  BY DEF locker_fn, copier_field, copier_usleep, worker_gate, worker_work, worker_add, Step
<1> QED BY <1>1, <1>2, <1>3 DEF Worker

LEMMA RaceNext == RaceInv /\ [Next]_vars => RaceInv'
<1> SUFFICES ASSUME RaceInv, [Next]_vars PROVE RaceInv'
  OBVIOUS
<1>1. CASE UNCHANGED vars
  BY <1>1 DEF vars, threadVars, mainVars, workVars, otherVars, RaceInv, RaceTypes, Stored, Floor, Crewed
<1>2. CASE Next /\ scen # "race_counter"
  BY <1>2, ScenKept DEF RaceInv
<1>3. CASE Next /\ scen = "race_counter" /\ ~UNCHANGED vars
  <2>1. ~TimeNext
    BY <1>3 DEF TimeNext, time_start, jump_check, jump_reset, slow_fsync, beat_work, beat_sleep,
                beat_due, beat_measure, At
  <2>2. ThreadNext
    BY <1>3, <2>1 DEF Next
  <2>3. CASE cancel_flag \/ cancel_request \/ watchdog_fires
    BY <2>3 DEF cancel_flag, cancel_request, Timer, watchdog_fires, mainVars, workVars,
                RaceInv, RaceTypes, Stored, Floor, Crewed
  <2> QED BY <1>3, <2>2, <2>3, RaceMain, RaceWriter DEF ThreadNext
<1> QED BY <1>1, <1>2, <1>3

\* However many writers and writes: at least two increments of race_counter survive.
THEOREM RaceFloorHolds == Spec => []RaceFloor
<1>1. RaceInv => RaceFloor
  BY DEF RaceInv, Crewed, Floor, RaceFloor
<1> QED BY <1>1, RaceInit, RaceNext, PTL DEF Spec

----------------------------------------------------------------------------
(* The cancel timer *)

Places == {"none", "start", "store", "second", "both", "one", "usleep", "waiting", "woken",
           "go", "io", "sum", "add", "end"}

\* Only thread_cancel_midwrite has a timer; while it may touch the handle, the
\* thread has not ended, so join cannot have freed it.
TimerInv ==
    /\ handle \in [Team -> {"null", "live", "freed"}]
    /\ wpc \in [Team -> Places] /\ tried \in Nat /\ joined \in Nat
    /\ timer \in {"off", "sleep", "flagged", "requested", "refused"}
    /\ mpc = "timer" => scen = "thread_cancel_midwrite"
    /\ timer # "off" => scen = "thread_cancel_midwrite" /\ mpc \in {"join", "end"}
    /\ (scen = "thread_cancel_midwrite" /\ wpc[1] = "end") => timer = "requested"
    /\ TimerHandleLive

LEMMA TimerInit == Init => TimerInv
BY DEF Init, ThreadInit, TimerInv, Places, TimerHandleLive, Programs, TimePrograms

\* The steps of the main thread: join frees the handle of a thread that has ended.
LEMMA TimerMain == TimerInv /\ MainStep => TimerInv'
<1> SUFFICES ASSUME TimerInv, MainStep PROVE TimerInv'
  OBVIOUS
<1> USE DEF TimerInv, Places, TimerHandleLive
<1>1. CASE main_arm
  BY <1>1 DEF main_arm, Main, workVars
<1>2. CASE main_io
  BY <1>2 DEF main_io, Main, workVars, otherVars
<1>3. CASE main_spawn
  <2>1. mpc = "spawn" /\ mpc' = mpc /\ scen' = scen /\ timer' = timer /\ tried' = tried + 1 /\ joined' = joined
    BY <1>3 DEF main_spawn
  <2>2. timer = "off"
    BY <2>1
  <2>3. wpc' \in [Team -> Places] /\ handle' \in [Team -> {"null", "live", "freed"}]
    BY <1>3 DEF main_spawn
  <2>4. wpc[1] # "end" => wpc'[1] # "end"
    BY <1>3 DEF main_spawn
  <2> QED BY <2>1, <2>2, <2>3, <2>4
<1>4. CASE main_spawn_fails
  BY <1>4 DEF main_spawn_fails, workVars, otherVars
<1>5. CASE main_spawned
  BY <1>5 DEF main_spawned, Main, AfterSpawn, workVars, otherVars
<1>6. CASE chaos_thread_cancel_at_ns
  BY <1>6 DEF chaos_thread_cancel_at_ns, Main, workVars
<1>7. CASE main_gun
  BY <1>7 DEF main_gun
<1>8. CASE chaos_thread_join
  <2>1. mpc = "join" /\ UNCHANGED <<mpc, scen, timer, wpc, tried>> /\ joined' = joined + 1
    BY <1>8 DEF chaos_thread_join, workVars
  <2>2. handle' \in [Team -> {"null", "live", "freed"}]
    BY <1>8 DEF chaos_thread_join
  <2>3. (handle[1] = "live" /\ handle'[1] # "live") => wpc[1] = "end"
    BY <1>8 DEF chaos_thread_join
  <2> QED BY <2>1, <2>2, <2>3
<1>9. CASE main_return
  BY <1>9 DEF main_return, Main, workVars, otherVars
<1> QED BY <1>1, <1>2, <1>3, <1>4, <1>5, <1>6, <1>7, <1>8, <1>9 DEF MainStep

\* The steps of the other threads: the copier ends only when the timer is done with it.
LEMMA TimerWorker ==
    ASSUME TimerInv, NEW w \in Team, Worker(w)
    PROVE  TimerInv'
<1> USE DEF TimerInv, Places, TimerHandleLive, Step, mainVars, otherVars
<1>1. CASE copier_field(w) \/ copier_usleep(w)
  BY <1>1 DEF copier_field, copier_usleep, Cancelled
<1>2. CASE writer_load(w) \/ writer_store(w) \/ locker_fn(w)
  BY <1>2 DEF writer_load, writer_store, locker_fn
<1>3. CASE worker_gate(w) \/ worker_work(w) \/ worker_add(w)
  BY <1>3 DEF worker_gate, worker_work, worker_add
<1> QED BY <1>1, <1>2, <1>3 DEF Worker

LEMMA TimerNext == TimerInv /\ [Next]_vars => TimerInv'
<1> SUFFICES ASSUME TimerInv, [Next]_vars PROVE TimerInv'
  OBVIOUS
<1>1. CASE UNCHANGED threadVars
  BY <1>1 DEF threadVars, mainVars, workVars, otherVars, TimerInv, TimerHandleLive
<1>2. CASE cancel_flag \/ cancel_request
  BY <1>2 DEF cancel_flag, cancel_request, Timer, mainVars, workVars, TimerInv, TimerHandleLive
<1>3. CASE watchdog_fires
  BY <1>3 DEF watchdog_fires, mainVars, workVars, TimerInv, TimerHandleLive
<1>4. TimeNext => UNCHANGED threadVars
  BY DEF TimeNext, time_start, jump_check, jump_reset, slow_fsync, beat_work, beat_sleep,
         beat_due, beat_measure, At
<1> QED BY <1>1, <1>2, <1>3, <1>4, TimerMain, TimerWorker DEF Next, ThreadNext, vars

\* The timer thread never touches a handle that chaos_thread_join has freed, for
\* the program that uses it and whatever the schedule.
THEOREM TimerHandleIsLive == Spec => []TimerHandleLive
<1>1. TimerInv => TimerHandleLive
  BY DEF TimerInv
<1> QED BY <1>1, TimerInit, TimerNext, PTL DEF Spec

----------------------------------------------------------------------------
(* thundering_herd *)

HerdPlaces == {"none", "start", "waiting", "woken", "go", "io", "sum", "add", "end"}

HerdTypes ==
    /\ mpc \in {"io", "spawn", "gun", "join", "end"}
    /\ tried \in 0..WORKERS /\ joined \in 0..WORKERS
    /\ shared \in Nat
    /\ reg \in [Team -> Nat] /\ iter \in [Team -> 0..ITERS]
    /\ wpc \in [Team -> HerdPlaces]
    /\ handle \in [Team -> {"null", "live", "freed"}]
    /\ lock \in [{"a", "b", "mu", "tot_mu"} -> 0..WORKERS]

\* The iterations the workers have finished, as pairs of a worker and a number.
Iterations(it) == {p \in Team \X (1..ITERS) : p[2] <= it[p[1]]}

\* Each of them was summed up once.
Summed == shared = Cardinality(Iterations(iter))

\* Who adds holds tot_mu, and has read the latest sum.
Exclusive == \A w \in Team : wpc[w] = "add" => lock["tot_mu"] = w /\ reg[w] = shared

\* Where a worker is in its loop.
Looping == \A w \in Team :
    /\ wpc[w] = "end" => iter[w] = ITERS
    /\ wpc[w] \in {"go", "io", "sum", "add"} => iter[w] < ITERS
    /\ wpc[w] \in {"none", "start", "waiting", "woken"} => iter[w] = 0

\* The threads that could not be started, and those that were joined.
Herded ==
    /\ \A w \in Team : (handle[w] = "null" <=> wpc[w] = "none") /\ (handle[w] = "freed" => wpc[w] = "end")
    /\ mpc \in {"io", "spawn", "gun"} => joined = 0
    /\ mpc \in {"io", "spawn"} => \A w \in Team : w > tried => handle[w] = "null"
    /\ mpc = "join" => \A w \in Team : w <= joined => handle[w] # "live"
    /\ (mpc = "end" /\ ret = 0) => \A w \in Team : handle[w] # "live"

HerdInv == scen = "thundering_herd" => (HerdTypes /\ Summed /\ Exclusive /\ Looping /\ Herded)

LEMMA IterationsFinite ==
    ASSUME NEW it
    PROVE  IsFiniteSet(Iterations(it))
<1>1. IsFiniteSet(Team) /\ IsFiniteSet(1..ITERS)
  BY FS_Interval
<1>2. IsFiniteSet(Team \X (1..ITERS))
  BY <1>1, FS_Product
<1>3. Iterations(it) \in SUBSET (Team \X (1..ITERS))
  BY DEF Iterations
<1> QED BY <1>2, <1>3, FS_Subset

\* One more iteration of one worker is one more pair.
LEMMA IterationsStep ==
    ASSUME NEW it \in [Team -> 0..ITERS], NEW w \in Team, it[w] < ITERS
    PROVE  Cardinality(Iterations([it EXCEPT ![w] = @ + 1])) = Cardinality(Iterations(it)) + 1
<1> DEFINE p  == <<w, it[w] + 1>>
           up == [it EXCEPT ![w] = @ + 1]
<1>1. p \in Team \X (1..ITERS) /\ p \notin Iterations(it)
  BY DEF Iterations
<1>2. Iterations(up) = Iterations(it) \cup {p}
  <2>1. ASSUME NEW q \in Iterations(up) PROVE q \in Iterations(it) \cup {p}
    <3>1. PICK v \in Team, j \in 1..ITERS : q = <<v, j>> /\ j <= up[v]
      BY <2>1 DEF Iterations
    <3>2. CASE v = w /\ j = it[w] + 1
      BY <3>1, <3>2
    <3>3. CASE ~(v = w /\ j = it[w] + 1)
      BY <3>1, <3>3 DEF Iterations
    <3> QED BY <3>2, <3>3
  <2>2. ASSUME NEW q \in Iterations(it) PROVE q \in Iterations(up)
    <3>1. PICK v \in Team, j \in 1..ITERS : q = <<v, j>> /\ j <= it[v]
      BY <2>2 DEF Iterations
    <3> QED BY <3>1 DEF Iterations
  <2>3. p \in Iterations(up)
    BY <1>1 DEF Iterations
  <2> QED BY <2>1, <2>2, <2>3
<1> QED BY <1>1, <1>2, IterationsFinite, FS_AddElement

\* Nobody has begun: nothing is summed up.
LEMMA IterationsNone ==
    ASSUME NEW it, \A w \in Team : it[w] = 0
    PROVE  Cardinality(Iterations(it)) = 0
<1>1. Iterations(it) = {}
  BY DEF Iterations
<1> QED BY <1>1, FS_EmptySet

\* When each worker has finished or never began, the pairs are a product.
LEMMA IterationsAll ==
    ASSUME NEW it, NEW done \in SUBSET Team,
           \A w \in Team : it[w] = IF w \in done THEN ITERS ELSE 0
    PROVE  Cardinality(Iterations(it)) = ITERS * Cardinality(done)
<1>1. Iterations(it) = done \X (1..ITERS)
  <2>1. ASSUME NEW v \in Team, NEW j \in 1..ITERS PROVE j <= it[v] <=> v \in done
    OBVIOUS
  <2> QED BY <2>1 DEF Iterations
<1>2. IsFiniteSet(Team) /\ IsFiniteSet(1..ITERS) /\ Cardinality(1..ITERS) = ITERS
  BY FS_Interval
<1>3. IsFiniteSet(done)
  BY <1>2, FS_Subset
<1>4. Cardinality(done) \in Nat
  BY <1>3, FS_CardinalityType
<1>5. Cardinality(Iterations(it)) = Cardinality(done) * ITERS
  BY <1>1, <1>2, <1>3, FS_Product
<1> QED BY <1>4, <1>5

LEMMA HerdInit == Init => HerdInv
<1> SUFFICES ASSUME Init, scen = "thundering_herd" PROVE HerdInv
  BY DEF HerdInv
<1>1. HerdTypes /\ Exclusive /\ Looping /\ Herded
  BY DEF Init, ThreadInit, HerdTypes, HerdPlaces, Exclusive, Looping, Herded
<1>2. Summed
  <2>1. shared = 0 /\ \A w \in Team : iter[w] = 0
    BY DEF Init, ThreadInit
  <2> QED BY <2>1, IterationsNone DEF Summed
<1> QED BY <1>1, <1>2 DEF HerdInv

\* The steps of the main thread leave the sum alone.
LEMMA HerdMain ==
    ASSUME HerdInv, scen = "thundering_herd", MainStep
    PROVE  HerdInv'
<1>0. HerdTypes /\ Summed /\ Exclusive /\ Looping /\ Herded BY DEF HerdInv
<1>1. UNCHANGED <<shared, iter, reg, lock>>
  BY DEF MainStep, main_arm, main_io, main_spawn, main_spawn_fails, main_spawned, main_return,
         chaos_thread_cancel_at_ns, main_gun, chaos_thread_join, Main, workVars
<1>2. Summed'
  BY <1>0, <1>1 DEF Summed
<1>3. HerdTypes' /\ Exclusive' /\ Looping' /\ Herded'
  <2> USE <1>0, <1>1 DEF HerdTypes, HerdPlaces, Exclusive, Looping, Herded
  <2>1. CASE main_io
    <3>1. mpc = "io" /\ (mpc' = "spawn" \/ (mpc' = "end" /\ ret' = 1))
      BY <2>1 DEF main_io, Main
    <3>2. UNCHANGED <<tried, joined, wpc, handle>>
      BY <2>1 DEF main_io, Main, workVars, otherVars
    <3> QED BY <3>1, <3>2
  <2>2. CASE main_spawn
    <3>1. tried' = tried + 1 /\ tried' \in Team /\ UNCHANGED <<mpc, joined, ret>>
      BY <2>2 DEF main_spawn, Crew
    <3>2. wpc' = [wpc EXCEPT ![tried'] = "start"] /\ handle' = [handle EXCEPT ![tried'] = "live"] /\ mpc = "spawn"
      BY <2>2 DEF main_spawn
    <3>3. wpc[tried'] = "none"
      BY <3>1, <3>2
    <3>4. HerdTypes'
      BY <3>1, <3>2
    <3>5. Exclusive'
      BY <3>1, <3>2, <3>3
    <3>6. Looping'
      BY <3>1, <3>2, <3>3
    <3>7. Herded'
      BY <3>1, <3>2, <3>3
    <3> QED BY <3>4, <3>5, <3>6, <3>7
  <2>3. CASE main_spawn_fails
    BY <2>3 DEF main_spawn_fails, Crew, workVars, otherVars
  <2>4. CASE main_spawned
    BY <2>4 DEF main_spawned, Main, AfterSpawn, workVars, otherVars
  <2>5. CASE main_gun
    BY <2>5 DEF main_gun
  <2>6. CASE chaos_thread_join
    <3>1. joined' = joined + 1 /\ joined' \in Team /\ UNCHANGED <<mpc, tried, ret, wpc>> /\ mpc = "join"
      BY <2>6 DEF chaos_thread_join, Crew, workVars
    <3>2. /\ handle[joined'] = "live" => wpc[joined'] = "end"
          /\ handle' = [handle EXCEPT ![joined'] = IF @ = "live" THEN "freed" ELSE @]
      BY <2>6 DEF chaos_thread_join
    <3>3. HerdTypes'
      BY <3>1, <3>2
    <3>4. Exclusive' /\ Looping'
      BY <3>1
    <3>5. Herded'
      <4>1. \A v \in Team : handle'[v] = IF v = joined' /\ handle[v] = "live" THEN "freed" ELSE handle[v]
        BY <3>2
      <4>2. ASSUME NEW v \in Team, v <= joined' PROVE handle'[v] # "live"
        <5>1. CASE v = joined'
          BY <4>1, <5>1
        <5>2. CASE v # joined'
          <6>1. v <= joined
            BY <3>1, <4>2, <5>2
          <6>2. handle[v] # "live"
            BY <3>1, <6>1
          <6> QED BY <4>1, <6>2
        <5> QED BY <5>1, <5>2
      <4>3. \A v \in Team : (handle'[v] = "null" <=> wpc[v] = "none") /\ (handle'[v] = "freed" => wpc[v] = "end")
        BY <3>1, <3>2, <4>1
      <4> QED BY <3>1, <4>2, <4>3
    <3> QED BY <3>3, <3>4, <3>5
  <2>7. CASE main_return
    BY <2>7 DEF main_return, Main, Crew, workVars, otherVars
  <2>8. ~(main_arm \/ chaos_thread_cancel_at_ns)
    BY DEF main_arm, chaos_thread_cancel_at_ns, Main
  <2> QED BY <2>1, <2>2, <2>3, <2>4, <2>5, <2>6, <2>7, <2>8 DEF MainStep
<1>4. scen' = scen
  BY DEF MainStep, main_arm, main_io, main_spawn, main_spawn_fails, main_spawned, main_return,
         chaos_thread_cancel_at_ns, main_gun, chaos_thread_join, Main
<1> QED BY <1>2, <1>3 DEF HerdInv

\* A worker adds while nobody else can read the sum.
LEMMA HerdWorker ==
    ASSUME HerdInv, scen = "thundering_herd", NEW w \in Team, Worker(w)
    PROVE  HerdInv'
<1>0. HerdTypes /\ Summed /\ Exclusive /\ Looping /\ Herded BY DEF HerdInv
<1>1. CASE worker_gate(w)
  <2>1. UNCHANGED <<shared, iter>>
    BY <1>1 DEF worker_gate
  <2>2. Summed'
    BY <1>0, <2>1 DEF Summed
  <2>3. PICK to \in {"go", "waiting", "woken"} :
            wpc[w] \in {"start", "waiting", "woken"} /\ wpc' = [wpc EXCEPT ![w] = to]
    BY <1>1 DEF worker_gate, Step
  <2>4. UNCHANGED <<lock, reg, mpc, tried, joined, ret, handle>>
    BY <1>1 DEF worker_gate, Step, mainVars, otherVars
  <2>5. HerdTypes'
    BY <1>0, <2>1, <2>3, <2>4 DEF HerdTypes, HerdPlaces
  <2>6. Exclusive' /\ Looping' /\ Herded'
    BY <1>0, <2>1, <2>3, <2>4, SMTT(30) DEF HerdTypes, Exclusive, Looping, Herded
  <2> QED BY <2>2, <2>5, <2>6 DEF HerdInv
<1>2. CASE worker_work(w)
  <2>1. UNCHANGED <<shared, iter>>
    BY <1>2 DEF worker_work
  <2>2. Summed'
    BY <1>0, <2>1 DEF Summed
  <2>3. PICK from \in {"go", "io", "sum"}, to \in {"io", "sum", "add"} :
            wpc[w] = from /\ wpc' = [wpc EXCEPT ![w] = to] /\ (to = "add" <=> from = "sum")
    BY <1>2 DEF worker_work, Step
  <2>4. UNCHANGED <<mpc, tried, joined, ret, handle>>
    BY <1>2 DEF worker_work, Step, mainVars, otherVars
  <2>5. \/ from # "sum" /\ reg' = reg /\ lock' \in {[lock EXCEPT !["mu"] = w], [lock EXCEPT !["mu"] = 0]}
        \/ /\ from = "sum" /\ lock["tot_mu"] = 0 /\ lock' = [lock EXCEPT !["tot_mu"] = w]
           /\ reg' = [reg EXCEPT ![w] = shared]
    BY <1>2, <2>3 DEF worker_work, Acquire, Release, Step
  <2>6. wpc' \in [Team -> HerdPlaces]
    BY <1>0, <2>3 DEF HerdTypes, HerdPlaces
  <2>7. reg' \in [Team -> Nat]
    <3>1. reg' = reg \/ reg' = [reg EXCEPT ![w] = shared]
      BY <2>5
    <3> QED BY <1>0, <3>1 DEF HerdTypes
  <2>8. lock' \in [{"a", "b", "mu", "tot_mu"} -> 0..WORKERS]
    BY <1>0, <2>5, SMTT(30) DEF HerdTypes
  <2>9. HerdTypes'
    BY <1>0, <2>1, <2>4, <2>6, <2>8, <2>7 DEF HerdTypes
  <2>10. Exclusive'
    <3>1. CASE from # "sum"
      <4>1. reg' = reg /\ lock'["tot_mu"] = lock["tot_mu"]
        BY <1>0, <2>5, <3>1 DEF HerdTypes
      <4> QED BY <1>0, <2>1, <2>3, <3>1, <4>1 DEF HerdTypes, Exclusive
    <3>2. CASE from = "sum"
      <4>1. /\ lock["tot_mu"] = 0 /\ lock'["tot_mu"] = w
            /\ reg' = [reg EXCEPT ![w] = shared]
        BY <1>0, <2>5, <3>2 DEF HerdTypes
      <4>2. \A v \in Team : wpc[v] # "add"
        BY <1>0, <4>1 DEF Exclusive
      <4> QED BY <1>0, <2>1, <2>3, <4>1, <4>2 DEF HerdTypes, Exclusive
    <3> QED BY <3>1, <3>2
  <2>11. Looping' /\ Herded'
    BY <1>0, <2>1, <2>3, <2>4 DEF HerdTypes, Looping, Herded
  <2> QED BY <2>2, <2>9, <2>10, <2>11 DEF HerdInv
<1>3. CASE worker_add(w)
  <2>1. iter' = [iter EXCEPT ![w] = @ + 1] /\ shared' = shared + 1 /\ iter[w] < ITERS
    BY <1>0, <1>3 DEF worker_add, Step, HerdTypes, Exclusive, Looping
  <2>2. Summed'
    BY <1>0, <2>1, IterationsStep DEF Summed, HerdTypes
  <2>3. PICK to \in {"go", "end"} : wpc' = [wpc EXCEPT ![w] = to] /\ (to = "end" <=> iter[w] + 1 = ITERS)
    BY <1>3 DEF worker_add, Step
  <2>4. wpc[w] = "add" /\ reg' = reg /\ lock' = [lock EXCEPT !["tot_mu"] = 0]
    BY <1>3 DEF worker_add, Step, Release
  <2>5. UNCHANGED <<mpc, tried, joined, ret, handle>>
    BY <1>3 DEF worker_add, Step, mainVars, otherVars
  <2>6. wpc' \in [Team -> HerdPlaces] /\ iter' \in [Team -> 0..ITERS]
    BY <1>0, <2>1, <2>3 DEF HerdTypes, HerdPlaces
  <2>7. lock' \in [{"a", "b", "mu", "tot_mu"} -> 0..WORKERS]
    BY <1>0, <2>4 DEF HerdTypes
  <2>8. shared' \in Nat
    BY <1>0, <2>1 DEF HerdTypes
  <2>9. HerdTypes'
    BY <1>0, <2>4, <2>5, <2>6, <2>7, <2>8 DEF HerdTypes
  <2>10. Exclusive'
    BY <1>0, <2>3, <2>4 DEF HerdTypes, Exclusive
  <2>11. Looping' /\ Herded'
    <3>1. Looping'
      <4>1. \A v \in Team : v # w => wpc'[v] = wpc[v] /\ iter'[v] = iter[v]
        BY <1>0, <2>1, <2>3 DEF HerdTypes
      <4>2. wpc'[w] = to /\ iter'[w] = iter[w] + 1 /\ iter[w] \in 0..ITERS
        BY <1>0, <2>1, <2>3 DEF HerdTypes
      <4> QED BY <1>0, <2>1, <2>3, <4>1, <4>2 DEF Looping
    <3>2. \A v \in Team : (wpc'[v] = "none" <=> wpc[v] = "none") /\ (wpc[v] = "end" => wpc'[v] = "end")
      BY <1>0, <2>3, <2>4 DEF HerdTypes
    <3> QED BY <1>0, <2>5, <3>1, <3>2 DEF Herded
  <2> QED BY <2>2, <2>9, <2>10, <2>11 DEF HerdInv
<1>4. ~(writer_load(w) \/ writer_store(w) \/ locker_fn(w) \/ copier_field(w) \/ copier_usleep(w))
  BY DEF writer_load, writer_store, locker_fn, copier_field, copier_usleep, Step
<1> QED BY <1>1, <1>2, <1>3, <1>4 DEF Worker

LEMMA HerdNext == HerdInv /\ [Next]_vars => HerdInv'
<1> SUFFICES ASSUME HerdInv, [Next]_vars PROVE HerdInv'
  OBVIOUS
<1>1. CASE UNCHANGED vars
  BY <1>1 DEF vars, threadVars, mainVars, workVars, otherVars, HerdInv, HerdTypes, Summed, Exclusive,
              Looping, Herded
<1>2. CASE Next /\ scen # "thundering_herd"
  BY <1>2, ScenKept DEF HerdInv
<1>3. CASE Next /\ scen = "thundering_herd" /\ ~UNCHANGED vars
  <2>1. ~TimeNext
    BY <1>3 DEF TimeNext, time_start, jump_check, jump_reset, slow_fsync, beat_work, beat_sleep,
                beat_due, beat_measure, At
  <2>2. ThreadNext
    BY <1>3, <2>1 DEF Next
  <2>3. CASE cancel_flag \/ cancel_request \/ watchdog_fires
    BY <2>3, ZenonT(30) DEF cancel_flag, cancel_request, Timer, watchdog_fires, mainVars, workVars,
                HerdInv, HerdTypes, Summed, Exclusive, Looping, Herded
  <2> QED BY <1>3, <2>2, <2>3, HerdMain, HerdWorker DEF ThreadNext
<1> QED BY <1>1, <1>2, <1>3

\* However many workers and iterations, and whichever workers could not be started:
\* the sums of thundering_herd miss nothing and count nothing twice.
THEOREM HerdTotalsHold == Spec => []HerdTotals
<1>1. HerdInv => HerdTotals
  <2> SUFFICES ASSUME HerdInv, scen = "thundering_herd", mpc = "end", ret = 0
               PROVE  shared = ITERS * Cardinality({w \in Team : handle[w] = "freed"})
    BY DEF HerdTotals
  <2> DEFINE done == {w \in Team : handle[w] = "freed"}
  <2>1. \A w \in Team : iter[w] = IF w \in done THEN ITERS ELSE 0
    BY DEF HerdInv, HerdTypes, Herded, Looping
  <2>2. shared = Cardinality(Iterations(iter))
    BY DEF HerdInv, Summed
  <2> QED BY <2>1, <2>2, IterationsAll
<1> QED BY <1>1, HerdInit, HerdNext, PTL DEF Spec

----------------------------------------------------------------------------
(* The difference of two readings of a clock that wraps *)

LEMMA ModFacts ==
    ASSUME NEW a \in Int, NEW W \in Nat \ {0}
    PROVE  /\ a % W \in 0..(W - 1) /\ a \div W \in Int
           /\ a = W * (a \div W) + (a % W)
OBVIOUS

LEMMA ModSmall ==
    ASSUME NEW W \in Nat \ {0}, NEW r \in 0..(W - 1)
    PROVE  r % W = r
OBVIOUS

\* The readings of a and b differ by d if the times do, or if they differ by a word less.
LEMMA ModDifference ==
    ASSUME NEW W \in Nat \ {0}, NEW a \in Int, NEW b \in Int, NEW d \in 0..(W - 1),
           a - b = d \/ a - b = d - W
    PROVE  ((a % W) - (b % W)) % W = d
<1> DEFINE x == a % W
           y == b % W
           k == (a \div W) - (b \div W)
<1>1. x \in 0..(W - 1) /\ y \in 0..(W - 1) /\ k \in Int
  BY ModFacts
<1>2. a - b = W * k + (x - y)
  BY ModFacts
<1> HIDE DEF x, y, k
<1>3. k \in {-1, 0, 1}
  <2>1. W * k < 2 * W /\ W * k > -(2 * W)
    BY <1>1, <1>2
  <2> QED BY <1>1, <2>1
<1>4. x - y \in {d, d - W}
  <2>1. CASE k = 0
    BY <1>1, <1>2, <2>1
  <2>2. CASE k = 1
    BY <1>1, <1>2, <2>2
  <2>3. CASE k = -1
    BY <1>1, <1>2, <2>3
  <2> QED BY <1>3, <2>1, <2>2, <2>3
<1>5. (x - y) % W = d
  BY <1>1, <1>4
<1> QED BY <1>5 DEF x, y

\* Without jitter there is one reading.
LEMMA PlainReading ==
    ASSUME jitter = 0, NEW m \in Int, skew \in Int
    PROVE  chaos_clock_now_ns(m) = {(m + skew) % Word}
BY DEF chaos_clock_now_ns

----------------------------------------------------------------------------
(* clock_jump *)

\* Until the clock is set back, and after: i tells which.
Jumping ==
    /\ mono \in Nat /\ began \in Nat /\ i \in Nat /\ skew \in Int
    /\ jitter = 0 /\ began <= mono
    /\ tpc \in {"start", "check", "reset", "end"}
    /\ tpc = "start" => skew = 0 /\ i = 0
    /\ tpc # "start" => start = began % Word
    /\ tpc = "check" => skew = IF i < BUMP THEN 0 ELSE -JUMP
    /\ (tpc \in {"check", "reset"} /\ mono - began < JUMP) => i <= BUMP

JumpInv == scen = "clock_jump" => Jumping

LEMMA ScenSame == [Next]_vars => scen' = scen
<1>1. UNCHANGED vars => scen' = scen
  BY DEF vars, threadVars, mainVars
<1> QED BY <1>1, ScenKept

\* What a program that only measures time can do.
LEMMA TimeOnly ==
    ASSUME [Next]_vars, scen \in TimePrograms
    PROVE  TimeNext \/ UNCHANGED vars
BY DEF Next, Programs, TimePrograms

LEMMA JumpConstants ==
    /\ {Word, TIMEOUT, BUMP, JUMP, NET} \subseteq Nat \ {0} /\ JUMP + TIMEOUT <= Word
    /\ \A lag \in Lags : lag \in Nat
BY TimeAssumption

LEMMA JumpStep ==
    ASSUME Jumping, scen = "clock_jump", [Next]_vars
    PROVE  Jumping'
<1> USE JumpConstants
<1>0. /\ mono \in Nat /\ began \in Nat /\ i \in Nat /\ skew \in Int
      /\ jitter = 0 /\ began <= mono
  BY DEF Jumping
<1>1. CASE UNCHANGED vars
  BY <1>1 DEF vars, timeVars, Jumping
<1>2. CASE time_start
  <2>1. start' = began' % Word /\ began' = mono /\ tpc = "start" /\ tpc' = "check" /\ i' = 0
    BY <1>0, <1>2, PlainReading DEF time_start, At, Jumping
  <2>2. UNCHANGED <<mono, skew, jitter>>
    BY <1>2 DEF time_start
  <2> QED BY <1>0, <2>1, <2>2 DEF Jumping
<1>3. CASE jump_check
  <2>1. PICK lag \in Lags : mono' = mono + lag
    BY <1>3 DEF jump_check
  <2>2. PICK now \in chaos_clock_now_ns(mono') :
            IF Elapsed(now, start) < TIMEOUT
            THEN /\ At("clock_jump", "check", IF i + 1 > NET THEN "reset" ELSE "check")
                 /\ i' = i + 1 /\ skew' = IF i + 1 = BUMP THEN -JUMP ELSE skew
            ELSE At("clock_jump", "check", "reset") /\ UNCHANGED <<i, skew>>
    BY <1>3 DEF jump_check
  <2>3. UNCHANGED <<jitter, began, start, prev, dt>>
    BY <1>3 DEF jump_check
  <2>4. mono' \in Nat /\ mono' >= mono
    BY <1>0, <2>1
  <2>5. now = (mono' + skew) % Word
    BY <1>0, <2>2, <2>4, PlainReading
  <2>6. tpc = "check" /\ tpc' \in {"check", "reset"}
    BY <2>2 DEF At
  <2>7. (i = BUMP /\ mono' - began < JUMP) => Elapsed(now, start) >= TIMEOUT
    <3> SUFFICES ASSUME i = BUMP, mono' - began < JUMP PROVE Elapsed(now, start) >= TIMEOUT
      OBVIOUS
    <3> DEFINE d == mono' - JUMP - began + Word
    <3>1. d \in 0..(Word - 1) /\ d >= TIMEOUT
      BY <1>0, <2>4
    <3>2. now = (mono' - JUMP) % Word /\ start = began % Word
      BY <1>0, <2>4, <2>5, <2>6 DEF Jumping
    <3>3. Elapsed(now, start) = d
      <4> DEFINE a == mono' - JUMP
      <4>1. a \in Int /\ a - began = d - Word /\ now = a % Word
        BY <1>0, <2>4, <3>2
      <4> HIDE DEF a, d
      <4>2. ((a % Word) - (began % Word)) % Word = d
        BY <1>0, <3>1, <4>1, ModDifference
      <4> QED BY <3>2, <4>1, <4>2 DEF Elapsed
    <3> QED BY <3>1, <3>3
  <2>8. mono' - began < JUMP => i' <= BUMP
    <3>1. mono' - began < JUMP => i <= BUMP
      BY <1>0, <2>4, <2>6 DEF Jumping
    <3>2. CASE Elapsed(now, start) < TIMEOUT
      <4>1. i' = i + 1
        BY <2>2, <3>2
      <4>2. Elapsed(now, start) \in Int /\ (i = BUMP => ~(mono' - began < JUMP))
        BY <2>5, <2>6, <2>7, <3>2 DEF Elapsed, Jumping
      <4> QED BY <1>0, <3>1, <4>1, <4>2
    <3>3. CASE ~(Elapsed(now, start) < TIMEOUT)
      BY <2>2, <3>1, <3>3
    <3> QED BY <3>2, <3>3
  <2>9. i' \in Nat /\ skew' \in Int /\ (tpc' = "check" => skew' = IF i' < BUMP THEN 0 ELSE -JUMP)
    <3>1. skew = IF i < BUMP THEN 0 ELSE -JUMP
      BY <2>6 DEF Jumping
    <3>2. CASE Elapsed(now, start) < TIMEOUT
      BY <1>0, <2>2, <3>1, <3>2
    <3>3. CASE ~(Elapsed(now, start) < TIMEOUT)
      <4>1. tpc' = "reset" /\ i' = i /\ skew' = skew
        BY <2>2, <3>3 DEF At
      <4> QED BY <1>0, <4>1
    <3> QED BY <3>2, <3>3
  <2> QED BY <1>0, <2>3, <2>4, <2>6, <2>8, <2>9 DEF Jumping
<1>4. CASE jump_reset
  BY <1>0, <1>4 DEF jump_reset, At, Jumping
<1>5. ~(slow_fsync \/ beat_work \/ beat_sleep \/ beat_due \/ beat_measure)
  BY DEF slow_fsync, beat_work, beat_sleep, beat_due, beat_measure, At
<1> QED BY <1>1, <1>2, <1>3, <1>4, <1>5, TimeOnly DEF TimeNext, TimePrograms

\* Setting the clock back ends the loop at the next check, by whatever it is set
\* back and however long an iteration takes.
THEOREM JumpEndsTheLoop == Spec => []JumpEndsLoop
<1>1. Init => JumpInv
  BY TimeAssumption DEF Init, JumpInv, Jumping, TimePrograms, Programs
<1>2. JumpInv /\ [Next]_vars => JumpInv'
  <2> SUFFICES ASSUME JumpInv, [Next]_vars PROVE JumpInv'
    OBVIOUS
  <2>1. CASE scen = "clock_jump"
    BY <2>1, JumpStep DEF JumpInv
  <2>2. CASE scen # "clock_jump"
    BY <2>2, ScenSame DEF JumpInv
  <2> QED BY <2>1, <2>2
<1>3. JumpInv => JumpEndsLoop
  BY DEF JumpInv, Jumping, JumpEndsLoop
<1> QED BY <1>1, <1>2, <1>3, PTL DEF Spec

----------------------------------------------------------------------------
(* slow_fsync and flaky_environment *)

\* The longest delay: no heartbeat lasts half a word, no run a whole one.
Late == CHOOSE late \in 0..Word :
    /\ Lags \subseteq 0..late
    /\ 2 * (TARGET + FSYNC + 2 * JITTER + late) <= Word
    /\ TICKS * (TARGET + FSYNC + JITTER + late) + JITTER <= Word

\* The most a heartbeat can take.
Beat == TARGET + FSYNC + JITTER + Late

LEMMA LateFacts ==
    /\ Late \in 0..Word /\ Lags \subseteq 0..Late
    /\ 2 * (TARGET + FSYNC + 2 * JITTER + Late) <= Word
    /\ TICKS * (TARGET + FSYNC + JITTER + Late) + JITTER <= Word
<1>1. \E late \in 0..Word :
         /\ Lags \subseteq 0..late
         /\ 2 * (TARGET + FSYNC + 2 * JITTER + late) <= Word
         /\ TICKS * (TARGET + FSYNC + JITTER + late) + JITTER <= Word
  BY TimeAssumption
<1> QED BY <1>1 DEF Late

LEMMA BeatConstants ==
    /\ {Word, FSYNC, JITTER, TARGET, TICKS} \subseteq Nat \ {0}
    /\ Late \in Nat /\ Beat \in Nat /\ JITTER <= FSYNC
    /\ \A lag \in Lags : lag \in 0..Late
    /\ 2 * (TARGET + FSYNC + 2 * JITTER + Late) <= Word
<1>1. {Word, FSYNC, JITTER, TARGET, TICKS} \subseteq Nat \ {0} /\ JITTER <= FSYNC
  BY TimeAssumption
<1>2. Late \in Nat /\ Lags \subseteq 0..Late
  BY <1>1, LateFacts
<1> QED BY <1>1, <1>2, LateFacts DEF Beat

LEMMA HalfWord == 0 < Word \div 2
<1>1. Word \in Nat /\ 2 <= Word
  BY BeatConstants
<1> QED BY <1>1

\* The time that n heartbeats can take.
LEMMA BeatBounds ==
    ASSUME NEW n \in 1..TICKS
    PROVE  /\ n * Beat \in Nat /\ n * TARGET \in Nat /\ (n - 1) * Beat \in Nat
           /\ n * Beat = (n - 1) * Beat + Beat
           /\ n * TARGET = (n - 1) * TARGET + TARGET
           /\ n * Beat + JITTER <= Word
           /\ n * TARGET + FSYNC + JITTER + Late <= n * Beat
<1> USE BeatConstants
<1>1. n * Beat \in Nat /\ n * TARGET \in Nat /\ (n - 1) * Beat \in Nat
  OBVIOUS
<1>2. n * Beat = (n - 1) * Beat + Beat /\ n * TARGET = (n - 1) * TARGET + TARGET
  OBVIOUS
<1>3. TICKS * Beat = n * Beat + (TICKS - n) * Beat /\ (TICKS - n) * Beat \in Nat
  OBVIOUS
<1>4. n * Beat + JITTER <= Word
  <2>1. TICKS * Beat + JITTER <= Word
    BY LateFacts DEF Beat
  <2> QED BY <1>1, <1>3, <2>1
<1>5. n * TARGET + FSYNC + JITTER + Late <= n * Beat
  <2> DEFINE c == FSYNC + JITTER + Late
  <2>1. c \in Nat /\ Beat = TARGET + c
    BY DEF Beat
  <2> HIDE DEF c
  <2>2. n * Beat = n * TARGET + n * c
    BY <2>1
  <2>3. n * c = c + (n - 1) * c /\ (n - 1) * c \in Nat
    BY <2>1
  <2>4. n * TARGET + c <= n * Beat
    BY <1>1, <2>1, <2>2, <2>3
  <2> QED BY <1>1, <2>4 DEF c
<1> QED BY <1>1, <1>2, <1>4, <1>5

\* A reading is at most the jitter ahead of the clock.
LEMMA JitteryReading ==
    ASSUME jitter = JITTER, skew = 0, NEW m \in Nat, m + JITTER <= Word,
           NEW now \in chaos_clock_now_ns(m)
    PROVE  now \in m..(m + JITTER - 1)
<1> USE BeatConstants
<1>1. PICK j \in 0..(JITTER - 1) : now = (m + j) % Word
  BY DEF chaos_clock_now_ns
<1>2. m + j \in 0..(Word - 1)
  OBVIOUS
<1>3. (m + j) % Word = m + j
  BY <1>2, ModSmall
<1> QED BY <1>1, <1>3

Syncing ==
    /\ mono \in Nat /\ skew = 0 /\ jitter = 0
    /\ tpc \in {"start", "fsync", "end"}
    /\ tpc = "fsync" => start = mono % Word /\ began = mono
    /\ tpc = "end" => dt = mono - began /\ (dt < FSYNC => cut)

\* The i-th heartbeat: the one before was measured at prev, when its deadline
\* had passed, and the work since takes longer than the jitter unless it was cut.
Beating ==
    /\ mono \in Nat /\ skew = 0 /\ i \in Nat
    /\ tpc \in {"work", "end"} => dt < Word \div 2 \/ (cut /\ Word - dt < JITTER)
    /\ tpc \in {"start", "work", "sleep", "measure", "end"}
    /\ tpc # "end" => jitter = JITTER
    /\ tpc = "start" => mono = 0 /\ dt = 0
    /\ tpc \in {"work", "sleep", "measure"} =>
         /\ i \in 1..TICKS /\ start \in 0..(JITTER - 1) /\ prev \in Nat
    /\ tpc = "work" =>
         /\ mono <= (i - 1) * Beat /\ prev \in mono..(mono + JITTER - 1)
         /\ start + (i - 1) * TARGET < mono + JITTER
    /\ tpc \in {"sleep", "measure"} =>
         /\ mono <= i * Beat /\ mono <= prev + Beat /\ prev < mono + JITTER
         /\ prev < mono \/ cut
         /\ start + i * TARGET < prev + JITTER + TARGET
    /\ tpc = "measure" => start + i * TARGET < mono + JITTER

MeasureInv ==
    /\ scen = "slow_fsync" => Syncing
    /\ scen = "flaky_environment" => Beating

\* slow_fsync reads the clock, sleeps, and reads it again.
LEMMA SyncStep ==
    ASSUME Syncing, scen = "slow_fsync", [Next]_vars
    PROVE  Syncing'
<1> USE BeatConstants
<1>0. mono \in Nat /\ skew = 0 /\ jitter = 0
  BY DEF Syncing
<1>1. CASE UNCHANGED vars
  BY <1>1 DEF vars, timeVars, Syncing
<1>2. CASE time_start
  <2>1. start' = mono % Word /\ began' = mono /\ tpc' = "fsync" /\ UNCHANGED <<mono, skew, jitter>>
    BY <1>0, <1>2, PlainReading DEF time_start, At
  <2> QED BY <1>0, <2>1 DEF Syncing
<1>3. CASE slow_fsync
  <2>1. tpc = "fsync" /\ tpc' = "end" /\ UNCHANGED <<skew, jitter, began>>
    BY <1>3 DEF slow_fsync, At
  <2>2. PICK slept \in 0..FSYNC, lag \in Lags : mono' = mono + slept + lag /\ cut' = (slept < FSYNC)
    BY <1>3 DEF slow_fsync, Fsynced
  <2>3. mono' \in Nat
    BY <1>0, <2>2
  <2>4. dt' = Elapsed(mono' % Word, start)
    BY <1>0, <1>3, <2>3, PlainReading DEF slow_fsync
  <2> DEFINE d == slept + lag
             m == mono'
  <2>5. d \in 0..(Word - 1) /\ m \in Int /\ mono \in Int /\ m - mono = d
    BY <1>0, <2>2
  <2>8. d < FSYNC => cut'
    <3>1. slept < FSYNC => cut'
      BY <2>2, Zenon
    <3>2. d < FSYNC => slept < FSYNC
      BY <2>2 DEF d
    <3> QED BY <3>1, <3>2
  <2> HIDE DEF d, m
  <2>6. ((mono' % Word) - (mono % Word)) % Word = d
    <3>1. ((m % Word) - (mono % Word)) % Word = d
      BY <2>5, ModDifference
    <3> QED BY <3>1 DEF m
  <2>7. dt' = d
    BY <2>1, <2>4, <2>6 DEF Elapsed, Syncing
  <2>9. dt' = mono' - began'
    BY <2>1, <2>5, <2>7 DEF Syncing, m
  <2>10. (dt' < FSYNC) => cut'
    BY <2>7, <2>8
  <2> QED BY <1>0, <2>1, <2>3, <2>9, <2>10 DEF Syncing
<1>4. ~(jump_check \/ jump_reset \/ beat_work \/ beat_sleep \/ beat_due \/ beat_measure)
  BY DEF jump_check, jump_reset, beat_work, beat_sleep, beat_due, beat_measure, At
<1> QED BY <1>1, <1>2, <1>3, <1>4, TimeOnly DEF TimeNext, TimePrograms

\* The steps of flaky_environment.
LEMMA BeatStep ==
    ASSUME Beating, scen = "flaky_environment", [Next]_vars
    PROVE  Beating'
<1> USE BeatConstants
<1>0. mono \in Nat /\ skew = 0 /\ i \in Nat
  BY DEF Beating
<1>1. CASE UNCHANGED vars
  BY <1>1 DEF vars, timeVars, Beating
<1>2. CASE time_start
  <2>1. tpc = "start" /\ tpc' = "work" /\ i' = 1 /\ UNCHANGED <<mono, skew, jitter, dt>>
    BY <1>2 DEF time_start, At
  <2>2. mono = 0 /\ jitter = JITTER /\ dt = 0
    BY <2>1 DEF Beating
  <2>5. 0 < Word \div 2
    BY HalfWord
  <2>3. start' \in 0..(JITTER - 1) /\ prev' = start'
    <3>1. start' \in chaos_clock_now_ns(mono) /\ prev' = start'
      BY <1>2 DEF time_start
    <3> QED BY <1>0, <2>2, <3>1, JitteryReading
  <2>4. (i' - 1) * Beat = 0 /\ (i' - 1) * TARGET = 0
    BY <2>1
  <2> QED BY <1>0, <2>1, <2>2, <2>3, <2>4, <2>5 DEF Beating
<1>3. CASE beat_work
  <2>1. tpc = "work" /\ tpc' = "sleep" /\ UNCHANGED <<skew, jitter, start, prev, i, dt>>
    BY <1>3 DEF beat_work, At
  <2>2. PICK slept \in 0..FSYNC, lag \in Lags : mono' = mono + slept + lag /\ cut' = (slept < FSYNC)
    BY <1>3 DEF beat_work, Fsynced
  <2>3. /\ i \in 1..TICKS /\ start \in 0..(JITTER - 1) /\ jitter = JITTER
        /\ mono <= (i - 1) * Beat /\ prev \in mono..(mono + JITTER - 1)
        /\ start + (i - 1) * TARGET < mono + JITTER
    BY <2>1 DEF Beating
  <2>4. mono' \in Nat /\ mono' <= i * Beat /\ mono' <= prev + Beat /\ prev < mono' + JITTER
    BY <1>0, <2>2, <2>3, BeatBounds DEF Beat
  <2>6. prev < mono' \/ cut'
    <3>1. slept < FSYNC => cut'
      BY <2>2, Zenon
    <3>2. slept < FSYNC \/ prev < mono'
      BY <1>0, <2>2, <2>3
    <3> QED BY <3>1, <3>2
  <2>5. start + i * TARGET < prev + JITTER + TARGET
    BY <1>0, <2>3, BeatBounds
  <2> QED BY <1>0, <2>1, <2>3, <2>4, <2>5, <2>6 DEF Beating
<1> DEFINE Slept ==
        /\ i \in 1..TICKS /\ start \in 0..(JITTER - 1) /\ prev \in Nat /\ jitter = JITTER
        /\ mono <= i * Beat /\ mono <= prev + Beat /\ prev < mono + JITTER
        /\ prev < mono \/ cut
        /\ start + i * TARGET < prev + JITTER + TARGET
<1>4. tpc \in {"sleep", "measure"} => Slept
  BY DEF Beating
<1>5. Slept => /\ deadline = start + i * TARGET /\ mono + JITTER <= Word /\ i * TARGET \in Nat
               /\ start + i * TARGET + Late <= i * Beat
  <2> SUFFICES ASSUME Slept
               PROVE  /\ deadline = start + i * TARGET /\ mono + JITTER <= Word /\ i * TARGET \in Nat
                      /\ start + i * TARGET + Late <= i * Beat
    OBVIOUS
  <2>1. i * TARGET \in Nat /\ mono + JITTER <= Word /\ start + i * TARGET + Late <= i * Beat
    BY <1>0, BeatBounds
  <2>2. start + i * TARGET \in 0..(Word - 1)
    BY <2>1, BeatBounds
  <2>3. (start + i * TARGET) % Word = start + i * TARGET
    BY <2>2, ModSmall
  <2> QED BY <2>1, <2>3 DEF deadline
<1>6. CASE beat_sleep
  <2>1. tpc = "sleep" /\ tpc' = "sleep" /\ UNCHANGED <<cut, skew, jitter, start, prev, i, dt>>
    BY <1>6 DEF beat_sleep, At
  <2>2. PICK now \in chaos_clock_now_ns(mono), lag \in Lags :
            /\ now < deadline
            /\ \E slept \in 0..(deadline - now) : mono' = mono + slept + lag
    BY <1>6 DEF beat_sleep
  <2>3. Slept
    BY <1>4, <2>1
  <2>4. now \in mono..(mono + JITTER - 1)
    BY <1>0, <1>5, <2>3, JitteryReading
  <2>5. mono' \in Nat /\ mono' <= start + i * TARGET + Late /\ mono' >= mono
    BY <1>0, <1>5, <2>2, <2>3, <2>4
  <2>6. mono' <= i * Beat /\ mono' <= prev + Beat /\ prev < mono' + JITTER /\ (prev < mono' \/ cut)
    BY <1>0, <1>5, <2>3, <2>5 DEF Beat
  <2> QED BY <1>0, <2>1, <2>3, <2>5, <2>6 DEF Beating
<1>7. CASE beat_due
  <2>1. tpc = "sleep" /\ tpc' = "measure" /\ UNCHANGED <<mono, cut, skew, jitter, start, prev, i, dt>>
    BY <1>7 DEF beat_due, At
  <2>2. PICK now \in chaos_clock_now_ns(mono) : now >= deadline
    BY <1>7 DEF beat_due
  <2>3. Slept
    BY <1>4, <2>1
  <2>4. now \in mono..(mono + JITTER - 1)
    BY <1>0, <1>5, <2>3, JitteryReading
  <2>5. start + i * TARGET < mono + JITTER
    BY <1>0, <1>5, <2>2, <2>3, <2>4
  <2> QED BY <1>0, <2>1, <2>3, <2>5 DEF Beating
<1>8. CASE beat_measure
  <2>1. /\ tpc = "measure" /\ tpc' \in {"work", "end"} /\ (tpc' = "end" <=> i = TICKS)
        /\ i' = i + 1 /\ jitter' = IF i = TICKS THEN 0 ELSE jitter
        /\ UNCHANGED <<mono, cut, skew, start>>
    BY <1>8 DEF beat_measure, At
  <2>2. prev' \in chaos_clock_now_ns(mono) /\ dt' = Elapsed(prev', prev)
    BY <1>8 DEF beat_measure
  <2>3. Slept /\ start + i * TARGET < mono + JITTER
    BY <1>4, <2>1 DEF Beating
  <2>4. prev' \in mono..(mono + JITTER - 1)
    BY <1>0, <1>5, <2>2, <2>3, JitteryReading
  <2>5. dt' < Word \div 2 \/ (cut /\ Word - dt' < JITTER)
    <3>1. 2 * (Beat + JITTER) <= Word /\ Beat + JITTER <= Word \div 2
      BY DEF Beat
    <3>2. prev \in Nat /\ mono <= prev + Beat /\ prev < mono + JITTER /\ (prev < mono \/ cut)
      BY <2>3
    <3>3. prev' \in Nat /\ mono <= prev' /\ prev' <= mono + JITTER - 1
      BY <1>0, <2>4
    <3> DEFINE p == prev'
               q == prev
    <3>6. /\ p \in Nat /\ mono <= p /\ p <= mono + JITTER - 1
          /\ q \in Nat /\ mono <= q + Beat /\ q < mono + JITTER
      BY <3>2, <3>3
    <3>7. dt' = (p - q) % Word /\ (q < mono \/ cut)
      BY <2>2, <3>2 DEF Elapsed
    <3> HIDE DEF p, q
    <3>4. CASE p >= q
      <4>1. p - q \in 0..(Beat + JITTER - 1)
        BY <1>0, <3>4, <3>6
      <4>2. p - q \in 0..(Word - 1)
        BY <3>1, <4>1
      <4>3. dt' = p - q
        BY <3>7, <4>2, ModSmall
      <4> QED BY <3>1, <4>1, <4>3
    <3>5. CASE p < q
      <4>1. ~(q < mono) /\ q - p \in 1..(JITTER - 1)
        BY <1>0, <3>5, <3>6
      <4>2. (p - q) % Word = p - q + Word
        BY <3>1, <3>6, <4>1
      <4>3. Word - dt' < JITTER
        BY <3>6, <3>7, <4>1, <4>2
      <4> QED BY <3>7, <4>1, <4>3
    <3> QED BY <3>4, <3>5, <3>6
  <2>6. (i' - 1) * Beat = i * Beat /\ (i' - 1) * TARGET = i * TARGET
    BY <1>0, <2>1
  <2>7. CASE tpc' = "end"
    BY <1>0, <2>1, <2>5, <2>7 DEF Beating
  <2>8. CASE tpc' = "work"
    <3>1. i' \in 1..TICKS /\ jitter' = JITTER
      BY <2>1, <2>3, <2>8
    <3>2. prev' \in Nat
      BY <1>0, <2>4
    <3>3. mono <= (i' - 1) * Beat /\ start + (i' - 1) * TARGET < mono + JITTER
      BY <2>3, <2>6
    <3> QED BY <1>0, <2>1, <2>3, <2>4, <2>5, <2>8, <3>1, <3>2, <3>3 DEF Beating
  <2> QED BY <2>1, <2>7, <2>8
<1>9. ~(jump_check \/ jump_reset \/ slow_fsync)
  BY DEF jump_check, jump_reset, slow_fsync, At
<1> QED BY <1>1, <1>2, <1>3, <1>6, <1>7, <1>8, <1>9, TimeOnly DEF TimeNext, TimePrograms

\* For any delays, jitter and period, and whichever sleeps a signal cuts: slow_fsync
\* reports the time that passed, and only a heartbeat whose fsync was cut comes out
\* negative, by less than the jitter.
THEOREM MeasuredTimesAreSane == Spec => []MeasuredTimesSane
<1>1. Init => MeasureInv
  <2> SUFFICES ASSUME Init PROVE MeasureInv
    OBVIOUS
  <2>1. mono = 0 /\ skew = 0 /\ i = 0 /\ dt = 0 /\ 0 < Word \div 2
    BY HalfWord DEF Init
  <2>2. scen = "slow_fsync" => tpc = "start" /\ jitter = 0
    BY DEF Init, TimePrograms
  <2>3. scen = "flaky_environment" => tpc = "start" /\ jitter = JITTER
    BY DEF Init, TimePrograms
  <2> QED BY <2>1, <2>2, <2>3 DEF MeasureInv, Syncing, Beating
<1>2. MeasureInv /\ [Next]_vars => MeasureInv'
  <2> SUFFICES ASSUME MeasureInv, [Next]_vars PROVE MeasureInv'
    OBVIOUS
  <2>1. CASE scen = "slow_fsync"
    BY <2>1, SyncStep, ScenSame DEF MeasureInv
  <2>2. CASE scen = "flaky_environment"
    BY <2>2, BeatStep, ScenSame DEF MeasureInv
  <2>3. CASE scen \notin {"slow_fsync", "flaky_environment"}
    BY <2>3, ScenSame DEF MeasureInv
  <2> QED BY <2>1, <2>2, <2>3
<1>3. MeasureInv => MeasuredTimesSane
  BY DEF MeasureInv, Syncing, Beating, MeasuredTimesSane
<1> QED BY <1>1, <1>2, <1>3, PTL DEF Spec
=============================================================================
