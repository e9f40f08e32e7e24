# Failure Playground: specification and proofs

The program runs *scenarios* (small C functions that demonstrate a failure) in
a forked child, streams what they do to a parent over a pipe of 256-byte
records, and shows it on a terminal or as text. A library of *chaos* calls
lets a scenario inject thread, memory, network, file and clock faults.

This directory holds TLA+ modules for the parts where interleaving, blocking,
process death, limits and wrapping arithmetic decide whether the program is
right, TLC configurations that check them on small instances, and TLAPS proofs
of the most important invariants for every instance.

## The system

| Part | State | Operations | Interacts through | Module |
|---|---|---|---|---|
| runner (`src/core/runner.c`) | child process, event pipe, handler dispositions, exit status | start, emit, fault handler, poll, abort, reap | pipe, signals, `waitpid` | `Runner` |
| headless (`src/main.c`) | place in the loop, `saw_done` | `run_headless` | runner calls | `Headless` |
| TUI, a run (`src/tui/tui.c`) | poll results, pending key, `aborted` | `run_scenario` | runner calls, stdin, SIGWINCH | `TuiRun` |
| TUI, a session | selection, last run and seed, log ring, statistics, layout | menu, run, rerun, lesson, resize | the records of the runs | `Session` |
| chaos_thread | handles with stop flags, detached timers | spawn, join, cancel, cancel timer, watchdog | the child's threads; the watchdog ends the process | `ThreadScenarios`, `Runner` |
| chaos_io | 64 slots with knobs | open, write, read, fsync, close, knobs | one mutex, kernel descriptors | `ChaosIO` |
| chaos_io clock | skew, jitter | now, skew, jitter | scenarios that measure time | `Scenarios` |
| chaos_mem | bump arena, headers, redzones | alloc, free, check, destroy | memory of the scenario | `ChaosMem` |
| chaos_net | two socket pairs, two forwarder threads, knobs | pair, knobs, close | sockets, mutex, thread join | `ChaosNet` |
| registry, rand | table of 256 scenarios; 256-bit generator | add, list, find; seed, next | constructors, context | `Session`; - |
| 19 scenarios | locals and threads of each | `run` | chaos calls and `pg_emit` | below |

What is hard here: several threads of the child write to one bounded pipe
while a fault handler, a watchdog, a CPU limit and a SIGTERM may each end the
process; the parent must drain, detect the end and reap in the right order;
the TUI adds a keyboard, interrupted system calls, and signal handlers of
ncurses that its children inherit over `fork`; the chaos calls are used
by several threads and hold their mutex only around parts of an operation; the
network pair ends by a cascade of closes that two threads must notice; and the
scenarios themselves are races, deadlocks and overflows on purpose, whose
outcome the descriptions promise.

Correctness, by part: the runner loses and reorders no record and always ends
when something ended the scenario; the front ends report what happened, and
what the screen shows belongs to the run it names; the slot table agrees with
the kernel; a timer never touches a freed handle; the arena keeps its blocks
apart and detects what it promises; the network pair is a stream that drops
only what it should and always closes; each scenario ends and its figures are
true.

## Modules

* `Runner` - the child, its threads, the handler with `SA_RESETHAND`, the
  watchdog, the pipe and the parent-side calls. One action per call or per
  straight-line piece between two points where another thread can be seen.
  A scenario is anything: it may emit, spawn, fault, arm a watchdog, return or
  hang, in any order. A record is its kind and its writer.
* `Headless` - `run_headless` as a loop over those calls.
* `TuiRun` - `run_scenario`: poll, key, read, reap, report. `pr` is what the
  last `poll` returned; `pr < 0` means a signal cut it short.
* `RunContract` - what a run promises, with no process in it: records arrive in
  order and without gaps, none after DONE, a run ends only when all that was
  emitted is delivered or DONE is, and "the scenario returned" implies DONE.
  `Headless` implements it with `sent <- got \o pipe`, `log <- got` and the
  phase read off the child's state; so does `TuiRun` up to an interrupted poll,
  after which records may stay unread. There a child that exits with 1 after the
  TUI's SIGTERM has the verdict "aborted" (see below), which needs no DONE.
* `Session` - the interactive program around the runs: constructors fill the
  registry, keys select, run, rerun with the same or a new seed, show the
  lesson and leave; records go into the log ring and the statistics table. A
  run is any sequence of records, ended by DONE, EOF or an interrupted poll
  (`TuiRun` says which sequences there are). `MCSession` gives the records.
* `ChaosIO` - the slot table of `chaos_io.c`. A critical section is one step
  and each system call outside it another; a file is its length; a descriptor
  is a number that comes back after `close`.
* `FileScenarios` - `disk_full.c` and `partial_write.c` as clients of
  `ChaosIO`, next to the client that makes any call. A `write(2)` may fail, also
  with ENOSPC because the file system itself is full (`sysfull`), which
  `disk_full` cannot tell from its quota. `MCChaosIO` adds the symmetry set.
* `ChaosNet` - the two forwarders with their snapshot of the knobs, loss and
  chunking, `chaos_net_pair` with its failures, and `chaos_net_close`. A byte is
  its position in the stream. An end that is closed while a thread is blocked
  in `read` on it stays until the read returns, as in the kernel.
* `NetScenarios` - `packet_loss.c`, `partial_read.c`, `cascading_failure.c`,
  `flaky_environment.c`, `split_brain.c` and a client that makes any call.
* `ChaosMem` - the arena as a row of cells: magic, size, redzone, data, redzone.
  `size_t` and `uint32_t` wrap at the constants `SizeT` and `UInt32`. Its clients
  are `arena_corrupt.c`, `double_free.c`, `uaf_callback.c` and one that
  allocates, frees any pointer at all, and overruns its blocks upwards and
  downwards by any length, over redzones, magics and sizes. A size that was
  written over is trusted by `chaos_arena_free` and `chaos_arena_check` as in the
  code; `escaped` records that the allocator wrote beyond the region.
* `ThreadScenarios` - spawn, join, cancel and the cancel timer of
  `chaos_thread.c`, with `race_counter.c`, `deadlock_classic.c`,
  `thread_cancel_midwrite.c` and `thundering_herd.c`. In `race_counter` the
  counter is not atomic, so a load may also be satisfied from the register.
* `Scenarios` - the chaos clock with `clock_jump.c`, `slow_fsync.c` and the
  cadence loop of `flaky_environment.c`, run together with `ThreadScenarios`.
  A signal may cut any of their sleeps short; `cut` records it of the last fsync.
  `MCScenarios` runs a program over an arena after one of these.
* `RunnerProof`, `HeadlessProof`, `TuiProof`, `SessionProof`, `ChaosIOProof`,
  `NetProof`, `MemProof`, `ScenariosProof` - the proofs; `RunnerProof` holds what
  the two front ends share.

Definitions whose comment starts with "Mutant" are not part of a
specification: each is a definition with one plausible mistake, used to see
that a property notices it.

### Abstractions

* `write(2)` of a record is atomic: 256 bytes are below `PIPE_BUF`, and the
  write blocks until there is room for all of it. Torn records and the
  magic/version check of `pg_run_poll` therefore have no states here.
* A write after the child closed its end fails and changes nothing; for
  `pg_emit` that is a stuttering step and has no action. The descriptor number
  is taken not to be reused in that short time.
* No SIGPIPE branch in `Runner`: `EventPipeOpen` shows that a live child has a
  reader. In `ChaosNet` there is one, since a forwarder can meet a closed end.
* One watchdog per run. `teardown` is a scenario step; no scenario has one.
* Thread tags, time stamps, payloads and printing are left out.
* The CPU limit kills with SIGKILL on Linux and SIGXCPU elsewhere; the model
  has one status `"cpu"` for both.
* SIGTERM: the child of the TUI is forked after `initscr()`, whose SIGTERM handler
  it inherits; `install_child_handlers` does not reset it. An abort therefore ends
  the child through that handler's `_exit(EXIT_FAILURE)`. ncurses is not part of
  the repository; the handler is modelled by that effect.
* `ChaosIO`: file contents and offsets are left out; `nanosleep` is a step. When
  it is cut short shows only in time, which `Scenarios` has.
* `ChaosNet`: a socket buffer holds `SockBuf` bytes per direction and a write
  waits for room for all its bytes; delays are steps that come late; a unit of
  a program is one byte and its `max_chunk_bytes` is one unit.
* `ChaosMem`: a block header is two cells, and a write is one contiguous piece
  that starts at a block's data or ends there. What is written is neither the
  guard pattern nor a magic; over a size it is any 32-bit number. A walk that a
  wrong size leads beyond the region finds no damage there (the code faults or
  counts one redzone more). A client stops calling once the allocator itself has
  written beyond the region.
* `Session`: a line of the log is the record or notice it is printed from.

## Runs

| Run | Module | Checks | Result |
|---|---|---|---|
| `headless` | `Headless` | types, `EventPipeOpen`, `EarlyExitMeansWatchdog`, `NoLostEvents`, `CrashRecorded`, contract, `WatchdogBoundsRun`, `EndingRunEnds` | holds |
| `headless_crash` | `Headless` | `CrashReported` with a second thread | **violated** |
| `headless_watchdog` | `Headless` | `WatchdogStatus` | **violated** |
| `tui` | `TuiRun` | `QuietMeansDone`, `PollHintHolds`, contract, `AbortEndsRun`, `WatchdogBoundsRun`, `ZombieReaped`; all but the last up to an interrupted poll, `PollHintHolds` throughout | holds |
| `tui_watchdog` | `TuiRun` | `WatchdogAlwaysBoundsRun`, interrupted polls included | **violated** |
| `chaos_io` | `MCChaosIO` | types, `SlotUnique`, `SlotBacked`, `OwnedHasSlot`, `NoFdLeak`, `AccountExact`, `OvershootBounded`, `FileFigures` | holds |
| `chaos_io_quota` | `ChaosIO` | `FileWithinQuota`, two callers | **violated** |
| `net` | `NetScenarios` | `Conserved`, `EofMeansDrained`, `HealTakesHold`, `QuietCloseIsSafe`, `LossFigureExact`, `CloseEnds`, `RunReturns` | holds |
| `split_brain` | `NetScenarios` | `HearsPeer` | **violated** |
| `programs` | `MCScenarios` | `RaceFloor`, `TimerHandleLive`, `HerdTotals`, `MeasuredTimesSane`, `RunEnds`; `BlocksInArena`, `CheckExact`, `FreedOnceAndReported` | holds |
| `clock_jump` | `Scenarios` | `SafetyNetStops` | **violated** |
| `session` | `MCSession` | `ScreenIsTail`, `StatsExact` | holds |

### What the violated properties show

1. *Crash record* (`runner.c:197`). `SA_RESETHAND` acts on the process. Two
   threads with the same fault: the first enters the handler, the second dies
   by the default action, and with it the process, before the first has
   written. The run ends with the signal and no crash record.
2. *Watchdog status* (`chaos_thread.c:142`). The watchdog is never disarmed. It
   can fire between DONE and `_exit`; the child then exits with 2 although the
   parent saw no watchdog record.
3. *Interrupted poll* (`tui.c:467`). `poll` is not restarted after a signal
   handler, so a resize ends the loop and the TUI blocks in `waitpid`. From
   then on `q` is not read, and nobody drains the pipe: when it is full the
   watchdog blocks too, and parent and child wait for each other.
4. *Quota* (`chaos_io.c:86`). Check and accounting are separate critical
   sections. `OvershootBounded` says how far it can go: the quota times the
   number of callers.
5. *Split brain* (`split_brain.c:90`). Replica 1 sends on `fd_a` and receives on
   `fd_b`, which is where the forwarder takes what was sent on `fd_a`. Each
   replica hears itself, and the counts it shows as its peer's are its own.
6. *Clock jump* (`clock_jump.c:17`). The scenario promises that after the clock is
   set back the check "becomes false forever" (`:48`) and the "loop runs past
   intended deadline (safety net stops it)" (`:49`). The difference is unsigned,
   wraps, and *ends* the loop at the next check, early. The golden output prints
   1000 iterations and "(safety net engaged)", a net that acts at 100000000.
   `JumpEndsLoop`, which is proved, says what happens instead.

### What the passing properties show that is not obvious

* `RaceFloor`: the smallest final value is 2, for any number of writers and
  writes. It is not the number of writes of one writer, and 3 is refuted.
* `MeasuredTimesSane`: `chaos_io_fsync` ignores that its `nanosleep` was
  interrupted (`chaos_io.c:118`). In the TUI a resize signals the child too, so
  `slow_fsync` may report less than its 1500 ms, and a heartbeat of
  `flaky_environment` may come out below zero, which prints as a tick of 2^64 ns.
  The property says that both need such a signal during the fsync (a signal
  during the sleep that follows does no harm), that what `slow_fsync` reports is
  true all the same, and that the step back is less than the jitter.
* `FileFigures`: an ENOSPC below the quota is one of the file system's own.
* `HealTakesHold`: after `chaos_net_set_knobs` each direction may still drop up
  to one forwarder buffer by the old knobs, since a snapshot serves a whole
  read.
* `QuietCloseIsSafe`: `chaos_net_close` with bytes in flight can kill the
  process with SIGPIPE; with none in flight it cannot.
* `TimerHandleLive`: the cancel timer is safe in its one use because the copier
  ends only by `pthread_cancel`, after which the timer does not touch the
  handle. A thread that returned early, or polled the stop flag, would break it.
* `RunEnds` exempts two cases (`Unguarded`): a watchdog or a cancel timer whose
  thread cannot be created. Both failures are ignored, and the run then hangs.
* `BlocksInArena` says how far the header's "All allocations within the arena are
  bounded by it - corruption stays inside the arena" (`chaos_mem.h:11-13`) is true.
  It fails in two cases, which the property names: a request whose block size
  wraps or exceeds 32 bits (blocks then overlap), and a free of a block whose
  size was written over (`chaos_mem.c:94` then poisons as much as the header says,
  beyond the region too). No scenario does either.
* `CheckExact`: after an overrun reached a size the walk of `chaos_arena_check`
  goes astray and its count may be wrong, but it never returns 0: the redzone next
  to the size is checked before the size is followed, and an overrun from below
  has hit the end redzone or the magic of a block that the walk comes to first.
* `ScreenIsTail` is about the layout the windows have. A resize during a run or
  a lesson is swallowed and the layout stays behind the terminal.

### Bounds

`PipeCap` is 256 in the kernel (64 KiB) and 1 or 2 here: a full pipe with one
record already blocks every writer, and two let order matter. `MaxEvents`
bounds the records counted when a scenario emits; it exceeds `PipeCap` in the
passing runs, so the pipe fills, drains and fills again. The main thread and a
worker give the second fault and the writer that outlives DONE; the TUI runs
have the main thread and the watchdog only, since the threads of the child are
the same module and the TUI adds the keyboard and the interruptions.

In `chaos_io` three descriptors over two slots fill the table and reuse numbers
and slots; `MaxFile` is above the overshoot bound, so the bound is not what
keeps files small. `AnyBytes` bounds the bytes of all files together under the
client that makes any call; one more than the overshoot bound of a file is
enough for two files to be in use. `Rounds` is the number of writes of
`disk_full`, with a quota below it. Callers and descriptors are
interchangeable. The run uses `ConfigFirst` (a quota is set before the first
write, as every scenario does) and no `Overlap` (no close during a call on the
same descriptor), which `AccountExact` and `OvershootBounded` need; the
theorems about the table hold without either.

In `net` a forwarder's buffer takes 2 bytes and a socket 3, with 3 bytes to
send: a read takes several chunks, a socket fills, and a stream needs two reads.
Two ticks of a replica lie on both sides of the heal. The client that makes any
call has one thread blocked in `read`, at end b.

In `programs` the arena holds two guarded blocks; sizes 25 and 31 wrap a `size_t`
of 32, 5 is cut to 0 in a `uint32_t` of 5, and 1 and 2 fall on both sides of
the rounding. Writes are as long as the region allows. The layout is periodic, so
two blocks (`MaxBlocks`) show what an overrun does to a neighbour and what the
walk does behind it; two writes (`MaxWrites`) damage two places, with frees before,
between and after them (three pass as well, in more time than a run should take;
the theorems have any number). What the child before did makes no difference to
one with an arena, so the arena follows one such child only.

There are three threads with two iterations each, which is what
the floor of 2 needs (the theorem has every other number), a clock that wraps
at 64, a jump longer than the timeout, and steps that may be late (`Lags`) by
less or by more than the jump. Sleeps are cut at any point.

In `session` three scenarios meet a registry of two, four lines per run
(`MaxLines`) a ring of two and a table of two rows; windows of height 6 and 8
show one line and two.

### Fairness

The parent and the child's straight-line code are weakly fair: they run until
their next blocking call. Blocking pipe writes are strongly fair: the kernel
wakes the waiting writers of a pipe in turn. A pending SIGTERM is delivered and
its handler, which does nothing that blocks on the pipe, ends the child.
The watchdog's sleep ends. Scenario code (in `Runner`) and the user owe
nothing: the liveness properties hold even if the scenario hangs. In
`NetScenarios` and `Scenarios` each thread is weakly fair: it goes on as long as
it can, and sleeps, `poll` with a timeout and `fsync` return. `RunEnds` needs no
fairness of mutexes: no thread takes the same mutex for ever. The client that
makes any call owes nothing; once it is in `chaos_net_close` it goes on.

## Proofs

All theorems hold for every value of the constants that satisfies the named
assumptions, which say only what the code's own definitions do:

* `RunnerAssumption`: thread names are distinct, a pipe holds at least one
  record, the handled signals are none of the other statuses.
* `IOAssumption`, `NoFdAssumption`, `FileAssumption`: types of the parameters, a
  finite number of callers, "no descriptor" is no descriptor.
* `NetAssumption`, `ClientAssumption`: types; a forwarder's buffer takes at least a
  byte and fits a socket.
* `MemAssumption`: a mapped arena, and a block of a 32-bit size, are at most half
  of the range of `size_t`; the one block of a program fits its arena.
* `ThreadAssumption`: at least two writers and two writes.
* `TimeAssumption`: the jump, the timeouts, the delays and the longest time the
  scheduler holds a thread up fit the clock, which wraps after 584 years.
* `SessionAssumption`: registry, ring, table and terminal are not empty; the
  numbers of records are integers.

### The runner and its front ends

`RunnerProof` proves `RunInv` for every step of the child and of the calls the
parent makes, whichever front end makes them:

* `ProcessEnds` - a child that is not live has no thread and no write end, so
  nothing can write, die or exit twice, and EOF cannot precede a record;
* `DoneSent` - a scenario that returned has its DONE among the records sent, read
  or not;
* `CrashSent` - a handler that is about to re-raise has put its record there;
* `ThreadPlaces` - only the main thread runs the harness code.

`HeadlessProof` adds `Lifecycle` (the parent's place goes with the child's life)
and `Accounted` (the loop is left only with DONE or at EOF). It proves `TypeOK`,
`EventPipeOpen`, `EarlyExitMeansWatchdog`, `NoLostEvents` and `CrashRecorded`;
`EarlyExitMeansWatchdog` and `NoLostEvents` need `Accounted` to be inductive,
`CrashRecorded` needs `CrashSent`. `TuiProof` adds
`HintStays` (what `poll` saw is still there when it is acted upon, since the
parent is the only reader) and `LoopLeft` (how the loop was left), and proves
`PollHintHolds` and `QuietMeansDone`.

Both prove that they implement `RunContract`, step by step: `Phase`, `Outcome`
and `Sent` say how each kind of step looks through the mapping (a record is
written, taken, the child ends, the child is reaped, or nothing changes). The
TUI does so until a signal cuts its poll short. Of a child that exits with 1 it
cannot tell whether the scenario failed or SIGTERM's handler ended it; if SIGTERM
was sent the mapping takes it for aborted, and `DoneSent` is needed of the others
only.

`SessionProof` proves `ScreenIsTail` from `Ring` (the ring holds the last
`LOG_LINES` lines, line `j` at `(j - 1) % LOG_LINES`; `RingPlaces` shows that the
line `log_pushf` overwrites is no longer one of them), `Begun` (the first line
names the run) and `Drawn` (outside a run the pane is up to date). `Selected`
keeps the menu's index inside the registry.

It proves `StatsExact` from `Table`. `Counted` says that there are as many rows as
lines that find room, and that below the limit every first line of a pair does:
without that a pair dropped earlier could be taken for a new one. `OneRowEach` says
that no two rows are for the same pair, so that the first match of `stat_upsert` is
the only one, and that the row of a pair sums up its lines (`SumsUp`: the sum of a
counter, the last value, extremes that are among the numbers and bound them all).
`SumsUp` demands `touched` of a gauge only: the extremes of another row may come from
an earlier run, and no one reads them. The lemmas `GrowOf`, `GrowFirsts`, `GrowKept`,
`OldTotal` and `NewTotal` say what one more line does to each part of the
specification. `TableKept`, `TableUpdate` and `TableInsert` then are the ways a line
can go. The sum is a recursive function, treated like `CheckFrom` below: sums up
to `n` lines exist (`AddsExists`, by the least length at which they would not) and
any two agree (`TotalIs`).

### chaos_io

`ChaosIOProof` proves `TypeOK`, `SlotUnique`, `SlotBacked`, `OwnedHasSlot` and
`NoFdLeak`, with overlapping closes allowed. The strengthening is `SlotOwned`
(slots in use are those of owned descriptors) and `PendingOk` (a descriptor in
the hands of an unfinished open or close is open, not owned, and in one call
only). `FindAll` shows that `find_locked`'s first match is its only one.

`AccountExact` and `OvershootBounded` are about sums over the callers. A sum is
the cardinality of a set of pairs (caller, byte), so that the theorems about
finite sets do the work of an induction (`BytesChange`, `BytesMono`,
`BytesButOne`). `AccInv` says: the file is what was accounted and what waits to
be (`Counted`); under a quota, what was accounted and let through is at most one
quota per caller (`Granting`): a caller is let through with at most what the
quota leaves, and before that it had nothing under way. Both assume no `Overlap`:
otherwise a late account may hit the slot of another file with the same number.
`OvershootBounded` also assumes `ConfigFirst`.

`FileFigures` is proved from `FileInv`: a program has the table to itself
(`Solo`, `Stage`), and its total, the slot's count and the file agree (`Disk`,
`Partial`); an ENOSPC that was not the quota's has set `sysfull`. `FileClientsAreClients` shows that the programs take only steps of
`ChaosIO`, so its theorems apply to them.

### chaos_net

`NetProof` keeps one invariant per direction, `DirOK`: the bytes of the two
sockets and the forwarder's buffer form one increasing stream (`StreamOK`),
`Buffered` says what a forwarder holds at each place, `LoopEnd` why it left its
loop, `StaleLeft` that what an old snapshot dropped and may still drop is one
buffer. A forwarder's
step moves bytes within one direction and leaves the other alone, so each step
is proved once for any direction. With the clients' places
(`Lifecycle`, `QuietStays`, `Cascade`) it gives `Conserved`, `EofMeansDrained`,
`HealTakesHold`, `QuietCloseIsSafe` (what was not in flight when
`chaos_net_close` began never is) and `LossFigureExact` of `cascading_failure`
(its receiver left at EOF, hence drained).

### chaos_mem

`MemProof` proves all three invariants of the arena. `MemInv` is enough for
`BlocksInArena`: `Laid` says that blocks follow each other below `used`, which no
overrun can change; `Magics` that a live magic is that of a block, so that every
wild pointer is refused; `Freed` that a freed magic never turns live again; `Sized`
that a size is right as long as neither it nor one in front of it was written over
(`Trusted`): a free that trusts a wrong size writes upwards only. With all sizes
intact a free poisons its own block and nothing else (`Contained`). `Dangling`
follows `double_free` and `uaf_callback`.

`CheckExact` needs more. `CheckFrom` is a recursive function, so it has to be shown
first that a function with its equation exists (`WalkExists`): the walk only goes
up, so a solution is built cell by cell downwards from `used`, and the least cell
at which that fails would have a lower neighbour at which it does not
(`LeastNat`, which stands for the induction). `WalkInv` then adds that the blocks
leave no gap (`Packed`), that what a client wrote over reads wrong, that a size is
reached only over the magic before it or the redzone behind it, and that up to the
first size that was written over nothing else reads wrong (`Zoned`). Along the blocks, from the last to
the first, the walk's result is the number of redzones hit so far, because no two
blocks share one (`WalkBack`, `WalkFinds`). With sizes written over, the walk is
right up to the first of them and what it meets there, or before it, is damaged:
`NeverClean` shows that the count is then not 0. `Corrupting` follows `arena_corrupt`:
its overrun hits the redzone behind its block and nothing else that is checked, so
by `CheckExact` its scan returns 1. That completes `FreedOnceAndReported`.

### The scenarios

`ScenariosProof` proves, for any number of threads and iterations:

* `RaceFloor`, from `RaceInv`. A writer that has stored once holds at least 1 and
  so does the counter (`Stored`), because every later store adds to a value that
  was loaded after the first store or kept from it. The writer that ends last
  stores for at least the second time, so it stores at least 2 (`Floor`).
  `Crewed` says that `run()` returns 0 only when every writer has ended.
* `TimerHandleLive`, from `TimerInv`: only `thread_cancel_midwrite` has a timer,
  and its copier has ended only if the timer is past its last use of the handle;
  a join frees a handle only when the thread has ended.
* `HerdTotals`, from `HerdInv`: the total is the number of iterations done
  (`Summed`, again the size of a set of pairs), because the mutex excludes
  (`Exclusive`) and a worker that ended has done them all (`Looping`).
* `JumpEndsLoop` (no run checks it; the run `clock_jump` refutes the scenario's own
  claim), from `Jumping`: the skew is known from the loop count, and by
  `ModDifference` the unsigned difference of two readings is the true one modulo
  the width, so after the jump it is larger than any timeout.
* `MeasuredTimesSane`, from `Syncing` and `Beating`, which bound the distance of
  two readings by delay, jitter and lag: without a cut the fsync between two
  readings outweighs the jitter, with one only the jitter is left.

### Only model-checked

* Liveness: `WatchdogBoundsRun`, `EndingRunEnds`, `AbortEndsRun`, `ZombieReaped`,
  `CloseEnds`, `RunReturns`, `RunEnds`. Fairness is out of the prover's reach.

## Plan

Every invariant and refinement the passing runs check is proved.
What is left is beyond the prover (liveness) or not modelled (below).

## Not modelled

* `rand.c`: pure 64-bit arithmetic; its users take any value of its range.
* `connection_reset.c`: a raw socket pair without the chaos library; what it
  shows is the kernel's answer to a close.
* `jittery_timer.c`: measures `nanosleep` and keeps no state that could be wrong.
* `crash_null_deref.c`: a store through NULL, which is `Runner`'s fault step.
* Failures of `pthread_create` in `cascading_failure.c:74`, `flaky_environment.c:62`
  and `split_brain.c:95-96`: they are ignored, and the program then joins an
  uninitialised `pthread_t`, whose outcome is undefined. (`race_counter`,
  `thread_cancel_midwrite`, `thundering_herd` and the chaos calls check theirs, and
  those failures are modelled.)
* A forwarder's `read` that fails (`chaos_net.c`): it ends the forwarder like EOF.
  A signal to the process is taken by the main thread, which blocks none, and an
  open socket gives a forwarder no other error.
* `chaos_thread_should_stop`, `chaos_thread_inject_delay`: no scenario calls them.
* Command line parsing, `--list`, `pg_registry_find`, JSON escaping, drawing,
  colours and layout beyond the number of lines a pane shows.
* Tests, golden files, build files and the scaffolding script.
