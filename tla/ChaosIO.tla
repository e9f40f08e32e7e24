------------------------------- MODULE ChaosIO -------------------------------
(***************************************************************************)
(* src/chaos/chaos_io.c: the slot table that carries the per-descriptor    *)
(* knobs, and the calls on it from several threads of a scenario.          *)
(*                                                                         *)
(* Everything done under g_slots_mu in one critical section is one step;   *)
(* the system call before or after it is a step of its own, because the    *)
(* mutex is not held across it.  A file is its length: its bytes are not   *)
(* told apart.  Descriptors are numbers the kernel hands out again once    *)
(* they are closed.                                                        *)
(***************************************************************************)
EXTENDS Naturals, FiniteSets

CONSTANTS
    Callers,       \* threads of the scenario that use the API
    Fds,           \* descriptor numbers the kernel may hand out
    IO_SLOTS_MAX,  \* slots in the table (64 in the code)
    Quotas,        \* arguments of chaos_io_set_quota; 0 disables
    Chunks,        \* arguments of chaos_io_set_partial; 0 disables
    MaxWrite,      \* bound on the size of one write or read
    MaxFile,       \* bound on the length of a file
    ConfigFirst,   \* the scenario sets a quota before the first write, or at any time
    Overlap        \* a descriptor may be closed while another call is using it

ASSUME IOAssumption ==
    /\ IO_SLOTS_MAX \in Nat
    /\ Quotas \subseteq Nat /\ Chunks \subseteq Nat
    /\ MaxWrite \in Nat /\ MaxFile \in Nat
    /\ IsFiniteSet(Callers)
    /\ ConfigFirst \in BOOLEAN /\ Overlap \in BOOLEAN

Slots == 1..IO_SLOTS_MAX
NoFd  == "nofd"

ASSUME NoFdAssumption == NoFd \notin Fds

VARIABLES
    slots,  \* g_slots
    files,  \* the descriptors that are open in the kernel
    size,   \* length of the file behind each descriptor
    owned,  \* descriptors chaos_io_open returned and nobody passed to chaos_io_close
    pc,     \* where each caller is; "idle" between calls
    fd,     \* the descriptor of its call
    n       \* want, and after write(2) the bytes it wrote

vars     == <<slots, files, size, owned, pc, fd, n>>
callVars == <<pc, fd, n>>

EmptySlot == [in_use |-> FALSE, fd |-> NoFd, quota |-> 0, bytes_written |-> 0,
              partial_max |-> 0, slow |-> FALSE]

Init ==
    /\ slots = [i \in Slots |-> EmptySlot]
    /\ files = {} /\ owned = {}
    /\ size = [f \in Fds |-> 0]
    /\ pc = [t \in Callers |-> "idle"]
    /\ fd = [t \in Callers |-> NoFd]
    /\ n = [t \in Callers |-> 0]

----------------------------------------------------------------------------
(* find_locked and alloc_locked: the set that holds the slot, or no slot *)

find_locked(f) ==
    LET match == {i \in Slots : slots[i].in_use /\ slots[i].fd = f}
    IN  {i \in match : \A j \in match : i <= j}

SlotOf(f) == slots[CHOOSE i \in find_locked(f) : TRUE]

free_locked ==
    LET free == {i \in Slots : ~slots[i].in_use}
    IN  {i \in free : \A j \in free : i <= j}

Least(a, b) == IF a <= b THEN a ELSE b

\* A limit of 0 is no limit.
Capped(want, limit) == IF limit > 0 THEN Least(want, limit) ELSE want

Call(t, at, f, k) ==
    /\ pc' = [pc EXCEPT ![t] = at]
    /\ fd' = [fd EXCEPT ![t] = f]
    /\ n'  = [n EXCEPT ![t] = k]

Return(t) == Call(t, "idle", NoFd, 0)

----------------------------------------------------------------------------
(* chaos_io_open *)

\* mkstemp gives a number that is not in use and an empty file; when it fails
\* the call returns -1 and nothing changes.
open_mkstemp(t, f) ==
    /\ pc[t] = "idle" /\ f \notin files
    /\ files' = files \cup {f}
    /\ size' = [size EXCEPT ![f] = 0]
    /\ Call(t, "alloc", f, 0)
    /\ UNCHANGED <<slots, owned>>

\* Mutant: alloc_locked does not mark the slot it takes.
open_alloc_unmarked(t) ==
    /\ pc[t] = "alloc"
    /\ \E i \in free_locked : slots' = [slots EXCEPT ![i] = [EmptySlot EXCEPT !.fd = fd[t]]]
    /\ owned' = owned \cup {fd[t]}
    /\ Return(t)
    /\ UNCHANGED <<files, size>>

\* Mutant: alloc_locked reuses a slot without the memset.
open_alloc_stale(t) ==
    /\ pc[t] = "alloc"
    /\ \E i \in free_locked :
         slots' = [slots EXCEPT ![i] = [@ EXCEPT !.in_use = TRUE, !.fd = fd[t]]]
    /\ owned' = owned \cup {fd[t]}
    /\ Return(t)
    /\ UNCHANGED <<files, size>>

open_alloc(t) ==
    /\ pc[t] = "alloc"
    /\ \E i \in free_locked :
         slots' = [slots EXCEPT ![i] = [EmptySlot EXCEPT !.in_use = TRUE, !.fd = fd[t]]]
    /\ owned' = owned \cup {fd[t]}
    /\ Return(t)
    /\ UNCHANGED <<files, size>>

\* The table is full: EMFILE, and the descriptor is given back.
open_full(t) ==
    /\ pc[t] = "alloc" /\ free_locked = {}
    /\ Call(t, "emfile", fd[t], 0)
    /\ UNCHANGED <<slots, files, size, owned>>

\* Mutant: the error path forgets close(fd).
open_emfile_leaks(t) ==
    /\ pc[t] = "emfile"
    /\ Return(t)
    /\ UNCHANGED <<slots, files, size, owned>>

open_emfile(t) ==
    /\ pc[t] = "emfile"
    /\ files' = files \ {fd[t]}
    /\ Return(t)
    /\ UNCHANGED <<slots, size, owned>>

----------------------------------------------------------------------------
(* chaos_io_write: check under the mutex, write without it, account under it *)

\* Mutant: a quota that is used up is not noticed, and what it leaves wraps.
OverQuota_missed(s) == FALSE

\* Mutant: the write is not cut down to what the quota leaves.
Permit_uncut(s, k) == Capped(k, s.partial_max)

\* The permission for a write of k bytes, by the slot of the descriptor.
QuotaLeft(s) == s.quota - s.bytes_written
OverQuota(s) == s.quota > 0 /\ s.bytes_written >= s.quota
Permit(s, k) == Capped(IF s.quota > 0 THEN Least(k, QuotaLeft(s)) ELSE k, s.partial_max)

\* A quota that is used up returns ENOSPC here and changes nothing.
write_check(t, f, k) ==
    /\ pc[t] = "idle" /\ f \in owned
    /\ \A i \in find_locked(f) : ~OverQuota(slots[i])
    /\ Call(t, "write", f, IF find_locked(f) = {} THEN k ELSE Permit(SlotOf(f), k))
    /\ UNCHANGED <<slots, files, size, owned>>

\* write(2) appends w of the bytes.
write_syscall(t, w) ==
    /\ pc[t] = "write" /\ fd[t] \in files
    /\ w > 0 /\ w <= n[t] /\ size[fd[t]] + w <= MaxFile
    /\ size' = [size EXCEPT ![fd[t]] = @ + w]
    /\ Call(t, "account", fd[t], w)
    /\ UNCHANGED <<slots, files, owned>>

\* write(2) fails, or was asked for nothing: returned as it is.
write_nothing(t) ==
    /\ pc[t] = "write"
    /\ Return(t)
    /\ UNCHANGED <<slots, files, size, owned>>

write_account(t) ==
    /\ pc[t] = "account"
    /\ slots' = [i \in Slots |->
                   IF i \in find_locked(fd[t])
                   THEN [slots[i] EXCEPT !.bytes_written = @ + n[t]]
                   ELSE slots[i]]
    /\ Return(t)
    /\ UNCHANGED <<files, size, owned>>

----------------------------------------------------------------------------
(* chaos_io_read and chaos_io_fsync *)

read_check(t, f, k) ==
    /\ pc[t] = "idle" /\ f \in owned
    /\ Call(t, "read", f, IF find_locked(f) = {} THEN k ELSE Capped(k, SlotOf(f).partial_max))
    /\ UNCHANGED <<slots, files, size, owned>>

fsync_check(t, f) ==
    /\ pc[t] = "idle" /\ f \in owned
    /\ Call(t, IF \E i \in find_locked(f) : slots[i].slow THEN "delay" ELSE "fsync", f, 0)
    /\ UNCHANGED <<slots, files, size, owned>>

\* nanosleep
fsync_delay(t) ==
    /\ pc[t] = "delay"
    /\ Call(t, "fsync", fd[t], 0)
    /\ UNCHANGED <<slots, files, size, owned>>

\* read(2) or fsync(2), which change nothing that is modelled.
read_or_fsync(t) ==
    /\ pc[t] \in {"read", "fsync"}
    /\ Return(t)
    /\ UNCHANGED <<slots, files, size, owned>>

----------------------------------------------------------------------------
(* chaos_io_close: the slot goes first, then the descriptor *)

Busy(f) == \E t \in Callers : pc[t] # "idle" /\ fd[t] = f

\* Mutant: the slot is left in use until after close(fd).
close_slot_late(t, f) ==
    /\ pc[t] = "idle" /\ f \in owned
    /\ Overlap \/ ~Busy(f)
    /\ owned' = owned \ {f}
    /\ Call(t, "close", f, 0)
    /\ UNCHANGED <<slots, files, size>>

close_slot(t, f) ==
    /\ pc[t] = "idle" /\ f \in owned
    /\ Overlap \/ ~Busy(f)
    /\ slots' = [i \in Slots |->
                   IF i \in find_locked(f) THEN [slots[i] EXCEPT !.in_use = FALSE] ELSE slots[i]]
    /\ owned' = owned \ {f}
    /\ Call(t, "close", f, 0)
    /\ UNCHANGED <<files, size>>

close_fd(t) ==
    /\ pc[t] = "close"
    /\ files' = files \ {fd[t]}
    /\ Return(t)
    /\ UNCHANGED <<slots, size, owned>>

----------------------------------------------------------------------------
(* The knobs *)

\* A knob touches the slot of the descriptor and nothing else.
OnSlot(f) == f \in owned /\ UNCHANGED <<files, size, owned>> /\ UNCHANGED callVars

chaos_io_set_quota(f, q) ==
    /\ OnSlot(f)
    /\ ConfigFirst => size[f] = 0 /\ ~Busy(f)
    /\ slots' = [i \in Slots |->
                   IF i \in find_locked(f) THEN [slots[i] EXCEPT !.quota = q] ELSE slots[i]]

chaos_io_set_partial(f, c) ==
    /\ OnSlot(f)
    /\ slots' = [i \in Slots |->
                   IF i \in find_locked(f) THEN [slots[i] EXCEPT !.partial_max = c] ELSE slots[i]]

chaos_io_set_fsync_delay(f, b) ==
    /\ OnSlot(f)
    /\ slots' = [i \in Slots |->
                   IF i \in find_locked(f) THEN [slots[i] EXCEPT !.slow = b] ELSE slots[i]]

----------------------------------------------------------------------------
Next ==
    \/ \E t \in Callers :
         \/ \E f \in Fds : open_mkstemp(t, f)
         \/ open_alloc(t) \/ open_full(t) \/ open_emfile(t)
         \/ \E f \in Fds, k \in 0..MaxWrite : write_check(t, f, k) \/ read_check(t, f, k)
         \/ \E w \in 1..MaxWrite : write_syscall(t, w)
         \/ write_nothing(t) \/ write_account(t)
         \/ \E f \in Fds : fsync_check(t, f)
         \/ fsync_delay(t) \/ read_or_fsync(t)
         \/ \E f \in Fds : close_slot(t, f)
         \/ close_fd(t)
    \/ \E f \in Fds :
         \/ \E q \in Quotas : chaos_io_set_quota(f, q)
         \/ \E c \in Chunks : chaos_io_set_partial(f, c)
         \/ \E b \in BOOLEAN : chaos_io_set_fsync_delay(f, b)

Spec == Init /\ [][Next]_vars

----------------------------------------------------------------------------
(* Properties *)

Slot == [in_use : BOOLEAN, fd : Fds \cup {NoFd}, quota : Nat, bytes_written : Nat,
         partial_max : Nat, slow : BOOLEAN]

\* The table, the kernel's descriptors and every caller's place have their type.
TypeOK ==
    /\ slots \in [Slots -> Slot]
    /\ files \subseteq Fds /\ owned \subseteq Fds
    /\ size \in [Fds -> Nat]
    /\ pc \in [Callers -> {"idle", "alloc", "emfile", "write", "account", "read", "delay",
                           "fsync", "close"}]
    /\ fd \in [Callers -> Fds \cup {NoFd}]
    /\ n \in [Callers -> Nat]

InUse == {i \in Slots : slots[i].in_use}

\* No two slots in use carry the same descriptor, so find_locked's first match
\* is the only one: a number the kernel hands out again after a close has no
\* stale slot, whatever order the threads run in.
SlotUnique == \A i, j \in InUse : slots[i].fd = slots[j].fd => i = j

\* A slot in use belongs to an open descriptor: chaos_io_close frees the slot
\* before the number can be given to someone else.
SlotBacked == \A i \in InUse : slots[i].fd \in files

\* A descriptor chaos_io_open returned always has its slot, so a knob set on it
\* is never silently dropped and a write never escapes its quota unseen.
OwnedHasSlot == \A f \in owned : \E i \in InUse : slots[i].fd = f

\* No descriptor leaks: each open one was returned to the scenario, or a call
\* in progress is about to return it, give it back (EMFILE) or close it.
NoFdLeak ==
    \A f \in files \ owned :
        \E t \in Callers : fd[t] = f /\ pc[t] \in {"alloc", "emfile", "close"}

\* bytes_written never runs ahead of the file, and when no write on the
\* descriptor waits to be accounted it is exactly the file's length.
AccountExact ==
    \A i \in InUse :
        /\ slots[i].bytes_written <= size[slots[i].fd]
        /\ (\A t \in Callers : ~(pc[t] = "account" /\ fd[t] = slots[i].fd)) =>
               slots[i].bytes_written = size[slots[i].fd]

\* "After this many bytes have been written through chaos_io_write, subsequent
\* writes return -1 with errno=ENOSPC": a file never outgrows its quota.
FileWithinQuota ==
    \A i \in InUse : slots[i].quota > 0 => size[slots[i].fd] <= slots[i].quota

\* What the check-then-act in chaos_io_write does guarantee when the quota is
\* set up front: every caller can be let through once, so a file never grows
\* beyond its quota times the number of callers.
OvershootBounded ==
    \A i \in InUse :
        slots[i].quota > 0 => size[slots[i].fd] <= slots[i].quota * Cardinality(Callers)
=============================================================================
