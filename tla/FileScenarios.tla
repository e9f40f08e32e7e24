---------------------------- MODULE FileScenarios ----------------------------
(***************************************************************************)
(* disk_full.c and partial_write.c as clients of ChaosIO: one thread opens *)
(* a file, sets a knob, writes and counts what write returned.  The client *)
(* "any" is ChaosIO's own: every caller makes every call in any order.     *)
(***************************************************************************)
EXTENDS ChaosIO, Functions

CONSTANTS
    Clients,    \* the programs a run starts
    Rounds,     \* writes of disk_full, bytes partial_write has to write
    AnyBytes    \* bound on the bytes in all files under "any"

ASSUME FileAssumption ==
    /\ Clients \subseteq {"any", "disk_full", "partial_write"}
    /\ Rounds \in Nat \ {0} /\ AnyBytes \in Nat /\ Quotas \ {0} # {} /\ Chunks \ {0} # {} /\ MaxWrite > 0

VARIABLES
    scen,       \* the program
    me,         \* its thread; "none" for "any"
    step,       \* open, set, naive, loop, broken, close, end
    left,       \* rounds or bytes that are left
    total,      \* total: what the writes returned
    enospc,     \* enospc_count
    naive,      \* what partial_write's naive call returned, 0 if it failed
    sysfull     \* the file system itself was full: a write(2) failed with ENOSPC

fileVars == <<scen, me, step, left, total, enospc, naive, sysfull>>
allVars  == <<vars, fileVars>>

FileInit ==
    /\ Init
    /\ scen \in Clients /\ me \in IF scen = "any" THEN {"none"} ELSE Callers
    /\ step = "open" /\ left = Rounds /\ total = 0 /\ enospc = 0 /\ naive = 0 /\ sysfull = FALSE

File == CHOOSE f \in owned : TRUE

Goes(to) == step' = to /\ UNCHANGED <<scen, me, left, total, enospc, naive, sysfull>>
Idle     == scen # "any" /\ pc[me] = "idle"

\* chaos_io_open; it fails when mkstemp does.
file_open ==
    /\ scen # "any" /\ step = "open"
    /\ \/ \E f \in Fds : open_mkstemp(me, f) /\ Goes("open")
       \/ open_alloc(me) /\ Goes("set")
       \/ pc[me] = "idle" /\ Goes("end") /\ UNCHANGED vars

file_set ==
    /\ Idle /\ step = "set"
    /\ \/ scen = "disk_full"     /\ (\E q \in Quotas \ {0} : chaos_io_set_quota(File, q))   /\ Goes("loop")
       \/ scen = "partial_write" /\ (\E c \in Chunks \ {0} : chaos_io_set_partial(File, c)) /\ Goes("naive")

\* disk_full writes buffers of one size, partial_write what remains.
file_write ==
    /\ Idle /\ step \in {"naive", "loop"} /\ left > 0
    /\ \E k \in 1..MaxWrite : write_check(me, File, k) /\ (scen = "partial_write" => k = Least(left, MaxWrite))
    /\ UNCHANGED fileVars

\* write returns -1 with ENOSPC: the quota is used up.
file_enospc ==
    /\ Idle /\ step = "loop" /\ left > 0 /\ OverQuota(SlotOf(File))
    /\ enospc' = enospc + 1 /\ left' = left - 1
    /\ UNCHANGED vars /\ UNCHANGED <<scen, me, step, total, naive, sysfull>>

file_syscall == scen # "any" /\ UNCHANGED fileVars /\ \E w \in 1..MaxWrite : write_syscall(me, w)

\* write(2) fails: disk_full goes on, and counts the failure if it is ENOSPC;
\* partial_write's loop ends.
file_write_fails ==
    /\ scen # "any" /\ write_nothing(me)
    /\ step' = IF scen = "partial_write" /\ step = "loop" THEN "broken" ELSE "loop"
    /\ left' = IF scen = "disk_full" THEN left - 1 ELSE left
    /\ \/ UNCHANGED <<enospc, sysfull>>
       \/ scen = "disk_full" /\ enospc' = enospc + 1 /\ sysfull' = TRUE
    /\ UNCHANGED <<scen, me, total, naive>>

\* Mutant: the loop takes every write for a full one.
file_written_naive ==
    /\ scen # "any" /\ write_account(me)
    /\ step' = "loop"
    /\ total' = IF step = "naive" THEN total ELSE total + n[me]
    /\ left' = CASE step = "naive"                             -> left
                 [] step = "loop" /\ scen = "partial_write" -> 0
                 [] step = "loop" /\ scen = "disk_full"     -> left - 1
    /\ naive' = IF step = "naive" THEN n[me] ELSE naive
    /\ UNCHANGED <<scen, me, enospc, sysfull>>

\* write returns w: the naive call is only looked at, the loop goes on behind it.
file_written ==
    /\ scen # "any" /\ write_account(me)
    /\ step' = "loop"
    /\ total' = IF step = "naive" THEN total ELSE total + n[me]
    /\ left' = CASE step = "naive"                             -> left
                 [] step = "loop" /\ scen = "partial_write" -> left - n[me]
                 [] step = "loop" /\ scen = "disk_full"     -> left - 1
    /\ naive' = IF step = "naive" THEN n[me] ELSE naive
    /\ UNCHANGED <<scen, me, enospc, sysfull>>

file_close ==
    \/ Idle /\ (step = "broken" \/ (step = "loop" /\ left = 0)) /\ close_slot(me, File) /\ Goes("close")
    \/ step = "close" /\ close_fd(me) /\ Goes("end")

FileNext ==
    \/ scen = "any" /\ Next /\ FoldFunction(+, 0, size') <= AnyBytes /\ UNCHANGED fileVars
    \/ file_open \/ file_set \/ file_write \/ file_enospc \/ file_syscall \/ file_write_fails
    \/ file_written \/ file_close
    \/ step = "end" /\ UNCHANGED allVars

FileSpec == FileInit /\ [][FileNext]_allVars

----------------------------------------------------------------------------
(* Properties *)

\* What the programs print is true: disk_full's total is the length of the file,
\* never beyond the quota, and unless the file system itself ran full an ENOSPC is
\* met only when the quota is used up to the byte; partial_write's loop writes the
\* whole buffer again behind what its naive call left in the file, which is never
\* more than the limit lets through.
FileFigures ==
    /\ (scen = "disk_full" /\ Idle /\ step = "loop") =>
         /\ total = size[File] /\ total <= SlotOf(File).quota
         /\ enospc > 0 => total = SlotOf(File).quota \/ sysfull
    /\ (scen = "partial_write" /\ Idle /\ step \in {"loop", "broken"}) =>
         /\ size[File] = naive + total /\ naive <= SlotOf(File).partial_max
         /\ total + left = Rounds
=============================================================================
