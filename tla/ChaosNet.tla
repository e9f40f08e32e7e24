------------------------------- MODULE ChaosNet -------------------------------
(***************************************************************************)
(* src/chaos/chaos_net.c: a socket pair whose bytes pass through two       *)
(* forwarder threads that lose and fragment them.  A byte is its position  *)
(* among the bytes its sender wrote; delays are steps that come late.      *)
(***************************************************************************)
EXTENDS Integers, Sequences, FiniteSets, SequencesExt

CONSTANTS
    BufMax,     \* sizeof(buf) of forward_fn
    SockBuf     \* bytes a socket buffers

ASSUME NetAssumption == BufMax \in Nat \ {0} /\ SockBuf \in Nat /\ BufMax <= SockBuf

VARIABLES
    knobs,      \* I->knobs
    inq,        \* bytes a user wrote, waiting in the proxy's socket
    outq,       \* bytes a forwarder wrote, waiting in the user's socket
    fw,         \* the forwarders: pc, the unsent part of buf, the snapshot k
    shut,       \* directions whose forwarder has called shutdown(SHUT_WR)
    file,       \* the users' ends: open, closing (a read still holds it), released
    reading,    \* ends a user thread is blocked in read(2) on
    cpc,        \* where chaos_net_pair or chaos_net_close is
    alive,      \* FALSE once SIGPIPE killed the process
    sent,       \* history: how many bytes each direction was given
    rcvd,       \* history: the bytes that were read at the far end
    lost,       \* history: the bytes the proxy dropped
    stale,      \* history: bytes dropped under an old snapshot since set_knobs
    quiet       \* history: nothing was in flight when chaos_net_close began

ends    == <<file, reading>>
call    == <<knobs, cpc, quiet>>
hist    == <<sent, rcvd, lost, stale>>
netVars == <<ends, call, hist, inq, outq, fw, shut, alive>>

Ends   == {"a", "b"}
Dirs   == {"ab", "ba"}
Src(d) == IF d = "ab" THEN "a" ELSE "b"
Dst(d) == IF d = "ab" THEN "b" ELSE "a"
To(e)   == CHOOSE d \in Dirs : Dst(d) = e
From(e) == CHOOSE d \in Dirs : Src(d) = e

\* loss_prob is 0, in between, or 1; max_chunk_bytes of 0 means no fragmentation.
Knobs == [loss : {"none", "some", "all"}, chunk : 0..BufMax]

Least(m, n) == IF m < n THEN m ELSE n

NetInit ==
    /\ knobs = [loss |-> "none", chunk |-> 0]
    /\ inq = [d \in Dirs |-> <<>>] /\ outq = [d \in Dirs |-> <<>>]
    /\ fw = [d \in Dirs |-> [pc |-> "none", buf |-> <<>>, k |-> knobs]]
    /\ shut = {} /\ file = [e \in Ends |-> "open"] /\ reading = {}
    /\ cpc = "none" /\ alive = TRUE
    /\ sent = [d \in Dirs |-> 0] /\ rcvd = [d \in Dirs |-> <<>>]
    /\ lost = [d \in Dirs |-> {}] /\ stale = [d \in Dirs |-> 0] /\ quiet = FALSE

----------------------------------------------------------------------------
(* forward_fn *)

At(d, pc) == alive /\ fw[d].pc = pc

\* read(src_fd, buf, sizeof buf)
fw_read(d) ==
    /\ At(d, "read") /\ inq[d] # <<>>
    /\ LET n == Least(BufMax, Len(inq[d])) IN
       /\ fw'  = [fw EXCEPT ![d].pc = "snap", ![d].buf = SubSeq(inq[d], 1, n)]
       /\ inq' = [inq EXCEPT ![d] = SubSeq(@, n + 1, Len(@))]
    /\ UNCHANGED <<ends, call, hist, outq, shut, alive>>

\* Mutant: a closed source ends the loop although bytes wait.
fw_eof_early(d) ==
    /\ At(d, "read") /\ file[Src(d)] = "released"
    /\ fw' = [fw EXCEPT ![d].pc = "shut"]
    /\ UNCHANGED <<ends, call, hist, inq, outq, shut, alive>>

\* Mutant: n < 0 ends the loop; end of file is read again and again.
fw_eof_spins(d) == At(d, "read") /\ inq[d] = <<>> /\ file[Src(d)] = "released" /\ UNCHANGED netVars

\* n <= 0: end of file, once all that was written has been read.
fw_eof(d) ==
    /\ At(d, "read") /\ inq[d] = <<>> /\ file[Src(d)] = "released"
    /\ fw' = [fw EXCEPT ![d].pc = "shut"]
    /\ UNCHANGED <<ends, call, hist, inq, outq, shut, alive>>

\* Mutant: the knobs are copied when the thread starts and never again.
fw_snap_once(d) ==
    /\ At(d, "snap")
    /\ fw' = [fw EXCEPT ![d].pc = "chunk", ![d].k = IF rcvd[d] = <<>> /\ lost[d] = {} THEN knobs ELSE @]
    /\ UNCHANGED <<ends, call, hist, inq, outq, shut, alive>>

\* The snapshot under knobs_mu.
fw_snap(d) ==
    /\ At(d, "snap")
    /\ fw' = [fw EXCEPT ![d].pc = "chunk", ![d].k = knobs]
    /\ UNCHANGED <<ends, call, hist, inq, outq, shut, alive>>

\* "this": the length of the next chunk.
This(d) == LET n == Len(fw[d].buf) IN
           IF fw[d].k.chunk > 0 THEN Least(fw[d].k.chunk, n) ELSE n

\* off += this; the inner loop ends when the buffer is used up.
Advance(d) ==
    fw' = [fw EXCEPT ![d].buf = SubSeq(@, This(d) + 1, Len(@)),
                     ![d].pc  = IF This(d) = Len(fw[d].buf) THEN "read" ELSE "chunk"]

\* Mutant: a lost chunk is not skipped but tried again.
fw_drop_keeps(d) ==
    /\ At(d, "chunk") /\ fw[d].k.loss # "none"
    /\ lost'  = [lost EXCEPT ![d] = @ \cup ToSet(SubSeq(fw[d].buf, 1, This(d)))]
    /\ UNCHANGED <<ends, call, inq, outq, fw, shut, alive, sent, rcvd, stale>>

\* rand_unit < loss_prob, which is always so when loss_prob is 1.
fw_drop(d) ==
    /\ At(d, "chunk") /\ fw[d].k.loss # "none"
    /\ Advance(d)
    /\ lost'  = [lost EXCEPT ![d] = @ \cup ToSet(SubSeq(fw[d].buf, 1, This(d)))]
    /\ stale' = [stale EXCEPT ![d] = @ + IF fw[d].k = knobs THEN 0 ELSE This(d)]
    /\ UNCHANGED <<ends, call, inq, outq, shut, alive, sent, rcvd>>

\* The chunk is kept; apply_delay follows.
fw_keep(d) ==
    /\ At(d, "chunk") /\ fw[d].k.loss # "all"
    /\ fw' = [fw EXCEPT ![d].pc = "send"]
    /\ UNCHANGED <<ends, call, hist, inq, outq, shut, alive>>

\* Mutant: the chunk jumps the queue.
fw_send_front(d) ==
    /\ At(d, "send") /\ file[Dst(d)] # "released" /\ Len(outq[d]) + This(d) <= SockBuf
    /\ outq' = [outq EXCEPT ![d] = SubSeq(fw[d].buf, 1, This(d)) \o @]
    /\ Advance(d)
    /\ UNCHANGED <<ends, call, hist, inq, shut, alive>>

\* write(dst_fd, buf + off, this), once the socket has room.
fw_send(d) ==
    /\ At(d, "send") /\ file[Dst(d)] # "released" /\ Len(outq[d]) + This(d) <= SockBuf
    /\ outq' = [outq EXCEPT ![d] = @ \o SubSeq(fw[d].buf, 1, This(d))]
    /\ Advance(d)
    /\ UNCHANGED <<ends, call, hist, inq, shut, alive>>

\* The destination is gone: SIGPIPE kills the process, or write fails (ECONNRESET
\* if unread bytes were thrown away, EPIPE where SIGPIPE is ignored): goto out.
fw_epipe(d) ==
    /\ At(d, "send") /\ file[Dst(d)] = "released"
    /\ alive' \in BOOLEAN
    /\ fw' = [fw EXCEPT ![d].pc = "shut", ![d].buf = <<>>]
    /\ UNCHANGED <<ends, call, hist, inq, outq, shut>>

\* out: shutdown(dst_fd, SHUT_WR)
fw_shut(d) ==
    /\ At(d, "shut")
    /\ shut' = shut \cup {d}
    /\ fw' = [fw EXCEPT ![d].pc = "done"]
    /\ UNCHANGED <<ends, call, hist, inq, outq, alive>>

forward_fn(d) ==
    fw_read(d) \/ fw_eof(d) \/ fw_snap(d) \/ fw_drop(d) \/ fw_keep(d)
        \/ fw_send(d) \/ fw_epipe(d) \/ fw_shut(d)
----------------------------------------------------------------------------
(* Socket calls of the users: external, as the scenarios use them. *)

\* write(fd, .., n) on end e, once the socket has room.
user_write(e, n) ==
    LET d == From(e) IN
    /\ alive /\ file[e] = "open" /\ Len(inq[d]) + n <= SockBuf
    /\ inq'  = [inq EXCEPT ![d] = @ \o [j \in 1..n |-> sent[d] + j]]
    /\ sent' = [sent EXCEPT ![d] = @ + n]
    /\ UNCHANGED <<ends, call, outq, fw, shut, alive, rcvd, lost, stale>>

\* read(fd, .., max) with bytes to read.
TakeBytes(e, max) ==
    LET d == To(e)
        n == Least(max, Len(outq[d])) IN
    /\ alive /\ n > 0
    /\ rcvd' = [rcvd EXCEPT ![d] = @ \o SubSeq(outq[d], 1, n)]
    /\ outq' = [outq EXCEPT ![d] = IF file[e] = "open" THEN SubSeq(@, n + 1, Len(@)) ELSE <<>>]
    /\ UNCHANGED <<call, inq, fw, shut, alive, sent, lost, stale>>

\* A read that does not block: after poll, or on an O_NONBLOCK socket.
user_read(e, max) == file[e] = "open" /\ TakeBytes(e, max) /\ UNCHANGED ends

\* The last reference to an end is gone, and with it what nobody read.
Release(S) ==
    /\ file' = [e \in Ends |-> IF e \in S THEN "released" ELSE file[e]]
    /\ outq' = [d \in Dirs |-> IF Dst(d) \in S THEN <<>> ELSE outq[d]]

\* A blocking read: it holds the end from its start to its return.
read_start(e) ==
    /\ alive /\ file[e] = "open" /\ e \notin reading
    /\ reading' = reading \cup {e}
    /\ UNCHANGED <<call, hist, file, inq, outq, fw, shut, alive>>

\* An end that was closed meanwhile goes away when the read returns.
read_bytes(e, max) ==
    /\ e \in reading
    /\ TakeBytes(e, max)
    /\ reading' = reading \ {e}
    /\ file' = [file EXCEPT ![e] = IF @ = "closing" THEN "released" ELSE @]

read_eof(e) ==
    /\ alive /\ e \in reading /\ outq[To(e)] = <<>> /\ To(e) \in shut
    /\ reading' = reading \ {e}
    /\ Release(IF file[e] = "closing" THEN {e} ELSE {})
    /\ UNCHANGED <<call, hist, inq, fw, shut, alive>>

\* close(fd)
CloseEnd(e) ==
    IF file[e] = "open" /\ e \in reading
    THEN file' = [file EXCEPT ![e] = "closing"] /\ UNCHANGED outq
    ELSE Release(IF file[e] = "open" THEN {e} ELSE {})

user_close(e) ==
    /\ alive /\ cpc = "up" /\ file[e] = "open"
    /\ CloseEnd(e)
    /\ UNCHANGED <<call, hist, reading, inq, fw, shut, alive>>

----------------------------------------------------------------------------
(* chaos_net_pair, chaos_net_set_knobs, chaos_net_close *)

Start(D) == fw' = [d \in Dirs |-> IF d \in D THEN [fw[d] EXCEPT !.pc = "read"] ELSE fw[d]]

net_pair(k) ==
    /\ cpc = "none" /\ cpc' = "up" /\ knobs' = k
    /\ Start(Dirs)
    /\ UNCHANGED <<ends, hist, quiet, inq, outq, shut, alive>>

\* A socketpair, calloc or the first pthread_create fails.
net_pair_fails ==
    /\ cpc = "none" /\ cpc' = "failed"
    /\ UNCHANGED <<ends, hist, knobs, quiet, inq, outq, fw, shut, alive>>

\* The second pthread_create fails: shutdown(proxy_a, SHUT_RDWR) ends the first
\* forwarder, which is joined.
net_pair_half ==
    /\ cpc = "none" /\ cpc' = "undo"
    /\ Start({"ab"}) /\ Release({"a"})
    /\ UNCHANGED <<hist, reading, knobs, quiet, inq, shut, alive>>

net_pair_undo ==
    /\ cpc = "undo" /\ fw["ab"].pc = "done" /\ cpc' = "failed"
    /\ UNCHANGED <<ends, hist, knobs, quiet, inq, outq, fw, shut, alive>>

chaos_net_set_knobs(k) ==
    /\ alive /\ cpc = "up"
    /\ knobs' = k
    /\ stale' = [d \in Dirs |-> 0]
    /\ UNCHANGED <<ends, cpc, quiet, sent, rcvd, lost, inq, outq, fw, shut, alive>>

InFlight(d) == sent[d] - Len(rcvd[d]) - Cardinality(lost[d])

net_close_a ==
    /\ alive /\ cpc = "up" /\ cpc' = "close_b"
    /\ CloseEnd("a")
    /\ quiet' = (\A d \in Dirs : InFlight(d) = 0)
    /\ UNCHANGED <<hist, reading, knobs, inq, fw, shut, alive>>

net_close_b ==
    /\ alive /\ cpc = "close_b" /\ cpc' = "join_ab"
    /\ CloseEnd("b")
    /\ UNCHANGED <<hist, reading, knobs, quiet, inq, fw, shut, alive>>

net_join_ab ==
    /\ alive /\ cpc = "join_ab" /\ fw["ab"].pc = "done" /\ cpc' = "join_ba"
    /\ UNCHANGED <<ends, hist, knobs, quiet, inq, outq, fw, shut, alive>>

\* The second join, and the proxies are closed and I is freed.
net_join_ba ==
    /\ alive /\ cpc = "join_ba" /\ fw["ba"].pc = "done" /\ cpc' = "gone"
    /\ UNCHANGED <<ends, hist, knobs, quiet, inq, outq, fw, shut, alive>>

chaos_net_close == net_close_a \/ net_close_b \/ net_join_ab \/ net_join_ba

----------------------------------------------------------------------------
(* Properties *)

Pass(d) == rcvd[d] \o outq[d] \o fw[d].buf \o inq[d]

\* A stream stays a stream: whatever is lost and however it is cut up, the bytes
\* on their way and those received are in the order they were written, none is
\* there twice, and none is missing that the proxy did not drop by its knobs.
Conserved == \A d \in Dirs :
    /\ \A j \in 1..(Len(Pass(d)) - 1) : Pass(d)[j] < Pass(d)[j + 1]
    /\ file[Dst(d)] # "released" => ToSet(Pass(d)) = (1..sent[d]) \ lost[d]

\* EOF at a user's end means that the other end is closed and that nothing the
\* proxy kept is still on its way: a reader that drains to EOF misses no byte.
EofMeansDrained == \A d \in shut : file[Dst(d)] # "released" =>
    file[Src(d)] = "released" /\ inq[d] = <<>> /\ fw[d].buf = <<>>

\* chaos_net_set_knobs takes hold "on the next chunk": the code makes that the
\* next read, so that up to one buffer is still dropped by the old knobs.
HealTakesHold == \A d \in Dirs : stale[d] <= BufMax

\* The process is killed by SIGPIPE only if bytes were on their way when
\* chaos_net_close began: one that has received or lost all it sent is safe.
QuietCloseIsSafe == quiet => alive

\* chaos_net_close returns, although each forwarder waits for a close that it may
\* only notice through the other direction (unless SIGPIPE comes first).
CloseEnds == (cpc = "close_b") ~> (cpc = "gone" \/ ~alive)
=============================================================================
