---------------------------- MODULE NetScenarios ----------------------------
(***************************************************************************)
(* The programs that use chaos_net: packet_loss.c, partial_read.c,         *)
(* cascading_failure.c, flaky_environment.c and split_brain.c, and "any",  *)
(* a client that makes every call the header allows in any order.          *)
(***************************************************************************)
EXTENDS ChaosNet

CONSTANTS
    Clients,    \* which of the programs a run starts
    N,          \* how many units a program sends: N, TOTAL, CHUNKS, TICKS
    ITERS,      \* the ticks of a replica of split_brain
    Reader      \* the end at which the "any" client has a thread blocked in read

ASSUME ClientAssumption ==
    /\ Clients \subseteq {"any", "packet_loss", "partial_read", "cascading_failure",
                          "flaky_environment", "split_brain"}
    /\ N \in 1..SockBuf /\ ITERS \in 1..SockBuf /\ Reader \in Ends

VARIABLES
    scen,       \* the program
    pc,         \* where its threads are: main and up to two more
    ret,        \* what run() will return
    heard       \* split_brain: whose count last_peer_count is

clientVars == <<scen, pc, ret, heard>>
vars       == <<netVars, clientVars>>

Replicas == {"t1", "t2"}

Init ==
    /\ NetInit
    /\ scen \in Clients
    /\ pc = [t \in {"main", "t1", "t2"} |-> IF t = "main" THEN "start" ELSE "none"]
    /\ ret = 0 /\ heard = [r \in Replicas |-> "nobody"]

Goes(t, to) == pc' = [pc EXCEPT ![t] = to] /\ UNCHANGED <<scen, ret, heard>>
Stays       == UNCHANGED clientVars
Fails(to)   == pc' = [pc EXCEPT !["main"] = to] /\ ret' = 1 /\ UNCHANGED <<scen, heard>>

\* The knobs each program starts with; a unit is its max_chunk_bytes.
Knobs0 == CASE scen \in {"partial_read", "flaky_environment"} -> [loss |-> "none", chunk |-> 1]
            [] scen = "split_brain"                           -> [loss |-> "all",  chunk |-> 1]
            [] OTHER                                          -> [loss |-> "some", chunk |-> 1]

After(step) ==
    CASE step = "start" -> CASE scen \in {"cascading_failure", "flaky_environment"} -> "io"
                             [] scen = "split_brain"                -> "spawn"
                             [] scen = "any"                        -> "any"
                             [] OTHER                               -> "send"
      [] step = "spawn" -> IF scen = "split_brain" THEN "heal" ELSE "send"
      [] step = "send"  -> CASE scen = "cascading_failure" -> "hup"
                             [] scen = "flaky_environment" -> "close"
                             [] OTHER                      -> "recv"
      [] step = "close" -> IF scen = "flaky_environment" /\ ret = 0 THEN "late" ELSE "end"

----------------------------------------------------------------------------
(* The main thread: run() *)

main_pair ==
    /\ pc["main"] = "start"
    /\ \/ net_pair(Knobs0) /\ Goes("main", After("start"))
       \/ net_pair_fails /\ Fails("end")
       \/ net_pair_half  /\ Fails("undo")

main_undo == pc["main"] = "undo" /\ net_pair_undo /\ Goes("main", "end")

\* chaos_io_open: on failure the pair is closed and run() returns 1.
main_io ==
    /\ alive /\ pc["main"] = "io" /\ UNCHANGED netVars
    /\ Goes("main", "spawn") \/ Fails("close")

main_spawn ==
    /\ alive /\ pc["main"] = "spawn"
    /\ pc' = [t \in DOMAIN pc |-> CASE t = "main" -> After("spawn")
                                    [] t = "t2" /\ scen # "split_brain" -> "none"
                                    [] OTHER -> "run"]
    /\ UNCHANGED netVars /\ UNCHANGED <<scen, ret, heard>>

\* partial_read writes all in one call, the others a unit at a time.
main_send ==
    LET n == IF scen = "partial_read" THEN N ELSE 1 IN
    /\ pc["main"] = "send"
    /\ user_write("a", n)
    /\ IF sent["ab"] + n = N THEN Goes("main", After("send")) ELSE Stays

\* poll finds bytes and read takes them; partial_read stops when it has all.
main_recv ==
    /\ pc["main"] = "recv"
    /\ user_read("b", BufMax)
    /\ IF scen = "partial_read" /\ Len(rcvd'["ab"]) = N THEN Goes("main", "close") ELSE Stays

\* poll(&pf, 1, 200) times out: the forwarder may just have been slow.
main_idle ==
    /\ alive /\ pc["main"] = "recv" /\ outq["ab"] = <<>>
    /\ Goes("main", "close") /\ UNCHANGED netVars

\* cascading_failure closes the sending end so that the receiver sees EOF.
main_hup == pc["main"] = "hup" /\ user_close("a") /\ Goes("main", "join")

\* split_brain heals the partition halfway.
main_heal ==
    /\ pc["main"] = "heal"
    /\ chaos_net_set_knobs([loss |-> "none", chunk |-> 1])
    /\ Goes("main", "join")

main_join ==
    /\ alive /\ pc["main"] = "join" /\ \A t \in Replicas : pc[t] \in {"none", "end"}
    /\ Goes("main", "close") /\ UNCHANGED netVars

main_close ==
    /\ pc["main"] = "close"
    /\ chaos_net_close
    /\ IF cpc' = "gone" THEN Goes("main", After("close")) ELSE Stays

\* flaky_environment joins its drainer after the pair is closed.
main_join_late ==
    /\ alive /\ pc["main"] = "late" /\ pc["t1"] = "end"
    /\ Goes("main", "end") /\ UNCHANGED netVars

Main == \/ main_pair \/ main_undo \/ main_io \/ main_spawn \/ main_send \/ main_recv \/ main_idle
        \/ main_hup \/ main_heal \/ main_join \/ main_close \/ main_join_late

----------------------------------------------------------------------------
(* receiver_fn of cascading_failure and drain_fn of flaky_environment *)

drain_start == pc["t1"] = "run" /\ scen # "split_brain" /\ read_start("b") /\ Goes("t1", "blocked")

\* The descriptor is closed already, or -1: read fails.
drain_badf ==
    /\ alive /\ pc["t1"] = "run" /\ scen # "split_brain" /\ file["b"] # "open"
    /\ Goes("t1", "end") /\ UNCHANGED netVars

drain_bytes ==
    /\ pc["t1"] = "blocked" /\ read_bytes("b", BufMax)
    /\ Goes("t1", IF scen = "cascading_failure" THEN "persist" ELSE "run")

\* chaos_io_write and the slow chaos_io_fsync.
drain_persist == alive /\ pc["t1"] = "persist" /\ Goes("t1", "run") /\ UNCHANGED netVars

drain_eof == pc["t1"] = "blocked" /\ read_eof("b") /\ Goes("t1", "end")

Drain == drain_start \/ drain_badf \/ drain_bytes \/ drain_persist \/ drain_eof

----------------------------------------------------------------------------
(* replica_fn of split_brain: t1 sends on fd_a and receives on fd_b *)

Send(r) == IF r = "t1" THEN "a" ELSE "b"
Recv(r) == IF r = "t1" THEN "b" ELSE "a"

replica_send(r) ==
    /\ scen = "split_brain" /\ pc[r] = "run"
    /\ user_write(Send(r), 1) /\ Goes(r, "drain")

replica_hear(r) ==
    /\ pc[r] = "drain"
    /\ user_read(Recv(r), 1)
    /\ heard' = [heard EXCEPT ![r] = CHOOSE p \in Replicas : From(Send(p)) = To(Recv(r))]
    /\ UNCHANGED <<scen, pc, ret>>

\* EAGAIN: the next tick, or the end of the loop.
replica_tick(r) ==
    /\ alive /\ pc[r] = "drain" /\ outq[To(Recv(r))] = <<>>
    /\ Goes(r, IF sent[From(Send(r))] = ITERS THEN "end" ELSE "run")
    /\ UNCHANGED netVars

Replica(r) == replica_send(r) \/ replica_hear(r) \/ replica_tick(r)

----------------------------------------------------------------------------
(* The "any" client *)

any_call ==
    /\ pc["main"] = "any" /\ cpc = "up"
    /\ Stays
    /\ \/ \E e \in Ends : sent[From(e)] < (IF e = "a" THEN N ELSE 1) /\ user_write(e, 1)
       \/ \E e \in Ends \ {Reader} : user_read(e, BufMax)
       \/ read_start(Reader)
       \/ \E k \in [loss : {"none", "all"}, chunk : {0}] : k # knobs /\ chaos_net_set_knobs(k)
       \/ user_close("a")

any_read == scen = "any" /\ (read_bytes(Reader, BufMax) \/ read_eof(Reader)) /\ Stays

any_close == pc["main"] = "any" /\ alive /\ Goes("main", "close") /\ UNCHANGED netVars

----------------------------------------------------------------------------
Returned    == pc["main"] = "end" \/ ~alive
Terminating == Returned /\ UNCHANGED vars

Next ==
    \/ \E d \in Dirs : forward_fn(d) /\ Stays
    \/ Main \/ Drain
    \/ \E r \in Replicas : Replica(r)
    \/ any_call \/ any_read \/ any_close
    \/ Terminating

\* Every thread goes on as long as it can; nanosleep, poll and fsync return.
Fairness ==
    /\ \A d \in Dirs : WF_vars(forward_fn(d) /\ Stays)
    /\ WF_vars(Main) /\ WF_vars(Drain) /\ WF_vars(any_read)
    /\ \A r \in Replicas : WF_vars(Replica(r))

Spec == Init /\ [][Next]_vars /\ Fairness

----------------------------------------------------------------------------
(* Properties *)

\* run() of every program returns (unless SIGPIPE kills the process), although
\* threads wait for bytes, for EOF, for room and for each other.
RunReturns == scen # "any" ~> Returned

\* cascading_failure: after the join, sent - received is what the proxy dropped,
\* and no more: the receiver drained to EOF, so nothing was cut off by the close.
LossFigureExact ==
    (scen = "cascading_failure" /\ ret = 0 /\ pc["main"] \in {"close", "end"}) =>
        InFlight("ab") = 0 /\ alive

\* split_brain: "publish our count to the peer": what a replica takes for its
\* peer's count came from its peer.
HearsPeer == \A r \in Replicas : heard[r] # r
=============================================================================
