------------------------------- MODULE Session -------------------------------
(***************************************************************************)
(* The interactive session of src/tui/tui.c around the runs of TuiRun: the *)
(* registry fills the menu, keys select, run, rerun and leave, and what a  *)
(* run shows goes through the log ring and the statistics table, both of   *)
(* which outlive the run.  A log line is the record or the notice it is    *)
(* printed from.  Rows the statistics pane has no room for, colours and    *)
(* the wrapping of the lesson are left out.                                *)
(***************************************************************************)
EXTENDS Integers, Sequences, FiniteSets, FiniteSetsExt, SequencesExt

CONSTANTS
    Scens,       \* the scenarios that are linked in
    PG_REG_MAX,  \* slots of the registry
    Seeds,       \* seeds of a run
    LOG_LINES,   \* lines of the ring
    STATS_MAX,   \* rows of the statistics table
    Heights,     \* heights of the terminal
    Records,     \* records a scenario emits: [kind, key, num]
    MaxLines     \* bound on the lines of a run

ASSUME SessionAssumption ==
    /\ {PG_REG_MAX, LOG_LINES, STATS_MAX} \subseteq Nat \ {0}
    /\ Heights \subseteq Nat \ {0} /\ Heights # {} /\ MaxLines \in Nat
    /\ \A e \in Records : e.num \in Int

VARIABLES
    g_reg,        \* the registry, in the order the constructors ran
    where,        \* load, menu, post, lesson, run, reap or quit
    g_sel, last, g_last_seed,
    aborted,      \* aborted, of the run that is on
    g_log, g_log_count,
    g_stats, g_stats_n,
    term,         \* the height of the terminal
    lay,          \* the height the windows were laid out for
    resized,      \* KEY_RESIZE waits for the next getch
    pane,         \* what the log pane shows
    lines         \* history: every line of the last run

logVars   == <<g_log, g_log_count, lines>>
statVars  == <<g_stats, g_stats_n>>
menuVars  == <<g_sel, last, g_last_seed>>
winVars   == <<term, lay, resized>>
vars == <<g_reg, where, aborted, menuVars, logVars, statVars, winVars, pane>>

StatKinds == {"counter", "gauge", "expect", "actual"}
Notice(k) == [kind |-> k, key |-> "", num |-> 0]
Starting(s, seed) == [kind |-> "starting", key |-> s, num |-> seed]
NoStat    == [key |-> "", value |-> 0, lo |-> 0, hi |-> 0, touched |-> FALSE, kind |-> ""]

Init ==
    /\ g_reg = <<>> /\ where = "load" /\ aborted = FALSE
    /\ g_sel = 0 /\ last = "none" /\ g_last_seed = "none"
    /\ g_log = [i \in 0..LOG_LINES - 1 |-> Notice("")] /\ g_log_count = 0 /\ lines = <<>>
    /\ g_stats = [i \in 1..STATS_MAX |-> NoStat] /\ g_stats_n = 0
    /\ term \in Heights /\ lay = 0 /\ resized = FALSE /\ pane = <<>>

----------------------------------------------------------------------------
(* The ring and the table *)

log_pushf(x) ==
    /\ g_log' = [g_log EXCEPT ![g_log_count % LOG_LINES] = x]
    /\ g_log_count' = g_log_count + 1
    /\ lines' = Append(lines, x)

\* What getmaxyx leaves for lines: two thirds of the rows above the status line,
\* without the box.
viewable(rows) == LET h == ((rows - 1) * 2) \div 3 IN IF h > 2 THEN h - 2 ELSE 0

\* draw_log
Tail_of(log, n, v) ==
    LET start == IF n > v THEN n - v ELSE 0
    IN  [i \in 1..n - start |-> log[(start + i - 1) % LOG_LINES]]

redraw_all == pane' = Tail_of(g_log', g_log_count', viewable(lay'))

RowsOf(kind, key) == {i \in 1..g_stats_n : g_stats[i].kind = kind /\ g_stats[i].key = key}

\* The matching row takes a value; a gauge widens its extremes.
stat_update(i, e) ==
    LET s == g_stats[i]
        g == e.kind = "gauge"
    IN  /\ g_stats' = [g_stats EXCEPT ![i] = [s EXCEPT
              !.value   = IF e.kind = "counter" THEN @ + e.num ELSE e.num,
              !.lo      = IF g /\ (~s.touched \/ e.num < @) THEN e.num ELSE @,
              !.hi      = IF g /\ (~s.touched \/ e.num > @) THEN e.num ELSE @,
              !.touched = @ \/ g]]
        /\ UNCHANGED g_stats_n

\* Mutant: a new gauge widens whatever extremes the row had before.
stat_insert_widens(e) ==
    LET s == g_stats[g_stats_n + 1]
        g == e.kind = "gauge"
    IN  /\ g_stats' = [g_stats EXCEPT ![g_stats_n + 1] =
              [key     |-> e.key, value |-> e.num, kind |-> e.kind,
               lo      |-> IF g /\ (~s.touched \/ e.num < s.lo) THEN e.num ELSE s.lo,
               hi      |-> IF g /\ (~s.touched \/ e.num > s.hi) THEN e.num ELSE s.hi,
               touched |-> s.touched \/ g]]
        /\ g_stats_n' = g_stats_n + 1

\* A new row; one that is no gauge keeps the extremes of the run before.
stat_insert(e) ==
    LET s == g_stats[g_stats_n + 1]
        g == e.kind = "gauge"
    IN  /\ g_stats' = [g_stats EXCEPT ![g_stats_n + 1] =
              [key     |-> e.key, value |-> e.num, kind |-> e.kind,
               lo      |-> IF g THEN e.num ELSE s.lo,
               hi      |-> IF g THEN e.num ELSE s.hi,
               touched |-> s.touched \/ g]]
        /\ g_stats_n' = g_stats_n + 1

\* A full table drops the record.
stat_upsert(e) ==
    LET rows == RowsOf(e.kind, e.key)
    IN  CASE rows # {}             -> stat_update(Min(rows), e)
          [] rows = {} /\ g_stats_n < STATS_MAX -> stat_insert(e)
          [] OTHER                 -> UNCHANGED statVars

\* EXPECTED vs ACTUAL: the actual value next to each expectation, or none.
draw_diff ==
    {[key |-> g_stats[i].key, exp |-> g_stats[i].value,
      act |-> {g_stats[j].value : j \in RowsOf("actual", g_stats[i].key)}] :
        i \in {k \in 1..g_stats_n : g_stats[k].kind = "expect"}}

----------------------------------------------------------------------------
(* run_scenario *)

\* Mutant: log_clear is not called.
run_begins_kept(s, seed) ==
    /\ g_log' = [g_log EXCEPT ![g_log_count % LOG_LINES] = Starting(s, seed)]
    /\ g_log_count' = g_log_count + 1 /\ lines' = <<Starting(s, seed)>>
    /\ g_stats_n' = 0 /\ g_last_seed' = seed
    /\ aborted' = FALSE
    /\ UNCHANGED <<g_stats, g_reg, g_sel, winVars>>

\* log_clear, stats_clear and the first line.
run_begins(s, seed) ==
    /\ g_log' = [g_log EXCEPT ![0] = Starting(s, seed)]
    /\ g_log_count' = 1 /\ lines' = <<Starting(s, seed)>>
    /\ g_stats_n' = 0 /\ g_last_seed' = seed
    /\ aborted' = FALSE
    /\ UNCHANGED <<g_stats, g_reg, g_sel, winVars>>

run_scenario(s, seed) == run_begins(s, seed) /\ redraw_all /\ where' = "run"

\* pg_run_start failed; back in tui_run.
run_refused ==
    /\ where = "run" /\ Len(lines) = 1
    /\ log_pushf(Notice("failed")) /\ where' = "post"
    /\ UNCHANGED <<g_reg, aborted, menuVars, statVars, winVars>> /\ redraw_all

\* q: the line waits for the next redraw.
run_abort ==
    /\ where = "run" /\ ~aborted /\ ~resized /\ Len(lines) < MaxLines
    /\ log_pushf(Notice("aborted")) /\ aborted' = TRUE
    /\ UNCHANGED <<g_reg, where, menuVars, statVars, winVars, pane>>

\* getch returns KEY_RESIZE to the loop, which ignores it.
run_resize_lost ==
    /\ where = "run" /\ resized /\ resized' = FALSE
    /\ UNCHANGED <<g_reg, where, aborted, menuVars, logVars, statVars, term, lay, pane>>

run_record(e) ==
    /\ where = "run" /\ Len(lines) < MaxLines
    /\ log_pushf(e)
    /\ IF e.kind \in StatKinds THEN stat_upsert(e) ELSE UNCHANGED statVars
    /\ where' = IF e.kind = "done" THEN "reap" ELSE "run"
    /\ UNCHANGED <<g_reg, aborted, menuVars, winVars>> /\ redraw_all

\* EOF, or a poll that a signal cut short.
run_leaves ==
    /\ where = "run" /\ where' = "reap"
    /\ UNCHANGED <<g_reg, aborted, menuVars, logVars, statVars, winVars, pane>>

\* The child is reaped, a bad status noted, and tui_run draws its screen.
run_reaped ==
    /\ where = "reap"
    /\ \/ log_pushf(Notice("bad status"))
       \/ UNCHANGED logVars
    /\ where' = "post"
    /\ UNCHANGED <<g_reg, aborted, menuVars, statVars, winVars>> /\ redraw_all

----------------------------------------------------------------------------
(* The registry, the keys and the windows *)

\* A constructor runs before main; a full registry drops the scenario.
pg_registry_add(s) ==
    /\ where = "load" /\ s \notin ToSet(g_reg)
    /\ Len(g_reg) < PG_REG_MAX /\ g_reg' = Append(g_reg, s)
    /\ UNCHANGED <<where, aborted, menuVars, logVars, statVars, winVars, pane>>

tui_run ==
    /\ where = "load" /\ where' = "menu"
    /\ lay' = term
    /\ UNCHANGED <<g_reg, aborted, menuVars, logVars, statVars, term, resized>> /\ redraw_all

Key(from, to) ==
    /\ where = from /\ ~resized /\ where' = to
    /\ UNCHANGED <<g_reg, aborted, logVars, statVars, winVars>> /\ redraw_all

key_select ==
    /\ Key("menu", "menu")
    /\ \/ g_sel > 0 /\ g_sel' = g_sel - 1
       \/ g_sel + 1 < Len(g_reg) /\ g_sel' = g_sel + 1
    /\ UNCHANGED <<last, g_last_seed>>

\* ENTER on a scenario: it runs with the time for a seed.
key_run ==
    /\ where = "menu" /\ ~resized /\ g_reg # <<>>
    /\ last' = g_reg[g_sel + 1]
    /\ \E t \in Seeds : run_scenario(last', t)

\* r repeats the run, R changes the seed.
key_rerun ==
    /\ where = "post" /\ ~resized /\ last # "none"
    /\ UNCHANGED last
    /\ \/ run_scenario(last, g_last_seed)
       \/ \E t \in Seeds : run_scenario(last, t)

key_lesson == last # "none" /\ Key("post", "lesson") /\ UNCHANGED menuVars
key_back   == Key("post", "menu") /\ UNCHANGED menuVars
key_quit   == \E w \in {"menu", "post"} : Key(w, "quit") /\ UNCHANGED menuVars

\* "press any key": KEY_RESIZE is one.
lesson_closes ==
    /\ where = "lesson" /\ where' = "post" /\ resized' = FALSE
    /\ UNCHANGED <<g_reg, aborted, menuVars, logVars, statVars, term, lay>> /\ redraw_all

key_resize ==
    /\ where \in {"menu", "post"} /\ resized
    /\ lay' = term /\ resized' = FALSE
    /\ UNCHANGED <<g_reg, where, aborted, menuVars, logVars, statVars, term>> /\ redraw_all

user_resizes ==
    /\ where \notin {"load", "quit"}
    /\ \E h \in Heights \ {term} : term' = h
    /\ resized' = TRUE
    /\ UNCHANGED <<g_reg, where, aborted, menuVars, logVars, statVars, lay, pane>>

Next ==
    \/ \E s \in Scens : pg_registry_add(s)
    \/ tui_run \/ key_select \/ key_run \/ key_rerun \/ key_lesson \/ key_back \/ key_quit
    \/ lesson_closes \/ key_resize \/ user_resizes
    \/ run_refused \/ run_abort \/ run_resize_lost \/ run_leaves \/ run_reaped
    \/ \E e \in Records : run_record(e)
    \/ where = "quit" /\ UNCHANGED vars

Spec == Init /\ [][Next]_vars

----------------------------------------------------------------------------
(* Properties *)

\* Whenever the session waits for a key, the log pane shows the last lines of the
\* last run, in order, as many as fit, and no line of an earlier run - however
\* often the ring went round and the window changed, as long as the window is no
\* higher than the ring.  The first line names the scenario r would repeat.
ScreenIsTail ==
    (where \in {"menu", "post"} /\ ~resized /\ viewable(lay) <= LOG_LINES) =>
        LET k == Min({viewable(lay), Len(lines)})
        IN  /\ pane = SubSeq(lines, Len(lines) - k + 1, Len(lines))
            /\ lines # <<>> => lines[1] = Starting(last, g_last_seed)

\* Of the lines of s: those that are statistics, those for the same row as line i,
\* the first for each row, and the first ones that find room in the table.
StatLines(s) == {i \in DOMAIN s : s[i].kind \in StatKinds}
Of(s, i)     == {j \in StatLines(s) : s[j].kind = s[i].kind /\ s[j].key = s[i].key}
Firsts(s)    == {i \in StatLines(s) : \A j \in Of(s, i) : i <= j}
Kept(s)      == {i \in Firsts(s) : Cardinality({j \in Firsts(s) : j < i}) < STATS_MAX}

\* The numbers in the lines at S, and their sum.
Nums(s, S)  == {s[j].num : j \in S}
Total(s, S) ==
    LET upto[k \in 0..Len(s)] == IF k = 0 THEN 0
                                 ELSE upto[k - 1] + (IF k \in S THEN s[k].num ELSE 0)
    IN  upto[Len(s)]

\* The statistics pane is the summary of the records of this run alone: for the
\* first STATS_MAX pairs of kind and key the sum of a counter, the last value and
\* the extremes of a gauge, the last expected and actual value; an expectation is
\* shown as pending only if its actual value did not come or found the table full.
StatsExact ==
    /\ g_stats_n = Cardinality(Kept(lines))
    /\ \A i \in Kept(lines) : \E r \in RowsOf(lines[i].kind, lines[i].key) :
         /\ g_stats[r].value = IF lines[i].kind = "counter" THEN Total(lines, Of(lines, i))
                               ELSE lines[Max(Of(lines, i))].num
         /\ lines[i].kind = "gauge" =>
              /\ g_stats[r].lo = Min(Nums(lines, Of(lines, i)))
              /\ g_stats[r].hi = Max(Nums(lines, Of(lines, i)))
    /\ \A d \in draw_diff : d.act = {} =>
         \/ g_stats_n = STATS_MAX
         \/ ~\E i \in StatLines(lines) : lines[i].kind = "actual" /\ lines[i].key = d.key
=============================================================================
