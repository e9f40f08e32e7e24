---------------------------- MODULE SessionProof ----------------------------
(***************************************************************************)
(* Proofs about Session: the log pane shows the end of the last run and    *)
(* the statistics pane sums up its records, for any size of the ring and   *)
(* of the table, any heights of the terminal, any records and any          *)
(* registry, however often the ring goes round and the table is filled.    *)
(***************************************************************************)
EXTENDS Session, SequenceTheorems, FiniteSetTheorems, WellFoundedInduction, TLAPS

\* The lines a run can push.
Notices   == {Notice(k) : k \in {"failed", "aborted", "bad status"}}
Startings == {Starting(s, d) : s \in Scens \cup {"none"}, d \in Seeds \cup {"none"}}
Line      == Records \cup Notices \cup Startings

SessionTypes ==
    /\ g_reg \in Seq(Scens) /\ last \in Scens \cup {"none"} /\ g_last_seed \in Seeds \cup {"none"}
    /\ lines \in Seq(Line) /\ g_log_count \in Nat
    /\ DOMAIN g_log = 0..LOG_LINES - 1 /\ g_log = [j \in 0..LOG_LINES - 1 |-> g_log[j]]
    /\ term \in Nat /\ lay \in Nat

\* The selection is an entry of the registry, once there is one.
Selected == g_sel \in Nat /\ (g_reg # <<>> => g_sel < Len(g_reg)) /\ (where = "load" => g_sel = 0)

\* The ring holds the last LOG_LINES lines, each at its number modulo the size.
Ring ==
    /\ g_log_count = Len(lines)
    /\ \A j \in 1..Len(lines) : j > Len(lines) - LOG_LINES =>
           g_log[(j - 1) % LOG_LINES] = lines[j]

\* A run starts with its line, which names what r would repeat.
Begun ==
    /\ where \in {"run", "reap"} => lines # <<>>
    /\ lines # <<>> => lines[1] = Starting(last, g_last_seed)

\* Outside a run the pane is up to date.
Drawn == where \in {"menu", "post", "lesson"} => pane = Tail_of(g_log, g_log_count, viewable(lay))

SInv == SessionTypes /\ Selected /\ Ring /\ Begun /\ Drawn

----------------------------------------------------------------------------
\* The remainders of two numbers less than the size apart differ.
LEMMA RingPlaces ==
    ASSUME NEW W \in Nat \ {0}, NEW a \in Nat, NEW b \in Nat, a < b, b - a < W
    PROVE  a % W # b % W
  <1>. DEFINE x == a % W  y == b % W  p == a \div W  q == b \div W
  <1>1. x \in 0..W - 1 /\ y \in 0..W - 1 /\ p \in Int /\ q \in Int /\ a = W * p + x /\ b = W * q + y
    OBVIOUS
  <1>. HIDE DEF x, y, p, q
  <1>2. ASSUME x = y PROVE FALSE
    <2>1. b - a = W * (q - p)
      BY <1>1, <1>2
    <2>2. q - p \in Int /\ W * (q - p) > 0 /\ W * (q - p) < W
      BY <1>1, <2>1
    <2>. QED  BY <2>2
  <1>. QED  BY <1>2 DEF x, y

LEMMA RingIndex ==
    ASSUME NEW a \in Nat
    PROVE  a % LOG_LINES \in 0..LOG_LINES - 1
  BY SessionAssumption

\* log_pushf keeps the ring: the line it overwrites is no longer among the last.
LEMMA PushKeeps ==
    ASSUME SessionTypes, Ring, NEW x \in Line, log_pushf(x)
    PROVE  /\ Ring' /\ lines' \in Seq(Line) /\ g_log_count' \in Nat /\ lines' # <<>>
           /\ DOMAIN g_log' = 0..LOG_LINES - 1 /\ g_log' = [j \in 0..LOG_LINES - 1 |-> g_log'[j]]
           /\ lines # <<>> => lines'[1] = lines[1]
  <1>1. /\ LOG_LINES \in Nat \ {0} /\ g_log_count \in Nat /\ lines \in Seq(Line) /\ Len(lines) \in Nat
        /\ g_log_count = Len(lines)
    BY SessionAssumption DEF SessionTypes, Ring
  <1>2. /\ lines' = Append(lines, x) /\ g_log_count' = g_log_count + 1
        /\ g_log' = [g_log EXCEPT ![g_log_count % LOG_LINES] = x]
    BY DEF log_pushf
  <1>3. /\ lines' \in Seq(Line) /\ Len(lines') = Len(lines) + 1 /\ lines'[Len(lines) + 1] = x
        /\ \A j \in 1..Len(lines) : lines'[j] = lines[j]
    BY <1>1, <1>2
  <1>4. /\ DOMAIN g_log' = 0..LOG_LINES - 1 /\ g_log' = [j \in 0..LOG_LINES - 1 |-> g_log'[j]]
        /\ g_log'[g_log_count % LOG_LINES] = x
        /\ \A i \in 0..LOG_LINES - 1 : i # g_log_count % LOG_LINES => g_log'[i] = g_log[i]
    BY <1>1, <1>2, RingIndex DEF SessionTypes
  <1>5. ASSUME NEW j \in 1..Len(lines'), j > Len(lines') - LOG_LINES
        PROVE  g_log'[(j - 1) % LOG_LINES] = lines'[j]
    <2>1. CASE j = Len(lines) + 1
      BY <1>1, <1>3, <1>4, <2>1
    <2>2. CASE j # Len(lines) + 1
      <3>1. j \in 1..Len(lines) /\ j > Len(lines) - LOG_LINES
        BY <1>1, <1>3, <1>5, <2>2
      <3>2. g_log[(j - 1) % LOG_LINES] = lines[j]
        BY <3>1 DEF Ring
      <3>. DEFINE a == j - 1
      <3>3. a \in Nat /\ a < g_log_count /\ g_log_count - a < LOG_LINES
        BY <1>1, <1>3, <1>5, <3>1
      <3>. HIDE DEF a
      <3>4. a % LOG_LINES # g_log_count % LOG_LINES /\ a % LOG_LINES \in 0..LOG_LINES - 1
        BY <1>1, <3>3, RingPlaces, RingIndex
      <3>5. g_log'[a % LOG_LINES] = g_log[a % LOG_LINES]
        BY <1>4, <3>4
      <3>. QED  BY <1>3, <3>1, <3>2, <3>5 DEF a
    <2>. QED  BY <2>1, <2>2
  <1>6. Ring'
    BY <1>1, <1>2, <1>3, <1>5 DEF Ring
  <1>7. lines' # <<>> /\ (lines # <<>> => lines'[1] = lines[1])
    BY <1>1, <1>3
  <1>. QED  BY <1>1, <1>2, <1>3, <1>4, <1>6, <1>7

LEMMA InitSInv == Init => SInv
  <1>. SUFFICES ASSUME Init PROVE SInv
    OBVIOUS
  <1>1. SessionTypes
    <2>1. /\ g_reg = <<>> /\ lines = <<>> /\ last = "none" /\ g_last_seed = "none" /\ g_log_count = 0
          /\ g_log = [i \in 0..LOG_LINES - 1 |-> Notice("")] /\ term \in Heights /\ lay = 0
      BY DEF Init
    <2>2. g_reg \in Seq(Scens) /\ lines \in Seq(Line)
      <3>1. \A S : <<>> \in Seq(S)
        OBVIOUS
      <3>. QED  BY <2>1, <3>1
    <2>3. DOMAIN g_log = 0..LOG_LINES - 1 /\ g_log = [j \in 0..LOG_LINES - 1 |-> g_log[j]]
      BY <2>1
    <2>4. term \in Nat /\ lay \in Nat /\ g_log_count \in Nat
      BY <2>1, SessionAssumption
    <2>. QED  BY <2>1, <2>2, <2>3, <2>4 DEF SessionTypes
  <1>2. Selected /\ Begun /\ Drawn
    BY DEF Init, Selected, Begun, Drawn
  <1>3. Ring
    <2>1. g_log_count = 0 /\ lines = <<>>
      BY DEF Init
    <2>2. Len(lines) = 0
      BY <2>1
    <2>. QED  BY <2>1, <2>2 DEF Ring
  <1>. QED  BY <1>1, <1>2, <1>3 DEF SInv

\* Steps that push no line and start no run.
LEMMA QuietStep ==
    ASSUME SInv, UNCHANGED logVars, UNCHANGED <<last, g_last_seed>>, SessionTypes', Selected', Drawn',
           where' \in {"run", "reap"} => where \in {"run", "reap"}
    PROVE  SInv'
  BY DEF SInv, logVars, Ring, Begun

\* Steps of a run that push a line.
LEMMA PushStep ==
    ASSUME SInv, NEW x \in Line, log_pushf(x), UNCHANGED <<g_reg, menuVars, term, lay>>,
           where \in {"run", "reap"}, where' # "load", Drawn'
    PROVE  SInv'
  <1>1. UNCHANGED <<g_reg, g_sel, last, g_last_seed, term, lay>>
    BY DEF menuVars
  <1>2. SessionTypes /\ Ring
    BY DEF SInv
  <1>3. SessionTypes' /\ Ring' /\ Selected'
    BY <1>1, <1>2, PushKeeps DEF SInv, SessionTypes, Selected
  <1>4. Begun'
    BY <1>1, <1>2, PushKeeps DEF SInv, Begun
  <1>. QED  BY <1>3, <1>4 DEF SInv

\* run_scenario clears the ring and pushes its first line.
LEMMA RunStep ==
    ASSUME SInv, NEW s \in Scens \cup {"none"}, NEW d \in Seeds \cup {"none"},
           run_scenario(s, d), last' = s
    PROVE  SInv'
  <1>. DEFINE x == Starting(s, d)
  <1>1. /\ g_log' = [g_log EXCEPT ![0] = x] /\ g_log_count' = 1 /\ lines' = <<x>>
        /\ g_last_seed' = d /\ UNCHANGED <<g_reg, g_sel, term, lay>> /\ where' = "run"
    BY DEF run_scenario, run_begins, winVars
  <1>2. x \in Line
    <2>1. x \in Startings
      BY DEF Startings
    <2>. HIDE DEF x
    <2>. QED  BY <2>1 DEF Line
  <1>3. Begun'
    BY <1>1 DEF Begun
  <1>. HIDE DEF x
  <1>4. SessionTypes'
    <2>1. g_log_count' \in Nat /\ lines' \in Seq(Line)
      BY <1>1, <1>2
    <2>2. DOMAIN g_log' = 0..LOG_LINES - 1 /\ g_log' = [j \in 0..LOG_LINES - 1 |-> g_log'[j]]
      BY <1>1 DEF SInv, SessionTypes
    <2>3. last' \in Scens \cup {"none"} /\ g_last_seed' \in Seeds \cup {"none"}
      BY <1>1
    <2>4. g_reg' \in Seq(Scens) /\ term' \in Nat /\ lay' \in Nat
      BY <1>1 DEF SInv, SessionTypes
    <2>. QED  BY <2>1, <2>2, <2>3, <2>4 DEF SessionTypes
  <1>5. Ring'
    <2>1. g_log'[0] = x /\ Len(lines') = 1 /\ lines'[1] = x /\ 0 % LOG_LINES = 0
      BY <1>1, SessionAssumption DEF SInv, SessionTypes
    <2>. QED  BY <1>1, <2>1 DEF Ring
  <1>6. Selected' /\ Drawn'
    BY <1>1 DEF SInv, Selected, Drawn
  <1>. QED  BY <1>3, <1>4, <1>5, <1>6 DEF SInv

LEMMA NextSInv == SInv /\ [Next]_vars => SInv'
  <1>. SUFFICES ASSUME SInv, [Next]_vars PROVE SInv'
    OBVIOUS
  <1>0. SessionTypes /\ Selected /\ Ring /\ Begun /\ Drawn
    BY DEF SInv
  <1>1. ASSUME NEW s \in Scens, pg_registry_add(s) PROVE SInv'
    <2>1. /\ where = "load" /\ where' = "load" /\ g_reg' = Append(g_reg, s)
          /\ UNCHANGED <<g_sel, last, g_last_seed, term, lay, pane>> /\ UNCHANGED logVars
      BY <1>1 DEF pg_registry_add, menuVars, winVars
    <2>2. g_reg' \in Seq(Scens) /\ Len(g_reg') = Len(g_reg) + 1 /\ Len(g_reg) \in Nat
      BY <1>0, <2>1 DEF SessionTypes
    <2>3. SessionTypes' /\ Selected' /\ Drawn'
      BY <1>0, <2>1, <2>2 DEF SessionTypes, Selected, Drawn, logVars
    <2>. QED  BY <2>1, <2>3, QuietStep
  <1>2. ASSUME UNCHANGED <<g_reg, menuVars, logVars>>, where # "load", where' # "load",
               where' \in {"run", "reap"} => where \in {"run", "reap"},
               term' \in Nat, lay' \in Nat, Drawn'
        PROVE  SInv'
    <2>1. UNCHANGED <<g_sel, last, g_last_seed>> /\ UNCHANGED logVars
      BY <1>2 DEF menuVars
    <2>2. SessionTypes' /\ Selected'
      BY <1>0, <1>2, <2>1 DEF SessionTypes, Selected, logVars
    <2>. QED  BY <1>2, <2>1, <2>2, QuietStep
  <1>3. redraw_all => Drawn'
    BY DEF redraw_all, Drawn
  <1>4. term \in Nat /\ lay \in Nat
    BY <1>0 DEF SessionTypes
  <1>5. CASE tui_run
    <2>1. /\ UNCHANGED <<g_reg, g_sel, last, g_last_seed, term>> /\ UNCHANGED logVars
          /\ lay' = term /\ where' = "menu" /\ redraw_all
      BY <1>5 DEF tui_run, menuVars
    <2>2. SessionTypes' /\ Selected'
      BY <1>0, <2>1 DEF SessionTypes, Selected, logVars
    <2>. QED  BY <1>3, <2>1, <2>2, QuietStep
  <1>6. CASE key_select
    <2>1. /\ where = "menu" /\ where' = "menu" /\ UNCHANGED <<g_reg, last, g_last_seed, term, lay>>
          /\ UNCHANGED logVars /\ redraw_all
          /\ (g_sel > 0 /\ g_sel' = g_sel - 1) \/ (g_sel + 1 < Len(g_reg) /\ g_sel' = g_sel + 1)
      BY <1>6 DEF key_select, Key, winVars
    <2>2. SessionTypes' /\ Selected'
      BY <1>0, <2>1 DEF SessionTypes, Selected, logVars
    <2>. QED  BY <1>3, <2>1, <2>2, QuietStep
  <1>7. CASE key_run
    <2>1. PICK d \in Seeds : run_scenario(last', d)
      BY <1>7 DEF key_run
    <2>2. last' \in Scens
      <3>1. g_sel + 1 \in 1..Len(g_reg) /\ last' = g_reg[g_sel + 1] /\ g_reg \in Seq(Scens)
        BY <1>0, <1>7 DEF key_run, Selected, SessionTypes
      <3>. QED  BY <3>1
    <2>. QED  BY <2>1, <2>2, RunStep
  <1>8. CASE key_rerun
    <2>1. PICK d \in Seeds \cup {"none"} : run_scenario(last, d) /\ last' = last
      BY <1>0, <1>8 DEF key_rerun, SessionTypes
    <2>2. last \in Scens \cup {"none"}
      BY <1>0 DEF SessionTypes
    <2>. QED  BY <2>1, <2>2, RunStep
  <1>9. CASE key_lesson \/ key_back \/ key_quit
    <2>1. /\ UNCHANGED <<g_reg, menuVars, logVars>> /\ where \in {"menu", "post"}
          /\ where' \in {"lesson", "menu", "quit"} /\ UNCHANGED <<term, lay>> /\ redraw_all
      BY <1>9 DEF key_lesson, key_back, key_quit, Key, winVars
    <2>. QED  BY <1>2, <1>3, <1>4, <2>1
  <1>10. CASE lesson_closes \/ key_resize
    <2>1. /\ UNCHANGED <<g_reg, menuVars, logVars>> /\ where \in {"menu", "post", "lesson"}
          /\ where' \in {"menu", "post"} /\ term' = term /\ lay' \in {lay, term} /\ redraw_all
      BY <1>10 DEF lesson_closes, key_resize
    <2>. QED  BY <1>2, <1>3, <1>4, <2>1
  <1>11. CASE user_resizes
    <2>1. /\ UNCHANGED <<g_reg, where, menuVars, logVars, lay, pane>> /\ where # "load" /\ term' \in Heights
      BY <1>11 DEF user_resizes
    <2>2. term' \in Nat
      BY <2>1, SessionAssumption
    <2>3. Drawn'
      BY <1>0, <2>1 DEF Drawn, logVars
    <2>. QED  BY <1>2, <1>4, <2>1, <2>2, <2>3
  <1>12. CASE run_resize_lost
    <2>1. /\ UNCHANGED <<g_reg, where, menuVars, logVars, term, lay>> /\ where = "run"
      BY <1>12 DEF run_resize_lost
    <2>. QED  BY <1>2, <1>4, <2>1 DEF Drawn
  <1>13. CASE run_leaves
    <2>1. /\ UNCHANGED <<g_reg, menuVars, logVars, term, lay>> /\ where = "run" /\ where' = "reap"
      BY <1>13 DEF run_leaves, winVars
    <2>. QED  BY <1>2, <1>4, <2>1 DEF Drawn
  <1>14. ASSUME NEW k \in {"failed", "aborted", "bad status"} PROVE Notice(k) \in Line
    BY DEF Line, Notices
  <1>15. CASE run_refused
    <2>1. /\ log_pushf(Notice("failed")) /\ where = "run" /\ where' = "post" /\ redraw_all
          /\ UNCHANGED <<g_reg, menuVars, term, lay>>
      BY <1>15 DEF run_refused, winVars
    <2>. QED  BY <1>3, <1>14, <2>1, PushStep
  <1>16. CASE run_abort
    <2>1. /\ log_pushf(Notice("aborted")) /\ where = "run" /\ where' = "run"
          /\ UNCHANGED <<g_reg, menuVars, term, lay>>
      BY <1>16 DEF run_abort, winVars
    <2>. QED  BY <1>14, <2>1, PushStep DEF Drawn
  <1>17. CASE run_reaped
    <2>1. /\ where = "reap" /\ where' = "post" /\ redraw_all /\ UNCHANGED <<g_reg, menuVars, term, lay>>
          /\ log_pushf(Notice("bad status")) \/ UNCHANGED logVars
      BY <1>17 DEF run_reaped, winVars
    <2>2. CASE log_pushf(Notice("bad status"))
      BY <1>3, <1>14, <2>1, <2>2, PushStep
    <2>3. CASE UNCHANGED logVars
      BY <1>2, <1>3, <1>4, <2>1, <2>3
    <2>. QED  BY <2>1, <2>2, <2>3
  <1>18. ASSUME NEW e \in Records, run_record(e) PROVE SInv'
    <2>1. /\ log_pushf(e) /\ where = "run" /\ where' \in {"reap", "run"} /\ redraw_all
          /\ UNCHANGED <<g_reg, menuVars, term, lay>> /\ e \in Line
      BY <1>18 DEF run_record, winVars, Line
    <2>. QED  BY <1>3, <2>1, PushStep
  <1>19. CASE UNCHANGED vars
    <2>1. UNCHANGED <<g_reg, where, menuVars, logVars, term, lay, pane>>
      BY <1>19 DEF vars, winVars
    <2>2. UNCHANGED <<g_sel, last, g_last_seed>> /\ UNCHANGED logVars
      BY <2>1 DEF menuVars
    <2>3. SessionTypes' /\ Selected' /\ Drawn'
      BY <1>0, <2>1, <2>2 DEF SessionTypes, Selected, Drawn, logVars
    <2>. QED  BY <2>1, <2>2, <2>3, QuietStep
  <1>. QED  BY <1>1, <1>5, <1>6, <1>7, <1>8, <1>9, <1>10, <1>11, <1>12, <1>13, <1>15, <1>16, <1>17,
               <1>18, <1>19 DEF Next

\* The last k elements of a sequence.
LEMMA LastOnes ==
    ASSUME NEW S, NEW s \in Seq(S), NEW k \in Nat, k <= Len(s)
    PROVE  SubSeq(s, Len(s) - k + 1, Len(s)) = [i \in 1..k |-> s[Len(s) - k + i]]
  <1>. DEFINE m == Len(s)
              q == SubSeq(s, m - k + 1, m)
  <1>1. m \in Nat /\ k <= m
    OBVIOUS
  <1>2. \A i \in 1..m : s[i] \in S
    OBVIOUS
  <1>. HIDE DEF m
  <1>3. q \in Seq(S) /\ Len(q) = (IF m - k + 1 <= m THEN m - (m - k + 1) + 1 ELSE 0)
        /\ \A i \in 1..(m - (m - k + 1) + 1) : q[i] = s[(m - k + 1) + i - 1]
    BY <1>1, <1>2, SubSeqProperties
  <1>4. Len(q) = k /\ \A i \in 1..k : q[i] = s[m - k + i]
    <2>1. m - (m - k + 1) + 1 = k
      BY <1>1
    <2>2. \A i \in 1..k : (m - k + 1) + i - 1 = m - k + i
      BY <1>1
    <2>. HIDE DEF q
    <2>. QED  BY <1>1, <1>3, <2>1, <2>2
  <1>5. q = [i \in 1..k |-> q[i]]
    <2>. HIDE DEF q
    <2>. QED  BY <1>3, <1>4
  <1>6. q = [i \in 1..k |-> s[m - k + i]]
    BY <1>4, <1>5
  <1>. QED  BY <1>6 DEF m

\* What draw_log copies out of the ring is the end of the lines, if the window is
\* no higher than the ring.
LEMMA TailOfRing ==
    ASSUME SessionTypes, Ring, NEW v \in Nat, v <= LOG_LINES
    PROVE  LET k == Min({v, Len(lines)})
           IN  Tail_of(g_log, g_log_count, v) = SubSeq(lines, Len(lines) - k + 1, Len(lines))
  <1>. DEFINE m == Len(lines)
              k == IF v <= m THEN v ELSE m
              start == IF m > v THEN m - v ELSE 0
  <1>1. LOG_LINES \in Nat \ {0} /\ lines \in Seq(Line) /\ m \in Nat /\ g_log_count = m
    BY SessionAssumption DEF SessionTypes, Ring
  <1>2. \A j \in 1..m : j > m - LOG_LINES => g_log[(j - 1) % LOG_LINES] = lines[j]
    BY DEF Ring
  <1>3. Min({v, m}) = k
    BY <1>1 DEF Min
  <1>. HIDE DEF m
  <1>4. start \in Nat /\ k \in Nat /\ m - start = k /\ m - k = start /\ k <= m /\ k <= LOG_LINES
    BY <1>1
  <1>5. Tail_of(g_log, g_log_count, v) = [i \in 1..k |-> g_log[(start + i - 1) % LOG_LINES]]
    BY <1>1, <1>4 DEF Tail_of
  <1>. HIDE DEF k, start
  <1>6. ASSUME NEW i \in 1..k PROVE g_log[(start + i - 1) % LOG_LINES] = lines[start + i]
    <2>. DEFINE j == start + i
    <2>1. j \in 1..m /\ j > m - LOG_LINES
      BY <1>1, <1>4
    <2>. HIDE DEF j
    <2>2. g_log[(j - 1) % LOG_LINES] = lines[j]
      BY <1>2, <2>1
    <2>3. start + i - 1 = j - 1
      BY <1>4 DEF j
    <2>. QED  BY <2>2, <2>3 DEF j
  <1>7. SubSeq(lines, m - k + 1, m) = [i \in 1..k |-> lines[m - k + i]]
    BY <1>1, <1>4, LastOnes DEF m
  <1>8. SubSeq(lines, m - k + 1, m) = [i \in 1..k |-> lines[start + i]]
    BY <1>4, <1>7
  <1>9. Tail_of(g_log, g_log_count, v) = SubSeq(lines, m - k + 1, m)
    BY <1>5, <1>6, <1>8
  <1>. QED  BY <1>3, <1>9 DEF m

\* Whenever the session waits for a key in the menu or after a run, the log pane is
\* the end of the last run's lines and its first line names what r would repeat.
THEOREM SessionScreenIsTail == Spec => []ScreenIsTail
  <1>1. ASSUME SInv PROVE ScreenIsTail
    <2>1. SessionTypes /\ Ring /\ Begun /\ Drawn
      BY <1>1 DEF SInv
    <2>2. viewable(lay) \in Nat
      <3>1. lay \in Nat
        BY <2>1 DEF SessionTypes
      <3>. QED  BY <3>1 DEF viewable
    <2>3. ASSUME where \in {"menu", "post"}, viewable(lay) <= LOG_LINES
          PROVE  pane = SubSeq(lines, Len(lines) - Min({viewable(lay), Len(lines)}) + 1, Len(lines))
      BY <2>1, <2>2, <2>3, TailOfRing DEF Drawn
    <2>. QED  BY <2>1, <2>3 DEF ScreenIsTail, Begun
  <1>. QED  BY <1>1, InitSInv, NextSInv, PTL DEF Spec

----------------------------------------------------------------------------
(* The sum of the numbers in some lines *)

LEMMA LeastOf ==
    ASSUME NEW T, T \subseteq Nat, T # {}
    PROVE  \E m \in T : \A k \in T : m <= k
  <1>1. IsWellFoundedOn(OpToRel(<, Nat), Nat)
    BY NatLessThanWellFounded
  <1>2. PICK m \in T : \A k \in T : ~(<<k, m>> \in OpToRel(<, Nat))
    BY <1>1, WFMin
  <1>3. \A k \in T : ~(k < m)
    BY <1>2, Zenon DEF OpToRel
  <1>. QED  BY <1>3

\* What line k adds to the sum over S, and the equation of Total's function.
Part(s, S, k)   == IF k \in S THEN s[k].num ELSE 0
Upto(f, s, S)   == [k \in 0..Len(s) |-> IF k = 0 THEN 0 ELSE f[k - 1] + Part(s, S, k)]

\* f holds the sums over the first lines, up to n of them.
Adds(f, n, s, S) ==
    f \in [0..n -> Int] /\ f[0] = 0 /\ \A k \in 1..n : f[k] = f[k - 1] + Part(s, S, k)

LEMMA TotalIsChosen ==
    ASSUME NEW s, NEW S
    PROVE  Total(s, S) = (CHOOSE f : f = Upto(f, s, S))[Len(s)]
  BY DEF Total, Upto, Part

\* Sums go on by one line.
LEMMA AddsOn ==
    ASSUME NEW s, NEW S, NEW n \in Nat, NEW f, Adds(f, n, s, S), Part(s, S, n + 1) \in Int
    PROVE  \E g : Adds(g, n + 1, s, S) /\ g[n + 1] = f[n] + Part(s, S, n + 1)
  <1>. DEFINE p == Part(s, S, n + 1)
              g == [k \in 0..n + 1 |-> IF k <= n THEN f[k] ELSE f[n] + p]
  <1>1. f \in [0..n -> Int] /\ f[0] = 0 /\ \A k \in 1..n : f[k] = f[k - 1] + Part(s, S, k)
    BY DEF Adds
  <1>2. p \in Int /\ (\A k \in 0..n : f[k] \in Int)
    BY <1>1
  <1>. HIDE DEF p
  <1>3. g \in [0..n + 1 -> Int] /\ g[0] = 0 /\ g[n + 1] = f[n] + p /\ \A k \in 0..n : g[k] = f[k]
    BY <1>1, <1>2
  <1>. HIDE DEF g
  <1>4. ASSUME NEW k \in 1..n + 1 PROVE g[k] = g[k - 1] + Part(s, S, k)
    <2>1. CASE k = n + 1
      BY <1>3, <2>1 DEF p
    <2>2. CASE k \in 1..n
      <3>1. g[k] = f[k] /\ g[k - 1] = f[k - 1]
        BY <1>3, <2>2
      <3>. QED  BY <1>1, <2>2, <3>1
    <2>. QED  BY <2>1, <2>2
  <1>. QED  BY <1>3, <1>4 DEF Adds, p

LEMMA AddsExists ==
    ASSUME NEW s, NEW S, Len(s) \in Nat, \A k \in 1..Len(s) : Part(s, S, k) \in Int
    PROVE  \E f : Adds(f, Len(s), s, S)
  <1>. DEFINE T == {n \in 0..Len(s) : ~\E f : Adds(f, n, s, S)}
  <1>1. \E f : Adds(f, 0, s, S)
    <2>. DEFINE z == [k \in 0..0 |-> 0]
    <2>1. z \in [0..0 -> Int] /\ z[0] = 0
      OBVIOUS
    <2>. HIDE DEF z
    <2>. QED  BY <2>1 DEF Adds
  <1>2. ASSUME T # {} PROVE FALSE
    <2>1. PICK m \in T : \A k \in T : m <= k
      <3>1. T \subseteq Nat
        OBVIOUS
      <3>. QED  BY <1>2, <3>1, LeastOf
    <2>2. m \in 0..Len(s) /\ m # 0 /\ ~\E f : Adds(f, m, s, S)
      BY <1>1
    <2>3. m - 1 \in Nat /\ m - 1 \in 0..Len(s) /\ m - 1 \notin T
      BY <2>1, <2>2
    <2>4. PICK f : Adds(f, m - 1, s, S)
      BY <2>3
    <2>5. (m - 1) + 1 = m /\ Part(s, S, m) \in Int
      BY <2>2
    <2>6. \E g : Adds(g, (m - 1) + 1, s, S)
      BY <2>3, <2>4, <2>5, AddsOn
    <2>. QED  BY <2>2, <2>5, <2>6
  <1>. QED  BY <1>2

\* Total is the last of the sums.
LEMMA TotalIs ==
    ASSUME NEW s, NEW S, Len(s) \in Nat, NEW g, Adds(g, Len(s), s, S)
    PROVE  Total(s, S) = g[Len(s)]
  <1>. DEFINE f == CHOOSE h : h = Upto(h, s, S)
  <1>1. g \in [0..Len(s) -> Int] /\ g[0] = 0 /\ \A k \in 1..Len(s) : g[k] = g[k - 1] + Part(s, S, k)
    BY DEF Adds
  <1>2. g = Upto(g, s, S)
    <2>. DEFINE E(k) == IF k = 0 THEN 0 ELSE g[k - 1] + Part(s, S, k)
    <2>1. \A k \in 0..Len(s) : g[k] = E(k)
      BY <1>1
    <2>2. g = [k \in 0..Len(s) |-> g[k]]
      BY <1>1
    <2>. HIDE DEF E
    <2>3. g = [k \in 0..Len(s) |-> E(k)]
      BY <2>1, <2>2
    <2>. QED  BY <2>3 DEF E, Upto
  <1>3. f = Upto(f, s, S)
    BY <1>2, Zenon
  <1>. HIDE DEF f
  <1>4. f[0] = 0 /\ \A k \in 1..Len(s) : f[k] = f[k - 1] + Part(s, S, k)
    <2>1. \A k \in 0..Len(s) : f[k] = IF k = 0 THEN 0 ELSE f[k - 1] + Part(s, S, k)
      BY <1>3 DEF Upto
    <2>. QED  BY <2>1
  <1>. DEFINE T == {k \in 0..Len(s) : f[k] # g[k]}
  <1>5. ASSUME T # {} PROVE FALSE
    <2>1. PICK m \in T : \A k \in T : m <= k
      <3>1. T \subseteq Nat
        OBVIOUS
      <3>. QED  BY <1>5, <3>1, LeastOf
    <2>2. m \in 1..Len(s)
      BY <1>1, <1>4
    <2>3. m - 1 \in 0..Len(s) /\ m - 1 \notin T
      BY <2>1, <2>2
    <2>4. f[m - 1] = g[m - 1]
      BY <2>3
    <2>. QED  BY <1>1, <1>4, <2>2, <2>4
  <1>6. f[Len(s)] = g[Len(s)]
    BY <1>5
  <1>. QED  BY <1>6, TotalIsChosen DEF f

----------------------------------------------------------------------------
(* What one more line does to the statistics of the lines *)

\* t is s and one more line x.
Grows(s, t, x) ==
    /\ Len(s) \in Nat /\ DOMAIN s = 1..Len(s)
    /\ Len(t) = Len(s) + 1 /\ DOMAIN t = 1..Len(s) + 1
    /\ t[Len(s) + 1] = x /\ \A i \in 1..Len(s) : t[i] = s[i]

\* The line x is for the same row as line i.
Same(x, s, i)  == x.kind \in StatKinds /\ s[i].kind = x.kind /\ s[i].key = x.key
Fresh(s, x)    == x.kind \in StatKinds /\ ~\E i \in StatLines(s) : Same(x, s, i)
Numbers(s)     == \A i \in StatLines(s) : s[i].num \in Int

LEMMA AppendGrows ==
    ASSUME NEW L, NEW s \in Seq(L), NEW x \in L
    PROVE  Grows(s, Append(s, x), x)
  <1>. DEFINE t == Append(s, x)
  <1>1. Len(s) \in Nat /\ DOMAIN s = 1..Len(s)
    OBVIOUS
  <1>2. t \in Seq(L) /\ Len(t) = Len(s) + 1
    OBVIOUS
  <1>3. DOMAIN t = 1..Len(s) + 1
    BY <1>2
  <1>4. t[Len(s) + 1] = x /\ \A i \in 1..Len(s) : t[i] = s[i]
    OBVIOUS
  <1>. QED  BY <1>1, <1>2, <1>3, <1>4 DEF Grows

LEMMA OfIn ==
    ASSUME NEW s, NEW i
    PROVE  Of(s, i) \subseteq StatLines(s) /\ StatLines(s) \subseteq DOMAIN s
  BY DEF Of, StatLines

LEMMA OfSelf ==
    ASSUME NEW s, NEW i \in StatLines(s)
    PROVE  i \in Of(s, i)
  BY DEF Of

LEMMA FirstsIn ==
    ASSUME NEW s
    PROVE  Kept(s) \subseteq Firsts(s) /\ Firsts(s) \subseteq StatLines(s)
  BY DEF Kept, Firsts

LEMMA GrowStatLines ==
    ASSUME NEW s, NEW t, NEW x, Grows(s, t, x)
    PROVE  StatLines(t) = IF x.kind \in StatKinds THEN StatLines(s) \cup {Len(s) + 1} ELSE StatLines(s)
  <1>. DEFINE n == Len(s) + 1
  <1>1. DOMAIN s = 1..Len(s) /\ DOMAIN t = 1..n /\ Len(s) \in Nat /\ t[n] = x
        /\ \A i \in 1..Len(s) : t[i] = s[i]
    BY DEF Grows
  <1>2. \A i : i \in 1..n <=> (i \in 1..Len(s) \/ i = n)
    BY <1>1
  <1>3. n \notin 1..Len(s)
    BY <1>1
  <1>. HIDE DEF n
  <1>4. \A i : i \in StatLines(t) <=> i \in 1..n /\ t[i].kind \in StatKinds
    BY <1>1 DEF StatLines
  <1>5. \A i : i \in StatLines(s) <=> i \in 1..Len(s) /\ s[i].kind \in StatKinds
    BY <1>1 DEF StatLines
  <1>6. \A i : i \in StatLines(t) <=> i \in StatLines(s) \/ (i = n /\ x.kind \in StatKinds)
    BY <1>1, <1>2, <1>4, <1>5, Zenon
  <1>. QED  BY <1>6 DEF n

LEMMA GrowOf ==
    ASSUME NEW s, NEW t, NEW x, Grows(s, t, x), NEW i \in DOMAIN s
    PROVE  Of(t, i) = IF Same(x, s, i) THEN Of(s, i) \cup {Len(s) + 1} ELSE Of(s, i)
  <1>. DEFINE n == Len(s) + 1
  <1>1. DOMAIN s = 1..Len(s) /\ Len(s) \in Nat /\ t[n] = x /\ \A j \in DOMAIN s : t[j] = s[j]
    BY DEF Grows
  <1>2. n \notin DOMAIN s
    BY <1>1
  <1>3. StatLines(t) = (IF x.kind \in StatKinds THEN StatLines(s) \cup {n} ELSE StatLines(s))
        /\ StatLines(s) \subseteq DOMAIN s
    BY GrowStatLines, OfIn
  <1>. HIDE DEF n
  <1>4. \A j : j \in Of(t, i) <=> j \in StatLines(t) /\ t[j].kind = s[i].kind /\ t[j].key = s[i].key
    BY <1>1 DEF Of
  <1>5. \A j : j \in Of(s, i) <=> j \in StatLines(s) /\ s[j].kind = s[i].kind /\ s[j].key = s[i].key
    BY DEF Of
  <1>6. \A j : j \in StatLines(t) <=> j \in StatLines(s) \/ (j = n /\ x.kind \in StatKinds)
    BY <1>3
  <1>7. \A j : j \in Of(t, i) <=> j \in Of(s, i) \/ (j = n /\ Same(x, s, i))
    <2>1. \A j \in StatLines(s) : t[j] = s[j]
      BY <1>1, <1>3
    <2>2. n \notin StatLines(s)
      BY <1>2, <1>3
    <2>. QED  BY <1>1, <1>4, <1>5, <1>6, <2>1, <2>2 DEF Same
  <1>. QED  BY <1>7 DEF n

LEMMA GrowOfNew ==
    ASSUME NEW s, NEW t, NEW x, Grows(s, t, x), Fresh(s, x)
    PROVE  Of(t, Len(s) + 1) = {Len(s) + 1}
  <1>. DEFINE n == Len(s) + 1
  <1>1. DOMAIN s = 1..Len(s) /\ Len(s) \in Nat /\ t[n] = x /\ \A j \in DOMAIN s : t[j] = s[j]
    BY DEF Grows
  <1>2. n \notin DOMAIN s
    BY <1>1
  <1>3. StatLines(t) = StatLines(s) \cup {n} /\ StatLines(s) \subseteq DOMAIN s
    BY GrowStatLines, OfIn DEF Fresh
  <1>. HIDE DEF n
  <1>4. \A j : j \in Of(t, n) <=> j \in StatLines(t) /\ t[j].kind = x.kind /\ t[j].key = x.key
    BY <1>1 DEF Of
  <1>5. \A j \in StatLines(s) : ~(t[j].kind = x.kind /\ t[j].key = x.key)
    BY <1>1, <1>3 DEF Fresh, Same
  <1>6. \A j : j \in Of(t, n) <=> j = n
    BY <1>1, <1>3, <1>4, <1>5
  <1>. QED  BY <1>6 DEF n

LEMMA GrowFirsts ==
    ASSUME NEW s, NEW t, NEW x, Grows(s, t, x)
    PROVE  Firsts(t) = IF Fresh(s, x) THEN Firsts(s) \cup {Len(s) + 1} ELSE Firsts(s)
  <1>. DEFINE n == Len(s) + 1
  <1>1. DOMAIN s = 1..Len(s) /\ Len(s) \in Nat /\ t[n] = x /\ \A j \in DOMAIN s : t[j] = s[j]
    BY DEF Grows
  <1>2. n \in Nat /\ n \notin DOMAIN s /\ \A j \in DOMAIN s : j \in Nat /\ j < n
    BY <1>1
  <1>3. \A j : j \in StatLines(t) <=> j \in StatLines(s) \/ (j = n /\ x.kind \in StatKinds)
    BY GrowStatLines
  <1>4. StatLines(s) \subseteq DOMAIN s
    BY OfIn
  <1>. HIDE DEF n
  <1>5. ASSUME NEW i \in StatLines(s) PROVE i \in Firsts(t) <=> i \in Firsts(s)
    <2>1. i \in DOMAIN s /\ i \in StatLines(t) /\ i <= n
      BY <1>2, <1>3, <1>4
    <2>2. \A j : j \in Of(t, i) <=> j \in Of(s, i) \/ (j = n /\ Same(x, s, i))
      BY <2>1, GrowOf DEF n
    <2>3. (\A j \in Of(t, i) : i <= j) <=> (\A j \in Of(s, i) : i <= j)
      BY <2>1, <2>2
    <2>. QED  BY <2>1, <2>3 DEF Firsts
  <1>6. ASSUME Fresh(s, x) PROVE n \in Firsts(t)
    <2>1. Of(t, n) = {n}
      BY <1>6, GrowOfNew DEF n
    <2>2. n \in StatLines(t)
      BY <1>3, <1>6 DEF Fresh
    <2>. QED  BY <1>2, <2>1, <2>2 DEF Firsts
  <1>7. ASSUME n \in Firsts(t) PROVE Fresh(s, x)
    <2>1. n \in StatLines(t) /\ \A j \in Of(t, n) : n <= j
      BY <1>7 DEF Firsts
    <2>2. x.kind \in StatKinds
      BY <1>2, <1>3, <1>4, <2>1
    <2>3. ASSUME NEW i \in StatLines(s), Same(x, s, i) PROVE FALSE
      <3>1. i \in StatLines(t) /\ t[i] = s[i] /\ i < n /\ i \in Nat
        BY <1>1, <1>2, <1>3, <1>4
      <3>2. i \in Of(t, n)
        BY <1>1, <2>3, <3>1 DEF Of, Same
      <3>. QED  BY <1>2, <2>1, <3>1, <3>2
    <2>. QED  BY <2>2, <2>3 DEF Fresh
  <1>8. \A i : i \in Firsts(t) <=> i \in Firsts(s) \/ (i = n /\ Fresh(s, x))
    <2>1. \A i : i \in Firsts(t) => i \in StatLines(t)
      BY FirstsIn
    <2>2. \A i : i \in Firsts(s) => i \in StatLines(s)
      BY FirstsIn
    <2>. QED  BY <1>3, <1>5, <1>6, <1>7, <2>1, <2>2
  <1>. QED  BY <1>8 DEF n

\* Every statistics line has a first line of its row.
LEMMA FirstOf ==
    ASSUME NEW s, Len(s) \in Nat, DOMAIN s = 1..Len(s), NEW j \in StatLines(s)
    PROVE  \E i \in Firsts(s) : s[i].kind = s[j].kind /\ s[i].key = s[j].key
  <1>1. Of(s, j) \subseteq Nat /\ Of(s, j) # {}
    BY OfIn, OfSelf
  <1>2. PICK i \in Of(s, j) : \A k \in Of(s, j) : i <= k
    BY <1>1, LeastOf
  <1>3. i \in StatLines(s) /\ s[i].kind = s[j].kind /\ s[i].key = s[j].key
    BY <1>2 DEF Of
  <1>4. Of(s, i) = Of(s, j)
    BY <1>3 DEF Of
  <1>5. i \in Firsts(s)
    BY <1>2, <1>3, <1>4 DEF Firsts
  <1>. QED  BY <1>3, <1>5

LEMMA FirstsFinite ==
    ASSUME NEW s, Len(s) \in Nat, DOMAIN s = 1..Len(s)
    PROVE  /\ IsFiniteSet(Firsts(s)) /\ IsFiniteSet(Kept(s))
           /\ Cardinality(Firsts(s)) \in Nat /\ Cardinality(Kept(s)) \in Nat
           /\ Cardinality(Kept(s)) <= Cardinality(Firsts(s))
  <1>1. IsFiniteSet(1..Len(s))
    BY FS_Interval
  <1>2. Firsts(s) \subseteq 1..Len(s) /\ Kept(s) \subseteq Firsts(s)
    BY FirstsIn, OfIn
  <1>3. IsFiniteSet(Firsts(s))
    BY <1>1, <1>2, FS_Subset
  <1>4. IsFiniteSet(Kept(s)) /\ Cardinality(Kept(s)) <= Cardinality(Firsts(s))
    BY <1>2, <1>3, FS_Subset
  <1>. QED  BY <1>3, <1>4, FS_CardinalityType

\* A line that finds room stays; the new one finds room if it is the first of its
\* row and the table is not full.
LEMMA GrowKept ==
    ASSUME NEW s, NEW t, NEW x, Grows(s, t, x)
    PROVE  Kept(t) = IF Fresh(s, x) /\ Cardinality(Firsts(s)) < STATS_MAX
                     THEN Kept(s) \cup {Len(s) + 1} ELSE Kept(s)
  <1>. DEFINE n == Len(s) + 1
              Before(u, i) == {j \in Firsts(u) : j < i}
  <1>1. DOMAIN s = 1..Len(s) /\ Len(s) \in Nat
    BY DEF Grows
  <1>2. n \in Nat /\ \A j \in Firsts(s) : j \in Nat /\ j < n
    <2>1. Firsts(s) \subseteq 1..Len(s)
      BY <1>1, FirstsIn, OfIn
    <2>. QED  BY <1>1, <2>1
  <1>3. \A i : i \in Firsts(t) <=> i \in Firsts(s) \/ (i = n /\ Fresh(s, x))
    BY GrowFirsts
  <1>. HIDE DEF n
  <1>4. ASSUME NEW i \in Firsts(s) PROVE Before(t, i) = Before(s, i)
    <2>1. i \in Nat /\ i < n /\ n \in Nat
      BY <1>2
    <2>2. ~(n < i)
      BY <2>1
    <2>. QED  BY <1>3, <2>2
  <1>5. Before(t, n) = Firsts(s)
    <2>1. ~(n < n)
      BY <1>2
    <2>. QED  BY <1>2, <1>3, <2>1
  <1>6. \A i : i \in Kept(t) <=> i \in Firsts(t) /\ Cardinality(Before(t, i)) < STATS_MAX
    BY DEF Kept
  <1>7. \A i : i \in Kept(s) <=> i \in Firsts(s) /\ Cardinality(Before(s, i)) < STATS_MAX
    BY DEF Kept
  <1>. HIDE DEF Before
  <1>8. \A i : i \in Kept(t) <=> i \in Kept(s) \/
              (i = n /\ Fresh(s, x) /\ Cardinality(Firsts(s)) < STATS_MAX)
    <2>1. n \notin Firsts(s)
      BY <1>2
    <2>. QED  BY <1>3, <1>4, <1>5, <1>6, <1>7, <2>1
  <1>. QED  BY <1>8 DEF n

LEMMA TotalOfSums ==
    ASSUME NEW s, NEW S, Len(s) \in Nat, DOMAIN s = 1..Len(s), \A k \in S : s[k].num \in Int
    PROVE  \E f : Adds(f, Len(s), s, S) /\ Total(s, S) = f[Len(s)] /\ f[Len(s)] \in Int
  <1>1. \A k \in 1..Len(s) : Part(s, S, k) \in Int
    BY DEF Part
  <1>2. PICK f : Adds(f, Len(s), s, S)
    BY <1>1, AddsExists
  <1>3. f[Len(s)] \in Int
    BY <1>2 DEF Adds
  <1>. QED  BY <1>2, <1>3, TotalIs

\* The sum over old lines stays.
LEMMA OldTotal ==
    ASSUME NEW s, NEW t, NEW x, NEW S, Grows(s, t, x), S \subseteq DOMAIN s,
           \A k \in S : s[k].num \in Int
    PROVE  Total(t, S) = Total(s, S)
  <1>. DEFINE n == Len(s)
  <1>1. n \in Nat /\ Len(t) = n + 1 /\ DOMAIN s = 1..n /\ \A k \in 1..n : t[k] = s[k]
    BY DEF Grows
  <1>2. PICK f : Adds(f, n, s, S) /\ Total(s, S) = f[n] /\ f[n] \in Int
    BY <1>1, TotalOfSums
  <1>. HIDE DEF n
  <1>3. \A k \in 1..n : Part(t, S, k) = Part(s, S, k)
    BY <1>1 DEF Part
  <1>4. Part(t, S, n + 1) = 0
    <2>1. n + 1 \notin S
      BY <1>1
    <2>. QED  BY <2>1 DEF Part
  <1>5. Adds(f, n, t, S)
    BY <1>2, <1>3 DEF Adds
  <1>6. PICK g : Adds(g, n + 1, t, S) /\ g[n + 1] = f[n] + Part(t, S, n + 1)
    BY <1>1, <1>4, <1>5, AddsOn
  <1>7. Total(t, S) = g[n + 1]
    BY <1>1, <1>6, TotalIs
  <1>. QED  BY <1>2, <1>4, <1>6, <1>7

\* The new line adds its number.
LEMMA NewTotal ==
    ASSUME NEW s, NEW t, NEW x, NEW S, Grows(s, t, x), S \subseteq DOMAIN s,
           \A k \in S : s[k].num \in Int, x.num \in Int
    PROVE  Total(t, S \cup {Len(t)}) = Total(s, S) + x.num
  <1>. DEFINE n == Len(s)
              R == S \cup {n + 1}
  <1>1. n \in Nat /\ Len(t) = n + 1 /\ DOMAIN s = 1..n /\ t[n + 1] = x /\ \A k \in 1..n : t[k] = s[k]
    BY DEF Grows
  <1>2. PICK f : Adds(f, n, s, S) /\ Total(s, S) = f[n] /\ f[n] \in Int
    BY <1>1, TotalOfSums
  <1>. HIDE DEF n
  <1>3. \A k \in 1..n : Part(t, R, k) = Part(s, S, k)
    <2>1. \A k \in 1..n : k \in R <=> k \in S
      BY <1>1
    <2>. HIDE DEF R
    <2>. QED  BY <1>1, <2>1 DEF Part
  <1>4. Part(t, R, n + 1) = x.num
    BY <1>1 DEF Part
  <1>. HIDE DEF R
  <1>5. Adds(f, n, t, R)
    BY <1>2, <1>3 DEF Adds
  <1>6. PICK g : Adds(g, n + 1, t, R) /\ g[n + 1] = f[n] + Part(t, R, n + 1)
    BY <1>1, <1>4, <1>5, AddsOn
  <1>7. Total(t, R) = g[n + 1]
    BY <1>1, <1>6, TotalIs
  <1>8. Total(t, R) = Total(s, S) + x.num
    BY <1>2, <1>4, <1>6, <1>7
  <1>. QED  BY <1>1, <1>8 DEF R

LEMMA TotalNone ==
    ASSUME NEW s, Len(s) \in Nat
    PROVE  Total(s, {}) = 0
  <1>. DEFINE z == [k \in 0..Len(s) |-> 0]
  <1>1. z \in [0..Len(s) -> Int] /\ z[0] = 0 /\ z[Len(s)] = 0
    OBVIOUS
  <1>2. \A k \in 1..Len(s) : z[k] = 0 /\ z[k - 1] = 0
    OBVIOUS
  <1>. HIDE DEF z
  <1>3. Adds(z, Len(s), s, {})
    BY <1>1, <1>2 DEF Adds, Part
  <1>. QED  BY <1>1, <1>3, TotalIs

----------------------------------------------------------------------------
(* The statistics table *)

Keys  == {e.key : e \in Records} \cup {""}
Kinds == {e.kind : e \in Records} \cup {""}
Stat  == [key : Keys, value : Int, lo : Int, hi : Int, touched : BOOLEAN, kind : Kinds]

\* The row sums up the lines that are for the same row as line i.
SumsUp(row, s, i) ==
    /\ s[i].kind = "counter" => row.value = Total(s, Of(s, i))
    /\ s[i].kind # "counter" => \E m \in Of(s, i) : row.value = s[m].num /\ \A j \in Of(s, i) : j <= m
    /\ s[i].kind = "gauge" =>
         /\ row.touched /\ row.lo \in Nums(s, Of(s, i)) /\ row.hi \in Nums(s, Of(s, i))
         /\ \A y \in Nums(s, Of(s, i)) : row.lo <= y /\ y <= row.hi

Named(row, x) == row.kind = x.kind /\ row.key = x.key

StatTypes ==
    /\ g_stats \in [1..STATS_MAX -> Stat] /\ g_stats_n \in 0..STATS_MAX

\* As many rows as lines that find room; below the limit every line does.
Counted ==
    /\ g_stats_n = Cardinality(Kept(lines))
    /\ g_stats_n < STATS_MAX => Kept(lines) = Firsts(lines)

\* One row for each of these lines, and no other.
OneRowEach ==
    /\ \A r, q \in 1..g_stats_n : Named(g_stats[r], g_stats[q]) => r = q
    /\ \A r \in 1..g_stats_n : \E i \in Kept(lines) : Named(g_stats[r], lines[i])
    /\ \A i \in Kept(lines) : \E r \in 1..g_stats_n :
           Named(g_stats[r], lines[i]) /\ SumsUp(g_stats[r], lines, i)

Table == StatTypes /\ Counted /\ OneRowEach

LEMMA OldNums ==
    ASSUME NEW s, NEW t, NEW x, NEW S, Grows(s, t, x), S \subseteq DOMAIN s
    PROVE  Nums(t, S) = Nums(s, S)
  <1>1. \A k \in S : t[k] = s[k]
    BY DEF Grows
  <1>. QED  BY <1>1 DEF Nums

LEMMA NewNums ==
    ASSUME NEW s, NEW t, NEW x, NEW S, Grows(s, t, x), S \subseteq DOMAIN s
    PROVE  Nums(t, S \cup {Len(t)}) = Nums(s, S) \cup {x.num}
  <1>. DEFINE n == Len(t)
  <1>1. t[n] = x
    BY DEF Grows
  <1>. HIDE DEF n
  <1>2. Nums(t, S) = Nums(s, S)
    BY OldNums
  <1>3. \A y : y \in Nums(t, S \cup {n}) <=> y \in Nums(t, S) \/ y = t[n].num
    BY DEF Nums
  <1>4. Nums(t, S \cup {n}) = Nums(s, S) \cup {x.num}
    BY <1>1, <1>2, <1>3
  <1>. QED  BY <1>4 DEF n

\* A line for another row changes nothing.
LEMMA SumsKept ==
    ASSUME NEW s, NEW t, NEW x, Grows(s, t, x), Numbers(s), NEW i \in StatLines(s),
           NEW row, ~Same(x, s, i), SumsUp(row, s, i)
    PROVE  SumsUp(row, t, i)
  <1>. DEFINE S == Of(s, i)
  <1>1. i \in DOMAIN s /\ S \subseteq DOMAIN s /\ (\A k \in S : s[k].num \in Int)
    BY OfIn DEF Grows, Numbers
  <1>2. Of(t, i) = S
    BY <1>1, GrowOf
  <1>3. t[i] = s[i] /\ \A k \in S : t[k] = s[k]
    BY <1>1 DEF Grows
  <1>. HIDE DEF S
  <1>4. Total(t, S) = Total(s, S) /\ Nums(t, S) = Nums(s, S)
    <2>1. Total(t, S) = Total(s, S)
      BY <1>1, OldTotal
    <2>. QED  BY <1>1, <2>1, OldNums
  <1>5. /\ s[i].kind = "counter" => row.value = Total(s, S)
        /\ s[i].kind # "counter" => \E m \in S : row.value = s[m].num /\ \A j \in S : j <= m
        /\ s[i].kind = "gauge" =>
             /\ row.touched /\ row.lo \in Nums(s, S) /\ row.hi \in Nums(s, S)
             /\ \A y \in Nums(s, S) : row.lo <= y /\ y <= row.hi
    BY DEF SumsUp, S
  <1>6. t[i].kind # "counter" => \E m \in S : row.value = t[m].num /\ \A j \in S : j <= m
    BY <1>3, <1>5
  <1>. QED  BY <1>2, <1>3, <1>4, <1>5, <1>6 DEF SumsUp

\* The row after stat_update.
Updated(row, e) ==
    [row EXCEPT
        !.value   = IF e.kind = "counter" THEN @ + e.num ELSE e.num,
        !.lo      = IF e.kind = "gauge" /\ (~row.touched \/ e.num < @) THEN e.num ELSE @,
        !.hi      = IF e.kind = "gauge" /\ (~row.touched \/ e.num > @) THEN e.num ELSE @,
        !.touched = @ \/ e.kind = "gauge"]

LEMMA UpdatedIs ==
    ASSUME NEW row \in Stat, NEW e, e.num \in Int
    PROVE  /\ Updated(row, e) \in Stat
           /\ Updated(row, e).kind = row.kind /\ Updated(row, e).key = row.key
           /\ Updated(row, e).value = IF e.kind = "counter" THEN row.value + e.num ELSE e.num
           /\ e.kind = "gauge" => /\ Updated(row, e).touched
                                  /\ Updated(row, e).lo =
                                       IF ~row.touched \/ e.num < row.lo THEN e.num ELSE row.lo
                                  /\ Updated(row, e).hi =
                                       IF ~row.touched \/ e.num > row.hi THEN e.num ELSE row.hi
  <1>. DEFINE v == IF e.kind = "counter" THEN row.value + e.num ELSE e.num
              l == IF e.kind = "gauge" /\ (~row.touched \/ e.num < row.lo) THEN e.num ELSE row.lo
              h == IF e.kind = "gauge" /\ (~row.touched \/ e.num > row.hi) THEN e.num ELSE row.hi
              b == row.touched \/ e.kind = "gauge"
  <1>1. /\ row.value \in Int /\ row.lo \in Int /\ row.hi \in Int /\ row.touched \in BOOLEAN
        /\ row.kind \in Kinds /\ row.key \in Keys
    BY DEF Stat
  <1>2. v \in Int /\ l \in Int /\ h \in Int /\ b \in BOOLEAN
    BY <1>1
  <1>3. Updated(row, e) = [row EXCEPT !.value = v, !.lo = l, !.hi = h, !.touched = b]
    BY DEF Updated, Stat
  <1>. HIDE DEF v, l, h, b
  <1>4. /\ Updated(row, e) \in Stat
        /\ Updated(row, e).kind = row.kind /\ Updated(row, e).key = row.key
        /\ Updated(row, e).value = v /\ Updated(row, e).lo = l /\ Updated(row, e).hi = h
        /\ Updated(row, e).touched = b
    BY <1>1, <1>2, <1>3 DEF Stat
  <1>. QED  BY <1>4 DEF v, l, h, b

\* A line for this row, taken by stat_update.
LEMMA SumsMore ==
    ASSUME NEW s, NEW t, NEW x, Grows(s, t, x), Numbers(s), x.num \in Int,
           NEW i \in StatLines(s), Same(x, s, i), NEW row \in Stat, SumsUp(row, s, i)
    PROVE  SumsUp(Updated(row, x), t, i)
  <1>. DEFINE S == Of(s, i)
              n == Len(s) + 1
              R == S \cup {n}
              new == Updated(row, x)
  <1>1. i \in DOMAIN s /\ S \subseteq DOMAIN s /\ (\A k \in S : s[k].num \in Int) /\ Len(s) \in Nat
    BY OfIn DEF Grows, Numbers
  <1>2. Of(t, i) = R
    BY <1>1, GrowOf
  <1>3. t[i] = s[i] /\ t[n] = x /\ t[i].kind = x.kind
    BY <1>1 DEF Grows, Same
  <1>4. Total(t, R) = Total(s, S) + x.num /\ Nums(t, R) = Nums(s, S) \cup {x.num}
    <2>. HIDE DEF S
    <2>1. Total(t, S \cup {Len(t)}) = Total(s, S) + x.num
      BY <1>1, NewTotal
    <2>2. Nums(t, S \cup {Len(t)}) = Nums(s, S) \cup {x.num}
      BY <1>1, NewNums
    <2>3. Len(t) = n
      BY DEF Grows
    <2>. QED  BY <2>1, <2>2, <2>3
  <1>5. n \in R /\ \A j \in R : j <= n
    BY <1>1 DEF Grows
  <1>6. Nums(s, S) \subseteq Int
    BY <1>1 DEF Nums
  <1>7. /\ x.kind = "counter" => row.value = Total(s, S)
        /\ x.kind = "gauge" =>
             /\ row.touched /\ row.lo \in Nums(s, S) /\ row.hi \in Nums(s, S)
             /\ \A y \in Nums(s, S) : row.lo <= y /\ y <= row.hi
    BY DEF SumsUp, Same
  <1>. HIDE DEF S, R, n, new
  <1>8. /\ new.value = IF x.kind = "counter" THEN row.value + x.num ELSE x.num
        /\ x.kind = "gauge" => /\ new.touched
                               /\ new.lo = IF ~row.touched \/ x.num < row.lo THEN x.num ELSE row.lo
                               /\ new.hi = IF ~row.touched \/ x.num > row.hi THEN x.num ELSE row.hi
    BY UpdatedIs DEF new
  <1>9. x.kind = "counter" => new.value = Total(t, R)
    BY <1>4, <1>7, <1>8
  <1>10. x.kind # "counter" => \E m \in R : new.value = t[m].num /\ \A j \in R : j <= m
    BY <1>3, <1>5, <1>8
  <1>11. ASSUME x.kind = "gauge"
         PROVE  /\ new.touched /\ new.lo \in Nums(t, R) /\ new.hi \in Nums(t, R)
                /\ \A y \in Nums(t, R) : new.lo <= y /\ y <= new.hi
    <2>1. /\ row.lo \in Int /\ row.hi \in Int /\ row.lo \in Nums(s, S) /\ row.hi \in Nums(s, S)
          /\ \A y \in Nums(s, S) : y \in Int /\ row.lo <= y /\ y <= row.hi
      BY <1>6, <1>7, <1>11
    <2>2. /\ new.lo = IF x.num < row.lo THEN x.num ELSE row.lo
          /\ new.hi = IF x.num > row.hi THEN x.num ELSE row.hi
      BY <1>7, <1>8, <1>11
    <2>3. new.lo \in Nums(t, R) /\ new.hi \in Nums(t, R)
      BY <1>4, <2>1, <2>2
    <2>4. /\ new.lo \in Int /\ new.lo <= x.num /\ new.lo <= row.lo
          /\ new.hi \in Int /\ x.num <= new.hi /\ row.hi <= new.hi
      BY <2>1, <2>2
    <2>5. ASSUME NEW y \in Nums(s, S) PROVE new.lo <= y /\ y <= new.hi
      <3>1. y \in Int /\ row.lo <= y /\ y <= row.hi
        BY <2>1
      <3>2. row.lo \in Int /\ row.hi \in Int
        BY <2>1
      <3>. QED  BY <2>4, <3>1, <3>2
    <2>. QED  BY <1>4, <1>8, <1>11, <2>3, <2>4, <2>5
  <1>. QED  BY <1>2, <1>3, <1>9, <1>10, <1>11 DEF SumsUp, new

\* The first line of a row, taken by stat_insert.
LEMMA SumsNew ==
    ASSUME NEW s, NEW t, NEW x, Grows(s, t, x), Fresh(s, x), x.num \in Int,
           NEW row, row.value = x.num, x.kind = "gauge" => row.touched /\ row.lo = x.num /\ row.hi = x.num
    PROVE  SumsUp(row, t, Len(s) + 1)
  <1>. DEFINE n == Len(s) + 1
  <1>1. Of(t, n) = {n} /\ t[n] = x /\ n \in Nat /\ Len(s) \in Nat
    BY GrowOfNew DEF Grows
  <1>2. Total(t, {n}) = x.num
    <2>1. Total(s, {}) = 0
      BY <1>1, TotalNone
    <2>2. Total(t, {} \cup {Len(t)}) = Total(s, {}) + x.num
      <3>1. {} \subseteq DOMAIN s /\ \A k \in {} : s[k].num \in Int
        OBVIOUS
      <3>. QED  BY <3>1, NewTotal
    <2>3. {} \cup {Len(t)} = {n}
      BY DEF Grows
    <2>. HIDE DEF n
    <2>4. Total(t, {} \cup {Len(t)}) = 0 + x.num
      BY <2>1, <2>2, Zenon
    <2>5. Total(t, {n}) = 0 + x.num
      BY <2>3, <2>4, Zenon
    <2>. QED  BY <2>5
  <1>. HIDE DEF n
  <1>3. Nums(t, {n}) = {x.num}
    BY <1>1 DEF Nums
  <1>4. t[n].kind = "counter" => row.value = Total(t, Of(t, n))
    BY <1>1, <1>2
  <1>5. t[n].kind # "counter" =>
            \E m \in Of(t, n) : row.value = t[m].num /\ \A j \in Of(t, n) : j <= m
    BY <1>1
  <1>6. t[n].kind = "gauge" =>
            /\ row.touched /\ row.lo \in Nums(t, Of(t, n)) /\ row.hi \in Nums(t, Of(t, n))
            /\ \A y \in Nums(t, Of(t, n)) : row.lo <= y /\ y <= row.hi
    <2>. SUFFICES ASSUME t[n].kind = "gauge"
                  PROVE  /\ row.touched /\ row.lo \in Nums(t, Of(t, n)) /\ row.hi \in Nums(t, Of(t, n))
                         /\ \A y \in Nums(t, Of(t, n)) : row.lo <= y /\ y <= row.hi
      OBVIOUS
    <2>1. row.touched /\ row.lo = x.num /\ row.hi = x.num
      BY <1>1, Zenon
    <2>2. \A y \in {x.num} : row.lo <= y /\ y <= row.hi
      BY <2>1
    <2>3. row.lo \in {x.num} /\ row.hi \in {x.num}
      BY <2>1
    <2>. QED  BY <1>1, <1>3, <2>1, <2>2, <2>3, Zenon
  <1>7. SumsUp(row, t, n)
    BY <1>4, <1>5, <1>6, Zenon DEF SumsUp
  <1>. QED  BY <1>7 DEF n

\* Only a record is a statistics line, and records have numbers.
LEMMA StatIsRecord ==
    ASSUME NEW x \in Line, x.kind \in StatKinds
    PROVE  x \in Records /\ x.num \in Int
  <1>1. ASSUME x \in Notices PROVE FALSE
    <2>1. PICK k \in {"failed", "aborted", "bad status"} : x = Notice(k)
      BY <1>1 DEF Notices
    <2>2. x.kind = k
      BY <2>1 DEF Notice
    <2>. QED  BY <2>2 DEF StatKinds
  <1>2. ASSUME x \in Startings PROVE FALSE
    <2>1. PICK s \in Scens \cup {"none"}, d \in Seeds \cup {"none"} : x = Starting(s, d)
      BY <1>2 DEF Startings
    <2>2. x.kind = "starting"
      BY <2>1 DEF Starting
    <2>. QED  BY <2>2 DEF StatKinds
  <1>3. x \in Records
    BY <1>1, <1>2 DEF Line
  <1>. QED  BY <1>3, SessionAssumption

LEMMA LinesNumbers ==
    ASSUME lines \in Seq(Line)
    PROVE  Numbers(lines)
  <1>1. ASSUME NEW i \in StatLines(lines) PROVE lines[i].num \in Int
    <2>1. lines[i] \in Line /\ lines[i].kind \in StatKinds
      BY DEF StatLines
    <2>. QED  BY <2>1, StatIsRecord
  <1>. QED  BY <1>1 DEF Numbers

LEMMA KeptIn ==
    ASSUME NEW s, NEW i \in Kept(s)
    PROVE  i \in StatLines(s) /\ i \in DOMAIN s /\ s[i].kind \in StatKinds
  BY FirstsIn DEF StatLines

\* A line that no row takes and that finds no room leaves the table exact.
LEMMA TableKept ==
    ASSUME lines \in Seq(Line), Table, NEW x \in Line, lines' = Append(lines, x), UNCHANGED statVars,
           \A i \in Kept(lines) : ~Same(x, lines, i), Kept(lines') = Kept(lines),
           g_stats_n < STATS_MAX => Firsts(lines') = Firsts(lines)
    PROVE  Table'
  <1>1. Grows(lines, lines', x) /\ Numbers(lines)
    BY AppendGrows, LinesNumbers
  <1>2. \A i \in Kept(lines) : i \in StatLines(lines) /\ lines'[i] = lines[i]
    BY <1>1, KeptIn DEF Grows
  <1>3. g_stats' = g_stats /\ g_stats_n' = g_stats_n
    BY DEF statVars
  <1>4. StatTypes' /\ Counted'
    BY <1>3 DEF Table, StatTypes, Counted
  <1>5. \A r, q \in 1..g_stats_n : Named(g_stats[r], g_stats[q]) => r = q
    BY DEF Table, OneRowEach
  <1>6. \A r \in 1..g_stats_n : \E i \in Kept(lines) : Named(g_stats[r], lines'[i])
    BY <1>2 DEF Table, OneRowEach
  <1>7. ASSUME NEW i \in Kept(lines)
        PROVE  \E r \in 1..g_stats_n : Named(g_stats[r], lines'[i]) /\ SumsUp(g_stats[r], lines', i)
    <2>1. PICK r \in 1..g_stats_n : Named(g_stats[r], lines[i]) /\ SumsUp(g_stats[r], lines, i)
      BY DEF Table, OneRowEach
    <2>2. i \in StatLines(lines) /\ lines'[i] = lines[i] /\ ~Same(x, lines, i)
      BY <1>2
    <2>3. SumsUp(g_stats[r], lines', i)
      BY <1>1, <2>1, <2>2, SumsKept
    <2>. QED  BY <2>1, <2>2, <2>3
  <1>8. OneRowEach'
    BY <1>3, <1>5, <1>6, <1>7 DEF OneRowEach
  <1>. QED  BY <1>4, <1>8 DEF Table

\* stat_update on the row of the record.
LEMMA TableUpdate ==
    ASSUME lines \in Seq(Line), Table, NEW x \in Line, x.kind \in StatKinds, lines' = Append(lines, x),
           NEW q \in 1..g_stats_n, Named(g_stats[q], x),
           g_stats' = [g_stats EXCEPT ![q] = Updated(g_stats[q], x)], g_stats_n' = g_stats_n
    PROVE  Table'
  <1>1. Grows(lines, lines', x) /\ Numbers(lines) /\ x.num \in Int
    BY AppendGrows, LinesNumbers, StatIsRecord
  <1>2. \A i \in Kept(lines) : i \in StatLines(lines) /\ lines'[i] = lines[i]
    BY <1>1, KeptIn DEF Grows
  <1>3. Kept(lines') = Kept(lines) /\ Firsts(lines') = Firsts(lines)
    <2>1. PICK i \in Kept(lines) : Named(g_stats[q], lines[i])
      BY DEF Table, OneRowEach
    <2>2. Same(x, lines, i) /\ i \in StatLines(lines)
      BY <1>2, <2>1 DEF Same, Named
    <2>3. ~Fresh(lines, x)
      BY <2>2 DEF Fresh
    <2>. QED  BY <1>1, <2>3, GrowKept, GrowFirsts
  <1>4. g_stats \in [1..STATS_MAX -> Stat] /\ g_stats_n \in 0..STATS_MAX /\ STATS_MAX \in Nat
    BY SessionAssumption DEF Table, StatTypes
  <1>5. \A r \in 1..g_stats_n : r \in 1..STATS_MAX
    BY <1>4
  <1>6. g_stats[q] \in Stat
    BY <1>4, <1>5
  <1>. DEFINE new == Updated(g_stats[q], x)
  <1>7. new \in Stat /\ new.kind = g_stats[q].kind /\ new.key = g_stats[q].key
    BY <1>1, <1>6, UpdatedIs
  <1>8. /\ g_stats' \in [1..STATS_MAX -> Stat] /\ g_stats'[q] = new
        /\ \A r \in 1..g_stats_n : r # q => g_stats'[r] = g_stats[r]
    <2>. HIDE DEF new
    <2>1. g_stats' = [g_stats EXCEPT ![q] = new]
      BY DEF new
    <2>. QED  BY <1>4, <1>5, <1>7, <2>1
  <1>9. \A r \in 1..g_stats_n : g_stats'[r].kind = g_stats[r].kind /\ g_stats'[r].key = g_stats[r].key
    BY <1>7, <1>8
  <1>10. StatTypes' /\ Counted'
    <2>1. StatTypes'
      BY <1>4, <1>8 DEF StatTypes
    <2>. QED  BY <1>3, <2>1 DEF Table, Counted
  <1>11. \A r, p \in 1..g_stats_n : Named(g_stats'[r], g_stats'[p]) => r = p
    BY <1>9 DEF Table, OneRowEach, Named
  <1>12. \A r \in 1..g_stats_n : \E i \in Kept(lines) : Named(g_stats'[r], lines'[i])
    <2>. SUFFICES ASSUME NEW r \in 1..g_stats_n
                  PROVE  \E i \in Kept(lines) : Named(g_stats'[r], lines'[i])
      OBVIOUS
    <2>1. PICK i \in Kept(lines) : Named(g_stats[r], lines[i])
      BY DEF Table, OneRowEach
    <2>. QED  BY <1>2, <1>9, <2>1 DEF Named
  <1>13. ASSUME NEW i \in Kept(lines)
         PROVE  \E r \in 1..g_stats_n : Named(g_stats'[r], lines'[i]) /\ SumsUp(g_stats'[r], lines', i)
    <2>1. PICK r \in 1..g_stats_n : Named(g_stats[r], lines[i]) /\ SumsUp(g_stats[r], lines, i)
      BY DEF Table, OneRowEach
    <2>2. i \in StatLines(lines) /\ lines'[i] = lines[i]
      BY <1>2
    <2>3. Named(g_stats'[r], lines'[i])
      BY <1>9, <2>1, <2>2 DEF Named
    <2>4. CASE Same(x, lines, i)
      <3>1. Named(g_stats[r], g_stats[q])
        BY <2>1, <2>4 DEF Named, Same
      <3>2. r = q
        BY <3>1 DEF Table, OneRowEach
      <3>3. SumsUp(g_stats[q], lines, i)
        BY <2>1, <3>2
      <3>4. SumsUp(new, lines', i)
        BY <1>1, <1>6, <2>2, <2>4, <3>3, SumsMore
      <3>. HIDE DEF new
      <3>. QED  BY <1>8, <2>3, <3>2, <3>4
    <2>5. CASE ~Same(x, lines, i)
      <3>1. r # q
        BY <2>1, <2>5 DEF Named, Same
      <3>2. g_stats'[r] = g_stats[r]
        BY <1>8, <3>1
      <3>3. SumsUp(g_stats[r], lines', i)
        BY <1>1, <2>1, <2>2, <2>5, SumsKept
      <3>. QED  BY <2>3, <3>2, <3>3
    <2>. QED  BY <2>4, <2>5
  <1>14. OneRowEach'
    BY <1>3, <1>11, <1>12, <1>13 DEF OneRowEach
  <1>. QED  BY <1>10, <1>14 DEF Table

\* The row after stat_insert in the place of row old.
Inserted(old, e) ==
    [key     |-> e.key, value |-> e.num, kind |-> e.kind,
     lo      |-> IF e.kind = "gauge" THEN e.num ELSE old.lo,
     hi      |-> IF e.kind = "gauge" THEN e.num ELSE old.hi,
     touched |-> old.touched \/ e.kind = "gauge"]

LEMMA InsertedIs ==
    ASSUME NEW old \in Stat, NEW e \in Records
    PROVE  /\ Inserted(old, e) \in Stat /\ Inserted(old, e).value = e.num
           /\ Inserted(old, e).kind = e.kind /\ Inserted(old, e).key = e.key
           /\ e.kind = "gauge" => /\ Inserted(old, e).touched
                                  /\ Inserted(old, e).lo = e.num /\ Inserted(old, e).hi = e.num
  <1>. DEFINE l == IF e.kind = "gauge" THEN e.num ELSE old.lo
              h == IF e.kind = "gauge" THEN e.num ELSE old.hi
              b == old.touched \/ e.kind = "gauge"
  <1>1. old.lo \in Int /\ old.hi \in Int /\ old.touched \in BOOLEAN /\ e.num \in Int
    BY SessionAssumption DEF Stat
  <1>2. l \in Int /\ h \in Int /\ b \in BOOLEAN /\ e.key \in Keys /\ e.kind \in Kinds
    BY <1>1 DEF Keys, Kinds
  <1>3. Inserted(old, e) =
          [key |-> e.key, value |-> e.num, kind |-> e.kind, lo |-> l, hi |-> h, touched |-> b]
    BY DEF Inserted
  <1>. HIDE DEF l, h, b
  <1>4. /\ Inserted(old, e) \in Stat /\ Inserted(old, e).value = e.num
        /\ Inserted(old, e).kind = e.kind /\ Inserted(old, e).key = e.key
        /\ Inserted(old, e).lo = l /\ Inserted(old, e).hi = h /\ Inserted(old, e).touched = b
    BY <1>1, <1>2, <1>3 DEF Stat
  <1>. QED  BY <1>4 DEF l, h, b

\* stat_insert: the record is the first of its row and there is room.
LEMMA TableInsert ==
    ASSUME lines \in Seq(Line), Table, NEW x \in Line, x.kind \in StatKinds, lines' = Append(lines, x),
           \A r \in 1..g_stats_n : ~Named(g_stats[r], x), g_stats_n < STATS_MAX,
           g_stats' = [g_stats EXCEPT ![g_stats_n + 1] = Inserted(g_stats[g_stats_n + 1], x)],
           g_stats_n' = g_stats_n + 1
    PROVE  Table'
  <1>. DEFINE w == g_stats_n + 1
              n == Len(lines) + 1
              new == Inserted(g_stats[w], x)
  <1>1. Grows(lines, lines', x) /\ Numbers(lines) /\ x.num \in Int /\ x \in Records
    BY AppendGrows, LinesNumbers, StatIsRecord
  <1>2. \A i \in Kept(lines) : i \in StatLines(lines) /\ lines'[i] = lines[i]
    BY <1>1, KeptIn DEF Grows
  <1>3. Len(lines) \in Nat /\ DOMAIN lines = 1..Len(lines) /\ lines'[n] = x
    BY <1>1 DEF Grows
  <1>4. \A i \in Kept(lines) : ~Same(x, lines, i)
    <2>1. ASSUME NEW i \in Kept(lines), Same(x, lines, i) PROVE FALSE
      <3>1. PICK r \in 1..g_stats_n : Named(g_stats[r], lines[i])
        BY DEF Table, OneRowEach
      <3>2. Named(g_stats[r], x)
        BY <2>1, <3>1 DEF Named, Same
      <3>. QED  BY <3>2
    <2>. QED  BY <2>1
  <1>5. Kept(lines) = Firsts(lines) /\ g_stats_n = Cardinality(Kept(lines))
    BY DEF Table, Counted
  <1>6. Fresh(lines, x)
    <2>1. ASSUME NEW j \in StatLines(lines), Same(x, lines, j) PROVE FALSE
      <3>1. PICK i \in Firsts(lines) : lines[i].kind = lines[j].kind /\ lines[i].key = lines[j].key
        BY <1>3, FirstOf
      <3>2. Same(x, lines, i) /\ i \in Kept(lines)
        BY <1>5, <2>1, <3>1 DEF Same
      <3>. QED  BY <1>4, <3>2
    <2>. QED  BY <2>1 DEF Fresh
  <1>7. Kept(lines') = Kept(lines) \cup {n} /\ Firsts(lines') = Firsts(lines) \cup {n}
    <2>1. Cardinality(Firsts(lines)) < STATS_MAX
      BY <1>5
    <2>2. Firsts(lines') = Firsts(lines) \cup {n}
      BY <1>1, <1>6, GrowFirsts
    <2>. QED  BY <1>1, <1>6, <2>1, <2>2, GrowKept
  <1>8. /\ g_stats \in [1..STATS_MAX -> Stat] /\ g_stats_n \in Nat /\ STATS_MAX \in Nat
        /\ w \in 1..STATS_MAX /\ (\A r \in 1..g_stats_n : r \in 1..STATS_MAX /\ r # w)
        /\ \A r : r \in 1..w <=> r \in 1..g_stats_n \/ r = w
    BY SessionAssumption DEF Table, StatTypes
  <1>9. new \in Stat /\ new.value = x.num /\ new.kind = x.kind /\ new.key = x.key
    BY <1>1, <1>8, InsertedIs
  <1>10. x.kind = "gauge" => new.touched /\ new.lo = x.num /\ new.hi = x.num
    BY <1>1, <1>8, InsertedIs
  <1>11. SumsUp(new, lines', n)
    <2>. HIDE DEF new
    <2>. QED  BY <1>1, <1>6, <1>9, <1>10, SumsNew
  <1>12. /\ g_stats' \in [1..STATS_MAX -> Stat] /\ g_stats'[w] = new
         /\ \A r \in 1..g_stats_n : g_stats'[r] = g_stats[r]
    <2>1. g_stats' = [g_stats EXCEPT ![w] = new]
      OBVIOUS
    <2>. HIDE DEF new, w
    <2>. QED  BY <1>8, <1>9, <2>1
  <1>13. Cardinality(Kept(lines) \cup {n}) = g_stats_n + 1
    <2>1. IsFiniteSet(Kept(lines))
      BY <1>3, FirstsFinite
    <2>2. n \notin Kept(lines)
      <3>1. \A i \in Kept(lines) : i \in 1..Len(lines)
        BY <1>3, KeptIn
      <3>. QED  BY <1>3, <3>1
    <2>. HIDE DEF n
    <2>. QED  BY <1>5, <2>1, <2>2, FS_AddElement
  <1>. HIDE DEF new, n
  <1>14. StatTypes'
    BY <1>8, <1>12 DEF StatTypes
  <1>15. Counted'
    <2>1. Kept(lines') = Firsts(lines')
      BY <1>5, <1>7
    <2>. QED  BY <1>7, <1>13, <2>1 DEF Counted
  <1>. HIDE DEF w
  <1>16. g_stats_n' = w
    BY DEF w
  <1>17. ASSUME NEW r \in 1..w, NEW p \in 1..w, Named(g_stats'[r], g_stats'[p]) PROVE r = p
    <2>1. CASE r = w /\ p = w
      BY <2>1
    <2>2. CASE r = w /\ p \in 1..g_stats_n
      BY <1>9, <1>12, <1>17, <2>2 DEF Named
    <2>3. CASE r \in 1..g_stats_n /\ p = w
      BY <1>9, <1>12, <1>17, <2>3 DEF Named
    <2>4. CASE r \in 1..g_stats_n /\ p \in 1..g_stats_n
      BY <1>12, <1>17, <2>4 DEF Table, OneRowEach
    <2>. QED  BY <1>8, <2>1, <2>2, <2>3, <2>4
  <1>18. ASSUME NEW r \in 1..w PROVE \E i \in Kept(lines') : Named(g_stats'[r], lines'[i])
    <2>1. CASE r = w
      BY <1>3, <1>7, <1>9, <1>12, <2>1 DEF Named
    <2>2. CASE r \in 1..g_stats_n
      <3>1. PICK i \in Kept(lines) : Named(g_stats[r], lines[i])
        BY <2>2 DEF Table, OneRowEach
      <3>2. i \in Kept(lines') /\ lines'[i] = lines[i] /\ g_stats'[r] = g_stats[r]
        BY <1>2, <1>7, <1>12, <2>2
      <3>. QED  BY <3>1, <3>2
    <2>. QED  BY <1>8, <2>1, <2>2
  <1>19. ASSUME NEW i \in Kept(lines')
         PROVE  \E r \in 1..w : Named(g_stats'[r], lines'[i]) /\ SumsUp(g_stats'[r], lines', i)
    <2>1. CASE i = n
      <3>1. w \in 1..w /\ Named(g_stats'[w], lines'[n]) /\ SumsUp(g_stats'[w], lines', n)
        BY <1>3, <1>8, <1>9, <1>11, <1>12 DEF Named
      <3>. QED  BY <2>1, <3>1
    <2>2. CASE i \in Kept(lines)
      <3>1. PICK r \in 1..g_stats_n : Named(g_stats[r], lines[i]) /\ SumsUp(g_stats[r], lines, i)
        BY <2>2 DEF Table, OneRowEach
      <3>2. i \in StatLines(lines) /\ lines'[i] = lines[i] /\ ~Same(x, lines, i)
        BY <1>2, <1>4, <2>2
      <3>3. SumsUp(g_stats[r], lines', i)
        BY <1>1, <3>1, <3>2, SumsKept
      <3>4. g_stats'[r] = g_stats[r] /\ r \in 1..w
        BY <1>8, <1>12
      <3>. QED  BY <3>1, <3>2, <3>3, <3>4
    <2>. QED  BY <1>7, <2>1, <2>2
  <1>20. OneRowEach'
    BY <1>16, <1>17, <1>18, <1>19 DEF OneRowEach
  <1>. QED  BY <1>14, <1>15, <1>20 DEF Table

\* A line that is no statistic.
LEMMA TableOther ==
    ASSUME lines \in Seq(Line), Table, NEW x \in Line, x.kind \notin StatKinds, log_pushf(x),
           UNCHANGED statVars
    PROVE  Table'
  <1>1. lines' = Append(lines, x) /\ Grows(lines, lines', x)
    BY AppendGrows DEF log_pushf
  <1>2. ~Fresh(lines, x) /\ \A i \in Kept(lines) : ~Same(x, lines, i)
    BY DEF Fresh, Same
  <1>3. Kept(lines') = Kept(lines) /\ Firsts(lines') = Firsts(lines)
    BY <1>1, <1>2, GrowKept, GrowFirsts
  <1>. QED  BY <1>1, <1>2, <1>3, TableKept

LEMMA TableQuiet ==
    ASSUME Table, UNCHANGED lines, UNCHANGED statVars
    PROVE  Table'
  BY DEF Table, StatTypes, Counted, OneRowEach, statVars

\* stat_upsert, whichever of its three ways it goes.
LEMMA TableUpsert ==
    ASSUME lines \in Seq(Line), Table, NEW x \in Line, x.kind \in StatKinds, log_pushf(x), stat_upsert(x)
    PROVE  Table'
  <1>. DEFINE rows == RowsOf(x.kind, x.key)
  <1>1. lines' = Append(lines, x) /\ Grows(lines, lines', x)
    BY AppendGrows DEF log_pushf
  <1>2. g_stats_n \in Nat /\ g_stats_n <= STATS_MAX /\ STATS_MAX \in Nat
    BY SessionAssumption DEF Table, StatTypes
  <1>3. \A r : r \in rows <=> r \in 1..g_stats_n /\ Named(g_stats[r], x)
    BY DEF RowsOf, Named
  <1>. HIDE DEF rows
  <1>4. CASE rows # {}
    <2>. DEFINE q == Min(rows)
    <2>1. \E m \in rows : \A k \in rows : m <= k
      <3>1. rows \subseteq Nat
        BY <1>2, <1>3
      <3>. QED  BY <1>4, <3>1, LeastOf
    <2>2. q \in rows
      BY <2>1 DEF Min
    <2>3. stat_update(q, x)
      BY <1>4 DEF stat_upsert, rows
    <2>. HIDE DEF q
    <2>4. q \in 1..g_stats_n /\ Named(g_stats[q], x)
      BY <1>3, <2>2
    <2>5. g_stats' = [g_stats EXCEPT ![q] = Updated(g_stats[q], x)] /\ g_stats_n' = g_stats_n
      BY <2>3 DEF stat_update, Updated
    <2>. QED  BY <1>1, <2>4, <2>5, TableUpdate
  <1>5. CASE rows = {} /\ g_stats_n < STATS_MAX
    <2>1. stat_insert(x)
      BY <1>5 DEF stat_upsert, rows
    <2>2. /\ g_stats' = [g_stats EXCEPT ![g_stats_n + 1] = Inserted(g_stats[g_stats_n + 1], x)]
          /\ g_stats_n' = g_stats_n + 1
      BY <2>1 DEF stat_insert, Inserted
    <2>3. \A r \in 1..g_stats_n : ~Named(g_stats[r], x)
      BY <1>3, <1>5
    <2>. QED  BY <1>1, <1>5, <2>2, <2>3, TableInsert
  <1>6. CASE rows = {} /\ ~(g_stats_n < STATS_MAX)
    <2>1. UNCHANGED statVars
      BY <1>6 DEF stat_upsert, rows
    <2>2. ASSUME NEW i \in Kept(lines), Same(x, lines, i) PROVE FALSE
      <3>1. PICK r \in 1..g_stats_n : Named(g_stats[r], lines[i])
        BY DEF Table, OneRowEach
      <3>2. Named(g_stats[r], x)
        BY <2>2, <3>1 DEF Named, Same
      <3>. QED  BY <1>3, <1>6, <3>2
    <2>3. Kept(lines') = Kept(lines)
      <3>1. Cardinality(Kept(lines)) = STATS_MAX
        BY <1>2, <1>6 DEF Table, Counted
      <3>2. Len(lines) \in Nat /\ DOMAIN lines = 1..Len(lines)
        BY <1>1 DEF Grows
      <3>3. Cardinality(Firsts(lines)) \in Nat /\ STATS_MAX <= Cardinality(Firsts(lines))
        BY <3>1, <3>2, FirstsFinite
      <3>4. ~(Cardinality(Firsts(lines)) < STATS_MAX)
        BY <1>2, <3>3
      <3>. QED  BY <1>1, <3>4, GrowKept
    <2>. QED  BY <1>1, <1>6, <2>1, <2>2, <2>3, TableKept
  <1>. QED  BY <1>4, <1>5, <1>6

\* A table without rows sums up lines without statistics.
LEMMA TableEmpty ==
    ASSUME g_stats \in [1..STATS_MAX -> Stat], g_stats_n = 0, StatLines(lines) = {}
    PROVE  Table
  <1>1. Firsts(lines) = {} /\ Kept(lines) = {}
    BY FirstsIn
  <1>2. StatTypes
    BY SessionAssumption DEF StatTypes
  <1>3. Counted
    BY <1>1, FS_EmptySet DEF Counted
  <1>4. OneRowEach
    BY <1>1 DEF OneRowEach
  <1>. QED  BY <1>2, <1>3, <1>4 DEF Table

\* run_scenario keeps the contents of the rows and drops them all the same.
LEMMA TableBegins ==
    ASSUME Table, NEW s, NEW d, run_scenario(s, d)
    PROVE  Table'
  <1>1. lines' = <<Starting(s, d)>> /\ g_stats' = g_stats /\ g_stats_n' = 0
    BY DEF run_scenario, run_begins
  <1>2. StatLines(lines') = {}
    <2>1. DOMAIN lines' = {1} /\ lines'[1].kind = "starting"
      BY <1>1 DEF Starting
    <2>. QED  BY <2>1 DEF StatLines, StatKinds
  <1>3. Firsts(lines') = {} /\ Kept(lines') = {}
    BY <1>2, FirstsIn
  <1>4. StatTypes'
    BY <1>1, SessionAssumption DEF Table, StatTypes
  <1>5. Counted'
    BY <1>1, <1>3, FS_EmptySet DEF Counted
  <1>6. OneRowEach'
    BY <1>1, <1>3 DEF OneRowEach
  <1>. QED  BY <1>4, <1>5, <1>6 DEF Table

LEMMA InitTable == Init => Table
  <1>. SUFFICES ASSUME Init PROVE Table
    OBVIOUS
  <1>1. lines = <<>> /\ g_stats = [i \in 1..STATS_MAX |-> NoStat] /\ g_stats_n = 0
    BY DEF Init
  <1>2. NoStat \in Stat
    BY DEF NoStat, Stat, Keys, Kinds
  <1>3. g_stats \in [1..STATS_MAX -> Stat]
    BY <1>1, <1>2
  <1>4. StatLines(lines) = {}
    BY <1>1 DEF StatLines
  <1>. QED  BY <1>1, <1>3, <1>4, TableEmpty

LEMMA NextTable == SInv /\ Table /\ [Next]_vars => Table'
  <1>. SUFFICES ASSUME SInv, Table, [Next]_vars PROVE Table'
    OBVIOUS
  <1>0. lines \in Seq(Line)
    BY DEF SInv, SessionTypes
  <1>1. ASSUME UNCHANGED <<logVars, statVars>> PROVE Table'
    BY <1>1, TableQuiet DEF logVars
  <1>2. ASSUME NEW k \in {"failed", "aborted", "bad status"}, log_pushf(Notice(k)), UNCHANGED statVars
        PROVE  Table'
    <2>. DEFINE x == Notice(k)
    <2>1. x \in Line /\ x.kind \notin StatKinds
      BY DEF Line, Notices, Notice, StatKinds
    <2>2. log_pushf(x)
      BY <1>2
    <2>. HIDE DEF x
    <2>. QED  BY <1>0, <1>2, <2>1, <2>2, TableOther
  <1>3. ASSUME NEW s \in Scens, pg_registry_add(s) PROVE Table'
    BY <1>1, <1>3 DEF pg_registry_add
  <1>4. CASE tui_run \/ lesson_closes \/ key_resize \/ user_resizes \/ run_resize_lost \/ run_leaves
    BY <1>1, <1>4 DEF tui_run, lesson_closes, key_resize, user_resizes, run_resize_lost, run_leaves
  <1>5. CASE key_select \/ key_lesson \/ key_back \/ key_quit
    BY <1>1, <1>5 DEF key_select, key_lesson, key_back, key_quit, Key
  <1>6. CASE key_run
    BY <1>6, TableBegins DEF key_run
  <1>7. CASE key_rerun
    BY <1>7, TableBegins DEF key_rerun
  <1>8. CASE run_refused
    BY <1>2, <1>8 DEF run_refused
  <1>9. CASE run_abort
    BY <1>2, <1>9 DEF run_abort
  <1>10. CASE run_reaped
    BY <1>1, <1>2, <1>10 DEF run_reaped
  <1>11. ASSUME NEW e \in Records, run_record(e) PROVE Table'
    <2>1. e \in Line /\ log_pushf(e)
      BY <1>11 DEF run_record, Line
    <2>2. CASE e.kind \in StatKinds
      <3>1. stat_upsert(e)
        BY <1>11, <2>2 DEF run_record
      <3>. QED  BY <1>0, <2>1, <2>2, <3>1, TableUpsert
    <2>3. CASE e.kind \notin StatKinds
      <3>1. UNCHANGED statVars
        BY <1>11, <2>3 DEF run_record
      <3>. QED  BY <1>0, <2>1, <2>3, <3>1, TableOther
    <2>. QED  BY <2>2, <2>3
  <1>12. CASE UNCHANGED vars
    BY <1>1, <1>12 DEF vars
  <1>. QED  BY <1>3, <1>4, <1>5, <1>6, <1>7, <1>8, <1>9, <1>10, <1>11, <1>12 DEF Next

LEMMA MaxIs ==
    ASSUME NEW S, S \subseteq Int, NEW m \in S, \A y \in S : y <= m
    PROVE  Max(S) = m
  <1>1. \A y \in S : m >= y
    OBVIOUS
  <1>2. Max(S) \in S /\ \A y \in S : Max(S) >= y
    BY <1>1 DEF Max
  <1>3. Max(S) >= m /\ m >= Max(S) /\ Max(S) \in Int /\ m \in Int
    BY <1>1, <1>2
  <1>. QED  BY <1>3

LEMMA MinIs ==
    ASSUME NEW S, S \subseteq Int, NEW m \in S, \A y \in S : m <= y
    PROVE  Min(S) = m
  <1>1. Min(S) \in S /\ \A y \in S : Min(S) <= y
    BY DEF Min
  <1>2. Min(S) <= m /\ m <= Min(S) /\ Min(S) \in Int /\ m \in Int
    BY <1>1
  <1>. QED  BY <1>2

\* The statistics pane sums up the records of the last run alone, for any number of
\* rows, any records and any number of runs before it.
THEOREM SessionStatsExact == Spec => []StatsExact
  <1>1. ASSUME SInv, Table PROVE StatsExact
    <2>1. lines \in Seq(Line) /\ Len(lines) \in Nat /\ DOMAIN lines = 1..Len(lines)
      BY <1>1 DEF SInv, SessionTypes
    <2>2. Numbers(lines)
      BY <2>1, LinesNumbers
    <2>3. g_stats_n = Cardinality(Kept(lines)) /\ (g_stats_n < STATS_MAX => Kept(lines) = Firsts(lines))
      BY <1>1 DEF Table, Counted
    <2>4. \A i \in Kept(lines) : \E r \in 1..g_stats_n :
              Named(g_stats[r], lines[i]) /\ SumsUp(g_stats[r], lines, i)
      BY <1>1 DEF Table, OneRowEach
    <2>5. ASSUME NEW i \in Kept(lines)
          PROVE  \E r \in RowsOf(lines[i].kind, lines[i].key) :
                   /\ g_stats[r].value = IF lines[i].kind = "counter" THEN Total(lines, Of(lines, i))
                                         ELSE lines[Max(Of(lines, i))].num
                   /\ lines[i].kind = "gauge" =>
                        /\ g_stats[r].lo = Min(Nums(lines, Of(lines, i)))
                        /\ g_stats[r].hi = Max(Nums(lines, Of(lines, i)))
      <3>. DEFINE S == Of(lines, i)
      <3>1. PICK r \in 1..g_stats_n : Named(g_stats[r], lines[i]) /\ SumsUp(g_stats[r], lines, i)
        BY <2>4
      <3>2. r \in RowsOf(lines[i].kind, lines[i].key)
        BY <3>1 DEF RowsOf, Named
      <3>3. S \subseteq Int /\ Nums(lines, S) \subseteq Int
        <4>1. S \subseteq StatLines(lines) /\ StatLines(lines) \subseteq Int
          <5>1. S \subseteq StatLines(lines) /\ StatLines(lines) \subseteq DOMAIN lines
            BY OfIn
          <5>. QED  BY <2>1, <5>1
        <4>. QED  BY <2>2, <4>1 DEF Numbers, Nums
      <3>4. lines[i].kind = "counter" => g_stats[r].value = Total(lines, S)
        BY <3>1 DEF SumsUp
      <3>5. ASSUME lines[i].kind # "counter" PROVE g_stats[r].value = lines[Max(S)].num
        <4>1. PICK m \in S : g_stats[r].value = lines[m].num /\ \A j \in S : j <= m
          BY <3>1, <3>5 DEF SumsUp
        <4>. HIDE DEF S
        <4>2. Max(S) = m
          BY <3>3, <4>1, MaxIs
        <4>. QED  BY <4>1, <4>2
      <3>6. ASSUME lines[i].kind = "gauge"
            PROVE  g_stats[r].lo = Min(Nums(lines, S)) /\ g_stats[r].hi = Max(Nums(lines, S))
        <4>. DEFINE N == Nums(lines, S)
                    l == g_stats[r].lo
                    h == g_stats[r].hi
        <4>1. l \in N /\ h \in N /\ \A y \in N : l <= y /\ y <= h
          BY <3>1, <3>6 DEF SumsUp
        <4>2. N \subseteq Int
          BY <3>3
        <4>. HIDE DEF N, l, h
        <4>3. Min(N) = l /\ Max(N) = h
          BY <4>1, <4>2, MinIs, MaxIs
        <4>. QED  BY <4>3 DEF N, l, h
      <3>. QED  BY <3>2, <3>4, <3>5, <3>6
    <2>6. ASSUME NEW d \in draw_diff, d.act = {}, g_stats_n # STATS_MAX,
                 NEW j \in StatLines(lines), lines[j].kind = "actual", lines[j].key = d.key
          PROVE  FALSE
      <3>1. Kept(lines) = Firsts(lines)
        <4>1. g_stats_n \in 0..STATS_MAX /\ STATS_MAX \in Nat
          BY <1>1, SessionAssumption DEF Table, StatTypes
        <4>. QED  BY <2>3, <2>6, <4>1
      <3>2. PICK i \in Firsts(lines) : lines[i].kind = "actual" /\ lines[i].key = d.key
        BY <2>1, <2>6, FirstOf
      <3>3. PICK r \in 1..g_stats_n : Named(g_stats[r], lines[i])
        BY <2>4, <3>1
      <3>4. r \in RowsOf("actual", d.key)
        BY <3>2, <3>3 DEF RowsOf, Named
      <3>5. d.act = {g_stats[k].value : k \in RowsOf("actual", d.key)}
        BY DEF draw_diff
      <3>. QED  BY <2>6, <3>4, <3>5
    <2>. QED  BY <2>3, <2>5, <2>6 DEF StatsExact
  <1>2. Init => SInv /\ Table
    BY InitSInv, InitTable
  <1>3. SInv /\ Table /\ [Next]_vars => (SInv /\ Table)'
    BY NextSInv, NextTable
  <1>. QED  BY <1>1, <1>2, <1>3, PTL DEF Spec
=============================================================================
