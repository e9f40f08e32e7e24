------------------------------ MODULE NetProof ------------------------------
(***************************************************************************)
(* Proofs about the proxied socket pair under every program that uses it,  *)
(* for all buffer sizes and any number of bytes.                           *)
(***************************************************************************)
EXTENDS NetScenarios, FiniteSetTheorems, SequenceTheorems, TLAPS

(* The stream of one direction: r was received, o waits for the reader, b is *)
(* in the forwarder's buffer, i waits for the forwarder; l was dropped of n. *)

Inc(s)      == \A j, k \in 1..Len(s) : j < k => s[j] < s[k]
Below(A, B) == \A x \in A, y \in B : x < y

Ordered(r, o, b, i) ==
    /\ Inc(r) /\ Inc(o) /\ Inc(b) /\ Inc(i)
    /\ Below(ToSet(r), ToSet(o)) /\ Below(ToSet(r), ToSet(b)) /\ Below(ToSet(r), ToSet(i))
    /\ Below(ToSet(o), ToSet(b)) /\ Below(ToSet(o), ToSet(i))
    /\ Below(ToSet(b), ToSet(i))

Flow(r, o, b, i) == ToSet(r) \cup ToSet(o) \cup ToSet(b) \cup ToSet(i)

\* Nothing in the stream was invented, and nothing in it was also dropped.
Stream(r, o, b, i, l, n) ==
    /\ Ordered(r, o, b, i)
    /\ l \subseteq 1..n /\ Flow(r, o, b, i) \subseteq (1..n) \ l

\* Nothing but the dropped bytes is missing from it.
Whole(r, o, b, i, l, n) == (1..n) \ l \subseteq Flow(r, o, b, i)

----------------------------------------------------------------------------
(* The invariant of the pair, whoever uses it *)

FwPlaces == {"none", "read", "snap", "chunk", "send", "shut", "done"}

NetTypeOK ==
    /\ knobs \in Knobs /\ cpc \in {"none", "up", "undo", "failed", "close_b", "join_ab", "join_ba", "gone"}
    /\ inq \in [Dirs -> Seq(Nat)] /\ outq \in [Dirs -> Seq(Nat)]
    /\ fw \in [Dirs -> [pc : FwPlaces, buf : Seq(Nat), k : Knobs]]
    /\ shut \subseteq Dirs /\ file \in [Ends -> {"open", "closing", "released"}]
    /\ reading \subseteq Ends /\ alive \in BOOLEAN /\ quiet \in BOOLEAN
    /\ sent \in [Dirs -> Nat] /\ rcvd \in [Dirs -> Seq(Nat)]
    /\ lost \in [Dirs -> SUBSET Nat] /\ stale \in [Dirs -> Nat]

\* The buffer holds bytes exactly from the read to the end of the inner loop, and
\* at most one buffer of them.
Buffered(d) ==
    /\ fw[d].pc \in {"snap", "chunk", "send"} <=> fw[d].buf # <<>>
    /\ Len(fw[d].buf) <= BufMax
    /\ cpc = "none" => fw[d].pc = "none" /\ stale[d] = 0

\* A forwarder leaves its loop at the end of its source or for want of a reader.
LoopEnd(d) ==
    /\ fw[d].pc \in {"shut", "done"} =>
         file[Dst(d)] = "released" \/ (file[Src(d)] = "released" /\ inq[d] = <<>>)
    /\ d \in shut => fw[d].pc = "done"

\* What an old snapshot dropped and may still drop is one buffer.
StaleLeft(d) ==
    /\ stale[d] <= BufMax
    /\ fw[d].pc \in {"chunk", "send"} /\ fw[d].k # knobs => stale[d] + Len(fw[d].buf) <= BufMax

\* The stream is in order, and whole as long as somebody can read it.
StreamOK(d) ==
    /\ Stream(rcvd[d], outq[d], fw[d].buf, inq[d], lost[d], sent[d])
    /\ file[Dst(d)] # "released" => Whole(rcvd[d], outq[d], fw[d].buf, inq[d], lost[d], sent[d])

DirOK(d) == Buffered(d) /\ LoopEnd(d) /\ StaleLeft(d) /\ StreamOK(d)

NetInv == NetTypeOK /\ \A d \in Dirs : DirOK(d)

\* The forwarders, and every call on a pair that is up or being made or closed.
NetCall ==
    \/ \E d \in Dirs : forward_fn(d)
    \/ \E e \in Ends, n \in Nat : cpc = "up" /\ user_write(e, n)
    \/ \E e \in Ends, m \in Nat : user_read(e, m) \/ read_bytes(e, m)
    \/ \E e \in Ends : read_start(e) \/ read_eof(e) \/ user_close(e)
    \/ \E k \in Knobs : net_pair(k) \/ chaos_net_set_knobs(k)
    \/ net_pair_fails \/ net_pair_half \/ net_pair_undo \/ chaos_net_close

----------------------------------------------------------------------------
(* The invariant of the programs *)

\* Bytes are written only between chaos_net_pair and chaos_net_close: what was not
\* in flight then never is.
Before == {"io", "spawn", "send", "recv", "heal", "any", "hup", "join"}

Places == Before \cup {"start", "undo", "close", "late", "end", "none", "run", "blocked", "persist", "drain"}

Lifecycle ==
    /\ pc \in [{"main", "t1", "t2"} -> Places]
    /\ pc["main"] \in Before => cpc = "up"
    /\ scen = "split_brain" =>
         \A t \in Replicas : pc[t] \notin {"none", "end"} => pc["main"] \in {"heal", "join"}

\* A pair that was quiet when it was closed stays so.
QuietStays == quiet =>
    /\ alive /\ cpc \notin {"none", "up"}
    /\ \A d \in Dirs : inq[d] = <<>> /\ fw[d].buf = <<>>

\* The receiver of cascading_failure leaves its loop only at EOF, when nothing is
\* on its way; main does not close the pair before.
Drained(d) == inq[d] = <<>> /\ outq[d] = <<>> /\ fw[d].buf = <<>> /\ InFlight(d) = 0

Cascade == scen = "cascading_failure" =>
    /\ sent["ba"] = 0 /\ pc["t2"] = "none"
    /\ pc["t1"] \in {"none", "run", "blocked", "persist", "end"}
    /\ pc["main"] \in {"start", "undo", "io", "spawn", "send", "hup", "join", "close", "end"}
    /\ pc["main"] \in {"start", "undo", "io", "spawn"} => pc["t1"] = "none"
    /\ pc["main"] \in {"start", "io", "spawn", "send", "hup", "join"} => file["b"] = "open" /\ ret = 0
    /\ pc["main"] \in {"send", "hup", "join"} => pc["t1"] # "none"
    /\ pc["main"] = "undo" => ret = 1
    /\ pc["main"] \in {"close", "end"} => pc["t1"] = (IF ret = 0 THEN "end" ELSE "none")
    /\ pc["t1"] = "end" => Drained("ab") /\ alive /\ file["a"] = "released"

IInv == NetInv /\ Lifecycle /\ QuietStays /\ Cascade
----------------------------------------------------------------------------
(* Sequences of bytes *)

\* What is in a concatenation, and when it is in order.
LEMMA JoinFacts ==
    ASSUME NEW s \in Seq(Nat), NEW t \in Seq(Nat)
    PROVE  /\ s \o t \in Seq(Nat) /\ Len(s \o t) = Len(s) + Len(t)
           /\ ToSet(s \o t) = ToSet(s) \cup ToSet(t)
           /\ Inc(s \o t) <=> Inc(s) /\ Inc(t) /\ Below(ToSet(s), ToSet(t))
  <1>1. /\ s \o t \in Seq(Nat) /\ Len(s \o t) = Len(s) + Len(t)
        /\ \A i \in 1..Len(s) + Len(t) : (s \o t)[i] = IF i <= Len(s) THEN s[i] ELSE t[i - Len(s)]
    BY ConcatProperties
  <1>2. /\ Len(s) \in Nat /\ Len(t) \in Nat
        /\ DOMAIN s = 1..Len(s) /\ DOMAIN t = 1..Len(t) /\ DOMAIN (s \o t) = 1..Len(s) + Len(t)
    BY <1>1, LenProperties
  <1>3. /\ \A j \in 1..Len(s) : j \in 1..Len(s) + Len(t) /\ (s \o t)[j] = s[j]
        /\ \A j \in 1..Len(t) : Len(s) + j \in 1..Len(s) + Len(t) /\ (s \o t)[Len(s) + j] = t[j]
    <2>1. ASSUME NEW j \in 1..Len(s) PROVE j \in 1..Len(s) + Len(t) /\ (s \o t)[j] = s[j]
      BY <1>1, <1>2
    <2>2. ASSUME NEW j \in 1..Len(t)
          PROVE  Len(s) + j \in 1..Len(s) + Len(t) /\ (s \o t)[Len(s) + j] = t[j]
      <3>1. Len(s) + j \in 1..Len(s) + Len(t) /\ ~(Len(s) + j <= Len(s)) /\ Len(s) + j - Len(s) = j
        BY <1>2
      <3>. QED  BY <1>1, <3>1
    <2>. QED  BY <2>1, <2>2
  <1>4. \A i \in 1..Len(s) + Len(t) : i \in 1..Len(s) \/ \E j \in 1..Len(t) : i = Len(s) + j
    <2>. SUFFICES ASSUME NEW i \in 1..Len(s) + Len(t), i \notin 1..Len(s)
                  PROVE  \E j \in 1..Len(t) : i = Len(s) + j
      OBVIOUS
    <2>1. i - Len(s) \in 1..Len(t) /\ i = Len(s) + (i - Len(s))
      BY <1>2
    <2>. QED  BY <2>1
  <1>5. ToSet(s \o t) = ToSet(s) \cup ToSet(t)
    <2>1. ASSUME NEW x \in ToSet(s \o t) PROVE x \in ToSet(s) \cup ToSet(t)
      <3>1. PICK i \in 1..Len(s) + Len(t) : x = (s \o t)[i]
        BY <1>2 DEF ToSet
      <3>2. CASE i \in 1..Len(s)
        BY <1>2, <1>3, <3>1, <3>2 DEF ToSet
      <3>3. CASE \E j \in 1..Len(t) : i = Len(s) + j
        BY <1>2, <1>3, <3>1, <3>3 DEF ToSet
      <3>. QED  BY <1>4, <3>2, <3>3
    <2>2. ASSUME NEW x \in ToSet(s) PROVE x \in ToSet(s \o t)
      <3>1. PICK j \in 1..Len(s) : x = s[j]
        BY <1>2 DEF ToSet
      <3>. QED  BY <1>2, <1>3, <3>1 DEF ToSet
    <2>3. ASSUME NEW x \in ToSet(t) PROVE x \in ToSet(s \o t)
      <3>1. PICK j \in 1..Len(t) : x = t[j]
        BY <1>2 DEF ToSet
      <3>. QED  BY <1>2, <1>3, <3>1 DEF ToSet
    <2>. QED  BY <2>1, <2>2, <2>3
  <1>6. ASSUME Inc(s \o t) PROVE Inc(s) /\ Inc(t) /\ Below(ToSet(s), ToSet(t))
    <2>1. Inc(s)
      BY <1>1, <1>2, <1>3, <1>6 DEF Inc
    <2>2. ASSUME NEW j \in 1..Len(t), NEW k \in 1..Len(t), j < k PROVE t[j] < t[k]
      <3>1. Len(s) + j < Len(s) + k
        BY <1>2, <2>2
      <3>. QED  BY <1>1, <1>3, <1>6, <3>1 DEF Inc
    <2>3. ASSUME NEW x \in ToSet(s), NEW y \in ToSet(t) PROVE x < y
      <3>1. PICK j \in 1..Len(s), k \in 1..Len(t) : x = s[j] /\ y = t[k]
        BY <1>2 DEF ToSet
      <3>2. j < Len(s) + k
        BY <1>2
      <3>. QED  BY <1>1, <1>3, <1>6, <3>1, <3>2 DEF Inc
    <2>. QED  BY <2>1, <2>2, <2>3 DEF Inc, Below
  <1>7. ASSUME Inc(s), Inc(t), Below(ToSet(s), ToSet(t)) PROVE Inc(s \o t)
    <2>. SUFFICES ASSUME NEW j \in 1..Len(s \o t), NEW k \in 1..Len(s \o t), j < k
                  PROVE  (s \o t)[j] < (s \o t)[k]
      BY DEF Inc
    <2>1. CASE k \in 1..Len(s)
      <3>1. j \in 1..Len(s)
        BY <1>1, <1>2, <2>1
      <3>. QED  BY <1>3, <1>7, <2>1, <3>1 DEF Inc
    <2>2. CASE j \in 1..Len(s) /\ k \notin 1..Len(s)
      <3>1. PICK m \in 1..Len(t) : k = Len(s) + m
        BY <1>1, <1>4, <2>2
      <3>2. s[j] \in ToSet(s) /\ t[m] \in ToSet(t)
        BY <1>2, <2>2 DEF ToSet
      <3>. QED  BY <1>3, <1>7, <2>2, <3>1, <3>2 DEF Below
    <2>3. CASE j \notin 1..Len(s) /\ k \notin 1..Len(s)
      <3>1. PICK m \in 1..Len(t) : j = Len(s) + m
        BY <1>1, <1>4, <2>3
      <3>2. PICK p \in 1..Len(t) : k = Len(s) + p
        BY <1>1, <1>4, <2>3
      <3>3. m < p
        BY <1>2, <3>1, <3>2
      <3>. QED  BY <1>3, <1>7, <3>1, <3>2, <3>3 DEF Inc
    <2>. QED  BY <2>1, <2>2, <2>3
  <1>. QED  BY <1>1, <1>5, <1>6, <1>7

\* A read, a chunk or a write takes the first n bytes off a sequence.
LEMMA CutFacts ==
    ASSUME NEW s \in Seq(Nat), NEW n \in 0..Len(s)
    PROVE  LET h == SubSeq(s, 1, n)
               t == SubSeq(s, n + 1, Len(s))
           IN  /\ h \in Seq(Nat) /\ Len(h) = n /\ t \in Seq(Nat) /\ Len(t) = Len(s) - n
               /\ ToSet(s) = ToSet(h) \cup ToSet(t)
               /\ Inc(s) => Inc(h) /\ Inc(t) /\ Below(ToSet(h), ToSet(t))
  <1>. DEFINE h == SubSeq(s, 1, n)
              t == SubSeq(s, n + 1, Len(s))
  <1>1. Len(s) \in Nat /\ n \in Nat /\ n <= Len(s) /\ \A i \in 1..Len(s) : s[i] \in Nat
    BY LenProperties, ElementOfSeq
  <1>2. h \in Seq(Nat) /\ Len(h) = n
    <2>1. \A i \in 1..n : s[i] \in Nat
      BY <1>1
    <2>2. h \in Seq(Nat) /\ Len(h) = IF 1 <= n THEN n - 1 + 1 ELSE 0
      BY <1>1, <2>1, SubSeqProperties
    <2>. QED  BY <1>1, <2>2
  <1>3. t \in Seq(Nat) /\ Len(t) = Len(s) - n
    <2>1. \A i \in n + 1..Len(s) : s[i] \in Nat
      BY <1>1
    <2>2. t \in Seq(Nat) /\ Len(t) = IF n + 1 <= Len(s) THEN Len(s) - (n + 1) + 1 ELSE 0
      BY <1>1, <2>1, SubSeqProperties
    <2>. QED  BY <1>1, <2>2
  <1>4. h \o t = s
    <2>1. 1 \in 1..Len(s) + 1 /\ n \in 1 - 1..Len(s) /\ Len(s) \in n..Len(s)
      BY <1>1
    <2>2. h \o t = SubSeq(s, 1, Len(s))
      BY <2>1, ConcatAdjacentSubSeq
    <2>. QED  BY <2>2, SubSeqFull
  <1>. HIDE DEF h, t
  <1>5. ToSet(s) = ToSet(h) \cup ToSet(t) /\ (Inc(s) => Inc(h) /\ Inc(t) /\ Below(ToSet(h), ToSet(t)))
    BY <1>2, <1>3, <1>4, JoinFacts
  <1>. QED  BY <1>2, <1>3, <1>5 DEF h, t

\* Nothing is in an empty sequence.
LEMMA EmptyFacts == <<>> \in Seq(Nat) /\ Len(<<>>) = 0 /\ ToSet(<<>>) = {} /\ Inc(<<>>)
  <1>1. <<>> \in Seq(Nat) /\ Len(<<>>) = 0
    BY EmptySeq
  <1>2. DOMAIN <<>> = {}
    BY <1>1, LenProperties
  <1>. QED  BY <1>1, <1>2 DEF ToSet, Inc

\* The positions write(2) gives its n bytes, after the m that went before.
LEMMA NewFacts ==
    ASSUME NEW m \in Nat, NEW n \in Nat
    PROVE  LET s == [j \in 1..n |-> m + j]
           IN  s \in Seq(Nat) /\ Inc(s) /\ ToSet(s) = m + 1..m + n
  <1>. DEFINE s == [j \in 1..n |-> m + j]
  <1>1. s \in [1..n -> Nat] /\ DOMAIN s = 1..n
    OBVIOUS
  <1>2. s \in Seq(Nat) /\ Len(s) = n
    <2>1. s \in Seq(Nat)
      BY <1>1, SeqDef
    <2>. QED  BY <1>1, <2>1, LenProperties
  <1>3. Inc(s)
    BY <1>2 DEF Inc
  <1>4. ToSet(s) \subseteq m + 1..m + n
    BY <1>1 DEF ToSet
  <1>5. ASSUME NEW x \in m + 1..m + n PROVE x \in ToSet(s)
    <2>1. x - m \in 1..n /\ s[x - m] = x
      OBVIOUS
    <2>. QED  BY <1>1, <2>1 DEF ToSet
  <1>. QED  BY <1>2, <1>3, <1>4, <1>5

\* Bytes in order are as many as they are different.
LEMMA CountFacts ==
    ASSUME NEW s \in Seq(Nat), Inc(s)
    PROVE  IsFiniteSet(ToSet(s)) /\ Cardinality(ToSet(s)) = Len(s)
  <1>1. Len(s) \in Nat /\ s \in [1..Len(s) -> Nat] /\ DOMAIN s = 1..Len(s)
    BY LenProperties
  <1>2. s \in [1..Len(s) -> ToSet(s)]
    BY <1>1 DEF ToSet
  <1>3. s \in Injection(1..Len(s), ToSet(s))
    <2>1. ASSUME NEW j \in 1..Len(s), NEW k \in 1..Len(s), s[j] = s[k] PROVE j = k
      <3>1. ~(j < k) /\ ~(k < j)
        BY <1>1, <2>1 DEF Inc
      <3>. QED  BY <3>1
    <2>. QED  BY <1>2, <2>1 DEF Injection, IsInjective
  <1>4. s \in Surjection(1..Len(s), ToSet(s))
    BY <1>2 DEF Surjection, ToSet
  <1>5. ExistsBijection(1..Len(s), ToSet(s))
    BY <1>3, <1>4 DEF ExistsBijection, Bijection
  <1>6. IsFiniteSet(1..Len(s)) /\ Cardinality(1..Len(s)) = Len(s)
    <2>1. IsFiniteSet(1..Len(s)) /\ Cardinality(1..Len(s)) = IF 1 > Len(s) THEN 0 ELSE Len(s) - 1 + 1
      BY <1>1, FS_Interval
    <2>. QED  BY <1>1, <2>1
  <1>. QED  BY <1>5, <1>6, FS_Bijection
----------------------------------------------------------------------------
(* What each operation does to the stream of its direction *)

\* fw_read: bytes move from the socket to the empty buffer.
LEMMA ReadKeeps ==
    ASSUME NEW r \in Seq(Nat), NEW o \in Seq(Nat), NEW i \in Seq(Nat), NEW l, NEW n \in Nat,
           NEW m \in 0..Len(i), Stream(r, o, <<>>, i, l, n)
    PROVE  LET h == SubSeq(i, 1, m)
               t == SubSeq(i, m + 1, Len(i))
           IN  Stream(r, o, h, t, l, n) /\ (Whole(r, o, <<>>, i, l, n) => Whole(r, o, h, t, l, n))
  BY CutFacts, EmptyFacts DEF Stream, Whole, Ordered, Flow, Below

\* The bytes that are lost once the first m of buffer b are.
Lose(l, b, m) == l \cup ToSet(SubSeq(b, 1, m))

\* fw_drop: the first m bytes of the buffer leave the stream and count as lost.
LEMMA DropKeeps ==
    ASSUME NEW r \in Seq(Nat), NEW o \in Seq(Nat), NEW b \in Seq(Nat), NEW i \in Seq(Nat),
           NEW l, NEW n \in Nat, NEW m \in 0..Len(b), Stream(r, o, b, i, l, n)
    PROVE  LET t == SubSeq(b, m + 1, Len(b))
               x == Lose(l, b, m)
           IN  Stream(r, o, t, i, x, n) /\ (Whole(r, o, b, i, l, n) => Whole(r, o, t, i, x, n))
  <1>. DEFINE h == SubSeq(b, 1, m)
              t == SubSeq(b, m + 1, Len(b))
  <1>1. /\ ToSet(b) = ToSet(h) \cup ToSet(t)
        /\ Inc(b) => Inc(h) /\ Inc(t) /\ Below(ToSet(h), ToSet(t))
    BY CutFacts
  <1>2. /\ Ordered(r, o, b, i) /\ l \subseteq 1..n
        /\ Flow(r, o, b, i) \subseteq (1..n) \ l
    BY DEF Stream
  <1>. HIDE DEF h, t
  <1>3. Ordered(r, o, t, i)
    BY <1>1, <1>2 DEF Ordered, Below
  <1>4. \A y \in ToSet(h) : y \notin ToSet(r) \cup ToSet(o) \cup ToSet(t) \cup ToSet(i)
    <2>1. ToSet(r) \subseteq Int /\ ToSet(o) \subseteq Int /\ ToSet(t) \subseteq Int /\ ToSet(h) \subseteq Int
          /\ ToSet(i) \subseteq Int
      BY <1>1, <1>2 DEF Flow
    <2>. QED  BY <1>1, <1>2, <2>1 DEF Ordered, Below
  <1>5. Flow(r, o, t, i) \subseteq (1..n) \ (l \cup ToSet(h))
    BY <1>1, <1>2, <1>4 DEF Flow
  <1>6. Whole(r, o, b, i, l, n) => Whole(r, o, t, i, l \cup ToSet(h), n)
    BY <1>1 DEF Whole, Flow
  <1>7. l \cup ToSet(h) \subseteq 1..n
    BY <1>1, <1>2 DEF Flow
  <1>. QED  BY <1>3, <1>5, <1>6, <1>7 DEF Stream, Lose, h, t

\* fw_send: the first m bytes of the buffer go behind those that wait already.
LEMMA SendKeeps ==
    ASSUME NEW r \in Seq(Nat), NEW o \in Seq(Nat), NEW b \in Seq(Nat), NEW i \in Seq(Nat),
           NEW l, NEW n \in Nat, NEW m \in 0..Len(b), Stream(r, o, b, i, l, n)
    PROVE  LET q == o \o SubSeq(b, 1, m)
               t == SubSeq(b, m + 1, Len(b))
           IN  Stream(r, q, t, i, l, n) /\ (Whole(r, o, b, i, l, n) => Whole(r, q, t, i, l, n))
  <1>. DEFINE h == SubSeq(b, 1, m)
              t == SubSeq(b, m + 1, Len(b))
              q == o \o h
  <1>1. /\ h \in Seq(Nat) /\ ToSet(b) = ToSet(h) \cup ToSet(t)
        /\ Inc(b) => Inc(h) /\ Inc(t) /\ Below(ToSet(h), ToSet(t))
    BY CutFacts
  <1>. HIDE DEF h, t
  <1>2. /\ ToSet(q) = ToSet(o) \cup ToSet(h)
        /\ Inc(q) <=> Inc(o) /\ Inc(h) /\ Below(ToSet(o), ToSet(h))
    BY <1>1, JoinFacts
  <1>. HIDE DEF q
  <1>. QED  BY <1>1, <1>2 DEF Stream, Whole, Ordered, Flow, Below, q, h, t

\* TakeBytes: the reader takes the first m bytes that wait.
LEMMA TakeKeeps ==
    ASSUME NEW r \in Seq(Nat), NEW o \in Seq(Nat), NEW b \in Seq(Nat), NEW i \in Seq(Nat),
           NEW l, NEW n \in Nat, NEW m \in 0..Len(o), Stream(r, o, b, i, l, n)
    PROVE  LET q == r \o SubSeq(o, 1, m)
               t == SubSeq(o, m + 1, Len(o))
           IN  /\ Stream(q, t, b, i, l, n) /\ Stream(q, <<>>, b, i, l, n)
               /\ Whole(r, o, b, i, l, n) => Whole(q, t, b, i, l, n)
  <1>. DEFINE h == SubSeq(o, 1, m)
              t == SubSeq(o, m + 1, Len(o))
              q == r \o h
  <1>1. /\ h \in Seq(Nat) /\ ToSet(o) = ToSet(h) \cup ToSet(t)
        /\ Inc(o) => Inc(h) /\ Inc(t) /\ Below(ToSet(h), ToSet(t))
    BY CutFacts
  <1>. HIDE DEF h, t
  <1>2. /\ ToSet(q) = ToSet(r) \cup ToSet(h)
        /\ Inc(q) <=> Inc(r) /\ Inc(h) /\ Below(ToSet(r), ToSet(h))
    BY <1>1, JoinFacts
  <1>. HIDE DEF q
  <1>3. Stream(q, t, b, i, l, n) /\ (Whole(r, o, b, i, l, n) => Whole(q, t, b, i, l, n))
    BY <1>1, <1>2 DEF Stream, Whole, Ordered, Flow, Below
  <1>4. Stream(q, <<>>, b, i, l, n)
    BY <1>3, EmptyFacts DEF Stream, Ordered, Flow, Below
  <1>. QED  BY <1>3, <1>4 DEF q, h, t

\* What waits for the forwarder once m bytes are written behind i, after n others.
Written(i, n, m) == i \o [j \in 1..m |-> n + j]

\* user_write: m new bytes go behind all others.
LEMMA UserWriteKeeps ==
    ASSUME NEW r \in Seq(Nat), NEW o \in Seq(Nat), NEW b \in Seq(Nat), NEW i \in Seq(Nat),
           NEW l, NEW n \in Nat, NEW m \in Nat, Stream(r, o, b, i, l, n)
    PROVE  LET q == Written(i, n, m)
           IN  /\ q \in Seq(Nat) /\ Stream(r, o, b, q, l, n + m)
               /\ Whole(r, o, b, i, l, n) => Whole(r, o, b, q, l, n + m)
  <1>. DEFINE s == [j \in 1..m |-> n + j]
              q == i \o s
  <1>1. s \in Seq(Nat) /\ Inc(s) /\ ToSet(s) = n + 1..n + m
    BY NewFacts
  <1>. HIDE DEF s
  <1>2. /\ q \in Seq(Nat) /\ ToSet(q) = ToSet(i) \cup ToSet(s)
        /\ Inc(q) <=> Inc(i) /\ Inc(s) /\ Below(ToSet(i), ToSet(s))
    BY <1>1, JoinFacts
  <1>. HIDE DEF q
  <1>3. /\ Ordered(r, o, b, i) /\ l \subseteq 1..n
        /\ Flow(r, o, b, i) \subseteq (1..n) \ l
    BY DEF Stream
  <1>4. \A x \in 1..n, y \in n + 1..n + m : x < y
    OBVIOUS
  <1>5. Below(ToSet(r), ToSet(s)) /\ Below(ToSet(o), ToSet(s)) /\ Below(ToSet(b), ToSet(s)) /\ Below(ToSet(i), ToSet(s))
    BY <1>1, <1>3, <1>4 DEF Flow, Below
  <1>6. Ordered(r, o, b, q)
    BY <1>1, <1>2, <1>3, <1>5 DEF Ordered, Below
  <1>7. 1..n + m = (1..n) \cup (n + 1..n + m) /\ \A x \in n + 1..n + m : x \notin 1..n
    OBVIOUS
  <1>8. l \subseteq 1..n + m /\ Flow(r, o, b, q) \subseteq (1..n + m) \ l
    BY <1>1, <1>2, <1>3, <1>7 DEF Flow
  <1>9. Whole(r, o, b, i, l, n) => Whole(r, o, b, q, l, n + m)
    BY <1>1, <1>2, <1>7 DEF Whole, Flow
  <1>. QED  BY <1>2, <1>6, <1>8, <1>9 DEF Stream, Written, q, s

\* Release and fw_epipe: what waits or is buffered for a reader that is gone.
LEMMA CutOffKeeps ==
    ASSUME NEW r \in Seq(Nat), NEW o \in Seq(Nat), NEW b \in Seq(Nat), NEW i \in Seq(Nat),
           NEW l, NEW n \in Nat, Stream(r, o, b, i, l, n)
    PROVE  Stream(r, <<>>, b, i, l, n) /\ Stream(r, o, <<>>, i, l, n)
  BY EmptyFacts DEF Stream, Ordered, Flow, Below

\* The whole stream in one sequence.
LEMMA PassFacts ==
    ASSUME NEW r \in Seq(Nat), NEW o \in Seq(Nat), NEW b \in Seq(Nat), NEW i \in Seq(Nat),
           NEW l, NEW n, Stream(r, o, b, i, l, n)
    PROVE  LET p == ((r \o o) \o b) \o i
           IN  /\ p \in Seq(Nat) /\ Len(p) = Len(r) + Len(o) + Len(b) + Len(i)
               /\ ToSet(p) = Flow(r, o, b, i) /\ Inc(p)
  <1>1. /\ r \o o \in Seq(Nat) /\ Len(r \o o) = Len(r) + Len(o)
        /\ ToSet(r \o o) = ToSet(r) \cup ToSet(o) /\ Inc(r \o o)
    BY JoinFacts DEF Stream, Ordered
  <1>. DEFINE u == r \o o
  <1>. HIDE DEF u
  <1>2. Below(ToSet(u), ToSet(b)) /\ Below(ToSet(u), ToSet(i)) /\ u \in Seq(Nat) /\ Inc(u)
    BY <1>1 DEF Stream, Ordered, Below, u
  <1>. DEFINE v == u \o b
  <1>3. v \in Seq(Nat) /\ Len(v) = Len(u) + Len(b) /\ ToSet(v) = ToSet(u) \cup ToSet(b) /\ Inc(v)
    BY <1>2, JoinFacts DEF Stream, Ordered
  <1>. HIDE DEF v
  <1>4. Below(ToSet(v), ToSet(i))
    BY <1>2, <1>3 DEF Stream, Ordered, Below
  <1>5. v \o i \in Seq(Nat) /\ Len(v \o i) = Len(v) + Len(i) /\ ToSet(v \o i) = ToSet(v) \cup ToSet(i) /\ Inc(v \o i)
    BY <1>3, <1>4, JoinFacts DEF Stream, Ordered
  <1>. QED  BY <1>1, <1>3, <1>5 DEF u, v, Flow

\* What is neither received nor lost of n bytes.
Missing(r, l, n) == n - Len(r) - Cardinality(l)

\* All that was sent is received or lost: nothing is left in between; and the other
\* way round, unless bytes were cut off.
LEMMA FlightFacts ==
    ASSUME NEW r \in Seq(Nat), NEW o \in Seq(Nat), NEW b \in Seq(Nat), NEW i \in Seq(Nat),
           NEW l, NEW n \in Nat, Stream(r, o, b, i, l, n)
    PROVE  /\ Missing(r, l, n) = 0 => o = <<>> /\ b = <<>> /\ i = <<>>
           /\ o = <<>> /\ b = <<>> /\ i = <<>> /\ Whole(r, o, b, i, l, n)
                => Missing(r, l, n) = 0
  <1>. DEFINE p == ((r \o o) \o b) \o i
  <1>1. /\ p \in Seq(Nat) /\ Len(p) = Len(r) + Len(o) + Len(b) + Len(i)
        /\ ToSet(p) = Flow(r, o, b, i) /\ Inc(p)
    BY PassFacts
  <1>. HIDE DEF p
  <1>2. IsFiniteSet(ToSet(p)) /\ Cardinality(ToSet(p)) = Len(p)
    BY <1>1, CountFacts
  <1>3. IsFiniteSet(1..n) /\ Cardinality(1..n) = n
    <2>1. IsFiniteSet(1..n) /\ Cardinality(1..n) = IF 1 > n THEN 0 ELSE n - 1 + 1
      BY FS_Interval
    <2>. QED  BY <2>1
  <1>4. IsFiniteSet(l) /\ Cardinality(l) \in Nat
    BY <1>3, FS_Subset, FS_CardinalityType DEF Stream
  <1>5. IsFiniteSet((1..n) \ l) /\ Cardinality((1..n) \ l) = n - Cardinality(l)
    <2>1. IsFiniteSet((1..n) \ l) /\ Cardinality((1..n) \ l) \in Nat
      BY <1>3, FS_Subset, FS_CardinalityType
    <2>2. ((1..n) \ l) \cup l = 1..n /\ ((1..n) \ l) \cap l = {}
      BY DEF Stream
    <2>3. Cardinality(1..n) = Cardinality((1..n) \ l) + Cardinality(l) - Cardinality({})
      BY <1>4, <2>1, <2>2, FS_Union
    <2>. QED  BY <1>3, <1>4, <2>1, <2>3, FS_EmptySet
  <1>6. Cardinality(ToSet(p)) <= Cardinality((1..n) \ l)
    BY <1>1, <1>5, FS_Subset DEF Stream
  <1>7. /\ Len(r) \in Nat /\ Len(o) \in Nat /\ Len(b) \in Nat /\ Len(i) \in Nat
        /\ (o = <<>> <=> Len(o) = 0) /\ (b = <<>> <=> Len(b) = 0) /\ (i = <<>> <=> Len(i) = 0)
    BY LenProperties, EmptySeq
  <1>8. Len(r) + Len(o) + Len(b) + Len(i) <= n - Cardinality(l)
    BY <1>1, <1>2, <1>5, <1>6
  <1>9. ASSUME Whole(r, o, b, i, l, n) PROVE Len(r) + Len(o) + Len(b) + Len(i) = n - Cardinality(l)
    <2>1. ToSet(p) = (1..n) \ l
      BY <1>1, <1>9 DEF Stream, Whole
    <2>. QED  BY <1>1, <1>2, <1>5, <2>1
  <1>. QED  BY <1>4, <1>7, <1>8, <1>9 DEF Missing
----------------------------------------------------------------------------
(* The steps of the pair *)

LEMMA EndFacts ==
    /\ To("a") = "ba" /\ To("b") = "ab" /\ From("a") = "ab" /\ From("b") = "ba"
    /\ \A d \in Dirs : Src(d) \in Ends /\ Dst(d) \in Ends /\ To(Dst(d)) = d /\ From(Src(d)) = d
    /\ \A e \in Ends : To(e) \in Dirs /\ From(e) \in Dirs /\ Dst(To(e)) = e /\ Src(From(e)) = e
  <1>1. To("a") = "ba" /\ To("b") = "ab"
    BY DEF To, Dirs, Dst
  <1>2. From("a") = "ab" /\ From("b") = "ba"
    BY DEF From, Dirs, Src
  <1>. QED  BY <1>1, <1>2 DEF Dirs, Ends, Src, Dst

\* A direction a step does not touch, or whose unread bytes go with their reader.
LEMMA SameDir ==
    ASSUME NetTypeOK, NEW d \in Dirs, DirOK(d),
           fw'[d] = fw[d], inq'[d] = inq[d], rcvd'[d] = rcvd[d], lost'[d] = lost[d],
           sent'[d] = sent[d], stale'[d] = stale[d], knobs' = knobs,
           \/ outq'[d] = outq[d]
           \/ outq'[d] = <<>> /\ file'[Dst(d)] = "released",
           \A e \in Ends : file[e] = "released" => file'[e] = "released",
           d \in shut' => d \in shut, cpc' = "none" => cpc = "none"
    PROVE  DirOK(d)'
  <1>1. Buffered(d)' /\ LoopEnd(d)' /\ StaleLeft(d)'
    BY EndFacts DEF DirOK, Buffered, LoopEnd, StaleLeft, Src, Dst
  <1>2. /\ rcvd[d] \in Seq(Nat) /\ outq[d] \in Seq(Nat) /\ fw[d].buf \in Seq(Nat)
        /\ inq[d] \in Seq(Nat) /\ sent[d] \in Nat
    BY DEF NetTypeOK
  <1>3. Dst(d) \in Ends /\ Dst(d)' = Dst(d)
    BY EndFacts DEF Dst
  <1>4. Stream(rcvd'[d], outq'[d], fw'[d].buf, inq'[d], lost'[d], sent'[d])
    BY <1>2, CutOffKeeps DEF DirOK, StreamOK
  <1>5. file'[Dst(d)] # "released" => Whole(rcvd'[d], outq'[d], fw'[d].buf, inq'[d], lost'[d], sent'[d])
    BY <1>3 DEF DirOK, StreamOK
  <1>. QED  BY <1>1, <1>3, <1>4, <1>5 DEF DirOK, StreamOK

\* The components of one direction.
LEMMA DirTypes ==
    ASSUME NetTypeOK, NEW d \in Dirs
    PROVE  /\ rcvd[d] \in Seq(Nat) /\ outq[d] \in Seq(Nat) /\ fw[d].buf \in Seq(Nat)
           /\ inq[d] \in Seq(Nat) /\ sent[d] \in Nat /\ stale[d] \in Nat /\ lost[d] \subseteq Nat
           /\ fw[d].k \in Knobs /\ fw[d].pc \in FwPlaces
           /\ Len(fw[d].buf) \in Nat /\ (fw[d].buf = <<>> <=> Len(fw[d].buf) = 0)
           /\ Len(inq[d]) \in Nat /\ (inq[d] = <<>> <=> Len(inq[d]) = 0)
           /\ Len(outq[d]) \in Nat /\ (outq[d] = <<>> <=> Len(outq[d]) = 0)
  <1>1. /\ rcvd[d] \in Seq(Nat) /\ outq[d] \in Seq(Nat) /\ fw[d].buf \in Seq(Nat)
        /\ inq[d] \in Seq(Nat) /\ sent[d] \in Nat /\ stale[d] \in Nat /\ lost[d] \subseteq Nat
        /\ fw[d].k \in Knobs /\ fw[d].pc \in FwPlaces
    BY DEF NetTypeOK
  <1>. QED  BY <1>1, LenProperties, EmptySeq

\* A chunk is a non-empty part of the buffer.
LEMMA ThisFacts ==
    ASSUME NetInv, NEW d \in Dirs, fw[d].pc \in {"chunk", "send"}
    PROVE  This(d) \in 1..Len(fw[d].buf)
  <1>1. Len(fw[d].buf) \in Nat \ {0}
    BY DirTypes DEF NetInv, DirOK, Buffered
  <1>2. fw[d].k.chunk \in Nat
    BY NetAssumption, DirTypes DEF NetInv, Knobs
  <1>. QED  BY <1>1, <1>2 DEF This, Least

\* The forwarder goes on behind the chunk: what is left, and where it is then.
LEMMA AdvanceFacts ==
    ASSUME NetInv, NEW d \in Dirs, fw[d].pc \in {"chunk", "send"}, Advance(d)
    PROVE  /\ fw' \in [Dirs -> [pc : FwPlaces, buf : Seq(Nat), k : Knobs]]
           /\ \A c \in Dirs \ {d} : fw'[c] = fw[c]
           /\ fw'[d].buf = SubSeq(fw[d].buf, This(d) + 1, Len(fw[d].buf))
           /\ Len(fw'[d].buf) = Len(fw[d].buf) - This(d) /\ fw'[d].buf \in Seq(Nat)
           /\ fw'[d].k = fw[d].k
           /\ \/ fw'[d].pc = "read" /\ fw'[d].buf = <<>>
              \/ fw'[d].pc = "chunk" /\ fw'[d].buf # <<>>
  <1>1. This(d) \in 0..Len(fw[d].buf) /\ fw[d].buf \in Seq(Nat) /\ Len(fw[d].buf) \in Nat
    BY ThisFacts, DirTypes DEF NetInv
  <1>. DEFINE t == SubSeq(fw[d].buf, This(d) + 1, Len(fw[d].buf))
              p == IF This(d) = Len(fw[d].buf) THEN "read" ELSE "chunk"
  <1>2. t \in Seq(Nat) /\ Len(t) = Len(fw[d].buf) - This(d)
    BY <1>1, CutFacts
  <1>3. t = <<>> <=> Len(t) = 0
    BY <1>2, EmptySeq
  <1>4. fw' = [fw EXCEPT ![d].buf = t, ![d].pc = p]
    BY DEF Advance
  <1>5. p \in FwPlaces /\ ((p = "read" /\ t = <<>>) \/ (p = "chunk" /\ t # <<>>))
    BY <1>1, <1>2, <1>3 DEF FwPlaces
  <1>. HIDE DEF t, p
  <1>6. /\ fw' \in [Dirs -> [pc : FwPlaces, buf : Seq(Nat), k : Knobs]]
        /\ \A c \in Dirs \ {d} : fw'[c] = fw[c]
        /\ fw'[d].buf = t /\ fw'[d].pc = p /\ fw'[d].k = fw[d].k
    BY <1>2, <1>4, <1>5 DEF NetInv, NetTypeOK
  <1>. QED  BY <1>2, <1>5, <1>6 DEF t
LEMMA FwReadKeeps ==
    ASSUME NetInv, NEW d \in Dirs, fw_read(d)
    PROVE  NetInv'
  <1>. DEFINE n == Least(BufMax, Len(inq[d]))
              h == SubSeq(inq[d], 1, n)
              t == SubSeq(inq[d], n + 1, Len(inq[d]))
  <1>1. /\ NetTypeOK /\ DirOK(d) /\ inq[d] \in Seq(Nat) /\ Len(inq[d]) \in Nat \ {0}
        /\ fw[d].pc = "read" /\ fw[d].buf = <<>>
    BY DirTypes DEF NetInv, DirOK, Buffered, fw_read, At
  <1>2. n \in 1..Len(inq[d]) /\ n <= BufMax
    BY <1>1, NetAssumption DEF Least
  <1>3. h \in Seq(Nat) /\ Len(h) = n /\ t \in Seq(Nat)
    BY <1>1, <1>2, CutFacts
  <1>4. h # <<>>
    BY <1>2, <1>3, EmptySeq
  <1>5. /\ fw' = [fw EXCEPT ![d].pc = "snap", ![d].buf = h] /\ inq' = [inq EXCEPT ![d] = t]
        /\ UNCHANGED <<knobs, cpc, quiet, file, reading, sent, rcvd, lost, stale, outq, shut, alive>>
    BY DEF fw_read, ends, call, hist
  <1>6. /\ Stream(rcvd[d], outq[d], h, t, lost[d], sent[d])
        /\ file[Dst(d)] # "released" => Whole(rcvd[d], outq[d], h, t, lost[d], sent[d])
    <2>1. rcvd[d] \in Seq(Nat) /\ outq[d] \in Seq(Nat) /\ inq[d] \in Seq(Nat) /\ sent[d] \in Nat
      BY <1>1, DirTypes
    <2>2. n \in 0..Len(inq[d])
      BY <1>2
    <2>3. /\ Stream(rcvd[d], outq[d], <<>>, inq[d], lost[d], sent[d])
          /\ file[Dst(d)] # "released" => Whole(rcvd[d], outq[d], <<>>, inq[d], lost[d], sent[d])
      BY <1>1 DEF DirOK, StreamOK
    <2>. HIDE DEF n
    <2>. QED  BY <2>1, <2>2, <2>3, ReadKeeps
  <1>. HIDE DEF n, h, t
  <1>7. NetTypeOK'
    BY <1>1, <1>3, <1>5, ZenonT(30) DEF NetTypeOK, FwPlaces
  <1>8. /\ fw'[d].pc = "snap" /\ fw'[d].buf = h /\ fw'[d].k = fw[d].k /\ inq'[d] = t
        /\ \A c \in Dirs \ {d} : fw'[c] = fw[c] /\ inq'[c] = inq[c]
    BY <1>1, <1>5 DEF NetTypeOK
  <1>9. DirOK(d)'
    <2>1. Buffered(d)' /\ LoopEnd(d)' /\ StaleLeft(d)'
      BY <1>1, <1>2, <1>3, <1>4, <1>5, <1>8 DEF DirOK, Buffered, LoopEnd, StaleLeft
    <2>2. StreamOK(d)'
      BY <1>1, <1>5, <1>6, <1>8 DEF DirOK, StreamOK, Dst
    <2>. QED  BY <2>1, <2>2 DEF DirOK
  <1>10. \A c \in Dirs \ {d} : DirOK(c)'
    BY <1>5, <1>8, SameDir DEF NetInv
  <1>. QED  BY <1>7, <1>9, <1>10 DEF NetInv

LEMMA FwEofKeeps ==
    ASSUME NetInv, NEW d \in Dirs, fw_eof(d)
    PROVE  NetInv'
  <1>1. /\ NetTypeOK /\ DirOK(d) /\ fw[d].pc = "read" /\ fw[d].buf = <<>>
        /\ inq[d] = <<>> /\ file[Src(d)] = "released" /\ fw' = [fw EXCEPT ![d].pc = "shut"]
        /\ UNCHANGED <<knobs, cpc, quiet, file, reading, sent, rcvd, lost, stale, inq, outq, shut, alive>>
    BY DEF NetInv, DirOK, Buffered, fw_eof, At, ends, call, hist
  <1>2. NetTypeOK'
    BY <1>1 DEF NetTypeOK, FwPlaces
  <1>3. /\ fw'[d].pc = "shut" /\ fw'[d].buf = fw[d].buf
        /\ \A c \in Dirs \ {d} : fw'[c] = fw[c]
    BY <1>1 DEF NetTypeOK
  <1>4. DirOK(d)'
    BY <1>1, <1>3 DEF DirOK, Buffered, LoopEnd, StaleLeft, StreamOK, Src, Dst
  <1>5. \A c \in Dirs \ {d} : DirOK(c)'
    BY <1>1, <1>3, SameDir DEF NetInv
  <1>. QED  BY <1>2, <1>4, <1>5 DEF NetInv

LEMMA FwSnapKeeps ==
    ASSUME NetInv, NEW d \in Dirs, fw_snap(d)
    PROVE  NetInv'
  <1>1. /\ NetTypeOK /\ DirOK(d) /\ fw[d].pc = "snap" /\ fw[d].buf # <<>>
        /\ fw' = [fw EXCEPT ![d].pc = "chunk", ![d].k = knobs]
        /\ UNCHANGED <<knobs, cpc, quiet, file, reading, sent, rcvd, lost, stale, inq, outq, shut, alive>>
    BY DEF NetInv, DirOK, Buffered, fw_snap, At, ends, call, hist
  <1>2. NetTypeOK'
    BY <1>1, ZenonT(30) DEF NetTypeOK, FwPlaces
  <1>3. /\ fw'[d].pc = "chunk" /\ fw'[d].buf = fw[d].buf /\ fw'[d].k = knobs
        /\ \A c \in Dirs \ {d} : fw'[c] = fw[c]
    BY <1>1 DEF NetTypeOK
  <1>4. DirOK(d)'
    BY <1>1, <1>3 DEF DirOK, Buffered, LoopEnd, StaleLeft, StreamOK, Src, Dst
  <1>5. \A c \in Dirs \ {d} : DirOK(c)'
    BY <1>1, <1>3, SameDir DEF NetInv
  <1>. QED  BY <1>2, <1>4, <1>5 DEF NetInv

LEMMA FwDropKeeps ==
    ASSUME NetInv, NEW d \in Dirs, fw_drop(d)
    PROVE  NetInv'
  <1>. DEFINE x == Lose(lost[d], fw[d].buf, This(d))
  <1>1. /\ NetTypeOK /\ DirOK(d) /\ fw[d].pc = "chunk" /\ Advance(d)
        /\ lost' = [lost EXCEPT ![d] = x]
        /\ stale' = [stale EXCEPT ![d] = @ + IF fw[d].k = knobs THEN 0 ELSE This(d)]
        /\ UNCHANGED <<knobs, cpc, quiet, file, reading, sent, rcvd, inq, outq, shut, alive>>
    BY DEF NetInv, fw_drop, At, ends, call, Lose
  <1>2. This(d) \in 0..Len(fw[d].buf) /\ This(d) \in Nat
    BY <1>1, ThisFacts
  <1>3. /\ Stream(rcvd[d], outq[d], fw[d].buf, inq[d], lost[d], sent[d])
        /\ file[Dst(d)] # "released" => Whole(rcvd[d], outq[d], fw[d].buf, inq[d], lost[d], sent[d])
    BY <1>1 DEF DirOK, StreamOK
  <1>4. /\ fw' \in [Dirs -> [pc : FwPlaces, buf : Seq(Nat), k : Knobs]]
        /\ \A c \in Dirs \ {d} : fw'[c] = fw[c]
        /\ fw'[d].buf = SubSeq(fw[d].buf, This(d) + 1, Len(fw[d].buf))
        /\ Len(fw'[d].buf) = Len(fw[d].buf) - This(d)
        /\ fw'[d].k = fw[d].k
        /\ \/ fw'[d].pc = "read" /\ fw'[d].buf = <<>>
           \/ fw'[d].pc = "chunk" /\ fw'[d].buf # <<>>
    BY <1>1, AdvanceFacts
  <1>5. /\ Stream(rcvd[d], outq[d], fw'[d].buf, inq[d], x, sent[d])
        /\ file[Dst(d)] # "released" =>
             Whole(rcvd[d], outq[d], fw'[d].buf, inq[d], x, sent[d])
    <2>1. /\ rcvd[d] \in Seq(Nat) /\ outq[d] \in Seq(Nat) /\ fw[d].buf \in Seq(Nat)
          /\ inq[d] \in Seq(Nat) /\ sent[d] \in Nat
      BY <1>1, DirTypes
    <2>2. fw'[d].buf = SubSeq(fw[d].buf, This(d) + 1, Len(fw[d].buf))
      BY <1>4
    <2>. QED  BY <1>2, <1>3, <2>1, <2>2, DropKeeps, SMTT(30)
  <1>. HIDE DEF x
  <1>6. x \subseteq Nat
    BY <1>5 DEF Stream
  <1>7. NetTypeOK'
    <2>1. stale' \in [Dirs -> Nat] /\ lost' \in [Dirs -> SUBSET Nat]
      BY <1>1, <1>2, <1>6 DEF NetTypeOK
    <2>. QED  BY <1>1, <1>4, <2>1 DEF NetTypeOK
  <1>8. /\ lost'[d] = x
        /\ stale'[d] = stale[d] + IF fw[d].k = knobs THEN 0 ELSE This(d)
        /\ \A c \in Dirs \ {d} : lost'[c] = lost[c] /\ stale'[c] = stale[c]
    BY <1>1 DEF NetTypeOK
  <1>9. DirOK(d)'
    <2>1. stale[d] \in Nat /\ Len(fw[d].buf) \in Nat /\ BufMax \in Nat
      BY <1>1, DirTypes, NetAssumption
    <2>2. Buffered(d)'
      <3>1. cpc' = cpc /\ cpc # "none" /\ Len(fw[d].buf) <= BufMax
        BY <1>1 DEF DirOK, Buffered
      <3>. QED  BY <1>2, <1>4, <2>1, <3>1, SMTT(30) DEF Buffered
    <2>3. LoopEnd(d)'
      BY <1>1, <1>4 DEF DirOK, LoopEnd
    <2>4. StaleLeft(d)'
      <3>1. /\ knobs' = knobs /\ stale[d] <= BufMax
            /\ fw[d].k # knobs => stale[d] + Len(fw[d].buf) <= BufMax
        BY <1>1 DEF DirOK, StaleLeft
      <3>2. CASE fw[d].k = knobs
        BY <1>4, <1>8, <2>1, <3>1, <3>2 DEF StaleLeft
      <3>3. CASE fw[d].k # knobs
        <4>1. /\ stale'[d] = stale[d] + This(d) /\ Len(fw'[d].buf) = Len(fw[d].buf) - This(d)
              /\ This(d) <= Len(fw[d].buf)
          BY <1>2, <1>4, <1>8, <3>3
        <4>2. stale'[d] <= BufMax /\ stale'[d] + Len(fw'[d].buf) <= BufMax
          BY <1>2, <2>1, <3>1, <3>3, <4>1
        <4>. QED  BY <4>2 DEF StaleLeft
      <3>. QED  BY <3>2, <3>3
    <2>5. StreamOK(d)'
      BY <1>1, <1>3, <1>5, <1>8 DEF StreamOK, Dst
    <2>. QED  BY <2>2, <2>3, <2>4, <2>5 DEF DirOK
  <1>10. \A c \in Dirs \ {d} : DirOK(c)'
    BY <1>1, <1>4, <1>8, SameDir DEF NetInv
  <1>. QED  BY <1>7, <1>9, <1>10 DEF NetInv

LEMMA FwKeepKeeps ==
    ASSUME NetInv, NEW d \in Dirs, fw_keep(d)
    PROVE  NetInv'
  <1>1. /\ NetTypeOK /\ DirOK(d) /\ fw[d].pc = "chunk" /\ fw[d].buf # <<>>
        /\ fw' = [fw EXCEPT ![d].pc = "send"]
        /\ UNCHANGED <<knobs, cpc, quiet, file, reading, sent, rcvd, lost, stale, inq, outq, shut, alive>>
    BY DEF NetInv, DirOK, Buffered, fw_keep, At, ends, call, hist
  <1>2. NetTypeOK'
    BY <1>1 DEF NetTypeOK, FwPlaces
  <1>3. /\ fw'[d].pc = "send" /\ fw'[d].buf = fw[d].buf /\ fw'[d].k = fw[d].k
        /\ \A c \in Dirs \ {d} : fw'[c] = fw[c]
    BY <1>1 DEF NetTypeOK
  <1>4. DirOK(d)'
    BY <1>1, <1>3 DEF DirOK, Buffered, LoopEnd, StaleLeft, StreamOK, Src, Dst
  <1>5. \A c \in Dirs \ {d} : DirOK(c)'
    BY <1>1, <1>3, SameDir DEF NetInv
  <1>. QED  BY <1>2, <1>4, <1>5 DEF NetInv

LEMMA FwSendKeeps ==
    ASSUME NetInv, NEW d \in Dirs, fw_send(d)
    PROVE  NetInv'
  <1>. DEFINE q == outq[d] \o SubSeq(fw[d].buf, 1, This(d))
  <1>1. /\ NetTypeOK /\ DirOK(d) /\ fw[d].pc = "send" /\ Advance(d)
        /\ outq' = [outq EXCEPT ![d] = q] /\ file[Dst(d)] # "released"
        /\ UNCHANGED <<knobs, cpc, quiet, file, reading, sent, rcvd, lost, stale, inq, shut, alive>>
    BY DEF NetInv, fw_send, At, ends, call, hist
  <1>2. This(d) \in 0..Len(fw[d].buf) /\ This(d) \in Nat
    BY <1>1, ThisFacts
  <1>3. /\ Stream(rcvd[d], outq[d], fw[d].buf, inq[d], lost[d], sent[d])
        /\ Whole(rcvd[d], outq[d], fw[d].buf, inq[d], lost[d], sent[d])
    BY <1>1 DEF DirOK, StreamOK
  <1>4. /\ fw' \in [Dirs -> [pc : FwPlaces, buf : Seq(Nat), k : Knobs]]
        /\ \A c \in Dirs \ {d} : fw'[c] = fw[c]
        /\ fw'[d].buf = SubSeq(fw[d].buf, This(d) + 1, Len(fw[d].buf))
        /\ Len(fw'[d].buf) = Len(fw[d].buf) - This(d)
        /\ fw'[d].k = fw[d].k
        /\ \/ fw'[d].pc = "read" /\ fw'[d].buf = <<>>
           \/ fw'[d].pc = "chunk" /\ fw'[d].buf # <<>>
    BY <1>1, AdvanceFacts
  <1>5. /\ Stream(rcvd[d], q, fw'[d].buf, inq[d], lost[d], sent[d])
        /\ Whole(rcvd[d], q, fw'[d].buf, inq[d], lost[d], sent[d])
    <2>1. /\ rcvd[d] \in Seq(Nat) /\ outq[d] \in Seq(Nat) /\ fw[d].buf \in Seq(Nat)
          /\ inq[d] \in Seq(Nat) /\ sent[d] \in Nat
      BY <1>1, DirTypes
    <2>2. fw'[d].buf = SubSeq(fw[d].buf, This(d) + 1, Len(fw[d].buf))
      BY <1>4
    <2>. QED  BY <1>2, <1>3, <2>1, <2>2, SendKeeps, SMTT(30)
  <1>6. q \in Seq(Nat)
    <2>1. SubSeq(fw[d].buf, 1, This(d)) \in Seq(Nat) /\ outq[d] \in Seq(Nat)
      BY <1>1, <1>2, CutFacts, DirTypes
    <2>. QED  BY <2>1, ConcatProperties
  <1>. HIDE DEF q
  <1>7. NetTypeOK'
    BY <1>1, <1>4, <1>6 DEF NetTypeOK
  <1>8. outq'[d] = q /\ \A c \in Dirs \ {d} : outq'[c] = outq[c]
    BY <1>1 DEF NetTypeOK
  <1>9. DirOK(d)'
    <2>1. stale[d] \in Nat /\ Len(fw[d].buf) \in Nat /\ BufMax \in Nat
      BY <1>1, DirTypes, NetAssumption
    <2>2. Buffered(d)' /\ LoopEnd(d)'
      BY <1>1, <1>2, <1>4, <2>1, SMTT(30) DEF DirOK, Buffered, LoopEnd
    <2>3. StaleLeft(d)'
      <3>1. /\ knobs' = knobs /\ stale' = stale /\ stale[d] <= BufMax
            /\ fw[d].k # knobs => stale[d] + Len(fw[d].buf) <= BufMax
        BY <1>1 DEF DirOK, StaleLeft
      <3>. QED  BY <1>2, <1>4, <2>1, <3>1, SMTT(30) DEF StaleLeft
    <2>4. StreamOK(d)'
      BY <1>1, <1>5, <1>8 DEF StreamOK
    <2>. QED  BY <2>2, <2>3, <2>4 DEF DirOK
  <1>10. \A c \in Dirs \ {d} : DirOK(c)'
    BY <1>1, <1>4, <1>8, SameDir DEF NetInv
  <1>. QED  BY <1>7, <1>9, <1>10 DEF NetInv

LEMMA FwEpipeKeeps ==
    ASSUME NetInv, NEW d \in Dirs, fw_epipe(d)
    PROVE  NetInv'
  <1>1. /\ NetTypeOK /\ DirOK(d) /\ fw[d].pc = "send" /\ file[Dst(d)] = "released"
        /\ alive' \in BOOLEAN /\ fw' = [fw EXCEPT ![d].pc = "shut", ![d].buf = <<>>]
        /\ UNCHANGED <<knobs, cpc, quiet, file, reading, sent, rcvd, lost, stale, inq, outq, shut>>
    BY DEF NetInv, fw_epipe, At, ends, call, hist
  <1>2. NetTypeOK'
    BY <1>1, EmptyFacts, ZenonT(30) DEF NetTypeOK, FwPlaces
  <1>3. /\ fw'[d].pc = "shut" /\ fw'[d].buf = <<>>
        /\ \A c \in Dirs \ {d} : fw'[c] = fw[c]
    BY <1>1 DEF NetTypeOK
  <1>4. DirOK(d)'
    <2>1. Stream(rcvd[d], outq[d], <<>>, inq[d], lost[d], sent[d])
      BY <1>1, CutOffKeeps, DirTypes DEF DirOK, StreamOK
    <2>. QED  BY <1>1, <1>3, <2>1, EmptyFacts, NetAssumption
              DEF DirOK, Buffered, LoopEnd, StaleLeft, StreamOK, Dst
  <1>5. \A c \in Dirs \ {d} : DirOK(c)'
    BY <1>1, <1>3, SameDir DEF NetInv
  <1>. QED  BY <1>2, <1>4, <1>5 DEF NetInv

LEMMA FwShutKeeps ==
    ASSUME NetInv, NEW d \in Dirs, fw_shut(d)
    PROVE  NetInv'
  <1>1. /\ NetTypeOK /\ DirOK(d) /\ fw[d].pc = "shut"
        /\ fw' = [fw EXCEPT ![d].pc = "done"] /\ shut' = shut \cup {d}
        /\ UNCHANGED <<knobs, cpc, quiet, file, reading, sent, rcvd, lost, stale, inq, outq, alive>>
    BY DEF NetInv, fw_shut, At, ends, call, hist
  <1>2. NetTypeOK'
    BY <1>1 DEF NetTypeOK, FwPlaces
  <1>3. /\ fw'[d].pc = "done" /\ fw'[d].buf = fw[d].buf
        /\ \A c \in Dirs \ {d} : fw'[c] = fw[c]
    BY <1>1 DEF NetTypeOK
  <1>4. DirOK(d)'
    BY <1>1, <1>3 DEF DirOK, Buffered, LoopEnd, StaleLeft, StreamOK, Src, Dst
  <1>5. \A c \in Dirs \ {d} : DirOK(c)'
    BY <1>1, <1>3, SameDir DEF NetInv
  <1>. QED  BY <1>2, <1>4, <1>5 DEF NetInv
\* A step of a forwarder.
LEMMA ForwardKeeps ==
    ASSUME NetInv, NEW d \in Dirs, forward_fn(d)
    PROVE  NetInv'
  BY FwReadKeeps, FwEofKeeps, FwSnapKeeps, FwDropKeeps, FwKeepKeeps, FwSendKeeps, FwEpipeKeeps, FwShutKeeps
  DEF forward_fn

\* user_write(e, n): the bytes join the stream of the end they are written to.
LEMMA WriteKeeps ==
    ASSUME NetInv, NEW e \in Ends, NEW n \in Nat, user_write(e, n)
    PROVE  NetInv'
  <1>. DEFINE d == From(e)
              q == Written(inq[d], sent[d], n)
  <1>1. d \in Dirs /\ Src(d) = e
    BY EndFacts
  <1>2. /\ NetTypeOK /\ DirOK(d) /\ file[e] = "open"
        /\ inq' = [inq EXCEPT ![d] = q] /\ sent' = [sent EXCEPT ![d] = @ + n]
        /\ UNCHANGED <<knobs, cpc, quiet, file, reading, fw, rcvd, lost, stale, outq, shut, alive>>
    BY <1>1 DEF NetInv, user_write, ends, call, Written
  <1>3. /\ rcvd[d] \in Seq(Nat) /\ outq[d] \in Seq(Nat) /\ fw[d].buf \in Seq(Nat)
        /\ inq[d] \in Seq(Nat) /\ sent[d] \in Nat
    BY <1>1, <1>2, DirTypes
  <1>4. /\ Stream(rcvd[d], outq[d], fw[d].buf, inq[d], lost[d], sent[d])
        /\ file[Dst(d)] # "released" => Whole(rcvd[d], outq[d], fw[d].buf, inq[d], lost[d], sent[d])
    BY <1>2 DEF DirOK, StreamOK
  <1>5. /\ q \in Seq(Nat) /\ Stream(rcvd[d], outq[d], fw[d].buf, q, lost[d], sent[d] + n)
        /\ file[Dst(d)] # "released" => Whole(rcvd[d], outq[d], fw[d].buf, q, lost[d], sent[d] + n)
    BY <1>3, <1>4, UserWriteKeeps
  <1>. HIDE DEF q, d
  <1>6. NetTypeOK'
    <2>1. sent' \in [Dirs -> Nat] /\ inq' \in [Dirs -> Seq(Nat)]
      BY <1>1, <1>2, <1>3, <1>5 DEF NetTypeOK
    <2>. QED  BY <1>2, <2>1 DEF NetTypeOK
  <1>7. /\ inq'[d] = q /\ sent'[d] = sent[d] + n
        /\ \A c \in Dirs \ {d} : inq'[c] = inq[c] /\ sent'[c] = sent[c]
    BY <1>1, <1>2 DEF NetTypeOK
  <1>8. DirOK(d)'
    <2>1. Buffered(d)' /\ LoopEnd(d)' /\ StaleLeft(d)'
      BY <1>1, <1>2 DEF DirOK, Buffered, LoopEnd, StaleLeft, Src, Dst
    <2>2. StreamOK(d)'
      BY <1>2, <1>5, <1>7 DEF StreamOK, Dst
    <2>. QED  BY <2>1, <2>2 DEF DirOK
  <1>9. \A c \in Dirs \ {d} : DirOK(c)'
    BY <1>2, <1>7, SameDir DEF NetInv
  <1>. QED  BY <1>6, <1>8, <1>9 DEF NetInv

\* TakeBytes(e, m), by a read that may hold the last reference to its end.
LEMMA TakeBytesKeeps ==
    ASSUME NetInv, NEW e \in Ends, NEW m \in Nat, TakeBytes(e, m),
           file' \in [Ends -> {"open", "closing", "released"}], reading' \subseteq Ends,
           \A x \in Ends : file[x] = "released" => file'[x] = "released",
           file[e] # "open" => file'[e] = "released"
    PROVE  NetInv'
  <1>. DEFINE d == To(e)
              n == Least(m, Len(outq[d]))
              q == rcvd[d] \o SubSeq(outq[d], 1, n)
              t == SubSeq(outq[d], n + 1, Len(outq[d]))
              u == IF file[e] = "open" THEN t ELSE <<>>
  <1>1. d \in Dirs /\ Dst(d) = e
    BY EndFacts
  <1>2. /\ NetTypeOK /\ DirOK(d) /\ n > 0
        /\ rcvd' = [rcvd EXCEPT ![d] = q] /\ outq' = [outq EXCEPT ![d] = u]
        /\ UNCHANGED <<knobs, cpc, quiet, inq, fw, shut, alive, sent, lost, stale>>
    BY <1>1 DEF NetInv, TakeBytes, call
  <1>3. /\ rcvd[d] \in Seq(Nat) /\ outq[d] \in Seq(Nat) /\ fw[d].buf \in Seq(Nat)
        /\ inq[d] \in Seq(Nat) /\ sent[d] \in Nat /\ Len(outq[d]) \in Nat
    BY <1>1, <1>2, DirTypes
  <1>4. n \in 0..Len(outq[d])
    BY <1>2, <1>3 DEF Least
  <1>5. /\ Stream(rcvd[d], outq[d], fw[d].buf, inq[d], lost[d], sent[d])
        /\ file[Dst(d)] # "released" => Whole(rcvd[d], outq[d], fw[d].buf, inq[d], lost[d], sent[d])
    BY <1>2 DEF DirOK, StreamOK
  <1>6. q \in Seq(Nat) /\ t \in Seq(Nat)
    <2>1. SubSeq(outq[d], 1, n) \in Seq(Nat) /\ t \in Seq(Nat)
      BY <1>3, <1>4, CutFacts
    <2>. QED  BY <1>3, <2>1, ConcatProperties
  <1>. HIDE DEF n, d
  <1>7. /\ Stream(q, t, fw[d].buf, inq[d], lost[d], sent[d])
        /\ Stream(q, <<>>, fw[d].buf, inq[d], lost[d], sent[d])
        /\ file[Dst(d)] # "released" => Whole(q, t, fw[d].buf, inq[d], lost[d], sent[d])
    BY <1>3, <1>4, <1>5, TakeKeeps
  <1>. HIDE DEF q, t
  <1>8. u \in Seq(Nat)
    BY <1>6, EmptyFacts
  <1>9. /\ Stream(q, u, fw[d].buf, inq[d], lost[d], sent[d])
        /\ file'[Dst(d)] # "released" => Whole(q, u, fw[d].buf, inq[d], lost[d], sent[d])
    BY <1>1, <1>7
  <1>. HIDE DEF u
  <1>10. NetTypeOK'
    BY <1>2, <1>6, <1>8 DEF NetTypeOK
  <1>11. /\ rcvd'[d] = q /\ outq'[d] = u
         /\ \A c \in Dirs \ {d} : rcvd'[c] = rcvd[c] /\ outq'[c] = outq[c]
    BY <1>1, <1>2 DEF NetTypeOK
  <1>12. DirOK(d)'
    <2>1. Buffered(d)' /\ StaleLeft(d)'
      BY <1>1, <1>2 DEF DirOK, Buffered, StaleLeft
    <2>2. LoopEnd(d)'
      BY <1>1, <1>2, EndFacts DEF DirOK, LoopEnd, Src, Dst
    <2>3. StreamOK(d)'
      BY <1>2, <1>9, <1>11 DEF StreamOK, Dst
    <2>. QED  BY <2>1, <2>2, <2>3 DEF DirOK
  <1>13. \A c \in Dirs \ {d} : DirOK(c)'
    BY <1>2, <1>11, SameDir DEF NetInv
  <1>. QED  BY <1>10, <1>12, <1>13 DEF NetInv

\* A step that may close ends, with the bytes nobody can read any more, and may
\* move the calls on, but starts no forwarder.
LEMMA EndsKeep ==
    ASSUME NetInv, UNCHANGED <<hist, knobs, inq, fw, shut, alive>>,
           quiet' \in BOOLEAN, reading' \subseteq Ends,
           cpc' \in {"up", "undo", "failed", "close_b", "join_ab", "join_ba", "gone"} \cup {cpc},
           file' \in [Ends -> {"open", "closing", "released"}],
           outq' \in [Dirs -> Seq(Nat)],
           \A e \in Ends : file[e] = "released" => file'[e] = "released",
           \A d \in Dirs : \/ outq'[d] = outq[d]
                           \/ outq'[d] = <<>> /\ file'[Dst(d)] = "released"
    PROVE  NetInv'
  <1>1. NetTypeOK'
    BY DEF NetInv, NetTypeOK, hist
  <1>2. \A d \in Dirs : DirOK(d)'
    BY SameDir DEF NetInv, hist
  <1>. QED  BY <1>1, <1>2 DEF NetInv

\* Release closes ends for good, and CloseEnd closes or marks one.
LEMMA ReleaseFacts ==
    ASSUME NetTypeOK, NEW S \in SUBSET Ends, Release(S)
    PROVE  /\ file' \in [Ends -> {"open", "closing", "released"}] /\ outq' \in [Dirs -> Seq(Nat)]
           /\ \A e \in Ends : file[e] = "released" => file'[e] = "released"
           /\ \A e \in Ends : e \notin S => file'[e] = file[e]
           /\ \A e \in S : file'[e] = "released"
           /\ \A d \in Dirs : \/ outq'[d] = outq[d]
                              \/ outq'[d] = <<>> /\ file'[Dst(d)] = "released"
  <1>1. /\ file' = [e \in Ends |-> IF e \in S THEN "released" ELSE file[e]]
        /\ outq' = [d \in Dirs |-> IF Dst(d) \in S THEN <<>> ELSE outq[d]]
        /\ file \in [Ends -> {"open", "closing", "released"}] /\ outq \in [Dirs -> Seq(Nat)]
    BY DEF Release, NetTypeOK
  <1>2. file' \in [Ends -> {"open", "closing", "released"}]
    BY <1>1
  <1>3. outq' \in [Dirs -> Seq(Nat)]
    BY <1>1, EmptyFacts
  <1>4. \A e \in Ends : file'[e] = IF e \in S THEN "released" ELSE file[e]
    BY <1>1
  <1>5. \A d \in Dirs : outq'[d] = IF Dst(d) \in S THEN <<>> ELSE outq[d]
    BY <1>1
  <1>. QED  BY <1>2, <1>3, <1>4, <1>5, EndFacts

LEMMA CloseFacts ==
    ASSUME NetTypeOK, NEW e \in Ends, CloseEnd(e)
    PROVE  /\ file' \in [Ends -> {"open", "closing", "released"}] /\ outq' \in [Dirs -> Seq(Nat)]
           /\ \A x \in Ends : file[x] = "released" => file'[x] = "released"
           /\ \A x \in Ends \ {e} : file'[x] = file[x]
           /\ \A d \in Dirs : \/ outq'[d] = outq[d]
                              \/ outq'[d] = <<>> /\ file'[Dst(d)] = "released"
  <1>1. CASE file[e] = "open" /\ e \in reading
    <2>1. /\ file' = [file EXCEPT ![e] = "closing"] /\ outq' = outq /\ outq \in [Dirs -> Seq(Nat)]
          /\ file \in [Ends -> {"open", "closing", "released"}]
      BY <1>1 DEF CloseEnd, NetTypeOK
    <2>. QED  BY <1>1, <2>1
  <1>2. CASE ~(file[e] = "open" /\ e \in reading)
    <2>. DEFINE S == IF file[e] = "open" THEN {e} ELSE {}
    <2>1. S \in SUBSET Ends /\ Release(S) /\ S \subseteq {e}
      BY <1>2 DEF CloseEnd
    <2>. HIDE DEF S
    <2>. QED  BY <2>1, ReleaseFacts
  <1>. QED  BY <1>1, <1>2
LEMMA StartFacts ==
    ASSUME NetInv, cpc = "none", NEW D \in SUBSET Dirs, Start(D)
    PROVE  /\ fw' \in [Dirs -> [pc : FwPlaces, buf : Seq(Nat), k : Knobs]]
           /\ \A d \in Dirs : /\ fw[d].pc = "none" /\ fw[d].buf = <<>> /\ stale[d] = 0
                              /\ fw'[d].pc \in {"none", "read"} /\ fw'[d].buf = <<>>
  <1>1. \A d \in Dirs : fw[d].pc = "none" /\ fw[d].buf = <<>> /\ stale[d] = 0
    BY DEF NetInv, DirOK, Buffered
  <1>2. fw \in [Dirs -> [pc : FwPlaces, buf : Seq(Nat), k : Knobs]]
    BY DEF NetInv, NetTypeOK
  <1>3. \A d \in Dirs : [fw[d] EXCEPT !.pc = "read"] \in [pc : FwPlaces, buf : Seq(Nat), k : Knobs]
    BY <1>2 DEF FwPlaces
  <1>4. fw' = [d \in Dirs |-> IF d \in D THEN [fw[d] EXCEPT !.pc = "read"] ELSE fw[d]]
    BY DEF Start
  <1>5. fw' \in [Dirs -> [pc : FwPlaces, buf : Seq(Nat), k : Knobs]]
    BY <1>2, <1>3, <1>4
  <1>6. \A d \in Dirs : fw'[d].pc \in {"none", "read"} /\ fw'[d].buf = <<>>
    <2>. SUFFICES ASSUME NEW d \in Dirs PROVE fw'[d].pc \in {"none", "read"} /\ fw'[d].buf = <<>>
      OBVIOUS
    <2>1. CASE d \in D
      <3>1. fw'[d] = [fw[d] EXCEPT !.pc = "read"] /\ fw[d] \in [pc : FwPlaces, buf : Seq(Nat), k : Knobs]
        BY <1>2, <1>4, <2>1
      <3>. QED  BY <1>1, <3>1
    <2>2. CASE d \notin D
      BY <1>1, <1>4, <2>2
    <2>. QED  BY <2>1, <2>2
  <1>. QED  BY <1>1, <1>5, <1>6

\* chaos_net_pair starts its forwarders with nothing to forward.
LEMMA PairKeeps ==
    ASSUME NetInv, cpc = "none", cpc' \in {"up", "undo"}, NEW D \in SUBSET Dirs, Start(D), knobs' \in Knobs,
           UNCHANGED <<hist, reading, quiet, inq, shut, alive>>,
           file' \in [Ends -> {"open", "closing", "released"}],
           outq' \in [Dirs -> Seq(Nat)],
           \A e \in Ends : file[e] = "released" => file'[e] = "released",
           \A d \in Dirs : \/ outq'[d] = outq[d]
                           \/ outq'[d] = <<>> /\ file'[Dst(d)] = "released"
    PROVE  NetInv'
  <1>1. /\ fw' \in [Dirs -> [pc : FwPlaces, buf : Seq(Nat), k : Knobs]]
        /\ \A d \in Dirs : /\ fw[d].pc = "none" /\ fw[d].buf = <<>> /\ stale[d] = 0
                           /\ fw'[d].pc \in {"none", "read"} /\ fw'[d].buf = <<>>
    BY StartFacts
  <1>2. NetTypeOK'
    BY <1>1 DEF NetInv, NetTypeOK, hist
  <1>3. ASSUME NEW d \in Dirs PROVE DirOK(d)'
    <2>1. Buffered(d)' /\ StaleLeft(d)'
      BY <1>1, EmptyFacts, NetAssumption DEF Buffered, StaleLeft, hist
    <2>2. LoopEnd(d)'
      BY <1>1 DEF NetInv, DirOK, LoopEnd
    <2>3. /\ rcvd[d] \in Seq(Nat) /\ outq[d] \in Seq(Nat) /\ fw[d].buf \in Seq(Nat)
          /\ inq[d] \in Seq(Nat) /\ sent[d] \in Nat
      BY DirTypes DEF NetInv
    <2>4. Dst(d) \in Ends /\ Dst(d)' = Dst(d)
      BY EndFacts DEF Dst
    <2>5. /\ Stream(rcvd[d], outq[d], fw'[d].buf, inq[d], lost[d], sent[d])
          /\ file[Dst(d)] # "released" => Whole(rcvd[d], outq[d], fw'[d].buf, inq[d], lost[d], sent[d])
      BY <1>1 DEF NetInv, DirOK, StreamOK
    <2>6. Stream(rcvd[d], outq'[d], fw'[d].buf, inq[d], lost[d], sent[d])
      BY <1>1, <2>3, <2>5, CutOffKeeps
    <2>7. StreamOK(d)'
      BY <2>4, <2>5, <2>6 DEF StreamOK, hist
    <2>. QED  BY <2>1, <2>2, <2>7 DEF DirOK
  <1>. QED  BY <1>2, <1>3 DEF NetInv

\* chaos_net_set_knobs: the snapshots go stale, and may still drop their buffers.
LEMMA SetKnobsKeeps ==
    ASSUME NetInv, NEW k \in Knobs, chaos_net_set_knobs(k)
    PROVE  NetInv'
  <1>1. /\ knobs' = k /\ stale' = [d \in Dirs |-> 0] /\ cpc = "up"
        /\ UNCHANGED <<cpc, quiet, file, reading, sent, rcvd, lost, inq, outq, fw, shut, alive>>
    BY DEF chaos_net_set_knobs, ends
  <1>2. NetTypeOK'
    BY <1>1 DEF NetInv, NetTypeOK
  <1>3. ASSUME NEW d \in Dirs PROVE DirOK(d)'
    <2>1. Len(fw[d].buf) \in Nat /\ Len(fw[d].buf) <= BufMax /\ stale'[d] = 0 /\ BufMax \in Nat
      BY <1>1, DirTypes, NetAssumption DEF NetInv, DirOK, Buffered
    <2>2. StaleLeft(d)'
      BY <1>1, <2>1 DEF StaleLeft
    <2>3. Buffered(d)' /\ LoopEnd(d)' /\ StreamOK(d)'
      BY <1>1 DEF NetInv, DirOK, Buffered, LoopEnd, StreamOK, Src, Dst
    <2>. QED  BY <2>2, <2>3 DEF DirOK
  <1>. QED  BY <1>2, <1>3 DEF NetInv

LEMMA NetInitHolds ==
    ASSUME NetInit PROVE NetInv
  <1>1. /\ knobs = [loss |-> "none", chunk |-> 0] /\ cpc = "none" /\ alive = TRUE /\ quiet = FALSE
        /\ inq = [d \in Dirs |-> <<>>] /\ outq = [d \in Dirs |-> <<>>] /\ rcvd = [d \in Dirs |-> <<>>]
        /\ fw = [d \in Dirs |-> [pc |-> "none", buf |-> <<>>, k |-> knobs]]
        /\ shut = {} /\ reading = {} /\ file = [e \in Ends |-> "open"]
        /\ sent = [d \in Dirs |-> 0] /\ lost = [d \in Dirs |-> {}] /\ stale = [d \in Dirs |-> 0]
    BY DEF NetInit
  <1>2. knobs \in Knobs
    BY <1>1, NetAssumption DEF Knobs
  <1>3. NetTypeOK
    BY <1>1, <1>2, EmptyFacts DEF NetTypeOK, FwPlaces
  <1>4. ASSUME NEW d \in Dirs PROVE DirOK(d)
    <2>1. /\ fw[d].pc = "none" /\ fw[d].buf = <<>> /\ inq[d] = <<>> /\ outq[d] = <<>> /\ rcvd[d] = <<>>
          /\ sent[d] = 0 /\ lost[d] = {} /\ stale[d] = 0
      BY <1>1
    <2>2. Buffered(d) /\ LoopEnd(d) /\ StaleLeft(d)
      BY <1>1, <2>1, EmptyFacts, NetAssumption DEF Buffered, LoopEnd, StaleLeft
    <2>3. Stream(<<>>, <<>>, <<>>, <<>>, {}, 0) /\ Whole(<<>>, <<>>, <<>>, <<>>, {}, 0)
      BY EmptyFacts DEF Stream, Whole, Ordered, Flow, Below
    <2>. QED  BY <2>1, <2>2, <2>3 DEF DirOK, StreamOK
  <1>. QED  BY <1>3, <1>4 DEF NetInv

LEMMA ReadCallKeeps ==
    ASSUME NetInv, NEW e \in Ends, NEW m \in Nat, user_read(e, m) \/ read_bytes(e, m)
    PROVE  NetInv'
  <1>. NetTypeOK
    BY DEF NetInv
  <1>1. CASE user_read(e, m)
    BY <1>1, TakeBytesKeeps DEF user_read, NetTypeOK, ends
  <1>2. CASE read_bytes(e, m)
    <2>1. /\ TakeBytes(e, m) /\ reading' \subseteq Ends
          /\ file' = [file EXCEPT ![e] = IF @ = "closing" THEN "released" ELSE @]
          /\ file \in [Ends -> {"open", "closing", "released"}]
      BY <1>2 DEF read_bytes, NetTypeOK
    <2>2. file' \in [Ends -> {"open", "closing", "released"}]
      BY <2>1
    <2>3. /\ \A x \in Ends : file[x] = "released" => file'[x] = "released"
          /\ file[e] # "open" => file'[e] = "released"
      BY <2>1
    <2>. QED  BY <2>1, <2>2, <2>3, TakeBytesKeeps
  <1>. QED  BY <1>1, <1>2

\* Every step of the pair keeps its invariant.
LEMMA NetKeeps ==
    ASSUME NetInv, NetCall \/ UNCHANGED netVars
    PROVE  NetInv'
  <1>. NetTypeOK
    BY DEF NetInv
  <1>1. ASSUME NEW d \in Dirs, forward_fn(d) PROVE NetInv'
    BY <1>1, ForwardKeeps
  <1>2. ASSUME NEW e \in Ends, NEW n \in Nat, user_write(e, n) PROVE NetInv'
    BY <1>2, WriteKeeps
  <1>3. ASSUME NEW e \in Ends, NEW m \in Nat, user_read(e, m) \/ read_bytes(e, m) PROVE NetInv'
    BY <1>3, ReadCallKeeps
  <1>4. ASSUME NEW e \in Ends, read_start(e) PROVE NetInv'
    BY <1>4, EndsKeep DEF read_start, call, NetTypeOK
  <1>5. ASSUME NEW e \in Ends, read_eof(e) PROVE NetInv'
    <2>. DEFINE S == IF file[e] = "closing" THEN {e} ELSE {}
    <2>1. S \in SUBSET Ends /\ Release(S) /\ reading' \subseteq Ends
          /\ UNCHANGED <<cpc, quiet, hist, knobs, inq, fw, shut, alive>>
      BY <1>5 DEF read_eof, call, NetTypeOK
    <2>. HIDE DEF S
    <2>. QED  BY <2>1, ReleaseFacts, EndsKeep DEF NetTypeOK
  <1>6. ASSUME NEW e \in Ends, user_close(e) PROVE NetInv'
    <2>1. CloseEnd(e) /\ UNCHANGED <<cpc, quiet, reading, hist, knobs, inq, fw, shut, alive>>
      BY <1>6 DEF user_close, call
    <2>. QED  BY <2>1, CloseFacts, EndsKeep DEF NetTypeOK
  <1>7. ASSUME NEW k \in Knobs, net_pair(k) PROVE NetInv'
    BY <1>7, PairKeeps DEF net_pair, ends, NetTypeOK
  <1>8. ASSUME NEW k \in Knobs, chaos_net_set_knobs(k) PROVE NetInv'
    BY <1>8, SetKnobsKeeps
  <1>9. CASE net_pair_fails \/ net_pair_undo \/ net_join_ab \/ net_join_ba
    BY <1>9, EndsKeep DEF net_pair_fails, net_pair_undo, net_join_ab, net_join_ba, ends, NetTypeOK
  <1>10. CASE net_pair_half
    <2>1. /\ Start({"ab"}) /\ Release({"a"}) /\ cpc = "none" /\ cpc' = "undo" /\ knobs' \in Knobs
          /\ {"ab"} \in SUBSET Dirs /\ {"a"} \in SUBSET Ends
          /\ UNCHANGED <<hist, reading, quiet, inq, shut, alive>>
      BY <1>10 DEF net_pair_half, Dirs, Ends, NetTypeOK
    <2>. QED  BY <2>1, ReleaseFacts, PairKeeps
  <1>11. CASE net_close_a \/ net_close_b
    <2>1. PICK e \in Ends : CloseEnd(e)
      BY <1>11 DEF net_close_a, net_close_b, Ends
    <2>2. /\ quiet' \in BOOLEAN /\ cpc' \in {"close_b", "join_ab"}
          /\ UNCHANGED <<reading, hist, knobs, inq, fw, shut, alive>>
      BY <1>11 DEF net_close_a, net_close_b, NetTypeOK
    <2>. QED  BY <2>1, <2>2, CloseFacts, EndsKeep DEF NetTypeOK
  <1>12. CASE UNCHANGED netVars
    BY <1>12, EndsKeep DEF netVars, ends, call, NetTypeOK
  <1>. QED
    BY <1>1, <1>2, <1>3, <1>4, <1>5, <1>6, <1>7, <1>8, <1>9, <1>10, <1>11, <1>12 DEF NetCall, chaos_net_close
----------------------------------------------------------------------------
(* The programs *)

\* A program does nothing else to the pair than call it.
LEMMA NextCalls ==
    ASSUME NetInv, Lifecycle, Next
    PROVE  NetCall \/ UNCHANGED netVars
  <1>1. Knobs0 \in Knobs
    BY NetAssumption DEF Knobs0, Knobs
  <1>2. [loss |-> "none", chunk |-> 1] \in Knobs /\ [loss : {"none", "all"}, chunk : {0}] \subseteq Knobs
    BY NetAssumption DEF Knobs
  <1>3. BufMax \in Nat /\ 1 \in Nat /\ N \in Nat /\ Reader \in Ends /\ "a" \in Ends /\ "b" \in Ends
    BY NetAssumption, ClientAssumption DEF Ends
  <1>4. ASSUME NEW d \in Dirs, forward_fn(d) PROVE NetCall
    BY <1>4 DEF NetCall
  <1>5. CASE main_pair \/ main_undo
    BY <1>1, <1>5 DEF main_pair, main_undo, NetCall
  <1>6. CASE main_io \/ main_spawn \/ main_idle \/ main_join \/ main_join_late \/ drain_badf \/ drain_persist \/ any_close
    BY <1>6 DEF main_io, main_spawn, main_idle, main_join, main_join_late, drain_badf, drain_persist, any_close
  <1>7. CASE main_send
    <2>1. pc["main"] \in Before /\ \E n \in Nat : user_write("a", n)
      BY <1>3, <1>7 DEF main_send, Before
    <2>. QED  BY <1>3, <2>1 DEF NetCall, Lifecycle
  <1>8. CASE main_recv \/ main_hup \/ main_heal \/ main_close
    BY <1>2, <1>3, <1>8 DEF main_recv, main_hup, main_heal, main_close, NetCall
  <1>9. CASE drain_start \/ drain_bytes \/ drain_eof
    BY <1>3, <1>9 DEF drain_start, drain_bytes, drain_eof, NetCall
  <1>10. ASSUME NEW r \in Replicas, Replica(r) PROVE NetCall \/ UNCHANGED netVars
    <2>1. Send(r) \in Ends /\ Recv(r) \in Ends
      BY DEF Send, Recv, Ends
    <2>2. CASE replica_send(r)
      <3>1. pc["main"] \in {"heal", "join"} /\ user_write(Send(r), 1)
        BY <2>2 DEF replica_send, Lifecycle
      <3>. QED  BY <1>3, <2>1, <3>1 DEF NetCall, Lifecycle, Before
    <2>3. CASE replica_hear(r) \/ replica_tick(r)
      BY <1>3, <2>1, <2>3 DEF replica_hear, replica_tick, NetCall
    <2>. QED  BY <1>10, <2>2, <2>3 DEF Replica
  <1>11. CASE any_call
    <2>1. cpc = "up"
      BY <1>11 DEF any_call
    <2>2. CASE \E e \in Ends : user_write(e, 1)
      BY <1>3, <2>1, <2>2 DEF NetCall
    <2>3. CASE \E e \in Ends \ {Reader} : user_read(e, BufMax)
      BY <1>3, <2>3 DEF NetCall
    <2>4. CASE read_start(Reader) \/ user_close("a")
      BY <1>3, <2>4 DEF NetCall
    <2>5. CASE \E k \in [loss : {"none", "all"}, chunk : {0}] : chaos_net_set_knobs(k)
      BY <1>2, <2>5 DEF NetCall
    <2>. QED  BY <1>11, <2>2, <2>3, <2>4, <2>5 DEF any_call
  <1>12. CASE any_read
    BY <1>3, <1>12 DEF any_read, NetCall
  <1>13. CASE Terminating
    BY <1>13 DEF Terminating, vars
  <1>. QED
    BY <1>4, <1>5, <1>6, <1>7, <1>8, <1>9, <1>10, <1>11, <1>12, <1>13 DEF Next, Main, Drain

\* With nothing to forward a forwarder can only notice the end of its source.
LEMMA IdleForward ==
    ASSUME NetInv, NEW d \in Dirs, inq[d] = <<>>, fw[d].buf = <<>>, forward_fn(d)
    PROVE  /\ fw'[d].buf = <<>> /\ \A c \in Dirs \ {d} : fw'[c] = fw[c]
           /\ UNCHANGED <<ends, call, hist, inq, outq, alive>>
  <1>1. fw_eof(d) \/ fw_shut(d)
    BY DEF NetInv, DirOK, Buffered, forward_fn, fw_read, fw_snap, fw_drop, fw_keep, fw_send, fw_epipe, At
  <1>2. /\ \E p \in FwPlaces : fw' = [fw EXCEPT ![d].pc = p]
        /\ UNCHANGED <<ends, call, hist, inq, outq, alive>>
    BY <1>1 DEF fw_eof, fw_shut, FwPlaces
  <1>. QED  BY <1>2 DEF NetInv, NetTypeOK

\* A direction on which nothing was sent carries nothing.
LEMMA UnusedFacts ==
    ASSUME NetInv, NEW d \in Dirs, sent[d] = 0
    PROVE  inq[d] = <<>> /\ fw[d].buf = <<>>
  <1>1. fw[d].buf \in Seq(Nat) /\ inq[d] \in Seq(Nat)
    BY DirTypes DEF NetInv
  <1>2. 1..sent[d] = {}
    OBVIOUS
  <1>3. Flow(rcvd[d], outq[d], fw[d].buf, inq[d]) \subseteq 1..sent[d]
    BY DEF NetInv, DirOK, StreamOK, Stream
  <1>4. ToSet(fw[d].buf) = {} /\ ToSet(inq[d]) = {}
    BY <1>2, <1>3 DEF Flow
  <1>5. ASSUME NEW q \in Seq(Nat), ToSet(q) = {} PROVE q = <<>>
    <2>1. Len(q) \in Nat /\ DOMAIN q = 1..Len(q)
      BY LenProperties
    <2>2. 1 \notin 1..Len(q)
      BY <1>5, <2>1 DEF ToSet
    <2>. QED  BY <2>1, <2>2, EmptySeq
  <1>. QED  BY <1>1, <1>4, <1>5
\* A pair that was quiet when it was closed has nothing to write to a closed end.
LEMMA QuietKeeps ==
    ASSUME NetInv, QuietStays, NetCall \/ UNCHANGED netVars
    PROVE  QuietStays'
  <1>. NetTypeOK
    BY DEF NetInv
  <1>1. CASE UNCHANGED <<quiet, alive, cpc, inq, fw>>
    BY <1>1 DEF QuietStays
  <1>2. ASSUME NEW d \in Dirs, forward_fn(d) PROVE QuietStays'
    <2>. SUFFICES ASSUME quiet' PROVE QuietStays'
      BY DEF QuietStays
    <2>1. quiet' = quiet
      BY <1>2 DEF forward_fn, fw_read, fw_eof, fw_snap, fw_drop, fw_keep, fw_send, fw_epipe, fw_shut, call
    <2>2. alive /\ cpc \notin {"none", "up"} /\ \A c \in Dirs : inq[c] = <<>> /\ fw[c].buf = <<>>
      BY <2>1 DEF QuietStays
    <2>3. /\ fw'[d].buf = <<>> /\ \A c \in Dirs \ {d} : fw'[c] = fw[c]
          /\ UNCHANGED <<call, inq, alive>>
      BY <1>2, <2>2, IdleForward
    <2>4. \A c \in Dirs : inq'[c] = <<>> /\ fw'[c].buf = <<>>
      BY <2>2, <2>3
    <2>. QED  BY <2>2, <2>3, <2>4 DEF QuietStays, call
  <1>3. ASSUME NEW e \in Ends, NEW n \in Nat, cpc = "up", user_write(e, n) PROVE QuietStays'
    <2>1. quiet' = quiet
      BY <1>3 DEF user_write, call
    <2>. QED  BY <1>3, <2>1 DEF QuietStays
  <1>4. ASSUME NEW k \in Knobs, net_pair(k) \/ chaos_net_set_knobs(k) PROVE QuietStays'
    <2>1. quiet' = quiet /\ cpc \in {"none", "up"}
      BY <1>4 DEF net_pair, chaos_net_set_knobs
    <2>. QED  BY <2>1 DEF QuietStays
  <1>5. CASE net_pair_fails \/ net_pair_half
    <2>1. quiet' = quiet /\ cpc = "none"
      BY <1>5 DEF net_pair_fails, net_pair_half
    <2>. QED  BY <2>1 DEF QuietStays
  <1>6. CASE net_pair_undo \/ net_close_b \/ net_join_ab \/ net_join_ba
    BY <1>6 DEF net_pair_undo, net_close_b, net_join_ab, net_join_ba, QuietStays
  <1>7. CASE net_close_a
    <2>1. /\ quiet' = (\A d \in Dirs : InFlight(d) = 0) /\ alive /\ alive' = alive /\ cpc' = "close_b"
          /\ inq' = inq /\ fw' = fw
      BY <1>7 DEF net_close_a
    <2>2. ASSUME NEW d \in Dirs, InFlight(d) = 0 PROVE inq[d] = <<>> /\ fw[d].buf = <<>>
      <3>1. /\ rcvd[d] \in Seq(Nat) /\ outq[d] \in Seq(Nat) /\ fw[d].buf \in Seq(Nat)
            /\ inq[d] \in Seq(Nat) /\ sent[d] \in Nat
        BY DirTypes
      <3>2. Stream(rcvd[d], outq[d], fw[d].buf, inq[d], lost[d], sent[d])
        BY DEF NetInv, DirOK, StreamOK
      <3>3. Missing(rcvd[d], lost[d], sent[d]) = 0
        BY <2>2 DEF InFlight, Missing
      <3>. QED  BY <3>1, <3>2, <3>3, FlightFacts
    <2>. QED  BY <2>1, <2>2 DEF QuietStays
  <1>8. ASSUME NEW e \in Ends, NEW m \in Nat, user_read(e, m) \/ read_bytes(e, m) PROVE QuietStays'
    BY <1>1, <1>8 DEF user_read, read_bytes, TakeBytes, call
  <1>9. ASSUME NEW e \in Ends, read_start(e) \/ read_eof(e) \/ user_close(e) PROVE QuietStays'
    BY <1>1, <1>9 DEF read_start, read_eof, user_close, call
  <1>10. CASE UNCHANGED netVars
    BY <1>1, <1>10 DEF netVars, call
  <1>. QED
    BY <1>2, <1>3, <1>4, <1>5, <1>6, <1>7, <1>8, <1>9, <1>10 DEF NetCall, chaos_net_close

\* What was released stays so.
LEMMA ReleasedStays ==
    ASSUME NetInv, NetCall \/ UNCHANGED netVars, NEW e \in Ends, file[e] = "released"
    PROVE  file'[e] = "released"
  <1>. NetTypeOK
    BY DEF NetInv
  <1>1. ASSUME NEW d \in Dirs, forward_fn(d) PROVE UNCHANGED file
    BY <1>1 DEF forward_fn, fw_read, fw_eof, fw_snap, fw_drop, fw_keep, fw_send, fw_epipe, fw_shut, ends
  <1>2. ASSUME NEW x \in Ends, NEW n \in Nat, user_write(x, n) PROVE UNCHANGED file
    BY <1>2 DEF user_write, ends
  <1>3. ASSUME NEW x \in Ends, NEW m \in Nat, user_read(x, m) \/ read_bytes(x, m) PROVE file'[e] = "released"
    BY <1>3 DEF user_read, read_bytes, ends, NetTypeOK
  <1>4. ASSUME NEW x \in Ends, read_eof(x) PROVE file'[e] = "released"
    BY <1>4 DEF read_eof, Release
  <1>5. ASSUME NEW x \in Ends, read_start(x) PROVE UNCHANGED file
    BY <1>5 DEF read_start
  <1>6. ASSUME NEW x \in Ends, CloseEnd(x) PROVE file'[e] = "released"
    BY <1>6, CloseFacts
  <1>7. CASE net_pair_half
    BY <1>7 DEF net_pair_half, Release
  <1>8. ASSUME NEW k \in Knobs, net_pair(k) \/ chaos_net_set_knobs(k) PROVE UNCHANGED file
    BY <1>8 DEF net_pair, chaos_net_set_knobs, ends
  <1>9. CASE net_pair_fails \/ net_pair_undo \/ net_join_ab \/ net_join_ba \/ UNCHANGED netVars
    BY <1>9 DEF net_pair_fails, net_pair_undo, net_join_ab, net_join_ba, ends, netVars
  <1>10. CASE net_close_a \/ net_close_b
    BY <1>6, <1>10 DEF net_close_a, net_close_b, Ends
  <1>. QED
    BY <1>1, <1>2, <1>3, <1>4, <1>5, <1>6, <1>7, <1>8, <1>9, <1>10 DEF NetCall, chaos_net_close, user_close

\* A direction whose writer is gone and on which nothing is left stays drained.
LEMMA DrainedKeeps ==
    ASSUME NetInv, NetCall \/ UNCHANGED netVars, NEW d \in Dirs, Drained(d), file[Src(d)] = "released"
    PROVE  Drained(d)'
  <1>. NetTypeOK
    BY DEF NetInv
  <1>1. /\ inq[d] = <<>> /\ outq[d] = <<>> /\ fw[d].buf = <<>>
        /\ sent[d] - Len(rcvd[d]) - Cardinality(lost[d]) = 0
    BY DEF Drained, InFlight
  <1>2. ASSUME fw'[d].buf = <<>>, inq'[d] = <<>>, outq'[d] = <<>>,
               sent'[d] = sent[d], rcvd'[d] = rcvd[d], lost'[d] = lost[d]
        PROVE  Drained(d)'
    BY <1>1, <1>2 DEF Drained, InFlight
  <1>3. ASSUME NEW c \in Dirs, forward_fn(c) PROVE Drained(d)'
    <2>1. CASE c = d
      <3>1. fw'[d].buf = <<>> /\ UNCHANGED <<hist, inq, outq>>
        BY <1>1, <1>3, <2>1, IdleForward
      <3>. QED  BY <1>1, <1>2, <3>1 DEF hist
    <2>2. CASE c # d
      <3>1. /\ fw'[d] = fw[d] /\ inq'[d] = inq[d] /\ outq'[d] = outq[d] /\ lost'[d] = lost[d]
            /\ sent' = sent /\ rcvd' = rcvd
        BY <1>3, <2>2 DEF forward_fn, fw_read, fw_eof, fw_snap, fw_drop, fw_keep, fw_send, fw_epipe, fw_shut,
                          Advance, hist, NetTypeOK
      <3>. QED  BY <1>1, <1>2, <3>1
    <2>. QED  BY <2>1, <2>2
  <1>4. ASSUME NEW e \in Ends, NEW n \in Nat, user_write(e, n) PROVE Drained(d)'
    <2>1. From(e) # d /\ From(e) \in Dirs
      BY <1>4, EndFacts DEF user_write
    <2>2. /\ inq'[d] = inq[d] /\ sent'[d] = sent[d] /\ UNCHANGED <<outq, fw, rcvd, lost>>
      BY <1>4, <2>1 DEF user_write, NetTypeOK
    <2>. QED  BY <1>1, <1>2, <2>2
  <1>5. ASSUME NEW e \in Ends, NEW m \in Nat, TakeBytes(e, m) PROVE Drained(d)'
    <2>1. To(e) # d /\ To(e) \in Dirs
      <3>1. Len(outq[d]) = 0
        BY <1>1, EmptyFacts
      <3>2. ~(Least(m, Len(outq[d])) > 0)
        BY <3>1 DEF Least
      <3>. QED  BY <1>5, <3>2, EndFacts DEF TakeBytes
    <2>2. /\ outq'[d] = outq[d] /\ rcvd'[d] = rcvd[d] /\ UNCHANGED <<inq, fw, sent, lost>>
      BY <1>5, <2>1 DEF TakeBytes, NetTypeOK
    <2>. QED  BY <1>1, <1>2, <2>2
  <1>6. ASSUME UNCHANGED <<hist, inq, fw>>, outq'[d] \in {outq[d], <<>>} PROVE Drained(d)'
    BY <1>1, <1>2, <1>6 DEF hist
  <1>7. ASSUME NEW S, Release(S) PROVE outq'[d] \in {outq[d], <<>>}
    BY <1>7 DEF Release
  <1>8. ASSUME NEW e \in Ends, CloseEnd(e) PROVE outq'[d] \in {outq[d], <<>>}
    BY <1>7, <1>8 DEF CloseEnd
  <1>9. ASSUME NEW e \in Ends, read_start(e) \/ read_eof(e) \/ user_close(e) PROVE Drained(d)'
    BY <1>6, <1>7, <1>8, <1>9 DEF read_start, read_eof, user_close
  <1>10. ASSUME NEW k \in Knobs, chaos_net_set_knobs(k) PROVE Drained(d)'
    BY <1>1, <1>2, <1>10 DEF chaos_net_set_knobs
  <1>11. ASSUME NEW k \in Knobs, net_pair(k) PROVE Drained(d)'
    <2>1. fw'[d].buf = <<>>
      BY <1>11, StartFacts DEF net_pair
    <2>. QED  BY <1>1, <1>2, <1>11, <2>1 DEF net_pair, hist
  <1>12. CASE net_pair_half
    <2>1. fw'[d].buf = <<>>
      BY <1>12, StartFacts DEF net_pair_half, Dirs
    <2>2. UNCHANGED <<hist, inq>> /\ outq'[d] \in {outq[d], <<>>}
      BY <1>7, <1>12 DEF net_pair_half
    <2>. QED  BY <1>1, <1>2, <2>1, <2>2 DEF hist
  <1>13. CASE net_pair_fails \/ net_pair_undo \/ net_join_ab \/ net_join_ba \/ UNCHANGED netVars
    BY <1>6, <1>13 DEF net_pair_fails, net_pair_undo, net_join_ab, net_join_ba, netVars
  <1>14. CASE net_close_a \/ net_close_b
    BY <1>6, <1>8, <1>14 DEF net_close_a, net_close_b, Ends
  <1>. QED
    BY <1>3, <1>4, <1>5, <1>9, <1>10, <1>11, <1>12, <1>13, <1>14
    DEF NetCall, chaos_net_close, user_read, read_bytes

\* SIGPIPE comes only to a forwarder with bytes to write.
LEMMA AliveStays ==
    ASSUME NetInv, NetCall \/ UNCHANGED netVars, alive, \A d \in Dirs : inq[d] = <<>> /\ fw[d].buf = <<>>
    PROVE  alive'
  <1>1. ASSUME NEW d \in Dirs, forward_fn(d) PROVE UNCHANGED alive
    BY <1>1, IdleForward
  <1>2. ASSUME NEW e \in Ends, NEW n \in Nat, user_write(e, n) \/ user_read(e, n) \/ read_bytes(e, n) PROVE UNCHANGED alive
    BY <1>2 DEF user_write, user_read, read_bytes, TakeBytes
  <1>3. ASSUME NEW e \in Ends, read_start(e) \/ read_eof(e) \/ user_close(e) PROVE UNCHANGED alive
    BY <1>3 DEF read_start, read_eof, user_close
  <1>4. ASSUME NEW k \in Knobs, net_pair(k) \/ chaos_net_set_knobs(k) PROVE UNCHANGED alive
    BY <1>4 DEF net_pair, chaos_net_set_knobs
  <1>5. CASE net_pair_fails \/ net_pair_half \/ net_pair_undo \/ chaos_net_close \/ UNCHANGED netVars
    BY <1>5 DEF net_pair_fails, net_pair_half, net_pair_undo, chaos_net_close, net_close_a, net_close_b,
                net_join_ab, net_join_ba, netVars
  <1>. QED  BY <1>1, <1>2, <1>3, <1>4, <1>5 DEF NetCall
\* Where each program goes on.
LEMMA AfterFacts ==
    /\ After("start") = CASE scen \in {"cascading_failure", "flaky_environment"} -> "io"
                          [] scen = "split_brain"                -> "spawn"
                          [] scen = "any"                        -> "any"
                          [] OTHER                               -> "send"
    /\ After("start") \in {"io", "spawn", "any", "send"}
    /\ After("spawn") = IF scen = "split_brain" THEN "heal" ELSE "send"
    /\ After("send") \in {"hup", "close", "recv"}
    /\ scen = "cascading_failure" => After("send") = "hup"
    /\ After("close") = IF scen = "flaky_environment" /\ ret = 0 THEN "late" ELSE "end"
  BY DEF After

LEMMA LifecycleKeeps ==
    ASSUME Lifecycle, Next
    PROVE  Lifecycle'
  <1>0. /\ pc \in [{"main", "t1", "t2"} -> Places]
        /\ pc["main"] \in Before => cpc = "up"
        /\ scen = "split_brain" =>
             \A t \in Replicas : pc[t] \notin {"none", "end"} => pc["main"] \in {"heal", "join"}
    BY DEF Lifecycle
  <1>1. ASSUME UNCHANGED <<pc, scen, cpc>> PROVE Lifecycle'
    BY <1>0, <1>1 DEF Lifecycle
  <1>2. ASSUME NEW p \in Places, pc' = [pc EXCEPT !["main"] = p], scen' = scen,
               p \in Before => cpc' = "up",
               scen = "split_brain" /\ pc["main"] \in {"heal", "join"} =>
                 p \in {"heal", "join"} \/ \A t \in Replicas : pc[t] \in {"none", "end"}
        PROVE  Lifecycle'
    <2>1. /\ pc'["main"] = p /\ pc'["t1"] = pc["t1"] /\ pc'["t2"] = pc["t2"]
          /\ pc' \in [{"main", "t1", "t2"} -> Places]
      BY <1>0, <1>2
    <2>2. scen = "split_brain" => \A t \in Replicas : pc'[t] \notin {"none", "end"} => p \in {"heal", "join"}
      BY <1>0, <1>2, <2>1 DEF Replicas
    <2>. QED  BY <1>2, <2>1, <2>2 DEF Lifecycle
  <1>3. ASSUME NEW r \in Replicas, pc[r] \notin {"none", "end"}, NEW p \in Places, pc' = [pc EXCEPT ![r] = p],
               scen' = scen, cpc' = cpc
        PROVE  Lifecycle'
    <2>1. pc'["main"] = pc["main"] /\ (\A t \in Replicas \ {r} : pc'[t] = pc[t])
          /\ pc' \in [{"main", "t1", "t2"} -> Places]
      BY <1>0, <1>3 DEF Replicas
    <2>. QED  BY <1>0, <1>3, <2>1 DEF Lifecycle
  <1>4. ASSUME NEW d \in Dirs, forward_fn(d), Stays PROVE Lifecycle'
    BY <1>1, <1>4 DEF forward_fn, fw_read, fw_eof, fw_snap, fw_drop, fw_keep, fw_send, fw_epipe, fw_shut, call,
                      Stays, clientVars
  <1>5. CASE main_pair
    <2>1. After("start") \in Places /\ "end" \in Places \ Before /\ "undo" \in Places \ Before
      BY AfterFacts DEF Places, Before
    <2>2. /\ pc["main"] = "start" /\ scen' = scen
          /\ \/ cpc' = "up" /\ pc' = [pc EXCEPT !["main"] = After("start")]
             \/ pc' = [pc EXCEPT !["main"] = "end"]
             \/ pc' = [pc EXCEPT !["main"] = "undo"]
      BY <1>5 DEF main_pair, net_pair, Goes, Fails
    <2>. QED  BY <1>2, <2>1, <2>2
  <1>6. CASE main_undo \/ main_join_late
    <2>1. /\ pc["main"] \in {"undo", "late"} /\ scen' = scen /\ pc' = [pc EXCEPT !["main"] = "end"]
          /\ "end" \in Places \ Before
      BY <1>6 DEF main_undo, main_join_late, Goes, Places, Before
    <2>. QED  BY <1>2, <2>1
  <1>7. CASE main_io
    <2>1. /\ pc["main"] = "io" /\ scen' = scen /\ cpc' = cpc
          /\ pc' = [pc EXCEPT !["main"] = "spawn"] \/ pc' = [pc EXCEPT !["main"] = "close"]
      BY <1>7 DEF main_io, Goes, Fails, netVars, call
    <2>2. "io" \in Before /\ "spawn" \in Places /\ "close" \in Places \ Before
      BY DEF Places, Before
    <2>. QED  BY <1>0, <1>2, <2>1, <2>2
  <1>8. CASE main_spawn
    <2>1. /\ pc["main"] = "spawn" /\ scen' = scen /\ cpc' = cpc
          /\ pc' = [t \in DOMAIN pc |-> CASE t = "main" -> After("spawn")
                                          [] t = "t2" /\ scen # "split_brain" -> "none"
                                          [] OTHER -> "run"]
          /\ DOMAIN pc = {"main", "t1", "t2"}
      BY <1>0, <1>8 DEF main_spawn, netVars, call
    <2>2. pc'["main"] = After("spawn") /\ pc'["t1"] = "run" /\ pc'["t2"] \in {"none", "run"}
      BY <2>1
    <2>3. pc' \in [{"main", "t1", "t2"} -> Places]
      BY <2>1, AfterFacts DEF Places, Before
    <2>4. cpc = "up"
      BY <1>0, <2>1 DEF Before
    <2>. QED  BY <2>1, <2>2, <2>3, <2>4, AfterFacts DEF Lifecycle
  <1>9. CASE main_send
    <2>1. /\ pc["main"] = "send" /\ scen' = scen /\ cpc' = cpc
          /\ pc' = pc \/ pc' = [pc EXCEPT !["main"] = After("send")]
      BY <1>9 DEF main_send, user_write, call, Goes, Stays, clientVars
    <2>2. After("send") \in Places /\ "send" \in Before
      BY AfterFacts DEF Places, Before
    <2>. QED  BY <1>0, <1>1, <1>2, <2>1, <2>2
  <1>10. CASE main_recv \/ main_idle
    <2>1. /\ pc["main"] = "recv" /\ scen' = scen /\ cpc' = cpc
          /\ pc' = pc \/ pc' = [pc EXCEPT !["main"] = "close"]
      BY <1>10 DEF main_recv, main_idle, user_read, TakeBytes, call, Goes, Stays, clientVars, netVars
    <2>2. "close" \in Places \ Before
      BY DEF Places, Before
    <2>. QED  BY <1>1, <1>2, <2>1, <2>2
  <1>11. CASE main_hup \/ main_heal
    <2>1. /\ pc["main"] \in Before /\ scen' = scen /\ cpc' = cpc /\ pc' = [pc EXCEPT !["main"] = "join"]
          /\ "join" \in Places
      BY <1>11 DEF main_hup, main_heal, user_close, chaos_net_set_knobs, call, Goes, Before, Places
    <2>. QED  BY <1>0, <1>2, <2>1
  <1>12. CASE main_join
    <2>1. /\ scen' = scen /\ cpc' = cpc /\ pc' = [pc EXCEPT !["main"] = "close"]
          /\ "close" \in Places \ Before /\ \A t \in Replicas : pc[t] \in {"none", "end"}
      BY <1>12 DEF main_join, call, netVars, Goes, Before, Places
    <2>. QED  BY <1>2, <2>1
  <1>13. CASE main_close
    <2>1. /\ pc["main"] = "close" /\ scen' = scen
          /\ pc' = pc \/ pc' = [pc EXCEPT !["main"] = After("close")]
      BY <1>13 DEF main_close, Goes, Stays, clientVars
    <2>2. After("close") \in Places \ Before /\ "close" \notin Before /\ "close" \in Places
      BY AfterFacts DEF Places, Before
    <2>3. CASE pc' = pc
      BY <1>0, <2>1, <2>2, <2>3 DEF Lifecycle
    <2>. QED  BY <1>2, <2>1, <2>2, <2>3
  <1>14. CASE Drain
    <2>1. /\ cpc' = cpc /\ scen' = scen /\ pc["t1"] \in {"run", "blocked", "persist"}
          /\ \/ pc' = [pc EXCEPT !["t1"] = "run"]
             \/ pc' = [pc EXCEPT !["t1"] = "blocked"]
             \/ pc' = [pc EXCEPT !["t1"] = "persist"]
             \/ pc' = [pc EXCEPT !["t1"] = "end"]
      BY <1>14 DEF Drain, drain_start, drain_badf, drain_bytes, drain_persist, drain_eof, read_start, read_bytes,
                   TakeBytes, read_eof, Goes, netVars, call
    <2>2. "t1" \in Replicas /\ {"run", "blocked", "persist", "end"} \subseteq Places
      BY DEF Places, Replicas
    <2>. QED  BY <1>3, <2>1, <2>2
  <1>15. ASSUME NEW r \in Replicas, Replica(r) PROVE Lifecycle'
    <2>1. /\ cpc' = cpc /\ scen' = scen /\ pc[r] \in {"run", "drain"}
          /\ \/ pc' = pc
             \/ pc' = [pc EXCEPT ![r] = "run"]
             \/ pc' = [pc EXCEPT ![r] = "drain"]
             \/ pc' = [pc EXCEPT ![r] = "end"]
      <3>1. CASE replica_send(r)
        BY <3>1 DEF replica_send, user_write, Goes, call
      <3>2. CASE replica_hear(r)
        BY <3>2 DEF replica_hear, user_read, TakeBytes, call
      <3>3. CASE replica_tick(r)
        BY <3>3 DEF replica_tick, Goes, call, netVars
      <3>. QED  BY <1>15, <3>1, <3>2, <3>3 DEF Replica
    <2>2. {"run", "drain", "end"} \subseteq Places
      BY DEF Places
    <2>. QED  BY <1>1, <1>3, <2>1, <2>2
  <1>16. CASE any_call \/ any_read
    <2>1. cpc' = cpc /\ pc' = pc /\ scen' = scen
      BY <1>16 DEF any_call, any_read, user_write, user_read, TakeBytes, read_start, read_bytes, read_eof,
                   chaos_net_set_knobs, user_close, call, Stays, clientVars
    <2>. QED  BY <1>1, <2>1
  <1>17. CASE any_close
    <2>1. /\ pc["main"] = "any" /\ scen' = scen /\ pc' = [pc EXCEPT !["main"] = "close"]
          /\ "close" \in Places \ Before
      BY <1>17 DEF any_close, Goes, Places, Before
    <2>. QED  BY <1>2, <2>1
  <1>18. CASE Terminating
    BY <1>1, <1>18 DEF Terminating, vars, netVars, call, clientVars
  <1>. QED
    BY <1>4, <1>5, <1>6, <1>7, <1>8, <1>9, <1>10, <1>11, <1>12, <1>13, <1>14, <1>15, <1>16, <1>17, <1>18
    DEF Next, Main

\* The receiver's end of file: nothing is left on the way to it.
LEMMA EofDrains ==
    ASSUME NetInv, NEW d \in Dirs, d \in shut, outq[d] = <<>>, file[Dst(d)] # "released"
    PROVE  Drained(d) /\ file[Src(d)] = "released"
  <1>1. /\ fw[d].pc = "done" /\ fw[d].buf = <<>> /\ file[Src(d)] = "released" /\ inq[d] = <<>>
    BY DEF NetInv, DirOK, LoopEnd, Buffered
  <1>2. /\ rcvd[d] \in Seq(Nat) /\ outq[d] \in Seq(Nat) /\ fw[d].buf \in Seq(Nat)
        /\ inq[d] \in Seq(Nat) /\ sent[d] \in Nat
    BY DirTypes DEF NetInv
  <1>3. /\ Stream(rcvd[d], outq[d], fw[d].buf, inq[d], lost[d], sent[d])
        /\ Whole(rcvd[d], outq[d], fw[d].buf, inq[d], lost[d], sent[d])
    BY DEF NetInv, DirOK, StreamOK
  <1>4. Missing(rcvd[d], lost[d], sent[d]) = 0
    <2>. DEFINE r == rcvd[d]
                o == outq[d]
                b == fw[d].buf
                i == inq[d]
                l == lost[d]
                n == sent[d]
    <2>1. /\ r \in Seq(Nat) /\ o \in Seq(Nat) /\ b \in Seq(Nat) /\ i \in Seq(Nat) /\ n \in Nat
          /\ Stream(r, o, b, i, l, n) /\ Whole(r, o, b, i, l, n)
          /\ o = <<>> /\ b = <<>> /\ i = <<>>
      BY <1>1, <1>2, <1>3
    <2>. HIDE DEF r, o, b, i, l, n
    <2>2. Missing(r, l, n) = 0
      BY <2>1, FlightFacts
    <2>. QED  BY <2>2 DEF r, l, n
  <1>. QED  BY <1>1, <1>4 DEF Drained, InFlight, Missing

\* What the steps of cascading_failure may do to its ends and counts.
LEMMA CascadeFrame ==
    ASSUME NetInv, Lifecycle, Cascade, scen = "cascading_failure", Next
    PROVE  /\ scen' = scen /\ sent'["ba"] = 0
           /\ pc["main"] # "close" /\ file["b"] = "open" => file'["b"] = "open"
           /\ pc["t1"] = "end" => Drained("ab")' /\ alive' /\ file'["a"] = "released"
  <1>0. /\ "ab" \in Dirs /\ "ba" \in Dirs /\ "a" \in Ends /\ "b" \in Ends /\ Src("ab") = "a"
        /\ NetTypeOK
    BY DEF Dirs, Ends, Src, NetInv
  <1>1. NetCall \/ UNCHANGED netVars
    BY NextCalls
  <1>2. ASSUME pc["t1"] = "end" PROVE Drained("ab")' /\ alive' /\ file'["a"] = "released"
    <2>1. Drained("ab") /\ alive /\ file["a"] = "released" /\ sent["ba"] = 0
      BY <1>2 DEF Cascade
    <2>2. \A d \in Dirs : inq[d] = <<>> /\ fw[d].buf = <<>>
      BY <1>0, <2>1, UnusedFacts DEF Drained, Dirs
    <2>. QED  BY <1>0, <1>1, <2>1, <2>2, DrainedKeeps, AliveStays, ReleasedStays
  <1>3. /\ pc["main"] \in {"start", "undo", "io", "spawn", "send", "hup", "join", "close", "end"}
        /\ pc["t2"] = "none" /\ pc["t1"] \in {"none", "run", "blocked", "persist", "end"} /\ sent["ba"] = 0
    BY DEF Cascade
  <1>. DEFINE Goal == /\ scen' = scen /\ sent'["ba"] = 0
                      /\ pc["main"] # "close" /\ file["b"] = "open" => file'["b"] = "open"
  <1>. SUFFICES Goal
    BY <1>2
  <1>4. ASSUME UNCHANGED <<scen, sent, file>> PROVE Goal
    BY <1>3, <1>4
  <1>5. ASSUME NEW d \in Dirs, forward_fn(d), Stays PROVE Goal
    BY <1>4, <1>5 DEF forward_fn, fw_read, fw_eof, fw_snap, fw_drop, fw_keep, fw_send, fw_epipe, fw_shut, hist, ends,
                      Stays, clientVars
  <1>6. CASE main_pair
    <2>1. CASE net_pair_half /\ Fails("undo")
      BY <1>0, <1>3, <2>1 DEF net_pair_half, Release, Fails, hist
    <2>2. CASE net_pair(Knobs0) /\ Goes("main", After("start"))
      BY <1>4, <2>2 DEF net_pair, Goes, hist, ends
    <2>3. CASE net_pair_fails /\ Fails("end")
      BY <1>4, <2>3 DEF net_pair_fails, Fails, hist, ends
    <2>. QED  BY <1>6, <2>1, <2>2, <2>3 DEF main_pair
  <1>7. CASE main_undo \/ main_io \/ main_spawn \/ main_join
    BY <1>4, <1>7 DEF main_undo, net_pair_undo, main_io, main_spawn, main_join, Goes, Fails, netVars, hist, ends
  <1>8. CASE main_send
    <2>1. From("a") = "ab"
      BY EndFacts
    <2>2. user_write("a", IF scen = "partial_read" THEN N ELSE 1) /\ scen' = scen
      BY <1>8 DEF main_send, Goes, Stays, clientVars
    <2>3. sent'["ba"] = sent["ba"] /\ file' = file
      BY <1>0, <2>1, <2>2 DEF user_write, ends, NetTypeOK
    <2>. QED  BY <1>3, <2>2, <2>3
  <1>9. CASE main_hup
    <2>1. CloseEnd("a") /\ sent' = sent /\ scen' = scen
      BY <1>9 DEF main_hup, user_close, Goes, hist
    <2>2. file'["b"] = file["b"]
      BY <1>0, <2>1, CloseFacts
    <2>. QED  BY <1>3, <2>1, <2>2
  <1>10. CASE main_close
    BY <1>3, <1>10 DEF main_close, chaos_net_close, net_close_a, net_close_b, net_join_ab, net_join_ba, hist,
                       Goes, Stays, clientVars
  <1>11. CASE Drain
    <2>1. scen' = scen /\ sent' = sent
      BY <1>11 DEF Drain, drain_start, drain_badf, drain_bytes, drain_persist, drain_eof, read_start, read_bytes,
                   TakeBytes, read_eof, Goes, netVars, hist
    <2>2. CASE drain_start \/ drain_badf \/ drain_persist
      BY <1>4, <2>1, <2>2 DEF drain_start, drain_badf, drain_persist, read_start, netVars, ends
    <2>3. CASE drain_bytes
      BY <1>0, <1>3, <2>1, <2>3 DEF drain_bytes, read_bytes, NetTypeOK
    <2>4. CASE drain_eof
      BY <1>0, <1>3, <2>1, <2>4 DEF drain_eof, read_eof, Release
    <2>. QED  BY <1>11, <2>2, <2>3, <2>4 DEF Drain
  <1>12. CASE Terminating
    BY <1>4, <1>12 DEF Terminating, vars, netVars, clientVars, hist, ends
  <1>13. ~main_recv /\ ~main_idle /\ ~main_heal /\ ~main_join_late /\ ~any_call /\ ~any_read /\ ~any_close
    BY <1>3 DEF main_recv, main_idle, main_heal, main_join_late, any_call, any_read, any_close
  <1>14. \A r \in Replicas : ~Replica(r)
    BY <1>3 DEF Replicas, Replica, replica_send, replica_hear, replica_tick
  <1>. QED
    BY <1>5, <1>6, <1>7, <1>8, <1>9, <1>10, <1>11, <1>12, <1>13, <1>14 DEF Next, Main

LEMMA CascadeKeeps ==
    ASSUME NetInv, Lifecycle, Cascade, Next
    PROVE  Cascade'
  <1>. SUFFICES ASSUME scen' = "cascading_failure" PROVE Cascade'
    BY DEF Cascade
  <1>0. scen = "cascading_failure"
    BY DEF Next, Main, Drain, Replica, main_pair, main_undo, main_io, main_spawn, main_send, main_recv, main_idle,
           main_hup, main_heal, main_join, main_close, main_join_late, drain_start, drain_badf, drain_bytes,
           drain_persist, drain_eof, replica_send, replica_hear, replica_tick, any_call, any_read, any_close,
           Terminating, vars, clientVars, Stays, Goes, Fails
  <1>1. /\ scen' = scen /\ sent'["ba"] = 0
        /\ pc["main"] # "close" /\ file["b"] = "open" => file'["b"] = "open"
        /\ pc["t1"] = "end" => Drained("ab")' /\ alive' /\ file'["a"] = "released"
    BY <1>0, CascadeFrame
  <1>2. /\ pc["t2"] = "none"
        /\ pc["t1"] \in {"none", "run", "blocked", "persist", "end"}
        /\ pc["main"] \in {"start", "undo", "io", "spawn", "send", "hup", "join", "close", "end"}
        /\ pc["main"] \in {"start", "undo", "io", "spawn"} => pc["t1"] = "none"
        /\ pc["main"] \in {"start", "io", "spawn", "send", "hup", "join"} => file["b"] = "open" /\ ret = 0
        /\ pc["main"] \in {"send", "hup", "join"} => pc["t1"] # "none"
        /\ pc["main"] = "undo" => ret = 1
        /\ pc["main"] \in {"close", "end"} => pc["t1"] = (IF ret = 0 THEN "end" ELSE "none")
    BY <1>0 DEF Cascade
  <1>3. pc \in [{"main", "t1", "t2"} -> Places]
    BY DEF Lifecycle
  <1>4. ASSUME pc' = pc, ret' = ret PROVE Cascade'
    BY <1>1, <1>2, <1>4 DEF Cascade
  <1>5. ASSUME NEW p \in {"undo", "io", "spawn", "send", "hup", "join", "close", "end"},
               pc' = [pc EXCEPT !["main"] = p],
               p \in {"undo", "io", "spawn"} => pc["t1"] = "none",
               p \in {"io", "spawn", "send", "hup", "join"} => file["b"] = "open" /\ pc["main"] # "close" /\ ret' = 0,
               p \in {"send", "hup", "join"} => pc["t1"] # "none",
               p = "undo" => ret' = 1,
               p \in {"close", "end"} => pc["t1"] = (IF ret' = 0 THEN "end" ELSE "none")
        PROVE  Cascade'
    <2>1. pc'["main"] = p /\ pc'["t1"] = pc["t1"] /\ pc'["t2"] = pc["t2"]
      BY <1>3, <1>5
    <2>. QED  BY <1>1, <1>2, <1>5, <2>1 DEF Cascade
  <1>6. ASSUME NEW p \in {"run", "blocked", "persist", "end"}, pc' = [pc EXCEPT !["t1"] = p], ret' = ret,
               pc["t1"] \in {"run", "blocked", "persist"},
               p = "end" => Drained("ab")' /\ alive' /\ file'["a"] = "released"
        PROVE  Cascade'
    <2>1. pc'["main"] = pc["main"] /\ pc'["t1"] = p /\ pc'["t2"] = pc["t2"]
      BY <1>3, <1>6
    <2>2. pc["main"] \in {"send", "hup", "join"}
      BY <1>2, <1>6
    <2>. QED  BY <1>1, <1>2, <1>6, <2>1, <2>2 DEF Cascade
  <1>7. ASSUME NEW d \in Dirs, forward_fn(d), Stays PROVE Cascade'
    BY <1>4, <1>7 DEF Stays, clientVars
  <1>8. CASE main_pair
    <2>1. /\ pc["main"] = "start"
          /\ \/ pc' = [pc EXCEPT !["main"] = "io"] /\ ret' = ret
             \/ pc' = [pc EXCEPT !["main"] = "end"] /\ ret' = 1
             \/ pc' = [pc EXCEPT !["main"] = "undo"] /\ ret' = 1
      BY <1>0, <1>8, AfterFacts DEF main_pair, Goes, Fails
    <2>. QED  BY <1>2, <1>5, <2>1
  <1>9. CASE main_undo
    <2>1. pc["main"] = "undo" /\ pc' = [pc EXCEPT !["main"] = "end"] /\ ret' = ret
      BY <1>9 DEF main_undo, Goes
    <2>. QED  BY <1>2, <1>5, <2>1
  <1>10. CASE main_io
    <2>1. /\ pc["main"] = "io"
          /\ \/ pc' = [pc EXCEPT !["main"] = "spawn"] /\ ret' = ret
             \/ pc' = [pc EXCEPT !["main"] = "close"] /\ ret' = 1
      BY <1>10 DEF main_io, Goes, Fails
    <2>. QED  BY <1>2, <1>5, <2>1
  <1>11. CASE main_spawn
    <2>1. /\ pc["main"] = "spawn" /\ ret' = ret
          /\ pc' = [t \in DOMAIN pc |-> CASE t = "main" -> After("spawn")
                                          [] t = "t2" /\ scen # "split_brain" -> "none"
                                          [] OTHER -> "run"]
          /\ DOMAIN pc = {"main", "t1", "t2"} /\ After("spawn") = "send"
      BY <1>0, <1>3, <1>11, AfterFacts DEF main_spawn
    <2>2. pc'["main"] = "send" /\ pc'["t1"] = "run" /\ pc'["t2"] = "none"
      BY <1>0, <2>1
    <2>. QED  BY <1>1, <1>2, <2>1, <2>2 DEF Cascade
  <1>12. CASE main_send
    <2>1. /\ pc["main"] = "send" /\ ret' = ret
          /\ pc' = pc \/ pc' = [pc EXCEPT !["main"] = "hup"]
      BY <1>0, <1>12, AfterFacts DEF main_send, Goes, Stays, clientVars
    <2>. QED  BY <1>2, <1>4, <1>5, <2>1
  <1>13. CASE main_hup
    <2>1. pc["main"] = "hup" /\ pc' = [pc EXCEPT !["main"] = "join"] /\ ret' = ret
      BY <1>13 DEF main_hup, Goes
    <2>. QED  BY <1>2, <1>5, <2>1
  <1>14. CASE main_join
    <2>1. /\ pc["main"] = "join" /\ pc' = [pc EXCEPT !["main"] = "close"] /\ ret' = ret
          /\ pc["t1"] \in {"none", "end"}
      BY <1>14 DEF main_join, Goes, Replicas
    <2>. QED  BY <1>2, <1>5, <2>1
  <1>15. CASE main_close
    <2>1. /\ pc["main"] = "close" /\ ret' = ret
          /\ pc' = pc \/ pc' = [pc EXCEPT !["main"] = "end"]
      BY <1>0, <1>15, AfterFacts DEF main_close, Goes, Stays, clientVars
    <2>. QED  BY <1>2, <1>4, <1>5, <2>1
  <1>16. CASE drain_start \/ drain_bytes \/ drain_persist
    <2>1. /\ pc["t1"] \in {"run", "blocked", "persist"} /\ ret' = ret
          /\ \/ pc' = [pc EXCEPT !["t1"] = "run"]
             \/ pc' = [pc EXCEPT !["t1"] = "blocked"]
             \/ pc' = [pc EXCEPT !["t1"] = "persist"]
      BY <1>16 DEF drain_start, drain_bytes, drain_persist, Goes
    <2>. QED  BY <1>6, <2>1
  <1>17. CASE drain_badf
    <2>1. pc["t1"] = "run" /\ file["b"] # "open"
      BY <1>17 DEF drain_badf
    <2>. QED  BY <1>2, <2>1
  <1>18. CASE drain_eof
    <2>1. /\ pc["t1"] = "blocked" /\ pc' = [pc EXCEPT !["t1"] = "end"] /\ ret' = ret
          /\ read_eof("b")
      BY <1>18 DEF drain_eof, Goes
    <2>2. /\ "ab" \in Dirs /\ Src("ab") = "a" /\ Dst("ab") = "b" /\ To("b") = "ab" /\ "a" \in Ends
          /\ file["b"] = "open"
      BY <1>2, <2>1, EndFacts DEF Dirs, Src, Dst, Ends
    <2>3. outq["ab"] = <<>> /\ "ab" \in shut /\ alive /\ alive' = alive
      BY <2>1, <2>2 DEF read_eof
    <2>4. Drained("ab") /\ file["a"] = "released"
      BY <2>2, <2>3, EofDrains
    <2>5. NetCall
      BY <2>1 DEF NetCall, Ends
    <2>6. Drained("ab")' /\ file'["a"] = "released"
      BY <2>2, <2>4, <2>5, DrainedKeeps, ReleasedStays
    <2>. QED  BY <1>6, <2>1, <2>3, <2>6
  <1>19. CASE Terminating
    BY <1>4, <1>19 DEF Terminating, vars, clientVars
  <1>20. ~main_recv /\ ~main_idle /\ ~main_heal /\ ~main_join_late /\ ~any_call /\ ~any_read /\ ~any_close
    BY <1>0, <1>2 DEF main_recv, main_idle, main_heal, main_join_late, any_call, any_read, any_close
  <1>21. \A r \in Replicas : ~Replica(r)
    BY <1>0, <1>2 DEF Replicas, Replica, replica_send, replica_hear, replica_tick
  <1>. QED
    BY <1>7, <1>8, <1>9, <1>10, <1>11, <1>12, <1>13, <1>14, <1>15, <1>16, <1>17, <1>18, <1>19, <1>20, <1>21
    DEF Next, Main, Drain
----------------------------------------------------------------------------
(* Results *)

LEMMA InitHolds ==
    ASSUME Init PROVE IInv
  <1>1. NetInv
    BY NetInitHolds DEF Init
  <1>2. /\ pc = [t \in {"main", "t1", "t2"} |-> IF t = "main" THEN "start" ELSE "none"] /\ ret = 0
        /\ quiet = FALSE /\ sent = [d \in Dirs |-> 0] /\ file = [e \in Ends |-> "open"]
    BY DEF Init, NetInit
  <1>3. Lifecycle
    <2>1. pc \in [{"main", "t1", "t2"} -> Places] /\ pc["main"] \notin Before
      BY <1>2 DEF Places, Before
    <2>. QED  BY <1>2, <2>1 DEF Lifecycle, Replicas
  <1>4. QuietStays /\ Cascade
    BY <1>2 DEF QuietStays, Cascade, Dirs, Ends
  <1>. QED  BY <1>1, <1>3, <1>4 DEF IInv

LEMMA StepKeeps ==
    ASSUME IInv, [Next]_vars PROVE IInv'
  <1>1. CASE Next
    <2>1. NetCall \/ UNCHANGED netVars
      BY <1>1, NextCalls DEF IInv
    <2>. QED  BY <1>1, <2>1, NetKeeps, LifecycleKeeps, QuietKeeps, CascadeKeeps DEF IInv
  <1>2. CASE UNCHANGED vars
    <2>1. UNCHANGED netVars /\ UNCHANGED clientVars
      BY <1>2 DEF vars
    <2>2. NetInv' /\ QuietStays'
      BY <2>1, NetKeeps, QuietKeeps DEF IInv
    <2>3. Lifecycle'
      BY <2>1 DEF IInv, Lifecycle, netVars, call, clientVars
    <2>4. Drained("ab")' <=> Drained("ab")
      BY <2>1 DEF Drained, InFlight, netVars, hist
    <2>5. Cascade'
      BY <2>1, <2>4 DEF IInv, Cascade, netVars, hist, ends, clientVars
    <2>. QED  BY <2>2, <2>3, <2>5 DEF IInv
  <1>. QED  BY <1>1, <1>2

LEMMA Invariance == Spec => []IInv
  <1>1. Init => IInv
    BY InitHolds
  <1>2. IInv /\ [Next]_vars => IInv'
    BY StepKeeps
  <1>. QED  BY <1>1, <1>2, PTL DEF Spec

LEMMA StreamConserved ==
    ASSUME NetInv PROVE Conserved
  <1>. SUFFICES ASSUME NEW d \in Dirs
                PROVE  /\ \A j \in 1..(Len(Pass(d)) - 1) : Pass(d)[j] < Pass(d)[j + 1]
                       /\ file[Dst(d)] # "released" => ToSet(Pass(d)) = (1..sent[d]) \ lost[d]
    BY DEF Conserved
  <1>. DEFINE r == rcvd[d]
              o == outq[d]
              b == fw[d].buf
              i == inq[d]
  <1>1. /\ r \in Seq(Nat) /\ o \in Seq(Nat) /\ b \in Seq(Nat) /\ i \in Seq(Nat)
        /\ Stream(r, o, b, i, lost[d], sent[d])
        /\ file[Dst(d)] # "released" => Whole(r, o, b, i, lost[d], sent[d])
    BY DirTypes DEF NetInv, DirOK, StreamOK
  <1>2. Pass(d) = ((r \o o) \o b) \o i
    BY DEF Pass
  <1>. HIDE DEF r, o, b, i
  <1>. DEFINE p == ((r \o o) \o b) \o i
  <1>3. p \in Seq(Nat) /\ ToSet(p) = Flow(r, o, b, i) /\ Inc(p)
    BY <1>1, PassFacts
  <1>. HIDE DEF p
  <1>4. Len(p) \in Nat
    BY <1>3, LenProperties
  <1>5. \A j \in 1..(Len(p) - 1) : j \in 1..Len(p) /\ j + 1 \in 1..Len(p) /\ j < j + 1
    BY <1>4
  <1>6. \A j \in 1..(Len(p) - 1) : p[j] < p[j + 1]
    BY <1>3, <1>5 DEF Inc
  <1>7. file[Dst(d)] # "released" => ToSet(p) = (1..sent[d]) \ lost[d]
    BY <1>1, <1>3 DEF Stream, Whole
  <1>. QED  BY <1>2, <1>6, <1>7 DEF p

\* Whatever the sizes of the buffers, the knobs and the order in which programs and
\* forwarders take their steps: forward_fn keeps the bytes in order, duplicates none
\* and loses none but those it drops by its knobs, as long as somebody can read them.
THEOREM NetConserved == Spec => []Conserved
  <1>1. IInv => Conserved
    BY StreamConserved DEF IInv
  <1>. QED  BY <1>1, Invariance, PTL

\* shutdown(dst_fd, SHUT_WR) reaches a reader only when the other end is closed and
\* all that the forwarder kept of what was written there is in the reader's socket.
THEOREM NetEofMeansDrained == Spec => []EofMeansDrained
  <1>1. IInv => EofMeansDrained
    BY DEF IInv, NetInv, NetTypeOK, DirOK, LoopEnd, Buffered, EofMeansDrained
  <1>. QED  BY <1>1, Invariance, PTL

\* After chaos_net_set_knobs each forwarder drops at most one more buffer by the old
\* knobs: the one it had read when the knobs changed.
THEOREM NetHealTakesHold == Spec => []HealTakesHold
  <1>1. IInv => HealTakesHold
    BY DEF IInv, NetInv, DirOK, StaleLeft, HealTakesHold
  <1>. QED  BY <1>1, Invariance, PTL

\* chaos_net_close of a pair on which all bytes were received or dropped raises no
\* SIGPIPE, although the forwarders still run while it closes the ends.
THEOREM NetQuietCloseIsSafe == Spec => []QuietCloseIsSafe
  <1>1. IInv => QuietCloseIsSafe
    BY DEF IInv, QuietStays, QuietCloseIsSafe
  <1>. QED  BY <1>1, Invariance, PTL

\* When run() of cascading_failure has joined its receiver, what was sent and not
\* received is exactly what the proxy dropped, and the close that follows is safe.
THEOREM NetLossFigureExact == Spec => []LossFigureExact
  <1>1. IInv => LossFigureExact
    BY DEF IInv, Cascade, Drained, LossFigureExact
  <1>. QED  BY <1>1, Invariance, PTL
=============================================================================
