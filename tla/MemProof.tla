------------------------------ MODULE MemProof ------------------------------
(***************************************************************************)
(* Proofs about ChaosMem for any arena, redzone and alignment: blocks lie  *)
(* in the region and do not overlap, chaos_arena_check counts exactly the  *)
(* redzones that were written over as long as the sizes are intact and     *)
(* never finds a damaged arena clean, no block is freed twice, and the     *)
(* three programs report what they are meant to show.                      *)
(***************************************************************************)
EXTENDS ChaosMem, SequenceTheorems, FiniteSetTheorems, WellFoundedInduction, TLAPS

Block == [at : Nat, n : 0..(SizeT - 1), freed : Nat]

MemTypes ==
    /\ blocks \in Seq(Block) /\ mem \in [Region -> Nat]
    /\ used \in Nat /\ escaped \in BOOLEAN

\* The cells of a block: header, redzones, and the user's rounded up.
Size(b) == HDR + 2 * REDZONE + round8(b.n)

\* A live magic is that of a block: chaos_arena_free refuses every other pointer.
Magics == \A c \in Region : mem[c] = Live => \E j \in DOMAIN blocks : blocks[j].at = c

\* The blocks lie one behind the other below used.
Laid ==
    /\ used <= Total
    /\ \A j \in DOMAIN blocks : blocks[j].at + Size(blocks[j]) <= used
    /\ \A j, k \in DOMAIN blocks : j < k => blocks[j].at + Size(blocks[j]) <= blocks[k].at

\* The magic of a freed block never becomes live again.
Freed == \A j \in DOMAIN blocks :
    blocks[j].freed = 0 \/ (blocks[j].freed = 1 /\ mem[blocks[j].at] # Live)

\* No client wrote over a size in front of block j.
Trusted(j) == \A k \in DOMAIN blocks : k < j => blocks[k].at + 1 \notin hit

\* A size holds while it and those in front of it were not written over: a free
\* that trusts a wrong size writes upwards.
Sized == \A j \in DOMAIN blocks : Trusted(j + 1) => mem[blocks[j].at + 1] = blocks[j].n

Contained == SizesIntact => ~escaped

Sane == Laid /\ Freed /\ Sized /\ Contained

\* A program has the arena to itself.
Alone ==
    /\ client \in {"any", "arena_corrupt", "double_free", "uaf_callback"}
    /\ (client # "any" /\ pc \in {"start", "failed"}) => blocks = <<>> /\ used = 0
    /\ (client # "any" /\ pc \notin {"start", "failed"}) =>
         Len(blocks) = 1 /\ B1.at = 0 /\ B1.n = ALIGN /\ 1 \notin hit

\* What double_free and uaf_callback leave behind them, step by step.
Dangling ==
    /\ client = "double_free" =>
         /\ pc \in {"start", "failed", "use", "report", "end"}
         /\ pc = "report" => mem[0] # Live
    /\ client = "uaf_callback" =>
         /\ pc \in {"start", "failed", "use", "free", "report", "end"}
         /\ pc \in {"use", "free"} => mem[0] = Live
         /\ pc = "report" => mem[User(B1)] = Poison
    /\ DanglingReported

MemInv == MemTypes /\ Magics /\ (AllSound => Sane) /\ Alone /\ Dangling

\* For the walk of chaos_arena_check: where block j begins, or the next one would.
Start(j) == IF j \in DOMAIN blocks THEN blocks[j].at ELSE used

\* The blocks leave no gap.
Packed == Start(1) = 0 /\ \A j \in DOMAIN blocks : Start(j + 1) = blocks[j].at + Size(blocks[j])

Edge(b) == Pre(b) \cup Post(b)

\* What a client wrote over does not read as it should; a size is reached over the
\* magic in front of it or the redzone behind it; and only the free of a block
\* whose size was written over spoils what no client wrote over.
Zoned == \A j \in DOMAIN blocks :
    /\ blocks[j].at \in hit => Wrecked(blocks[j].at)
    /\ \A c \in Edge(blocks[j]) : c \in hit => mem[c] # Guard
    /\ blocks[j].at + 1 \in hit => blocks[j].at \in hit \/ Pre(blocks[j]) \subseteq hit
    /\ Trusted(j) => (Wrecked(blocks[j].at) => blocks[j].at \in hit)
    /\ Trusted(j + 1) => \A c \in Edge(blocks[j]) : mem[c] # Guard => c \in hit

\* arena_corrupt: its write spares the header and the redzone in front.
Corrupting ==
    /\ client # "any" => guarded
    /\ client = "arena_corrupt" =>
         /\ pc \in {"start", "failed", "use", "report", "end"}
         /\ pc \in {"start", "use"} => hit = {}
         /\ pc = "report" => 0 \notin hit /\ Pre(B1) \cap hit = {} /\ Post(B1) \cap hit # {}
    /\ CorruptReported

WalkInv == (AllSound => Packed /\ (guarded => Zoned)) /\ Corrupting

----------------------------------------------------------------------------
(* Sizes *)

LEMMA MemConstants ==
    /\ {SizeT, UInt32, ALIGN, REDZONE, Total, MaxBlocks, MaxWrites} \subseteq Nat \ {0}
    /\ \A n \in Sizes : n \in 0..(SizeT - 1)
    /\ 2 * Total <= SizeT /\ 2 * (UInt32 + ALIGN + 2 * REDZONE + 2) <= SizeT
    /\ ALIGN < UInt32 /\ ALIGN + 2 * REDZONE + 2 <= Total
BY MemAssumption

LEMMA ModFacts ==
    ASSUME NEW a \in Nat, NEW W \in Nat \ {0}
    PROVE  a % W \in Nat /\ a % W \in 0..(W - 1) /\ a % W <= a /\ (a < W => a % W = a)
OBVIOUS

LEMMA RoundNat ==
    ASSUME NEW n \in Nat
    PROVE  round8(n) \in Nat
<1> DEFINE m == n + ALIGN - 1
           x == m % SizeT
<1>1. m \in Nat
  BY MemConstants
<1> HIDE DEF m
<1>2. x \in Nat
  BY <1>1, MemConstants, ModFacts
<1>3. round8(n) = x - (x % ALIGN)
  BY DEF round8, m
<1> HIDE DEF x
<1>4. x % ALIGN \in Nat /\ x % ALIGN <= x
  BY <1>2, MemConstants, ModFacts
<1> QED BY <1>2, <1>3, <1>4

\* A sound size is rounded up, and nothing wraps.
LEMMA SoundSize ==
    ASSUME NEW n \in Nat, Sound(n)
    PROVE  /\ round8(n) \in n..(n + ALIGN - 1)
           /\ block_total(n) = HDR + 2 * REDZONE + round8(n)
           /\ n % UInt32 = n
<1> DEFINE m == n + ALIGN - 1
<1>1. m \in Nat /\ m < SizeT /\ n < UInt32 /\ m = n + ALIGN - 1
  BY MemConstants DEF Sound, HDR
<1>2. round8(n) = (m % SizeT) - ((m % SizeT) % ALIGN)
  BY DEF round8
<1> HIDE DEF m
<1>3. m % SizeT = m /\ n % UInt32 = n /\ m % ALIGN \in 0..(ALIGN - 1)
  BY <1>1, MemConstants, ModFacts
<1>4. round8(n) \in n..(n + ALIGN - 1)
  <2>1. round8(n) = m - (m % ALIGN)
    BY <1>2, <1>3
  <2> QED BY <1>1, <1>3, <2>1, MemConstants
<1> DEFINE t == HDR + REDZONE + round8(n) + REDZONE
<1>5. t \in Nat /\ t < SizeT /\ t = HDR + 2 * REDZONE + round8(n)
  BY <1>4, MemConstants DEF Sound, HDR
<1>6. t % SizeT = t
  <2> HIDE DEF t
  <2> QED BY <1>5, MemConstants, ModFacts
<1> QED BY <1>3, <1>4, <1>5, <1>6 DEF block_total

\* A block of a program.
LEMMA ProgramSize == Sound(ALIGN) /\ round8(ALIGN) = ALIGN
<1>1. Sound(ALIGN)
  BY MemConstants DEF Sound, HDR
<1>2. (ALIGN + ALIGN - 1) % SizeT = ALIGN + ALIGN - 1
  <2>1. ALIGN + ALIGN - 1 \in Nat /\ ALIGN + ALIGN - 1 < SizeT
    BY MemConstants
  <2> QED BY <2>1, MemConstants, ModFacts
<1>3. (ALIGN + ALIGN - 1) % ALIGN = ALIGN - 1
  BY MemConstants
<1> QED BY <1>1, <1>2, <1>3, MemConstants DEF round8

----------------------------------------------------------------------------
(* Cells and blocks *)

LEMMA FillFacts ==
    ASSUME NEW m \in [Region -> Nat], NEW S, NEW v \in Nat
    PROVE  /\ Fill(m, S, v) \in [Region -> Nat]
           /\ \A c \in Region : Fill(m, S, v)[c] = IF c \in S THEN v ELSE m[c]
BY DEF Fill

\* What a cell can hold is told apart, and none of it is a size.
LEMMA MarksDiffer ==
    /\ {Live, Free, Guard, Poison, Mark} \subseteq Nat
    /\ Live # Free /\ Guard \notin {Live, Free} /\ Poison \notin {Live, Free, Guard}
    /\ Mark \notin {Live, Free, Guard}
    /\ \A v \in 0..(UInt32 - 1) : v \in Nat /\ v \notin {Live, Free, Guard}
BY MemConstants DEF Live, Free, Guard, Poison, Mark

LEMMA StoredSize ==
    ASSUME NEW n \in Nat
    PROVE  n % UInt32 \in 0..(UInt32 - 1)
<1>1. UInt32 \in Nat \ {0}
  BY MemConstants
<1> QED BY <1>1, ModFacts

\* Where a block is, and how large.
LEMMA BlockFacts ==
    ASSUME MemTypes, NEW j \in DOMAIN blocks
    PROVE  /\ blocks[j].at \in Nat /\ blocks[j].n \in Nat /\ blocks[j].freed \in Nat
           /\ round8(blocks[j].n) \in Nat
           /\ Size(blocks[j]) = HDR + 2 * REDZONE + round8(blocks[j].n)
           /\ Size(blocks[j]) \in Nat
<1>1. blocks[j] \in Block
  BY ElementOfSeq, LenProperties DEF MemTypes
<1>2. blocks[j].at \in Nat /\ blocks[j].n \in Nat /\ blocks[j].freed \in Nat
  BY <1>1, MemConstants DEF Block
<1>3. round8(blocks[j].n) \in Nat
  BY <1>2, RoundNat
<1> QED BY <1>2, <1>3, MemConstants DEF Size, HDR

LEMMA LaidFacts ==
    ASSUME MemTypes, AllSound, Laid, NEW j \in DOMAIN blocks
    PROVE  /\ blocks[j].at \in Region /\ blocks[j].at + 1 \in Region
           /\ blocks[j].n <= round8(blocks[j].n)
           /\ blocks[j].at + HDR + 2 * REDZONE + round8(blocks[j].n) <= Total
<1>1. blocks[j].n <= round8(blocks[j].n)
  BY BlockFacts, SoundSize, MemConstants DEF AllSound
<1>2. blocks[j].at + HDR + 2 * REDZONE + round8(blocks[j].n) <= Total
  <2>1. blocks[j].at + Size(blocks[j]) <= used /\ used <= Total /\ used \in Nat
    BY DEF Laid, MemTypes
  <2>2. /\ blocks[j].at \in Nat /\ round8(blocks[j].n) \in Nat
        /\ Size(blocks[j]) = HDR + 2 * REDZONE + round8(blocks[j].n)
    BY BlockFacts
  <2> QED BY <2>1, <2>2, MemConstants DEF HDR
<1>3. blocks[j].at \in Region /\ blocks[j].at + 1 \in Region
  BY <1>2, BlockFacts, MemConstants DEF Region, HDR
<1> QED BY <1>1, <1>2, <1>3

\* No two blocks share a cell.
LEMMA Apart ==
    ASSUME MemTypes, Laid, NEW j \in DOMAIN blocks, NEW k \in DOMAIN blocks, j # k
    PROVE  \/ blocks[j].at + Size(blocks[j]) <= blocks[k].at
           \/ blocks[k].at + Size(blocks[k]) <= blocks[j].at
<1>1. j \in Nat /\ k \in Nat
  BY LenProperties DEF MemTypes
<1> QED BY <1>1 DEF Laid

\* Where the redzones lie.
LEMMA EdgePlaces ==
    ASSUME MemTypes, AllSound, Laid, NEW j \in DOMAIN blocks, NEW c \in Edge(blocks[j])
    PROVE  /\ c \in Int /\ c \in Region
           /\ c >= blocks[j].at + HDR /\ c < blocks[j].at + Size(blocks[j])
           /\ c < User(blocks[j]) \/ c >= User(blocks[j]) + round8(blocks[j].n)
<1> DEFINE a == blocks[j].at  r == round8(blocks[j].n)
<1>1. a \in Nat /\ r \in Nat /\ Size(blocks[j]) = HDR + 2 * REDZONE + r
  BY BlockFacts
<1>2. a + HDR + 2 * REDZONE + r <= Total
  BY LaidFacts
<1>3. User(blocks[j]) = a + HDR + REDZONE
  BY DEF User
<1>4. c \in (a + HDR)..(a + HDR + REDZONE - 1) \/ c \in (a + HDR + REDZONE + r)..(a + HDR + REDZONE + r + REDZONE - 1)
  BY <1>3 DEF Edge, Pre, Post, Cells
<1> HIDE DEF a, r
<1>5. c \in Int /\ c >= a + HDR /\ c < a + HDR + 2 * REDZONE + r
      /\ (c < a + HDR + REDZONE \/ c >= a + HDR + REDZONE + r)
  BY <1>1, <1>4, MemConstants DEF HDR
<1>6. c \in Region
  BY <1>1, <1>2, <1>5, MemConstants DEF Region, HDR
<1>7. /\ c >= a + HDR /\ c < a + Size(blocks[j])
      /\ c < User(blocks[j]) \/ c >= User(blocks[j]) + r
  BY <1>1, <1>3, <1>5, MemConstants DEF HDR
<1> QED BY <1>5, <1>6, <1>7 DEF a, r

\* The data of a block holds no cell of a header or a redzone.
LEMMA NotOwned ==
    ASSUME MemTypes, AllSound, Laid, NEW j \in DOMAIN blocks
    PROVE  /\ blocks[j].at \notin Owned /\ blocks[j].at + 1 \notin Owned
           /\ \A c \in Edge(blocks[j]) : c \notin Owned
<1>1. ASSUME NEW k \in DOMAIN blocks, NEW c \in Cells(User(blocks[k]), round8(blocks[k].n))
      PROVE  /\ c \in Int /\ c >= User(blocks[k]) /\ c < User(blocks[k]) + round8(blocks[k].n)
             /\ c > blocks[k].at + 1 /\ c < blocks[k].at + Size(blocks[k])
  <2>1. /\ blocks[k].at \in Nat /\ round8(blocks[k].n) \in Nat
        /\ Size(blocks[k]) = HDR + 2 * REDZONE + round8(blocks[k].n)
    BY BlockFacts
  <2>2. c \in User(blocks[k])..(User(blocks[k]) + round8(blocks[k].n) - 1)
    BY <1>1 DEF Cells
  <2>3. User(blocks[k]) = blocks[k].at + HDR + REDZONE
    BY DEF User
  <2> QED BY <2>1, <2>2, <2>3, MemConstants DEF HDR
<1>2. ASSUME NEW c, c = blocks[j].at \/ c = blocks[j].at + 1 \/ c \in Edge(blocks[j]), NEW k \in DOMAIN blocks,
             c \in Cells(User(blocks[k]), round8(blocks[k].n))
      PROVE  FALSE
  <2>1. c \in Int /\ c >= blocks[j].at /\ c < blocks[j].at + Size(blocks[j])
        /\ (c < User(blocks[j]) \/ c >= User(blocks[j]) + round8(blocks[j].n))
    <3>1. blocks[j].at \in Nat /\ Size(blocks[j]) = HDR + 2 * REDZONE + round8(blocks[j].n) /\ round8(blocks[j].n) \in Nat
      BY BlockFacts
    <3>2. CASE c = blocks[j].at \/ c = blocks[j].at + 1
      BY <3>1, <3>2, MemConstants DEF HDR, User
    <3>3. CASE c \in Edge(blocks[j])
      BY <3>1, <3>3, EdgePlaces, MemConstants DEF HDR
    <3> QED BY <1>2, <3>2, <3>3
  <2>2. /\ c >= User(blocks[k]) /\ c < User(blocks[k]) + round8(blocks[k].n)
        /\ c > blocks[k].at + 1 /\ c < blocks[k].at + Size(blocks[k])
    BY <1>1, <1>2
  <2>3. /\ blocks[j].at \in Nat /\ blocks[k].at \in Nat
        /\ Size(blocks[j]) \in Nat /\ Size(blocks[k]) \in Nat
    BY BlockFacts
  <2>4. CASE j = k
    <3>1. User(blocks[j]) \in Int /\ round8(blocks[j].n) \in Nat
      BY BlockFacts, MemConstants DEF User, HDR
    <3> QED BY <2>1, <2>2, <2>3, <2>4, <3>1
  <2>5. CASE j # k
    <3>1. \/ blocks[j].at + Size(blocks[j]) <= blocks[k].at
          \/ blocks[k].at + Size(blocks[k]) <= blocks[j].at
      BY <2>5, Apart
    <3> QED BY <2>1, <2>2, <2>3, <3>1
  <2> QED BY <2>4, <2>5
<1> QED BY <1>2 DEF Owned

----------------------------------------------------------------------------
(* The calls *)

\* A write: below and above its cells nothing changes, and in them nothing passes
\* for a magic or a guard.
LEMMA WriteFacts ==
    ASSUME MemTypes, NEW S, NEW v \in 0..(UInt32 - 1), Write(S, v)
    PROVE  /\ mem' \in [Region -> Nat]
           /\ \A c \in Region : c \notin S => mem'[c] = mem[c]
           /\ \A c \in Region : c \in S => mem'[c] \notin {Live, Free, Guard}
           /\ hit' = hit \cup (S \ Owned) /\ UNCHANGED <<used, escaped, blocks>>
<1> DEFINE m1 == Fill(mem, S, Mark)
           V  == S \cap SizeCells
<1>1. /\ mem' = Fill(m1, V, v)
      /\ hit' = hit \cup (S \ Owned) /\ UNCHANGED <<used, escaped, blocks>>
  BY DEF Write
<1>2. m1 \in [Region -> Nat] /\ \A c \in Region : m1[c] = IF c \in S THEN Mark ELSE mem[c]
  <2>1. mem \in [Region -> Nat] /\ Mark \in Nat
    BY MarksDiffer DEF MemTypes
  <2> QED BY <2>1, FillFacts
<1>3. V \subseteq S
  OBVIOUS
<1> HIDE DEF m1, V
<1>4. mem' \in [Region -> Nat] /\ \A c \in Region : mem'[c] = IF c \in V THEN v ELSE m1[c]
  <2>1. v \in Nat
    BY MarksDiffer
  <2> QED BY <1>1, <1>2, <2>1, FillFacts
<1>5. ASSUME NEW c \in Region, c \in S PROVE mem'[c] \notin {Live, Free, Guard}
  <2>1. mem'[c] = v \/ mem'[c] = Mark
    BY <1>2, <1>4, <1>5
  <2> QED BY <2>1, MarksDiffer
<1>6. \A c \in Region : c \notin S => mem'[c] = mem[c]
  BY <1>2, <1>3, <1>4
<1> QED BY <1>1, <1>4, <1>5, <1>6

LEMMA WriteKeeps ==
    ASSUME MemTypes, Magics, AllSound => Sane, NEW S, NEW v \in 0..(UInt32 - 1), Write(S, v)
    PROVE  MemTypes' /\ Magics' /\ (AllSound' => Sane')
<1>1. /\ mem' \in [Region -> Nat]
      /\ \A c \in Region : c \notin S => mem'[c] = mem[c]
      /\ \A c \in Region : c \in S => mem'[c] \notin {Live, Free, Guard}
      /\ hit' = hit \cup (S \ Owned) /\ UNCHANGED <<used, escaped, blocks>>
  BY WriteFacts
<1>2. MemTypes'
  BY <1>1 DEF MemTypes
<1>3. Magics'
  BY <1>1 DEF Magics
<1>4. ASSUME AllSound PROVE Sane'
  <2>0. Laid /\ Freed /\ Sized /\ Contained
    BY <1>4 DEF Sane
  <2>1. Laid'
    BY <1>1, <2>0 DEF Laid
  <2>2. Freed'
    <3>1. ASSUME NEW j \in DOMAIN blocks, mem[blocks[j].at] # Live PROVE mem'[blocks[j].at] # Live
      BY <1>1, <1>4, <2>0, <3>1, LaidFacts
    <3> QED BY <1>1, <2>0, <3>1 DEF Freed
  <2>3. ASSUME NEW j \in DOMAIN blocks, Trusted(j + 1)' PROVE mem'[blocks[j].at + 1] = blocks[j].n
    <3>1. j \in Nat /\ j < j + 1
      BY LenProperties DEF MemTypes
    <3>2. blocks[j].at + 1 \notin hit'
      BY <1>1, <2>3, <3>1 DEF Trusted
    <3>3. blocks[j].at + 1 \notin S /\ blocks[j].at + 1 \in Region
      BY <1>1, <1>4, <2>0, <3>2, NotOwned, LaidFacts
    <3>4. Trusted(j + 1)
      BY <1>1, <2>3 DEF Trusted
    <3> QED BY <1>1, <2>0, <3>3, <3>4 DEF Sized
  <2>4. Contained'
    BY <1>1, <2>0 DEF Contained, SizesIntact
  <2>5. Sized'
    BY <1>1, <2>3 DEF Sized
  <2> QED BY <2>1, <2>2, <2>4, <2>5 DEF Sane
<1> QED BY <1>1, <1>2, <1>3, <1>4 DEF AllSound

\* chaos_arena_free of a pointer that is no block's does nothing.
LEMMA WildFree ==
    ASSUME MemTypes, Magics, NEW p \in Int, chaos_arena_free(p),
           \A j \in DOMAIN blocks : User(blocks[j]) # p
    PROVE  UNCHANGED <<mem, used, escaped, blocks, hit>> /\ res' = -1
<1> DEFINE h  == p - REDZONE - HDR
           ok == h \in Region /\ mem[h] = Live
           S  == IF ok THEN Cells(p, mem[h + 1]) ELSE {}
<1>1. ~ok
  <2> SUFFICES ASSUME ok PROVE FALSE
    OBVIOUS
  <2>1. PICK j \in DOMAIN blocks : blocks[j].at = h
    BY DEF Magics
  <2>2. User(blocks[j]) = p
    BY <2>1, MemConstants DEF User, HDR
  <2> QED BY <2>2
<1>2. /\ mem' = Fill(Fill(mem, IF ok THEN {h} ELSE {}, Free), S, Poison)
      /\ escaped' = (escaped \/ ~(S \subseteq Region))
      /\ blocks' = [j \in DOMAIN blocks |-> IF ok /\ blocks[j].at = h
                                            THEN [blocks[j] EXCEPT !.freed = @ + 1] ELSE blocks[j]]
      /\ res' = IF ok THEN 0 ELSE -1
      /\ UNCHANGED <<used, hit>>
  BY DEF chaos_arena_free
<1> HIDE DEF ok
<1>3. S = {}
  BY <1>1
<1> HIDE DEF S, h
<1>4. mem' = mem
  <2>1. mem' = Fill(Fill(mem, {}, Free), {}, Poison)
    BY <1>1, <1>2, <1>3
  <2>2. mem \in [Region -> Nat]
    BY DEF MemTypes
  <2> QED BY <2>1, <2>2 DEF Fill
<1>5. blocks' = blocks
  <2>1. blocks' = [j \in DOMAIN blocks |-> blocks[j]]
    BY <1>1, <1>2
  <2>2. DOMAIN blocks = 1..Len(blocks) /\ blocks \in Seq(Block)
    BY LenProperties DEF MemTypes
  <2> QED BY <2>1, <2>2
<1>6. escaped' = escaped
  <2>1. {} \subseteq Region
    OBVIOUS
  <2>2. escaped' = (escaped \/ ~({} \subseteq Region))
    BY <1>2, <1>3
  <2>3. escaped \in BOOLEAN
    BY DEF MemTypes
  <2> QED BY <2>1, <2>2, <2>3
<1> QED BY <1>1, <1>2, <1>4, <1>5, <1>6

\* Where the memset of a free begins, and where it ends if the size is right.
LEMMA FreeSpan ==
    ASSUME MemTypes, AllSound, Laid, Sized, NEW j \in DOMAIN blocks,
           NEW S, S = Cells(User(blocks[j]), mem[blocks[j].at + 1])
    PROVE  /\ \A c \in S : c \in Int /\ c >= blocks[j].at + HDR + REDZONE
           /\ Trusted(j + 1) => S \subseteq Owned /\ S \subseteq Region
<1> DEFINE a == blocks[j].at  l == blocks[j].n  r == round8(blocks[j].n)  u == a + HDR + REDZONE
<1>1. a \in Nat /\ l \in Nat /\ r \in Nat /\ l <= r /\ u \in Nat /\ u + REDZONE + r <= Total
  <2>1. a \in Nat /\ l \in Nat /\ r \in Nat
    BY BlockFacts
  <2>2. l <= r /\ a + HDR + 2 * REDZONE + r <= Total
    BY LaidFacts
  <2> HIDE DEF a, l, r
  <2> QED BY <2>1, <2>2, MemConstants DEF HDR
<1>2. User(blocks[j]) = u
  BY DEF User
<1>3. ASSUME NEW c \in S PROVE c \in Int /\ c >= u
  <2> DEFINE w == mem[blocks[j].at + 1]
  <2>1. w \in Nat
    BY LaidFacts DEF MemTypes
  <2> HIDE DEF w, u
  <2>2. c \in u..(u + w - 1)
    BY <1>2, <1>3 DEF Cells, w
  <2> QED BY <1>1, <2>1, <2>2
<1>4. ASSUME Trusted(j + 1), NEW c \in S PROVE c \in Owned /\ c \in Region
  <2>1. S = Cells(User(blocks[j]), l)
    BY <1>4 DEF Sized
  <2> HIDE DEF a, l, u
  <2>2. c \in u..(u + l - 1)
    BY <1>2, <1>4, <2>1 DEF Cells
  <2> HIDE DEF r
  <2>3. c \in u..(u + r - 1) /\ c \in 0..(Total - 1)
    BY <1>1, <2>2, MemConstants
  <2>4. c \in Cells(User(blocks[j]), round8(blocks[j].n))
    BY <1>2, <2>3 DEF Cells, r
  <2> QED BY <2>3, <2>4 DEF Owned, Region
<1> QED BY <1>3, <1>4

\* The memset of a free spares what lies in front of every size that was written over.
LEMMA FreeSpares ==
    ASSUME MemTypes, AllSound, Laid, Sized, NEW j \in DOMAIN blocks, NEW k \in DOMAIN blocks,
           NEW S, S = Cells(User(blocks[j]), mem[blocks[j].at + 1])
    PROVE  /\ Trusted(k) => blocks[k].at \notin S
           /\ Trusted(k + 1) => blocks[k].at + 1 \notin S /\ \A c \in Edge(blocks[k]) : c \notin S
<1>0. j \in Nat /\ k \in Nat /\ DOMAIN blocks \subseteq Nat
  BY LenProperties DEF MemTypes
<1>1. \A c \in S : c \in Int /\ c >= blocks[j].at + HDR + REDZONE
  BY FreeSpan
<1>2. Trusted(j + 1) => S \subseteq Owned
  BY FreeSpan
<1>3. blocks[k].at \notin Owned /\ blocks[k].at + 1 \notin Owned /\ \A c \in Edge(blocks[k]) : c \notin Owned
  BY NotOwned
<1>4. /\ blocks[j].at \in Nat /\ blocks[k].at \in Nat /\ Size(blocks[k]) \in Nat
      /\ blocks[k].at + 1 < blocks[k].at + Size(blocks[k])
  BY BlockFacts, MemConstants DEF HDR
<1>5. ASSUME k < j PROVE blocks[k].at \notin S /\ blocks[k].at + 1 \notin S /\ \A c \in Edge(blocks[k]) : c \notin S
  <2>1. blocks[k].at + Size(blocks[k]) <= blocks[j].at
    BY <1>5 DEF Laid
  <2>2. \A c \in Edge(blocks[k]) : c \in Int /\ c < blocks[k].at + Size(blocks[k])
    BY EdgePlaces
  <2> QED BY <1>1, <1>4, <2>1, <2>2, MemConstants DEF HDR
<1>6. ASSUME Trusted(k) PROVE blocks[k].at \notin S
  <2>1. CASE j < k
    <3>1. Trusted(j + 1)
      BY <1>0, <1>6, <2>1 DEF Trusted
    <3> QED BY <1>2, <1>3, <3>1
  <2>2. CASE j = k
    BY <1>1, <1>4, <2>2, MemConstants DEF HDR
  <2> QED BY <1>0, <1>5, <2>1, <2>2
<1>7. ASSUME Trusted(k + 1) PROVE blocks[k].at + 1 \notin S /\ \A c \in Edge(blocks[k]) : c \notin S
  <2>1. CASE j <= k
    <3>1. Trusted(j + 1)
      BY <1>0, <1>7, <2>1 DEF Trusted
    <3> QED BY <1>2, <1>3, <3>1
  <2> QED BY <1>0, <1>5, <2>1
<1> QED BY <1>6, <1>7

\* The header of one block is no other cell of a header or a redzone.
LEMMA HeaderApart ==
    ASSUME MemTypes, AllSound, Laid, NEW j \in DOMAIN blocks, NEW k \in DOMAIN blocks
    PROVE  /\ blocks[k].at + 1 # blocks[j].at
           /\ \A c \in Edge(blocks[k]) : c # blocks[j].at
<1>1. /\ blocks[j].at \in Nat /\ blocks[k].at \in Nat /\ Size(blocks[k]) \in Nat
      /\ blocks[k].at + 1 < blocks[k].at + Size(blocks[k])
      /\ blocks[j].at + 1 < blocks[j].at + Size(blocks[j]) /\ Size(blocks[j]) \in Nat
  BY BlockFacts, MemConstants DEF HDR
<1>2. \A c \in Edge(blocks[k]) : c \in Int /\ c > blocks[k].at + 1 /\ c < blocks[k].at + Size(blocks[k])
  BY <1>1, EdgePlaces DEF HDR
<1>3. CASE j = k
  BY <1>1, <1>2, <1>3
<1>4. CASE j # k
  <2>1. \/ blocks[j].at + Size(blocks[j]) <= blocks[k].at
        \/ blocks[k].at + Size(blocks[k]) <= blocks[j].at
    BY <1>4, Apart
  <2> QED BY <1>1, <1>2, <2>1
<1> QED BY <1>3, <1>4

\* Marking blocks as freed moves none of them.
LEMMA FreedBlocks ==
    ASSUME MemTypes, NEW F \in SUBSET DOMAIN blocks,
           blocks' = [k \in DOMAIN blocks |-> IF k \in F THEN [blocks[k] EXCEPT !.freed = @ + 1] ELSE blocks[k]]
    PROVE  /\ blocks' \in Seq(Block) /\ DOMAIN blocks' = DOMAIN blocks
           /\ Len(blocks') = Len(blocks)
           /\ \A k \in DOMAIN blocks :
                /\ blocks'[k].at = blocks[k].at /\ blocks'[k].n = blocks[k].n
                /\ blocks'[k].freed = IF k \in F THEN blocks[k].freed + 1 ELSE blocks[k].freed
<1>1. DOMAIN blocks = 1..Len(blocks) /\ Len(blocks) \in Nat
  BY LenProperties DEF MemTypes
<1>2. ASSUME NEW k \in DOMAIN blocks
      PROVE  /\ blocks'[k] \in Block
             /\ blocks'[k].at = blocks[k].at /\ blocks'[k].n = blocks[k].n
             /\ blocks'[k].freed = IF k \in F THEN blocks[k].freed + 1 ELSE blocks[k].freed
  <2>1. blocks[k] \in Block
    BY <1>1, ElementOfSeq DEF MemTypes
  <2> QED BY <2>1 DEF Block
<1>3. blocks' \in Seq(Block)
  BY <1>1, <1>2
<1> QED BY <1>1, <1>2, <1>3

\* What a free of block j does.
LEMMA FreeDoes ==
    ASSUME MemTypes, NEW j \in DOMAIN blocks, chaos_arena_free(User(blocks[j]))
    PROVE  LET h  == blocks[j].at
               ok == h \in Region /\ mem[h] = Live
               S  == IF ok THEN Cells(User(blocks[j]), mem[h + 1]) ELSE {} IN
           /\ mem' \in [Region -> Nat]
           /\ \A c \in Region : mem'[c] = IF c \in S THEN Poison ELSE IF ok /\ c = h THEN Free ELSE mem[c]
           /\ escaped' = (escaped \/ ~(S \subseteq Region))
           /\ used' = used /\ hit' = hit /\ res' = IF ok THEN 0 ELSE -1
           /\ blocks' \in Seq(Block) /\ DOMAIN blocks' = DOMAIN blocks /\ Len(blocks') = Len(blocks)
           /\ \A k \in DOMAIN blocks :
                /\ blocks'[k].at = blocks[k].at /\ blocks'[k].n = blocks[k].n
                /\ blocks'[k].freed = IF ok /\ blocks[k].at = h THEN blocks[k].freed + 1 ELSE blocks[k].freed
<1> DEFINE h  == blocks[j].at
           ok == h \in Region /\ mem[h] = Live
           S  == IF ok THEN Cells(User(blocks[j]), mem[h + 1]) ELSE {}
           H  == IF ok THEN {h} ELSE {}
           F  == IF ok THEN {k \in DOMAIN blocks : blocks[k].at = h} ELSE {}
           m1 == Fill(mem, H, Free)
<1>0. User(blocks[j]) - REDZONE - HDR = h
  BY BlockFacts, MemConstants DEF User, HDR
<1>1. /\ mem' = Fill(m1, S, Poison) /\ escaped' = (escaped \/ ~(S \subseteq Region))
      /\ used' = used /\ hit' = hit /\ res' = IF ok THEN 0 ELSE -1
      /\ blocks' = [k \in DOMAIN blocks |-> IF ok /\ blocks[k].at = h
                                            THEN [blocks[k] EXCEPT !.freed = @ + 1] ELSE blocks[k]]
  BY <1>0 DEF chaos_arena_free
<1>2. blocks' = [k \in DOMAIN blocks |-> IF k \in F THEN [blocks[k] EXCEPT !.freed = @ + 1] ELSE blocks[k]]
  BY <1>1
<1>3. F \in SUBSET DOMAIN blocks /\ \A k \in DOMAIN blocks : k \in F <=> ok /\ blocks[k].at = h
  OBVIOUS
<1> HIDE DEF F
<1>4. /\ blocks' \in Seq(Block) /\ DOMAIN blocks' = DOMAIN blocks /\ Len(blocks') = Len(blocks)
      /\ \A k \in DOMAIN blocks :
           /\ blocks'[k].at = blocks[k].at /\ blocks'[k].n = blocks[k].n
           /\ blocks'[k].freed = IF k \in F THEN blocks[k].freed + 1 ELSE blocks[k].freed
  BY <1>2, <1>3, FreedBlocks
<1>5. m1 \in [Region -> Nat] /\ \A c \in Region : m1[c] = IF c \in H THEN Free ELSE mem[c]
  <2>1. mem \in [Region -> Nat] /\ Free \in Nat
    BY MarksDiffer DEF MemTypes
  <2> HIDE DEF H
  <2> QED BY <2>1, FillFacts
<1> HIDE DEF m1
<1>6. mem' \in [Region -> Nat] /\ \A c \in Region : mem'[c] = IF c \in S THEN Poison ELSE m1[c]
  <2>1. Poison \in Nat
    BY MarksDiffer
  <2> HIDE DEF S
  <2> QED BY <1>1, <1>5, <2>1, FillFacts
<1>7. \A c \in Region : mem'[c] = IF c \in S THEN Poison ELSE IF ok /\ c = h THEN Free ELSE mem[c]
  <2> HIDE DEF S
  <2> QED BY <1>5, <1>6
<1> QED BY <1>1, <1>3, <1>4, <1>6, <1>7

\* chaos_arena_free of a block that chaos_arena_alloc returned.
LEMMA FreeKeeps ==
    ASSUME MemTypes, Magics, AllSound => Sane, NEW j \in DOMAIN blocks, chaos_arena_free(User(blocks[j]))
    PROVE  MemTypes' /\ Magics' /\ (AllSound' => Sane')
<1> DEFINE h  == blocks[j].at
           ok == h \in Region /\ mem[h] = Live
           S0 == Cells(User(blocks[j]), mem[h + 1])
           S  == IF ok THEN S0 ELSE {}
<1>1. /\ mem' \in [Region -> Nat]
      /\ \A c \in Region : mem'[c] = IF c \in S THEN Poison ELSE IF ok /\ c = h THEN Free ELSE mem[c]
      /\ escaped' = (escaped \/ ~(S \subseteq Region)) /\ used' = used /\ hit' = hit
  BY FreeDoes
<1>2. /\ blocks' \in Seq(Block) /\ DOMAIN blocks' = DOMAIN blocks
      /\ \A k \in DOMAIN blocks :
           /\ blocks'[k].at = blocks[k].at /\ blocks'[k].n = blocks[k].n
           /\ blocks'[k].freed = IF ok /\ blocks[k].at = h THEN blocks[k].freed + 1 ELSE blocks[k].freed
  BY FreeDoes
<1>3. S \subseteq S0
  OBVIOUS
<1> HIDE DEF S
<1>4. MemTypes'
  BY <1>1, <1>2 DEF MemTypes
<1>5. Magics'
  <2>1. ASSUME NEW c \in Region, mem'[c] = Live PROVE mem[c] = Live
    BY <1>1, <2>1, MarksDiffer
  <2> QED BY <1>2, <2>1 DEF Magics
<1>6. ASSUME AllSound' PROVE Sane'
  <2>1. AllSound
    BY <1>2, <1>6 DEF AllSound
  <2>2. Laid /\ Freed /\ Sized /\ Contained
    BY <2>1 DEF Sane
  <2>3. \A k : Trusted(k)' <=> Trusted(k)
    BY <1>1, <1>2 DEF Trusted
  <2>4. Laid'
    <3>1. \A k \in DOMAIN blocks : Size(blocks'[k]) = Size(blocks[k])
      BY <1>2 DEF Size
    <3> QED BY <1>1, <1>2, <2>2, <3>1 DEF Laid
  <2>5. ASSUME NEW k \in DOMAIN blocks
        PROVE  blocks'[k].freed = 0 \/ (blocks'[k].freed = 1 /\ mem'[blocks[k].at] # Live)
    <3>1. blocks[k].at \in Region
      BY <2>1, <2>2, LaidFacts
    <3>2. blocks[k].freed = 0 \/ (blocks[k].freed = 1 /\ mem[blocks[k].at] # Live)
      BY <2>2 DEF Freed
    <3>3. CASE ok /\ blocks[k].at = h
      <4>1. blocks'[k].freed = 1
        BY <1>2, <3>2, <3>3
      <4>2. mem'[blocks[k].at] = Poison \/ mem'[blocks[k].at] = Free
        BY <1>1, <3>1, <3>3
      <4> QED BY <4>1, <4>2, MarksDiffer
    <3>4. CASE ~(ok /\ blocks[k].at = h)
      <4>1. blocks'[k].freed = blocks[k].freed
        BY <1>2, <3>4
      <4>2. mem[blocks[k].at] # Live => mem'[blocks[k].at] # Live
        BY <1>1, <3>1, MarksDiffer
      <4> QED BY <3>2, <4>1, <4>2
    <3> QED BY <3>3, <3>4
  <2>6. ASSUME NEW k \in DOMAIN blocks, Trusted(k + 1) PROVE mem'[blocks[k].at + 1] = blocks[k].n
    <3>1. blocks[k].at + 1 \in Region /\ blocks[k].at + 1 # h
      BY <2>1, <2>2, LaidFacts, HeaderApart
    <3>2. blocks[k].at + 1 \notin S
      BY <1>3, <2>1, <2>2, <2>6, FreeSpares
    <3>3. mem[blocks[k].at + 1] = blocks[k].n
      BY <2>2, <2>6 DEF Sized
    <3> QED BY <1>1, <3>1, <3>2, <3>3
  <2>7. ASSUME SizesIntact' PROVE ~escaped'
    <3>1. SizesIntact
      BY <1>1, <1>2, <2>7 DEF SizesIntact
    <3>2. Trusted(j + 1)
      BY <3>1 DEF SizesIntact, Trusted
    <3>3. S0 \subseteq Region
      BY <2>1, <2>2, <3>2, FreeSpan
    <3>4. ~escaped
      BY <2>2, <3>1 DEF Contained
    <3> QED BY <1>1, <1>3, <3>3, <3>4
  <2>8. Freed'
    BY <1>2, <2>5 DEF Freed
  <2>9. Sized'
    BY <1>2, <2>3, <2>6 DEF Sized
  <2> QED BY <2>4, <2>7, <2>8, <2>9 DEF Sane, Contained
<1> QED BY <1>4, <1>5, <1>6

\* What a sound allocation does.
LEMMA AllocPlaces ==
    ASSUME MemTypes, NEW n \in 0..(SizeT - 1), alloc_block(n), AllSound => Laid, AllSound'
    PROVE  LET b     == [at |-> used, n |-> n, freed |-> 0]
               zones == IF guarded THEN Edge(b) ELSE {} IN
           /\ AllSound /\ Laid /\ b.at = used
           /\ used \in Nat /\ Size(b) \in Nat /\ Size(b) > HDR /\ used' = used + Size(b) /\ used + Size(b) <= Total
           /\ \A c \in Edge(b) : c \in Int /\ c >= used + HDR /\ c < used + Size(b)
           /\ Len(blocks) \in Nat /\ DOMAIN blocks = 1..Len(blocks) /\ DOMAIN blocks' = 1..(Len(blocks) + 1)
           /\ \A k \in 1..Len(blocks) : blocks'[k] = blocks[k]
           /\ blocks'[Len(blocks) + 1] = b
           /\ \A c \in Region : c \notin {used, used + 1} => mem'[c] = IF c \in zones THEN Guard ELSE mem[c]
           /\ mem'[used] = Live /\ mem'[used + 1] = n
           /\ hit' = hit \ Cells(used, Size(b))
<1> DEFINE b     == [at |-> used, n |-> n, freed |-> 0]
           zones == IF guarded THEN Edge(b) ELSE {}
           m1    == Fill(mem, {used}, Live)
           m2    == Fill(m1, {used + 1}, n % UInt32)
<1>0. n \in Nat /\ used \in Nat
  BY MemConstants DEF MemTypes
<1>1. /\ mem' = Fill(m2, zones, Guard)
      /\ used' = (used + block_total(n)) % SizeT /\ blocks' = Append(blocks, b)
      /\ (used + block_total(n)) % SizeT <= Total
      /\ hit' = hit \ Cells(used, block_total(n))
  BY DEF alloc_block, Edge
<1>2. b \in Block /\ b.at = used /\ b.n = n /\ Size(b) = HDR + 2 * REDZONE + round8(n)
  BY <1>0 DEF Block, Size
<1>3. Edge(b) = Cells(used + HDR, REDZONE) \cup Cells(used + HDR + REDZONE + round8(n), REDZONE)
  BY <1>2 DEF Edge, Pre, Post, User
<1> HIDE DEF b
<1>4. /\ Len(blocks') = Len(blocks) + 1 /\ Len(blocks) \in Nat
      /\ DOMAIN blocks = 1..Len(blocks) /\ DOMAIN blocks' = 1..(Len(blocks) + 1)
      /\ \A k \in 1..Len(blocks) : blocks'[k] = blocks[k]
      /\ blocks'[Len(blocks) + 1] = b
  BY <1>1, <1>2, AppendProperties, LenProperties DEF MemTypes
<1>5. AllSound /\ Sound(n)
  <2>1. \A k \in 1..Len(blocks) : Sound(blocks[k].n)
    BY <1>4 DEF AllSound
  <2>2. Sound(b.n)
    BY <1>4 DEF AllSound
  <2> QED BY <1>2, <1>4, <2>1, <2>2 DEF AllSound
<1>6. block_total(n) = Size(b) /\ Size(b) \in Nat /\ round8(n) \in Nat
      /\ Size(b) > HDR /\ Size(b) < UInt32 + ALIGN + 2 * REDZONE + 2
  <2>1. round8(n) \in n..(n + ALIGN - 1) /\ block_total(n) = HDR + 2 * REDZONE + round8(n)
    BY <1>0, <1>5, SoundSize
  <2>2. n < UInt32
    BY <1>5 DEF Sound
  <2> QED BY <1>0, <1>2, <2>1, <2>2, MemConstants DEF HDR
<1>7. used' = used + Size(b) /\ used + Size(b) <= Total
  <2> DEFINE u == used + Size(b)
  <2>1. u \in Nat /\ u < SizeT
    BY <1>0, <1>5, <1>6, MemConstants DEF Laid
  <2> HIDE DEF u
  <2>2. u % SizeT = u
    BY <2>1, MemConstants, ModFacts
  <2>3. used' = u % SizeT /\ u % SizeT <= Total
    BY <1>1, <1>6 DEF u
  <2> QED BY <2>2, <2>3 DEF u
<1>8. \A c \in Edge(b) : c \in Int /\ c >= used + HDR /\ c < used + Size(b)
  BY <1>0, <1>2, <1>3, <1>6, MemConstants DEF Cells, HDR
<1>9. m1 \in [Region -> Nat] /\ \A c \in Region : m1[c] = IF c \in {used} THEN Live ELSE mem[c]
  <2>1. mem \in [Region -> Nat] /\ Live \in Nat
    BY MarksDiffer DEF MemTypes
  <2> QED BY <2>1, FillFacts
<1> HIDE DEF m1
<1>10. m2 \in [Region -> Nat] /\ \A c \in Region : m2[c] = IF c \in {used + 1} THEN n % UInt32 ELSE m1[c]
  <2>1. n % UInt32 \in Nat
    BY <1>0, StoredSize, MarksDiffer
  <2> QED BY <1>9, <2>1, FillFacts
<1> HIDE DEF m2
<1>11. \A c \in Region : mem'[c] = IF c \in zones THEN Guard ELSE m2[c]
  <2>1. Guard \in Nat
    BY MarksDiffer
  <2> HIDE DEF zones
  <2> QED BY <1>1, <1>10, <2>1, FillFacts
<1>12. used \in Region /\ used + 1 \in Region /\ used \notin zones /\ used + 1 \notin zones /\ used # used + 1
  <2>1. used \in Region /\ used + 1 \in Region
    BY <1>0, <1>6, <1>7, MemConstants DEF Region, HDR
  <2> QED BY <1>0, <1>8, <2>1 DEF HDR
<1>13. mem'[used] = Live /\ mem'[used + 1] = n
  <2>1. n % UInt32 = n
    BY <1>0, <1>5, SoundSize
  <2> QED BY <1>9, <1>10, <1>11, <1>12, <2>1
<1>14. \A c \in Region : c \notin {used, used + 1} => mem'[c] = IF c \in zones THEN Guard ELSE mem[c]
  BY <1>9, <1>10, <1>11
<1>15. hit' = hit \ Cells(used, Size(b))
  BY <1>1, <1>6
<1> QED BY <1>0, <1>2, <1>4, <1>5, <1>6, <1>7, <1>8, <1>13, <1>14, <1>15 DEF b

\* chaos_arena_alloc: the new block lies behind the others, as long as no size wraps.
LEMMA AllocKeeps ==
    ASSUME MemTypes, Magics, AllSound => Sane, NEW n \in 0..(SizeT - 1), alloc_block(n)
    PROVE  MemTypes' /\ Magics' /\ (AllSound' => Sane')
<1> DEFINE b     == [at |-> used, n |-> n, freed |-> 0]
           zones == IF guarded THEN Pre(b) \cup Post(b) ELSE {}
           m1    == Fill(mem, {used}, Live)
           m2    == Fill(m1, {used + 1}, n % UInt32)
<1>0. n \in Nat /\ used \in Nat
  BY MemConstants DEF MemTypes
<1>1. /\ (used + block_total(n)) % SizeT <= Total /\ mem' = Fill(m2, zones, Guard)
      /\ escaped' = (escaped \/ ~(Cells(used, HDR) \cup zones \subseteq Region))
      /\ used' = (used + block_total(n)) % SizeT /\ blocks' = Append(blocks, b)
  BY DEF alloc_block
<1>2. b \in Block /\ b.at = used /\ b.n = n /\ b.freed = 0
  BY <1>0 DEF Block
<1> HIDE DEF b, zones
<1>4. /\ blocks' \in Seq(Block) /\ Len(blocks') = Len(blocks) + 1 /\ Len(blocks) \in Nat
      /\ DOMAIN blocks = 1..Len(blocks) /\ DOMAIN blocks' = 1..(Len(blocks) + 1)
      /\ \A k \in 1..Len(blocks) : blocks'[k] = blocks[k]
      /\ blocks'[Len(blocks) + 1] = b
  BY <1>1, <1>2, AppendProperties, LenProperties DEF MemTypes
<1>5. m1 \in [Region -> Nat] /\ \A c \in Region : m1[c] = IF c \in {used} THEN Live ELSE mem[c]
  <2>1. mem \in [Region -> Nat] /\ Live \in Nat
    BY MarksDiffer DEF MemTypes
  <2> QED BY <2>1, FillFacts
<1> HIDE DEF m1
<1>6. m2 \in [Region -> Nat] /\ \A c \in Region : m2[c] = IF c \in {used + 1} THEN n % UInt32 ELSE m1[c]
  <2>1. n % UInt32 \in Nat
    BY <1>0, StoredSize, MarksDiffer
  <2> QED BY <1>5, <2>1, FillFacts
<1> HIDE DEF m2
<1>7. mem' \in [Region -> Nat] /\ \A c \in Region : mem'[c] = IF c \in zones THEN Guard ELSE m2[c]
  <2>1. Guard \in Nat
    BY MarksDiffer
  <2> QED BY <1>1, <1>6, <2>1, FillFacts
<1>8. used' \in Nat
  <2> DEFINE t == HDR + REDZONE + round8(n) + REDZONE
             u == used + (t % SizeT)
  <2>1. t \in Nat
    BY <1>0, RoundNat, MemConstants DEF HDR
  <2> HIDE DEF t
  <2>2. t % SizeT \in Nat
    BY <2>1, MemConstants, ModFacts
  <2>3. u \in Nat
    BY <1>0, <2>2
  <2> HIDE DEF u
  <2>4. u % SizeT \in Nat
    BY <2>3, MemConstants, ModFacts
  <2> QED BY <1>1, <2>4 DEF u, t, block_total
<1>9. MemTypes'
  <2>1. escaped' \in BOOLEAN
    BY <1>1, Zenon
  <2> QED BY <1>4, <1>7, <1>8, <2>1 DEF MemTypes
<1>10. Magics'
  <2> SUFFICES ASSUME NEW c \in Region, mem'[c] = Live
               PROVE  \E k \in DOMAIN blocks' : blocks'[k].at = c
    BY DEF Magics
  <2>1. c \notin zones /\ c # used + 1
    <3>1. n % UInt32 # Live /\ Guard # Live
      BY <1>0, StoredSize, MarksDiffer
    <3> QED BY <1>6, <1>7, <3>1
  <2>2. CASE c = used
    <3>1. Len(blocks) + 1 \in DOMAIN blocks' /\ blocks'[Len(blocks) + 1].at = c
      BY <1>2, <1>4, <2>2
    <3> QED BY <3>1
  <2>3. CASE c # used
    <3>1. mem[c] = Live
      BY <1>5, <1>6, <1>7, <2>1, <2>3
    <3>2. PICK k \in DOMAIN blocks : blocks[k].at = c
      BY <3>1 DEF Magics
    <3>3. k \in DOMAIN blocks' /\ blocks'[k] = blocks[k]
      BY <1>4
    <3> QED BY <3>2, <3>3
  <2> QED BY <2>2, <2>3
<1>11. ASSUME AllSound' PROVE Sane'
  <2>0. AllSound => Laid
    BY DEF Sane
  <2>1. /\ AllSound /\ Laid /\ hit' = hit \ Cells(used, Size(b))
        /\ Size(b) \in Nat /\ Size(b) > HDR /\ used' = used + Size(b) /\ used + Size(b) <= Total
        /\ \A c \in Edge(b) : c \in Int /\ c >= used + HDR /\ c < used + Size(b)
        /\ \A c \in Region : c \notin {used, used + 1} => mem'[c] = IF c \in zones THEN Guard ELSE mem[c]
        /\ mem'[used + 1] = n
    BY <1>11, <2>0, AllocPlaces DEF b, zones, Edge
  <2>2. /\ Size(b) \in Nat /\ Size(b) > HDR /\ used' = used + Size(b) /\ used + Size(b) <= Total
        /\ \A c \in zones : c \in Int /\ c >= used + HDR /\ c < used + Size(b)
    BY <2>1 DEF zones, Edge
  <2>3. Laid /\ Freed /\ Sized /\ Contained
    BY <2>1 DEF Sane
  <2>4. escaped' = escaped
    <3>1. ASSUME NEW c \in Cells(used, HDR) PROVE c \in Region
      BY <1>0, <2>2, MemConstants DEF Cells, Region, HDR
    <3>2. ASSUME NEW c \in zones PROVE c \in Region
      BY <1>0, <2>2, MemConstants DEF Region, HDR
    <3>3. Cells(used, HDR) \cup zones \subseteq Region
      BY <3>1, <3>2
    <3>4. escaped \in BOOLEAN
      BY DEF MemTypes
    <3> QED BY <1>1, <3>3, <3>4
  <2>5. \A k \in 1..Len(blocks) : /\ blocks[k].at \in Nat /\ Size(blocks[k]) \in Nat
                                  /\ Size(blocks[k]) > 2 /\ blocks[k].at + Size(blocks[k]) <= used
    <3> SUFFICES ASSUME NEW k \in DOMAIN blocks
                 PROVE  blocks[k].at \in Nat /\ Size(blocks[k]) \in Nat
                        /\ Size(blocks[k]) > 2 /\ blocks[k].at + Size(blocks[k]) <= used
      BY <1>4
    <3>1. /\ blocks[k].at \in Nat /\ round8(blocks[k].n) \in Nat
          /\ Size(blocks[k]) = HDR + 2 * REDZONE + round8(blocks[k].n) /\ Size(blocks[k]) \in Nat
      BY BlockFacts
    <3>2. blocks[k].at + Size(blocks[k]) <= used
      BY <2>3 DEF Laid
    <3>3. Size(blocks[k]) > 2
      BY <3>1, MemConstants DEF HDR
    <3> QED BY <3>1, <3>2, <3>3
  <2>6. Laid'
    <3>1. ASSUME NEW k \in DOMAIN blocks' PROVE blocks'[k].at + Size(blocks'[k]) <= used'
      <4>1. CASE k = Len(blocks) + 1
        <5>1. blocks'[k] = b /\ b.at = used
          BY <1>2, <1>4, <4>1
        <5> QED BY <1>0, <2>2, <5>1
      <4>2. CASE k # Len(blocks) + 1
        <5>1. k \in 1..Len(blocks) /\ blocks'[k] = blocks[k]
          BY <1>4, <3>1, <4>2
        <5> QED BY <1>0, <2>2, <2>5, <5>1
      <4> QED BY <4>1, <4>2
    <3>2. ASSUME NEW j \in DOMAIN blocks', NEW k \in DOMAIN blocks', j < k
          PROVE  blocks'[j].at + Size(blocks'[j]) <= blocks'[k].at
      <4>1. j \in 1..Len(blocks) /\ blocks'[j] = blocks[j]
        BY <1>4, <3>2
      <4>2. CASE k = Len(blocks) + 1
        BY <1>2, <1>4, <2>5, <4>1, <4>2
      <4>3. CASE k # Len(blocks) + 1
        <5>1. k \in 1..Len(blocks) /\ blocks'[k] = blocks[k]
          BY <1>4, <3>2, <4>3
        <5> QED BY <1>4, <2>3, <3>2, <4>1, <5>1 DEF Laid
      <4> QED BY <4>2, <4>3
    <3>3. used' <= Total
      BY <2>2
    <3> QED BY <3>1, <3>2, <3>3 DEF Laid
  <2>7. ASSUME NEW k \in DOMAIN blocks
        PROVE  /\ blocks[k].at + 1 \in hit' <=> blocks[k].at + 1 \in hit
               /\ mem'[blocks[k].at] = mem[blocks[k].at] /\ mem'[blocks[k].at + 1] = mem[blocks[k].at + 1]
    <3>1. blocks[k].at \in Region /\ blocks[k].at + 1 \in Region
      BY <2>1, LaidFacts
    <3>2. blocks[k].at < used /\ blocks[k].at + 1 < used
      BY <1>0, <1>4, <2>5
    <3>3. ASSUME NEW c \in Region, c < used PROVE mem'[c] = mem[c] /\ c \notin Cells(used, Size(b))
      <4>1. c \in Int /\ c \notin {used, used + 1} /\ c \notin zones
        BY <1>0, <2>2, <3>3 DEF Region, HDR
      <4>2. c \notin Cells(used, Size(b))
        BY <1>0, <2>2, <3>3, <4>1 DEF Cells
      <4> QED BY <2>1, <4>1, <4>2
    <3> QED BY <2>1, <3>1, <3>2, <3>3
  <2>8. ASSUME NEW k \in DOMAIN blocks'
        PROVE  k = Len(blocks) + 1 \/ (k \in DOMAIN blocks /\ blocks'[k] = blocks[k])
    BY <1>4
  <2>9. ASSUME NEW k, Trusted(k)' PROVE Trusted(k)
    <3>1. \A i \in DOMAIN blocks : i \in DOMAIN blocks' /\ blocks'[i] = blocks[i]
      BY <1>4
    <3> QED BY <2>7, <2>9, <3>1 DEF Trusted
  <2>10. Freed'
    <3>1. ASSUME NEW k \in DOMAIN blocks'
          PROVE  blocks'[k].freed = 0 \/ (blocks'[k].freed = 1 /\ mem'[blocks'[k].at] # Live)
      <4>1. CASE k = Len(blocks) + 1
        BY <1>2, <1>4, <4>1
      <4>2. CASE k \in DOMAIN blocks /\ blocks'[k] = blocks[k]
        BY <2>3, <2>7, <4>2 DEF Freed
      <4> QED BY <2>8, <4>1, <4>2
    <3> QED BY <3>1 DEF Freed
  <2>11. Sized'
    <3>1. ASSUME NEW k \in DOMAIN blocks', Trusted(k + 1)' PROVE mem'[blocks'[k].at + 1] = blocks'[k].n
      <4>1. CASE k = Len(blocks) + 1
        BY <1>2, <1>4, <2>1, <4>1
      <4>2. CASE k \in DOMAIN blocks /\ blocks'[k] = blocks[k]
        <5>1. Trusted(k + 1)
          BY <2>9, <3>1
        <5> QED BY <2>3, <2>7, <4>2, <5>1 DEF Sized
      <4> QED BY <2>8, <4>1, <4>2
    <3> QED BY <3>1 DEF Sized
  <2>12. ASSUME SizesIntact' PROVE ~escaped'
    <3>1. \A k \in DOMAIN blocks : k \in DOMAIN blocks' /\ blocks'[k] = blocks[k]
      BY <1>4
    <3>2. SizesIntact
      BY <2>7, <2>12, <3>1 DEF SizesIntact
    <3> QED BY <2>3, <2>4, <3>2 DEF Contained
  <2> QED BY <2>6, <2>10, <2>11, <2>12 DEF Sane, Contained
<1> QED BY <1>9, <1>10, <1>11

\* A step that leaves the memory alone.
LEMMA StillSane ==
    ASSUME MemTypes, Magics, AllSound => Sane, UNCHANGED <<mem, used, escaped, blocks, hit>>
    PROVE  MemTypes' /\ Magics' /\ (AllSound' => Sane')
<1>1. MemTypes'
  BY DEF MemTypes
<1>2. Magics'
  BY DEF Magics
<1>3. AllSound' => Sane'
  BY DEF AllSound, Sane, Laid, Freed, Sized, Trusted, Contained, SizesIntact
<1> QED BY <1>1, <1>2, <1>3

----------------------------------------------------------------------------
(* The clients *)

\* S is one run of cells, up or down from the start of a block's data.
OneRun(S) == \E j \in DOMAIN blocks, l \in Nat :
    S = Cells(User(blocks[j]), l) \/ S = Cells(User(blocks[j]) - l, l)

LEMMA AnyKeeps ==
    ASSUME MemInv, any_call
    PROVE  MemInv'
<1>1. client = "any" /\ client' = client
  BY DEF any_call, Goes
<1>2. Alone' /\ Dangling'
  BY <1>1 DEF Alone, Dangling, DanglingReported
<1>3. MemTypes' /\ Magics' /\ (AllSound' => Sane')
  <2>0. MemTypes /\ Magics /\ (AllSound => Sane)
    BY DEF MemInv
  <2>1. ASSUME NEW n \in Sizes, chaos_arena_alloc(n) PROVE MemTypes' /\ Magics' /\ (AllSound' => Sane')
    <3>1. CASE alloc_refused(n)
      BY <2>0, <3>1, StillSane DEF alloc_refused
    <3>2. CASE alloc_block(n)
      BY <2>0, <2>1, <3>2, AllocKeeps, MemConstants
    <3> QED BY <2>1, <3>1, <3>2 DEF chaos_arena_alloc
  <2>2. ASSUME NEW p \in 0..(Total + HDR + REDZONE), chaos_arena_free(p)
        PROVE  MemTypes' /\ Magics' /\ (AllSound' => Sane')
    <3>1. CASE \E j \in DOMAIN blocks : User(blocks[j]) = p
      BY <2>0, <2>2, <3>1, FreeKeeps
    <3>2. CASE \A j \in DOMAIN blocks : User(blocks[j]) # p
      <4>1. p \in Int
        OBVIOUS
      <4>2. UNCHANGED <<mem, used, escaped, blocks, hit>>
        BY <2>0, <2>2, <3>2, <4>1, WildFree
      <4> QED BY <2>0, <4>2, StillSane
    <3> QED BY <3>1, <3>2
  <2>3. ASSUME NEW S, NEW v \in 0..(UInt32 - 1), Write(S, v)
        PROVE  MemTypes' /\ Magics' /\ (AllSound' => Sane')
    BY <2>0, <2>3, WriteKeeps
  <2> QED BY <2>1, <2>2, <2>3 DEF any_call
<1> QED BY <1>2, <1>3 DEF MemInv

\* The one block of a program that has allocated it.
LEMMA ProgramBlock ==
    ASSUME MemInv, client # "any", pc \notin {"start", "failed"}
    PROVE  /\ 1 \in DOMAIN blocks /\ DOMAIN blocks = {1} /\ B1 = blocks[1] /\ B1.at = 0 /\ B1.n = ALIGN
           /\ AllSound /\ Laid /\ Sized /\ SizesIntact
           /\ User(B1) = HDR + REDZONE /\ User(B1) \in Region /\ 0 \in Region
           /\ mem[1] = ALIGN
<1>1. Len(blocks) = 1 /\ B1.at = 0 /\ B1.n = ALIGN /\ 1 \notin hit /\ MemTypes
  BY DEF MemInv, Alone
<1>2. DOMAIN blocks = {1} /\ 1 \in DOMAIN blocks
  BY <1>1, LenProperties DEF MemTypes
<1>3. AllSound
  BY <1>1, <1>2, ProgramSize DEF AllSound, B1
<1>4. Laid /\ Sized
  BY <1>3 DEF MemInv, Sane
<1>5. User(B1) = HDR + REDZONE /\ User(B1) \in Region /\ 0 \in Region
  BY <1>1, MemConstants DEF User, Region, HDR
<1>6. B1 = blocks[1] /\ blocks[1].at + 1 = 1
  BY <1>1 DEF B1
<1>7. SizesIntact /\ Trusted(1 + 1)
  BY <1>1, <1>2, <1>6 DEF SizesIntact, Trusted
<1>8. mem[1] = ALIGN
  BY <1>1, <1>2, <1>4, <1>6, <1>7 DEF Sized
<1> QED BY <1>1, <1>2, <1>3, <1>4, <1>5, <1>6, <1>7, <1>8

\* prog_alloc: in a fresh arena the request is never refused.
LEMMA ProgAlloc ==
    ASSUME MemInv, prog_alloc
    PROVE  MemInv'
<1>0. /\ client # "any" /\ pc = "start" /\ pc' = "use" /\ client' = client /\ chaos_arena_alloc(ALIGN)
      /\ MemTypes /\ Magics /\ (AllSound => Sane) /\ used = 0 /\ blocks = <<>>
  BY DEF prog_alloc, Goes, MemInv, Alone
<1> DEFINE sz == HDR + 2 * REDZONE + ALIGN
<1>1. block_total(ALIGN) = sz /\ sz \in Nat /\ sz <= Total /\ sz < SizeT /\ round8(ALIGN) = ALIGN
  BY ProgramSize, SoundSize, MemConstants DEF HDR
<1> HIDE DEF sz
<1>2. (used + block_total(ALIGN)) % SizeT = sz
  <2>1. sz % SizeT = sz
    BY <1>1, MemConstants, ModFacts
  <2>2. used + block_total(ALIGN) = sz
    BY <1>0, <1>1
  <2> QED BY <2>1, <2>2
<1>3. alloc_block(ALIGN)
  <2>1. ~alloc_refused(ALIGN)
    BY <1>1, <1>2, MemConstants DEF alloc_refused
  <2> QED BY <1>0, <2>1 DEF chaos_arena_alloc
<1>4. MemTypes' /\ Magics' /\ (AllSound' => Sane')
  <2>1. ALIGN \in 0..(SizeT - 1)
    BY MemConstants
  <2> QED BY <1>0, <1>3, <2>1, AllocKeeps
<1> DEFINE b == [at |-> used, n |-> ALIGN, freed |-> 0]
<1>5. blocks' = <<b>> /\ b.at = 0 /\ b.n = ALIGN
  BY <1>0, <1>3 DEF alloc_block
<1>6. Len(blocks') = 1 /\ blocks'[1].at = 0 /\ blocks'[1].n = ALIGN
  BY <1>5
<1>7. mem'[0] = Live /\ 1 \notin hit'
  <2>1. DOMAIN blocks' = {1} /\ AllSound'
    BY <1>5, <1>6, ProgramSize DEF AllSound
  <2>2. ALIGN \in 0..(SizeT - 1) /\ (AllSound => Laid)
    <3>1. ALIGN \in 0..(SizeT - 1)
      BY MemConstants
    <3>2. AllSound => Laid
      BY <1>0, Zenon DEF Sane
    <3> QED BY <3>1, <3>2
  <2>3. /\ mem'[used] = Live /\ hit' = hit \ Cells(used, Size(b)) /\ Size(b) \in Nat /\ Size(b) > HDR
    BY <1>0, <1>3, <2>1, <2>2, AllocPlaces
  <2> HIDE DEF b
  <2>4. 1 \in Cells(used, Size(b))
    BY <1>0, <2>3 DEF Cells, HDR
  <2> QED BY <1>0, <2>3, <2>4
<1>8. Alone'
  BY <1>0, <1>6, <1>7 DEF MemInv, Alone, B1
<1>9. Dangling'
  BY <1>0, <1>7 DEF Dangling, DanglingReported
<1> QED BY <1>4, <1>8, <1>9 DEF MemInv

\* The writes of arena_corrupt and uaf_callback start behind the header.
LEMMA ProgWrites ==
    ASSUME MemInv, corrupt_write \/ uaf_fill
    PROVE  /\ client # "any" /\ pc \notin {"start", "failed"}
           /\ 0 \in 0..(UInt32 - 1)
           /\ \E S : Write(S, 0) /\ OneRun(S) /\ \A c \in S : c \in Int /\ c > 1
<1>1. PICK l \in Nat : Write(Cells(User(B1), l), 0)
  BY MemConstants DEF corrupt_write, uaf_fill
<1>2. client # "any" /\ pc \notin {"start", "failed"}
  BY DEF corrupt_write, uaf_fill
<1>3. 1 \in DOMAIN blocks /\ B1 = blocks[1] /\ User(B1) = HDR + REDZONE
  BY <1>2, ProgramBlock
<1>4. \A c \in Cells(User(B1), l) : c \in Int /\ c > 1
  BY <1>3, MemConstants DEF Cells, HDR
<1>5. OneRun(Cells(User(B1), l))
  BY <1>3 DEF OneRun
<1>6. 0 \in 0..(UInt32 - 1)
  BY MemConstants
<1> QED BY <1>1, <1>2, <1>4, <1>5, <1>6

LEMMA ProgWrite ==
    ASSUME MemInv, corrupt_write \/ uaf_fill
    PROVE  MemInv'
<1>1. PICK S : Write(S, 0) /\ \A c \in S : c \in Int /\ c > 1
  BY ProgWrites
<1>2. /\ client' = client /\ (client = "arena_corrupt" \/ (client = "uaf_callback" /\ pc' = "free")) /\ pc = "use"
      /\ pc' \notin {"start", "failed"} /\ 0 \in 0..(UInt32 - 1)
  BY ProgWrites DEF corrupt_write, uaf_fill, Goes
<1>3. MemTypes /\ Magics /\ (AllSound => Sane)
  BY DEF MemInv
<1>4. MemTypes' /\ Magics' /\ (AllSound' => Sane')
  BY <1>1, <1>2, <1>3, WriteKeeps
<1>5. /\ \A c \in Region : c \notin S => mem'[c] = mem[c]
      /\ hit' = hit \cup (S \ Owned) /\ blocks' = blocks
  BY <1>1, <1>2, <1>3, WriteFacts
<1>6. mem'[0] = mem[0]
  <2>1. 0 \in Region
    BY MemConstants DEF Region
  <2> QED BY <1>1, <1>5, <2>1
<1>7. 1 \in hit' => 1 \in hit
  BY <1>1, <1>5
<1>8. Alone'
  BY <1>2, <1>5, <1>7 DEF MemInv, Alone, B1
<1>9. Dangling'
  BY <1>2, <1>6 DEF MemInv, Dangling, DanglingReported
<1> QED BY <1>4, <1>8, <1>9 DEF MemInv

\* The programs' frees: the magic is gone, and the first leaves poison.
LEMMA ProgFree ==
    ASSUME MemInv, client # "any", pc \notin {"start", "failed"}, chaos_arena_free(User(B1))
    PROVE  /\ MemTypes' /\ Magics' /\ (AllSound' => Sane')
           /\ Len(blocks') = 1 /\ B1'.at = 0 /\ B1'.n = ALIGN /\ hit' = hit /\ 1 \notin hit
           /\ mem'[0] # Live
           /\ mem[0] = Live => mem'[User(B1)] = Poison
           /\ mem[0] # Live => res' = -1
<1>1. /\ 1 \in DOMAIN blocks /\ B1 = blocks[1] /\ B1.at = 0 /\ B1.n = ALIGN
      /\ User(B1) = HDR + REDZONE /\ User(B1) \in Region /\ 0 \in Region
      /\ mem[1] = ALIGN /\ MemTypes
  BY ProgramBlock DEF MemInv
<1>2. chaos_arena_free(User(blocks[1]))
  BY <1>1
<1>3. MemTypes' /\ Magics' /\ (AllSound' => Sane')
  BY <1>1, <1>2, FreeKeeps DEF MemInv
<1> DEFINE ok == mem[0] = Live
           S  == IF ok THEN Cells(User(B1), mem[1]) ELSE {}
<1>4. /\ \A c \in Region : mem'[c] = IF c \in S THEN Poison ELSE IF ok /\ c = 0 THEN Free ELSE mem[c]
      /\ res' = IF ok THEN 0 ELSE -1
      /\ hit' = hit
  BY <1>1, <1>2, FreeDoes
<1>5. Len(blocks') = 1 /\ B1'.at = 0 /\ B1'.n = ALIGN /\ 1 \notin hit
  <2>1. Len(blocks') = Len(blocks) /\ blocks'[1].at = blocks[1].at /\ blocks'[1].n = blocks[1].n
    BY <1>1, <1>2, FreeDoes
  <2> QED BY <1>1, <2>1 DEF MemInv, Alone, B1
<1>6. 0 \notin S /\ (ok => User(B1) \in S)
  BY <1>1, MemConstants, SMTT(30) DEF Cells, HDR
<1> HIDE DEF S
<1>7. mem'[0] # Live /\ (ok => mem'[User(B1)] = Poison)
  BY <1>1, <1>4, <1>6, MarksDiffer
<1> QED BY <1>3, <1>4, <1>5, <1>7

LEMMA ProgReport ==
    ASSUME MemInv, first_free \/ prog_report
    PROVE  MemInv'
<1>1. CASE first_free
  <2>1. /\ client \in {"double_free", "uaf_callback"} /\ client' = client /\ pc' = "report" /\ pc \notin {"start", "failed"}
        /\ client = "uaf_callback" => pc = "free"
        /\ chaos_arena_free(User(B1))
    BY <1>1 DEF first_free, Goes
  <2>2. /\ MemTypes' /\ Magics' /\ (AllSound' => Sane')
        /\ Len(blocks') = 1 /\ B1'.at = 0 /\ B1'.n = ALIGN /\ 1 \notin hit'
        /\ mem'[0] # Live /\ (mem[0] = Live => mem'[User(B1)] = Poison)
    BY <2>1, ProgFree
  <2>3. User(B1)' = User(B1)
    BY <2>1, <2>2, ProgramBlock DEF User
  <2>4. client = "uaf_callback" => mem[0] = Live
    BY <2>1 DEF MemInv, Dangling
  <2>5. Alone'
    BY <2>1, <2>2 DEF Alone
  <2>6. Dangling'
    BY <2>1, <2>2, <2>3, <2>4 DEF Dangling, DanglingReported
  <2> QED BY <2>2, <2>5, <2>6 DEF MemInv
<1>2. CASE prog_report /\ client = "double_free"
  <2>1. pc = "report" /\ pc' = "end" /\ client' = client /\ chaos_arena_free(User(B1))
    BY <1>2 DEF prog_report, Goes
  <2>2. /\ MemTypes' /\ Magics' /\ (AllSound' => Sane')
        /\ Len(blocks') = 1 /\ B1'.at = 0 /\ B1'.n = ALIGN /\ 1 \notin hit' /\ (mem[0] # Live => res' = -1)
    BY <1>2, <2>1, ProgFree
  <2>3. mem[0] # Live
    BY <1>2, <2>1 DEF MemInv, Dangling
  <2>4. Alone' /\ Dangling'
    BY <1>2, <2>1, <2>2, <2>3 DEF Alone, Dangling, DanglingReported
  <2> QED BY <2>2, <2>4 DEF MemInv
<1>3. CASE prog_report /\ client # "double_free"
  <2>1. /\ pc = "report" /\ pc' = "end" /\ client' = client /\ UNCHANGED <<mem, used, escaped, blocks, hit>>
        /\ client = "uaf_callback" => res' = mem[User(B1)]
    BY <1>3 DEF prog_report, Goes
  <2>2. MemTypes' /\ Magics' /\ (AllSound' => Sane')
    BY <2>1, StillSane DEF MemInv
  <2>3. Alone'
    BY <2>1 DEF MemInv, Alone, B1
  <2>4. Dangling'
    BY <1>3, <2>1 DEF MemInv, Dangling, DanglingReported
  <2> QED BY <2>2, <2>3, <2>4 DEF MemInv
<1> QED BY <1>1, <1>2, <1>3

LEMMA MemInvInit == MemInit => MemInv
<1> SUFFICES ASSUME MemInit PROVE MemInv
  OBVIOUS
<1>1. /\ blocks = <<>> /\ used = 0 /\ escaped = FALSE /\ pc \in {"start", "failed"} /\ mem = [c \in Region |-> Blank]
      /\ DOMAIN blocks = {}
  BY DEF MemInit
<1>2. MemTypes
  <2>1. blocks \in Seq(Block)
    BY <1>1, EmptySeq
  <2>2. Blank \in Nat
    BY MemConstants DEF Blank
  <2> QED BY <1>1, <2>1, <2>2 DEF MemTypes
<1>3. Magics
  BY <1>1, MemConstants DEF Magics, Blank, Live
<1>4. Laid /\ Freed /\ Sized /\ Contained
  BY <1>1, MemConstants DEF Laid, Freed, Sized, Contained
<1>5. Alone
  BY <1>1, MemAssumption DEF MemInit, Alone
<1>6. Dangling
  BY <1>1 DEF Dangling, DanglingReported
<1> QED BY <1>2, <1>3, <1>4, <1>5, <1>6 DEF MemInv, Sane

LEMMA MemInvNext == MemInv /\ [MemNext]_memVars => MemInv'
<1> SUFFICES ASSUME MemInv, [MemNext]_memVars PROVE MemInv'
  OBVIOUS
<1>1. CASE UNCHANGED memVars \/ any_destroy
  <2>1. UNCHANGED <<mem, used, escaped, blocks, hit>> /\ client' = client
    BY <1>1 DEF memVars, any_destroy, Goes
  <2>2. MemTypes' /\ Magics' /\ (AllSound' => Sane')
    BY <2>1, StillSane DEF MemInv
  <2>3. Alone' /\ Dangling'
    BY <1>1, <2>1 DEF memVars, any_destroy, MemInv, Alone, B1, Dangling, DanglingReported, User
  <2> QED BY <2>2, <2>3 DEF MemInv
<1>2. Terminating => UNCHANGED memVars
  BY DEF Terminating
<1> QED BY <1>1, <1>2, AnyKeeps, ProgAlloc, ProgWrite, ProgReport DEF MemNext

----------------------------------------------------------------------------
(* The walk: a function that satisfies the equation of CheckFrom exists *)

\* Induction: a set of naturals that is not empty has a least element.
LEMMA LeastNat ==
    ASSUME NEW T, T \subseteq Nat, T # {}
    PROVE  \E m \in T : \A k \in T : m <= k
<1>1. IsWellFoundedOn(OpToRel(<, Nat), Nat)
  BY NatLessThanWellFounded
<1>2. PICK m \in T : \A k \in T : ~(<<k, m>> \in OpToRel(<, Nat))
  BY <1>1, WFMin
<1>3. \A k \in T : ~(k < m)
  BY <1>2, Zenon DEF OpToRel
<1> QED BY <1>3

\* The zones of a block at off that are written over.
Bad(off) ==
    {z \in {Cells(off + HDR, REDZONE), Cells(off + HDR + REDZONE + round8(mem[off + 1]), REDZONE)} :
        \E c \in z \cap Region : mem[c] # Guard}

\* Where the walk goes on.
Onward(off) == off + HDR + 2 * REDZONE + round8(mem[off + 1])

\* The equation of CheckFrom, for a function f in its place.
Body(f, off) ==
    IF off >= used THEN 0
    ELSE IF off + 1 \notin Region \/ Wrecked(off) THEN -1
    ELSE IF f[Onward(off)] = -1 THEN -1 ELSE Cardinality(Bad(off)) + f[Onward(off)]

LEMMA WalkIsChosen == CheckFrom = CHOOSE f : f = [off \in Nat |-> Body(f, off)]
BY DEF CheckFrom, Body, Bad, Onward

\* A block has two redzones at most.
LEMMA BadFinite ==
    ASSUME NEW off
    PROVE  IsFiniteSet(Bad(off)) /\ Cardinality(Bad(off)) \in Nat
<1> DEFINE x == Cells(off + HDR, REDZONE)
           y == Cells(off + HDR + REDZONE + round8(mem[off + 1]), REDZONE)
<1> HIDE DEF x, y
<1>1. IsFiniteSet({x, y})
  <2>1. IsFiniteSet({x}) /\ {x, y} = {x} \cup {y}
    BY FS_Singleton
  <2> QED BY <2>1, FS_AddElement
<1>2. Bad(off) \subseteq {x, y}
  BY DEF Bad, x, y
<1> QED BY <1>1, <1>2, FS_Subset, FS_CardinalityType

\* The walk goes up, whatever the size in the header.
LEMMA WalkGoesOn ==
    ASSUME MemTypes, NEW off \in Nat, off + 1 \in Region
    PROVE  Onward(off) \in Nat /\ Onward(off) > off
<1>1. mem[off + 1] \in Nat
  BY DEF MemTypes
<1>2. round8(mem[off + 1]) \in Nat
  BY <1>1, RoundNat
<1> QED BY <1>2, MemConstants DEF Onward, HDR

\* f satisfies the equation from k cells below used on.
Walks(f, k) == f \in [Nat -> Int] /\ \A o \in Nat : o + k >= used => f[o] = Body(f, o)

\* The equation can be met one cell further down.
LEMMA WalkStep ==
    ASSUME MemTypes, NEW k \in Nat, NEW f, Walks(f, k)
    PROVE  \E g : Walks(g, k + 1)
<1>0. used \in Nat /\ f \in [Nat -> Int] /\ \A o \in Nat : o + k >= used => f[o] = Body(f, o)
  BY DEF MemTypes, Walks
<1>1. CASE k >= used
  <2>1. \A o \in Nat : f[o] = Body(f, o)
    BY <1>0, <1>1
  <2> QED BY <1>0, <2>1 DEF Walks
<1>2. CASE k < used
  <2> DEFINE p == used - k - 1
             g == [f EXCEPT ![p] = Body(f, p)]
  <2>1. p \in Nat
    BY <1>0, <1>2
  <2>2. Body(f, p) \in Int
    <3>1. CASE p + 1 \in Region
      <4>1. Onward(p) \in Nat
        BY <2>1, <3>1, WalkGoesOn
      <4>2. f[Onward(p)] \in Int /\ Cardinality(Bad(p)) \in Nat
        BY <1>0, <4>1, BadFinite
      <4> QED BY <4>2 DEF Body
    <3>2. CASE p + 1 \notin Region
      BY <3>2 DEF Body
    <3> QED BY <3>1, <3>2
  <2>3. g \in [Nat -> Int] /\ g[p] = Body(f, p) /\ \A o \in Nat : o # p => g[o] = f[o]
    BY <1>0, <2>1, <2>2
  <2> HIDE DEF g
  <2>4. ASSUME NEW o \in Nat, o + (k + 1) >= used
        PROVE  g[o] = Body(g, o)
    <3>1. o >= p
      BY <1>0, <2>4
    <3>2. o # p => o + k >= used
      BY <1>0, <2>4
    <3>3. g[o] = Body(f, o)
      BY <1>0, <2>3, <3>2
    <3>4. Body(g, o) = Body(f, o)
      <4>1. CASE o + 1 \in Region
        <5>1. Onward(o) \in Nat /\ Onward(o) # p
          BY <2>1, <3>1, <4>1, WalkGoesOn
        <5>2. g[Onward(o)] = f[Onward(o)]
          BY <2>3, <5>1
        <5> QED BY <5>2 DEF Body
      <4>2. CASE o + 1 \notin Region
        BY <4>2 DEF Body
      <4> QED BY <4>1, <4>2
    <3> QED BY <3>3, <3>4
  <2> QED BY <2>3, <2>4 DEF Walks
<1> QED BY <1>0, <1>1, <1>2

LEMMA WalkExists ==
    ASSUME MemTypes
    PROVE  \E f : f = [off \in Nat |-> Body(f, off)]
<1>1. used \in Nat
  BY DEF MemTypes
<1>2. \E f : Walks(f, 0)
  <2> DEFINE z == [o \in Nat |-> 0]
  <2>1. \A o \in Nat : o + 0 >= used => z[o] = Body(z, o)
    BY <1>1 DEF Body
  <2> QED BY <2>1 DEF Walks
<1>3. ASSUME ~\E f : Walks(f, used) PROVE FALSE
  <2> DEFINE T == {k \in Nat : ~\E f : Walks(f, k)}
  <2>1. PICK m \in T : \A k \in T : m <= k
    <3>1. T \subseteq Nat /\ T # {}
      BY <1>1, <1>3
    <3> HIDE DEF T
    <3> QED BY <3>1, LeastNat
  <2>2. m \in Nat /\ m # 0 /\ ~\E f : Walks(f, m)
    BY <1>2
  <2>3. m - 1 \in Nat /\ m - 1 \notin T
    BY <2>1, <2>2
  <2>4. PICK f : Walks(f, m - 1)
    BY <2>3
  <2>5. \E g : Walks(g, (m - 1) + 1)
    BY <2>3, <2>4, WalkStep
  <2> QED BY <2>2, <2>5
<1>4. PICK f : Walks(f, used)
  BY <1>3
<1>5. f \in [Nat -> Int] /\ \A o \in Nat : f[o] = Body(f, o)
  BY <1>1, <1>4 DEF Walks
<1>6. f = [o \in Nat |-> Body(f, o)]
  BY <1>5
<1> QED BY <1>6

\* The walk satisfies its equation.
LEMMA WalkIs ==
    ASSUME MemTypes, NEW off \in Nat
    PROVE  CheckFrom[off] = Body(CheckFrom, off)
<1>1. CheckFrom = [o \in Nat |-> Body(CheckFrom, o)]
  BY WalkExists, WalkIsChosen, Zenon
<1> HIDE DEF CheckFrom
<1> QED BY <1>1

\* The walk returns -1 or a count.
LEMMA WalkResult ==
    ASSUME MemTypes, NEW off \in Nat
    PROVE  CheckFrom[off] \in Nat \cup {-1}
<1>0. used \in Nat
  BY DEF MemTypes
<1> DEFINE Odd(o) == CheckFrom[o] \notin Nat \cup {-1}
           T == {k \in Nat : \E o \in Nat : o + k >= used /\ Odd(o)}
<1>1. SUFFICES ASSUME Odd(off) PROVE FALSE
  OBVIOUS
<1>2. used \in T
  BY <1>0, <1>1
<1>3. PICK m \in T : \A k \in T : m <= k
  <2>1. T \subseteq Nat /\ T # {}
    BY <1>2
  <2> HIDE DEF T
  <2> QED BY <2>1, LeastNat
<1>4. PICK o \in Nat : o + m >= used /\ Odd(o)
  OBVIOUS
<1>5. CheckFrom[o] = Body(CheckFrom, o)
  BY WalkIs
<1>6. o < used /\ o + 1 \in Region
  <2>1. ~(o >= used) /\ o + 1 \in Region
    BY <1>4, <1>5 DEF Body
  <2> QED BY <1>0, <2>1
<1>7. Onward(o) \in Nat /\ Onward(o) > o /\ Cardinality(Bad(o)) \in Nat
  BY <1>6, WalkGoesOn, BadFinite
<1>8. ~Odd(Onward(o))
  <2>1. m \in Nat /\ m # 0
    BY <1>0, <1>4, <1>6
  <2>2. m - 1 \in Nat /\ ~(m <= m - 1) /\ Onward(o) + (m - 1) >= used
    BY <1>0, <1>4, <1>7, <2>1
  <2>3. m - 1 \notin T
    BY <1>3, <2>2
  <2> QED BY <1>7, <2>2, <2>3
<1> DEFINE r == CheckFrom[Onward(o)]
<1>9. r \in Nat \cup {-1}
  BY <1>8
<1>10. CheckFrom[o] = -1 \/ (r # -1 /\ CheckFrom[o] = Cardinality(Bad(o)) + r)
  BY <1>0, <1>5, <1>6 DEF Body
<1> HIDE DEF r
<1> QED BY <1>4, <1>7, <1>9, <1>10

----------------------------------------------------------------------------
(* The redzones: what a client wrote over is what does not read as it should *)

\* A run that reaches a size passes over the magic or the redzone next to it.
LEMMA Reaches ==
    ASSUME MemTypes, AllSound, Laid, NEW j \in DOMAIN blocks, NEW S, OneRun(S), blocks[j].at + 1 \in S
    PROVE  blocks[j].at \in S \/ Pre(blocks[j]) \subseteq S
<1>1. PICK k \in DOMAIN blocks, l \in Nat : S = Cells(User(blocks[k]), l) \/ S = Cells(User(blocks[k]) - l, l)
  BY DEF OneRun
<1> DEFINE a == blocks[j].at
           e == blocks[k].at
           u == e + 2 + REDZONE
           p == Size(blocks[j])
           q == Size(blocks[k])
<1>2. /\ a \in Nat /\ e \in Nat /\ p \in Nat /\ q \in Nat
      /\ p >= 2 + 2 * REDZONE /\ q >= 2 + 2 * REDZONE
  BY BlockFacts, MemConstants DEF HDR
<1>3. a = e \/ a + p <= e \/ e + q <= a
  BY Apart
<1>4. Pre(blocks[j]) = (a + 2)..(a + 2 + REDZONE - 1) /\ User(blocks[k]) = u
  BY DEF Pre, Cells, User, HDR
<1> HIDE DEF a, e, p, q
<1>0. REDZONE \in Nat /\ REDZONE > 0
  BY MemConstants
<1>5. CASE S = Cells(User(blocks[k]), l)
  <2>1. S = u..(u + l - 1) /\ a + 1 \in S
    BY <1>4, <1>5 DEF Cells, a
  <2>2. a + 1 >= u /\ a + 1 <= u + l - 1
    BY <1>0, <1>2, <2>1
  <2>3. u <= a
    BY <1>0, <1>2, <1>3, <2>2
  <2>4. a \in S
    BY <1>0, <1>2, <2>1, <2>2, <2>3
  <2> QED BY <2>4 DEF a
<1>6. CASE S = Cells(User(blocks[k]) - l, l)
  <2>1. S = (u - l)..((u - l) + l - 1) /\ a + 1 \in S
    BY <1>4, <1>6 DEF Cells, a
  <2>2. a + 1 >= u - l /\ a + 1 <= u - 1
    BY <1>0, <1>2, <2>1
  <2>3. a + 2 + REDZONE <= u
    BY <1>0, <1>2, <1>3, <2>2
  <2>4. ASSUME NEW c \in Pre(blocks[j]) PROVE c \in S
    <3>1. c \in Int /\ c >= a + 2 /\ c <= a + 2 + REDZONE - 1
      BY <1>0, <1>2, <1>4
    <3>2. c >= u - l /\ c <= (u - l) + l - 1
      BY <1>0, <1>2, <2>2, <2>3, <3>1
    <3> QED BY <1>0, <1>2, <2>1, <3>1, <3>2
  <2> QED BY <2>4
<1> QED BY <1>1, <1>5, <1>6

\* A write: what it hits beyond the data no longer reads as it should.
LEMMA WriteZones ==
    ASSUME MemTypes, AllSound, Laid, Zoned, NEW S, NEW v \in 0..(UInt32 - 1), Write(S, v), OneRun(S)
    PROVE  Zoned'
<1>1. /\ \A c \in Region : c \notin S => mem'[c] = mem[c]
      /\ \A c \in Region : c \in S => mem'[c] \notin {Live, Free, Guard}
  BY WriteFacts
<1>2. hit' = hit \cup (S \ Owned) /\ blocks' = blocks
  BY WriteFacts
<1>3. ASSUME NEW j, Trusted(j)' PROVE Trusted(j)
  BY <1>2, <1>3 DEF Trusted
<1>4. ASSUME NEW j \in DOMAIN blocks
      PROVE  /\ blocks[j].at \in hit' => mem'[blocks[j].at] \notin {Live, Free}
             /\ \A c \in Edge(blocks[j]) : c \in hit' => mem'[c] # Guard
             /\ blocks[j].at + 1 \in hit' => blocks[j].at \in hit' \/ Pre(blocks[j]) \subseteq hit'
             /\ Trusted(j)' => (mem'[blocks[j].at] \notin {Live, Free} => blocks[j].at \in hit')
             /\ Trusted(j + 1)' => \A c \in Edge(blocks[j]) : mem'[c] # Guard => c \in hit'
  <2>1. blocks[j].at \in Region /\ \A c \in Edge(blocks[j]) : c \in Region
    BY LaidFacts, EdgePlaces
  <2>2. blocks[j].at \notin Owned /\ \A c \in Edge(blocks[j]) : c \notin Owned
    BY NotOwned
  <2>3. /\ blocks[j].at \in hit => mem[blocks[j].at] \notin {Live, Free}
        /\ \A c \in Edge(blocks[j]) : c \in hit => mem[c] # Guard
        /\ blocks[j].at + 1 \in hit => blocks[j].at \in hit \/ Pre(blocks[j]) \subseteq hit
        /\ Trusted(j) => (mem[blocks[j].at] \notin {Live, Free} => blocks[j].at \in hit)
        /\ Trusted(j + 1) => \A c \in Edge(blocks[j]) : mem[c] # Guard => c \in hit
    BY DEF Zoned, Wrecked
  <2>4. blocks[j].at \in hit' => mem'[blocks[j].at] \notin {Live, Free}
    BY <1>1, <1>2, <2>1, <2>3
  <2>5. \A c \in Edge(blocks[j]) : c \in hit' => mem'[c] # Guard
    BY <1>1, <1>2, <2>1, <2>3
  <2>6. blocks[j].at + 1 \in hit' => blocks[j].at \in hit' \/ Pre(blocks[j]) \subseteq hit'
    <3>1. CASE blocks[j].at + 1 \in S
      <4>1. blocks[j].at \in S \/ Pre(blocks[j]) \subseteq S
        BY <3>1, Reaches
      <4>2. Pre(blocks[j]) \subseteq Edge(blocks[j])
        BY DEF Edge
      <4> QED BY <1>2, <2>2, <4>1, <4>2
    <3>2. CASE blocks[j].at + 1 \notin S
      BY <1>2, <2>3, <3>2
    <3> QED BY <3>1, <3>2
  <2>7. Trusted(j)' => (mem'[blocks[j].at] \notin {Live, Free} => blocks[j].at \in hit')
    BY <1>1, <1>2, <1>3, <2>1, <2>2, <2>3
  <2>8. Trusted(j + 1)' => \A c \in Edge(blocks[j]) : mem'[c] # Guard => c \in hit'
    BY <1>1, <1>2, <1>3, <2>1, <2>2, <2>3
  <2> QED BY <2>4, <2>5, <2>6, <2>7, <2>8
<1> QED BY <1>2, <1>4 DEF Zoned, Wrecked, Edge, Pre, Post, User

\* chaos_arena_free: its block is not wrecked after it, and what it spoils lies
\* behind a size that was written over.
LEMMA FreeZones ==
    ASSUME MemTypes, AllSound, Laid, Sized, Packed, guarded => Zoned,
           NEW j \in DOMAIN blocks, chaos_arena_free(User(blocks[j]))
    PROVE  Packed' /\ (guarded => Zoned')
<1> DEFINE h  == blocks[j].at
           ok == h \in Region /\ mem[h] = Live
           S0 == Cells(User(blocks[j]), mem[h + 1])
           S  == IF ok THEN S0 ELSE {}
<1>1. /\ \A c \in Region : mem'[c] = IF c \in S THEN Poison ELSE IF ok /\ c = h THEN Free ELSE mem[c]
      /\ used' = used /\ hit' = hit
  BY FreeDoes
<1>2. /\ DOMAIN blocks' = DOMAIN blocks
      /\ \A k \in DOMAIN blocks : blocks'[k].at = blocks[k].at /\ blocks'[k].n = blocks[k].n
  BY FreeDoes
<1>3. S \subseteq S0
  OBVIOUS
<1> HIDE DEF S
<1>4. \A k \in DOMAIN blocks :
        /\ Size(blocks'[k]) = Size(blocks[k]) /\ Edge(blocks'[k]) = Edge(blocks[k]) /\ Pre(blocks'[k]) = Pre(blocks[k])
  BY <1>2 DEF Size, Edge, Pre, Post, User
<1>5. \A k : Trusted(k)' <=> Trusted(k)
  BY <1>1, <1>2 DEF Trusted
<1>6. Packed'
  <2>1. \A k : Start(k)' = Start(k)
    BY <1>1, <1>2 DEF Start
  <2>2. ASSUME NEW k \in DOMAIN blocks' PROVE Start(k + 1)' = blocks'[k].at + Size(blocks'[k])
    BY <1>2, <1>4, <2>1, <2>2 DEF Packed
  <2> QED BY <2>1, <2>2 DEF Packed
<1>7. ASSUME guarded, NEW k \in DOMAIN blocks
      PROVE  /\ blocks[k].at \in hit => mem'[blocks[k].at] \notin {Live, Free}
             /\ \A c \in Edge(blocks[k]) : c \in hit => mem'[c] # Guard
             /\ blocks[k].at + 1 \in hit => blocks[k].at \in hit \/ Pre(blocks[k]) \subseteq hit
             /\ Trusted(k) => (mem'[blocks[k].at] \notin {Live, Free} => blocks[k].at \in hit)
             /\ Trusted(k + 1) => \A c \in Edge(blocks[k]) : mem'[c] # Guard => c \in hit
  <2>1. /\ blocks[k].at \in hit => mem[blocks[k].at] \notin {Live, Free}
        /\ \A c \in Edge(blocks[k]) : c \in hit => mem[c] # Guard
        /\ blocks[k].at + 1 \in hit => blocks[k].at \in hit \/ Pre(blocks[k]) \subseteq hit
        /\ Trusted(k) => (mem[blocks[k].at] \notin {Live, Free} => blocks[k].at \in hit)
        /\ Trusted(k + 1) => \A c \in Edge(blocks[k]) : mem[c] # Guard => c \in hit
    BY <1>7 DEF Zoned, Wrecked
  <2>2. blocks[k].at \in Region /\ \A c \in Edge(blocks[k]) : c \in Region
    BY LaidFacts, EdgePlaces
  <2>3. \A c \in Edge(blocks[k]) : c # h
    BY HeaderApart
  <2>4. /\ Trusted(k) => blocks[k].at \notin S
        /\ Trusted(k + 1) => \A c \in Edge(blocks[k]) : c \notin S
    BY <1>3, FreeSpares
  <2>5. blocks[k].at \in hit => mem'[blocks[k].at] \notin {Live, Free}
    <3> SUFFICES ASSUME blocks[k].at \in hit PROVE mem'[blocks[k].at] \notin {Live, Free}
      OBVIOUS
    <3>1. ~(ok /\ blocks[k].at = h)
      BY <2>1
    <3>2. mem'[blocks[k].at] = Poison \/ mem'[blocks[k].at] = mem[blocks[k].at]
      BY <1>1, <2>2, <3>1
    <3> QED BY <2>1, <3>2, MarksDiffer
  <2>6. ASSUME NEW c \in Edge(blocks[k]) PROVE mem'[c] = IF c \in S THEN Poison ELSE mem[c]
    BY <1>1, <2>2, <2>3
  <2>7. \A c \in Edge(blocks[k]) : c \in hit => mem'[c] # Guard
    BY <2>1, <2>6, MarksDiffer
  <2>8. ASSUME Trusted(k), mem'[blocks[k].at] \notin {Live, Free} PROVE blocks[k].at \in hit
    <3>1. mem'[blocks[k].at] = Free \/ mem'[blocks[k].at] = mem[blocks[k].at]
      BY <1>1, <2>2, <2>4, <2>8
    <3> QED BY <2>1, <2>8, <3>1
  <2>9. ASSUME Trusted(k + 1), NEW c \in Edge(blocks[k]), mem'[c] # Guard PROVE c \in hit
    BY <2>1, <2>4, <2>6, <2>9
  <2> QED BY <2>1, <2>5, <2>7, <2>8, <2>9
<1>8. ASSUME guarded PROVE Zoned'
  BY <1>1, <1>2, <1>4, <1>5, <1>7, <1>8 DEF Zoned, Wrecked
<1> QED BY <1>6, <1>8

\* chaos_arena_alloc: the new block follows the last, with whole redzones.
LEMMA AllocZones ==
    ASSUME MemTypes, NEW n \in 0..(SizeT - 1), alloc_block(n), AllSound',
           AllSound => Laid /\ Packed /\ (guarded => Zoned)
    PROVE  Packed' /\ (guarded => Zoned')
<1> DEFINE b     == [at |-> used, n |-> n, freed |-> 0]
           zones == IF guarded THEN Edge(b) ELSE {}
<1>1. /\ AllSound /\ Laid /\ b.at = used
      /\ used \in Nat /\ Size(b) \in Nat /\ Size(b) > HDR /\ used' = used + Size(b) /\ used + Size(b) <= Total
      /\ \A c \in Edge(b) : c \in Int /\ c >= used + HDR /\ c < used + Size(b)
      /\ Len(blocks) \in Nat /\ DOMAIN blocks = 1..Len(blocks) /\ DOMAIN blocks' = 1..(Len(blocks) + 1)
      /\ \A k \in 1..Len(blocks) : blocks'[k] = blocks[k]
      /\ blocks'[Len(blocks) + 1] = b
      /\ \A c \in Region : c \notin {used, used + 1} => mem'[c] = IF c \in zones THEN Guard ELSE mem[c]
      /\ mem'[used] = Live
      /\ hit' = hit \ Cells(used, Size(b))
  BY AllocPlaces
<1> HIDE DEF b
<1>2. Packed /\ (guarded => Zoned)
  BY <1>1
<1>3. /\ used \in Nat /\ Size(b) \in Nat /\ Size(b) > HDR /\ used' = used + Size(b) /\ used + Size(b) <= Total
      /\ b.at = used
  BY <1>1
<1>4. /\ Len(blocks) \in Nat /\ DOMAIN blocks = 1..Len(blocks) /\ DOMAIN blocks' = 1..(Len(blocks) + 1)
      /\ \A k \in 1..Len(blocks) : blocks'[k] = blocks[k]
      /\ blocks'[Len(blocks) + 1] = b
  BY <1>1
<1>5. \A c \in Edge(b) : c \in Int /\ c >= used + HDR /\ c < used + Size(b)
  BY <1>1
<1>6. Packed'
  <2>1. \A k \in 1..Len(blocks) + 1 : Start(k)' = Start(k)
    BY <1>1 DEF Start
  <2>2. ASSUME NEW k \in DOMAIN blocks' PROVE Start(k + 1)' = blocks'[k].at + Size(blocks'[k])
    <3>1. CASE k = Len(blocks) + 1
      <4>1. k + 1 = Len(blocks) + 2 /\ blocks'[k] = b
        BY <1>4, <3>1
      <4>2. blocks'[k].at + Size(blocks'[k]) = used'
        BY <1>3, <4>1
      <4>3. Start(k + 1)' = used'
        BY <1>4, <4>1 DEF Start
      <4> QED BY <4>2, <4>3
    <3>2. CASE k # Len(blocks) + 1
      <4>1. k \in 1..Len(blocks) /\ k + 1 \in 1..Len(blocks) + 1 /\ blocks'[k] = blocks[k]
        BY <1>4, <2>2, <3>2
      <4> QED BY <1>2, <1>4, <2>1, <4>1 DEF Packed
    <3> QED BY <3>1, <3>2
  <2>3. 1 \in 1..Len(blocks) + 1
    BY <1>4
  <2> QED BY <1>2, <2>1, <2>2, <2>3 DEF Packed
<1>7. ASSUME NEW k \in DOMAIN blocks'
      PROVE  k = Len(blocks) + 1 \/ (k \in DOMAIN blocks /\ blocks'[k] = blocks[k])
  BY <1>4
<1>8. ASSUME NEW c \in Region, c < used
      PROVE  mem'[c] = mem[c] /\ (c \in hit' <=> c \in hit)
  <2>1. c \in Int /\ c \notin {used, used + 1} /\ c \notin zones /\ c \notin Cells(used, Size(b))
    BY <1>3, <1>5, <1>8 DEF Region, HDR, Cells
  <2> QED BY <1>1, <2>1
<1>9. ASSUME NEW k \in DOMAIN blocks
      PROVE  /\ blocks[k].at \in Region /\ blocks[k].at < used
             /\ blocks[k].at + 1 \in Region /\ blocks[k].at + 1 < used
             /\ \A c \in Edge(blocks[k]) : c \in Region /\ c < used
  <2>1. /\ blocks[k].at \in Nat /\ Size(blocks[k]) = HDR + 2 * REDZONE + round8(blocks[k].n)
        /\ round8(blocks[k].n) \in Nat /\ blocks[k].at + Size(blocks[k]) <= used
    BY <1>1, BlockFacts DEF Laid
  <2>2. blocks[k].at \in Region /\ blocks[k].at + 1 \in Region
    BY <1>1, LaidFacts
  <2>3. blocks[k].at < used /\ blocks[k].at + 1 < used
    BY <1>3, <2>1, MemConstants DEF HDR
  <2>4. ASSUME NEW c \in Edge(blocks[k]) PROVE c \in Region /\ c < used
    <3>1. c \in Int /\ c \in Region /\ c < blocks[k].at + Size(blocks[k])
      BY <1>1, EdgePlaces
    <3>2. Size(blocks[k]) \in Nat
      BY BlockFacts
    <3> QED BY <1>3, <2>1, <3>1, <3>2
  <2> QED BY <2>2, <2>3, <2>4
<1>10. ASSUME NEW k, Trusted(k)' PROVE Trusted(k)
  <2>1. ASSUME NEW i \in DOMAIN blocks, i < k PROVE blocks[i].at + 1 \notin hit
    <3>1. i \in DOMAIN blocks' /\ blocks'[i] = blocks[i]
      BY <1>4
    <3>2. blocks[i].at + 1 \notin hit'
      BY <1>10, <2>1, <3>1 DEF Trusted
    <3> QED BY <1>8, <1>9, <3>2
  <2> QED BY <2>1 DEF Trusted
<1>11. ASSUME guarded, NEW k \in DOMAIN blocks'
       PROVE  /\ blocks'[k].at \in hit' => mem'[blocks'[k].at] \notin {Live, Free}
              /\ \A c \in Edge(blocks'[k]) : c \in hit' => mem'[c] # Guard
              /\ blocks'[k].at + 1 \in hit' => blocks'[k].at \in hit' \/ Pre(blocks'[k]) \subseteq hit'
              /\ Trusted(k)' => (mem'[blocks'[k].at] \notin {Live, Free} => blocks'[k].at \in hit')
              /\ Trusted(k + 1)' => \A c \in Edge(blocks'[k]) : mem'[c] # Guard => c \in hit'
  <2>1. CASE k = Len(blocks) + 1
    <3>1. used \in Cells(used, Size(b)) /\ used + 1 \in Cells(used, Size(b)) /\ \A c \in Edge(b) : c \in Cells(used, Size(b))
      <4>1. used \in used..(used + Size(b) - 1) /\ used + 1 \in used..(used + Size(b) - 1)
        BY <1>3 DEF HDR
      <4>2. ASSUME NEW c \in Edge(b) PROVE c \in used..(used + Size(b) - 1)
        <5>1. c \in Int /\ c >= used + HDR /\ c < used + Size(b)
          BY <1>5
        <5> QED BY <1>3, <5>1 DEF HDR
      <4> QED BY <4>1, <4>2 DEF Cells
    <3>2. ASSUME NEW c \in Edge(b) PROVE mem'[c] = Guard
      <4>1. c \in Region /\ c \notin {used, used + 1}
        <5>1. c \in Int /\ c >= used + HDR /\ c < used + Size(b)
          BY <1>5
        <5> QED BY <1>3, <5>1, MemConstants DEF Region, HDR
      <4> QED BY <1>1, <1>11, <4>1
    <3>3. blocks'[k] = b /\ b.at = used /\ mem'[used] = Live
      BY <1>1, <2>1
    <3>4. used \notin hit' /\ used + 1 \notin hit' /\ \A c \in Edge(b) : c \notin hit'
      BY <1>1, <3>1
    <3> QED BY <3>2, <3>3, <3>4
  <2>2. CASE k \in DOMAIN blocks /\ blocks'[k] = blocks[k]
    <3>1. /\ blocks[k].at \in hit => mem[blocks[k].at] \notin {Live, Free}
          /\ \A c \in Edge(blocks[k]) : c \in hit => mem[c] # Guard
          /\ blocks[k].at + 1 \in hit => blocks[k].at \in hit \/ Pre(blocks[k]) \subseteq hit
          /\ Trusted(k) => (mem[blocks[k].at] \notin {Live, Free} => blocks[k].at \in hit)
          /\ Trusted(k + 1) => \A c \in Edge(blocks[k]) : mem[c] # Guard => c \in hit
      BY <1>2, <1>11, <2>2 DEF Zoned, Wrecked
    <3>2. /\ mem'[blocks[k].at] = mem[blocks[k].at] /\ (blocks[k].at \in hit' <=> blocks[k].at \in hit)
          /\ blocks[k].at + 1 \in hit' <=> blocks[k].at + 1 \in hit
      BY <1>8, <1>9, <2>2
    <3>3. \A c \in Edge(blocks[k]) : mem'[c] = mem[c] /\ (c \in hit' <=> c \in hit)
      BY <1>8, <1>9, <2>2
    <3>4. Pre(blocks[k]) \subseteq Edge(blocks[k])
      BY DEF Edge
    <3>5. blocks[k].at + 1 \in hit' => blocks[k].at \in hit' \/ Pre(blocks[k]) \subseteq hit'
      BY <3>1, <3>2, <3>3, <3>4
    <3> QED BY <1>10, <2>2, <3>1, <3>2, <3>3, <3>5
  <2> QED BY <1>7, <2>1, <2>2
<1>12. ASSUME guarded PROVE Zoned'
  BY <1>11, <1>12 DEF Zoned, Wrecked
<1> QED BY <1>6, <1>12

----------------------------------------------------------------------------
(* The walk along the blocks, with every size intact *)

\* What was written over is what does not read as it should.
Headed == \A j \in DOMAIN blocks : mem[blocks[j].at + 1] = blocks[j].n
Clear  == \A j \in DOMAIN blocks :
    /\ blocks[j].at \in hit <=> Wrecked(blocks[j].at)
    /\ \A c \in Edge(blocks[j]) : c \in hit <=> mem[c] # Guard

LEMMA IntactReads ==
    ASSUME Sized, Zoned, SizesIntact
    PROVE  Headed /\ Clear
<1>1. \A j : Trusted(j)
  BY DEF Trusted, SizesIntact
<1>2. Headed
  BY <1>1 DEF Headed, Sized
<1>3. Clear
  BY <1>1 DEF Clear, Zoned
<1> QED BY <1>2, <1>3

\* The redzones from block k on, and those among them that were written over.
ZonesFrom(k) == UNION {{Pre(blocks[j]), Post(blocks[j])} : j \in {i \in DOMAIN blocks : i >= k}}
HitZones(k)  == {z \in ZonesFrom(k) : z \cap hit # {}}

\* What the walk is to find from block k on.
Verdict(k) == IF \E j \in DOMAIN blocks : j >= k /\ blocks[j].at \in hit THEN -1 ELSE Cardinality(HitZones(k))

\* At a block the walk sees its redzones and goes on to the next block.
LEMMA WalkAtBlock ==
    ASSUME MemTypes, AllSound, Laid, Headed, Packed, Clear, NEW k \in DOMAIN blocks
    PROVE  /\ blocks[k].at \in Nat /\ blocks[k].at < used /\ blocks[k].at + 1 \in Region
           /\ Wrecked(blocks[k].at) <=> blocks[k].at \in hit
           /\ Onward(blocks[k].at) = Start(k + 1)
           /\ Bad(blocks[k].at) = {z \in {Pre(blocks[k]), Post(blocks[k])} : z \cap hit # {}}
<1>1. /\ blocks[k].at \in Nat /\ round8(blocks[k].n) \in Nat
      /\ Size(blocks[k]) = HDR + 2 * REDZONE + round8(blocks[k].n)
  BY BlockFacts
<1>2. blocks[k].at < used
  <2>1. blocks[k].at + Size(blocks[k]) <= used /\ used \in Nat
    BY DEF Laid, MemTypes
  <2> QED BY <1>1, <2>1, MemConstants DEF HDR
<1>3. blocks[k].at + 1 \in Region
  BY LaidFacts
<1>4. Wrecked(blocks[k].at) <=> blocks[k].at \in hit
  BY DEF Clear
<1>5. mem[blocks[k].at + 1] = blocks[k].n
  BY DEF Headed
<1>6. Onward(blocks[k].at) = Start(k + 1)
  <2>1. Onward(blocks[k].at) = blocks[k].at + HDR + 2 * REDZONE + round8(blocks[k].n)
    BY <1>5 DEF Onward
  <2>2. Start(k + 1) = blocks[k].at + Size(blocks[k])
    BY DEF Packed
  <2> QED BY <1>1, <2>1, <2>2, MemConstants DEF HDR
<1>7. Bad(blocks[k].at) = {z \in {Pre(blocks[k]), Post(blocks[k])} : \E c \in z \cap Region : mem[c] # Guard}
  BY <1>5 DEF Bad, Pre, Post, User
<1>8. \A c \in Pre(blocks[k]) \cup Post(blocks[k]) : c \in Region /\ (c \in hit <=> mem[c] # Guard)
  BY EdgePlaces DEF Clear, Edge
<1>9. Bad(blocks[k].at) = {z \in {Pre(blocks[k]), Post(blocks[k])} : z \cap hit # {}}
  BY <1>7, <1>8
<1> QED BY <1>1, <1>2, <1>3, <1>4, <1>6, <1>9

\* The redzones of a block are none of a later one.
LEMMA ZonesSplit ==
    ASSUME MemTypes, AllSound, Laid, Headed, Packed, Clear, NEW k \in DOMAIN blocks
    PROVE  /\ HitZones(k) = Bad(blocks[k].at) \cup HitZones(k + 1)
           /\ Bad(blocks[k].at) \cap HitZones(k + 1) = {}
<1>1. DOMAIN blocks = 1..Len(blocks) /\ Len(blocks) \in Nat
  BY LenProperties DEF MemTypes
<1>2. Bad(blocks[k].at) = {z \in {Pre(blocks[k]), Post(blocks[k])} : z \cap hit # {}}
  BY WalkAtBlock
<1>3. {i \in DOMAIN blocks : i >= k} = {k} \cup {i \in DOMAIN blocks : i >= k + 1}
  BY <1>1
<1>4. HitZones(k) = Bad(blocks[k].at) \cup HitZones(k + 1)
  BY <1>2, <1>3 DEF HitZones, ZonesFrom
<1>5. ASSUME NEW z \in Bad(blocks[k].at), z \in HitZones(k + 1) PROVE FALSE
  <2>1. PICK c : c \in z
    BY <1>2
  <2>2. PICK j \in DOMAIN blocks : j >= k + 1 /\ z \in {Pre(blocks[j]), Post(blocks[j])}
    BY <1>5 DEF HitZones, ZonesFrom
  <2>3. c \in Int /\ c < blocks[k].at + Size(blocks[k])
    BY <1>2, <2>1, EdgePlaces DEF Edge
  <2>4. c >= blocks[j].at + HDR
    BY <2>1, <2>2, EdgePlaces DEF Edge
  <2>5. blocks[k].at + Size(blocks[k]) <= blocks[j].at
    BY <1>1, <2>2 DEF Laid
  <2>6. blocks[k].at \in Nat /\ Size(blocks[k]) \in Nat /\ blocks[j].at \in Nat
    BY BlockFacts
  <2> QED BY <2>3, <2>4, <2>5, <2>6 DEF HDR
<1> QED BY <1>4, <1>5

\* The walk from block k on finds what it is to find.
Found(k) == IsFiniteSet(HitZones(k)) /\ CheckFrom[Start(k)] = Verdict(k)

\* If it does from the next block on, it does from this one.
LEMMA WalkBack ==
    ASSUME MemTypes, AllSound, Laid, Headed, Packed, Clear, NEW k \in DOMAIN blocks, Found(k + 1)
    PROVE  Found(k)
<1> DEFINE a == blocks[k].at
           rest == CheckFrom[Start(k + 1)]
           later == \E j \in DOMAIN blocks : j >= k + 1 /\ blocks[j].at \in hit
<1>1. /\ a \in Nat /\ a < used /\ a + 1 \in Region /\ (Wrecked(a) <=> a \in hit)
      /\ Onward(a) = Start(k + 1)
  BY WalkAtBlock
<1>2. used \in Nat /\ Start(k) = a /\ k \in Nat /\ DOMAIN blocks \subseteq Nat
  BY LenProperties DEF MemTypes, Start
<1>3. CheckFrom[a] = Body(CheckFrom, a)
  BY <1>1, WalkIs
<1>4. Body(CheckFrom, a) = IF a \in hit THEN -1 ELSE IF rest = -1 THEN -1 ELSE Cardinality(Bad(a)) + rest
  BY <1>1, <1>2 DEF Body
<1>5. IsFiniteSet(HitZones(k + 1)) /\ rest = IF later THEN -1 ELSE Cardinality(HitZones(k + 1))
  BY DEF Found, Verdict
<1>6. IsFiniteSet(Bad(a)) /\ Cardinality(Bad(a)) \in Nat /\ Cardinality(HitZones(k + 1)) \in Nat
  BY <1>5, BadFinite, FS_CardinalityType
<1>7. IsFiniteSet(HitZones(k)) /\ Cardinality(HitZones(k)) = Cardinality(Bad(a)) + Cardinality(HitZones(k + 1))
  <2>1. HitZones(k) = Bad(a) \cup HitZones(k + 1) /\ Bad(a) \cap HitZones(k + 1) = {}
    BY ZonesSplit
  <2>2. Cardinality(Bad(a) \cap HitZones(k + 1)) = 0
    BY <2>1, FS_EmptySet
  <2>3. /\ IsFiniteSet(Bad(a) \cup HitZones(k + 1))
        /\ Cardinality(Bad(a) \cup HitZones(k + 1)) =
              Cardinality(Bad(a)) + Cardinality(HitZones(k + 1)) - Cardinality(Bad(a) \cap HitZones(k + 1))
    BY <1>5, <1>6, FS_Union
  <2> QED BY <1>6, <2>1, <2>2, <2>3
<1>8. (\E j \in DOMAIN blocks : j >= k /\ blocks[j].at \in hit) <=> (a \in hit \/ later)
  BY <1>2
<1> HIDE DEF rest, later, a
<1>9. CheckFrom[a] = IF a \in hit \/ later THEN -1 ELSE Cardinality(HitZones(k))
  BY <1>3, <1>4, <1>5, <1>6, <1>7
<1> QED BY <1>2, <1>7, <1>8, <1>9 DEF Found, Verdict

\* Hence from the first, block by block from the last.
LEMMA WalkFinds ==
    ASSUME MemTypes, AllSound, Laid, Headed, Packed, Clear
    PROVE  CheckFrom[0] = Verdict(1)
<1>1. DOMAIN blocks = 1..Len(blocks) /\ Len(blocks) \in Nat /\ used \in Nat
  BY LenProperties DEF MemTypes
<1> DEFINE L == Len(blocks)
           T == {i \in 0..L : ~Found(L + 1 - i)}
<1>2. Found(L + 1)
  <2>1. Start(L + 1) = used
    BY <1>1 DEF Start
  <2>2. CheckFrom[used] = 0
    <3>1. CheckFrom[used] = Body(CheckFrom, used)
      BY <1>1, WalkIs
    <3> QED BY <1>1, <3>1 DEF Body
  <2>3. \A j \in DOMAIN blocks : ~(j >= L + 1)
    BY <1>1
  <2>4. HitZones(L + 1) = {}
    BY <2>3 DEF HitZones, ZonesFrom
  <2> QED BY <2>1, <2>2, <2>3, <2>4, FS_EmptySet DEF Found, Verdict
<1>3. ASSUME T # {} PROVE FALSE
  <2>1. T \subseteq Nat
    BY <1>1
  <2>2. PICK m \in T : \A i \in T : m <= i
    <3> HIDE DEF T
    <3> QED BY <1>3, <2>1, LeastNat
  <2>3. m \in 0..L /\ m # 0 /\ ~Found(L + 1 - m)
    BY <1>1, <1>2
  <2>4. m - 1 \in 0..L /\ m - 1 \notin T
    BY <1>1, <2>2, <2>3
  <2> DEFINE k == L + 1 - m
  <2>5. k \in DOMAIN blocks /\ L + 1 - (m - 1) = k + 1
    BY <1>1, <2>3
  <2>6. Found(k + 1)
    <3>1. Found(L + 1 - (m - 1))
      BY <2>4
    <3> QED BY <2>5, <3>1
  <2>7. Found(k)
    <3> HIDE DEF k
    <3> QED BY <2>5, <2>6, WalkBack
  <2> QED BY <2>3, <2>7
<1>4. Found(1)
  <2>1. L \in 0..L /\ L \notin T
    BY <1>1, <1>3
  <2>2. Found(L + 1 - L)
    BY <2>1
  <2>3. L + 1 - L = 1
    BY <1>1
  <2> QED BY <2>2, <2>3
<1> QED BY <1>4 DEF Found, Packed

LEMMA WalkExact ==
    ASSUME MemTypes, AllSound, Sane, Packed, Zoned, guarded, SizesIntact
    PROVE  chaos_arena_check = Damage
<1>0. Laid /\ Headed /\ Clear
  BY IntactReads DEF Sane
<1>1. chaos_arena_check = Verdict(1)
  BY <1>0, WalkFinds DEF chaos_arena_check
<1>2. {i \in DOMAIN blocks : i >= 1} = DOMAIN blocks
  <2>1. DOMAIN blocks = 1..Len(blocks) /\ Len(blocks) \in Nat
    BY LenProperties DEF MemTypes
  <2> QED BY <2>1
<1>3. HitZones(1) = {z \in UNION {{Pre(blocks[j]), Post(blocks[j])} : j \in DOMAIN blocks} : z \cap hit # {}}
  BY <1>2 DEF HitZones, ZonesFrom
<1>4. (\E j \in DOMAIN blocks : j >= 1 /\ blocks[j].at \in hit) <=> (\E j \in DOMAIN blocks : blocks[j].at \in hit)
  BY <1>2
<1> QED BY <1>1, <1>3, <1>4 DEF Verdict, Damage

----------------------------------------------------------------------------
(* The walk when a size may be wrong *)

\* At a block whose size and those in front of it are intact the walk goes on to
\* the next block.
LEMMA WalkOnward ==
    ASSUME MemTypes, AllSound, Laid, Sized, Packed, NEW k \in DOMAIN blocks, Trusted(k + 1)
    PROVE  Onward(blocks[k].at) = Start(k + 1)
<1>1. Onward(blocks[k].at) = blocks[k].at + HDR + 2 * REDZONE + round8(blocks[k].n)
  BY DEF Onward, Sized
<1>2. Start(k + 1) = blocks[k].at + Size(blocks[k])
  BY DEF Packed
<1>3. /\ blocks[k].at \in Nat /\ round8(blocks[k].n) \in Nat
      /\ Size(blocks[k]) = HDR + 2 * REDZONE + round8(blocks[k].n)
  BY BlockFacts
<1> QED BY <1>1, <1>2, <1>3, MemConstants DEF HDR

\* One step of the walk, at a block.
LEMMA WalkHere ==
    ASSUME MemTypes, AllSound, Laid, NEW k \in DOMAIN blocks
    PROVE  LET a == blocks[k].at  r == CheckFrom[Onward(a)] IN
           /\ Start(k) = a /\ Onward(a) \in Nat /\ r \in Nat \cup {-1} /\ Cardinality(Bad(a)) \in Nat
           /\ CheckFrom[a] = IF Wrecked(a) THEN -1 ELSE IF r = -1 THEN -1 ELSE Cardinality(Bad(a)) + r
<1> DEFINE a == blocks[k].at  r == CheckFrom[Onward(a)]
<1>1. a \in Nat /\ a + 1 \in Region /\ Start(k) = a
  BY BlockFacts, LaidFacts DEF Start
<1>2. a < used /\ used \in Nat
  <2>1. a + Size(blocks[k]) <= used /\ used \in Nat
    BY DEF Laid, MemTypes
  <2>2. Size(blocks[k]) \in Nat /\ Size(blocks[k]) > 0
    BY BlockFacts, MemConstants DEF HDR
  <2> QED BY <1>1, <2>1, <2>2
<1>3. Onward(a) \in Nat /\ r \in Nat \cup {-1} /\ Cardinality(Bad(a)) \in Nat
  BY <1>1, WalkGoesOn, WalkResult, BadFinite
<1>4. CheckFrom[a] = Body(CheckFrom, a)
  BY <1>1, WalkIs
<1>5. ~(a >= used) /\ ~(a + 1 \notin Region)
  BY <1>1, <1>2
<1>6. CheckFrom[a] = IF Wrecked(a) THEN -1 ELSE IF r = -1 THEN -1 ELSE Cardinality(Bad(a)) + r
  BY <1>4, <1>5 DEF Body
<1> QED BY <1>1, <1>3, <1>6

\* A block that was damaged is noticed, if the walk comes to it by true sizes.
LEMMA WalkNotices ==
    ASSUME MemTypes, AllSound, Laid, Sized, Packed, Zoned, NEW k \in DOMAIN blocks, Trusted(k), Damaged(blocks[k])
    PROVE  CheckFrom[Start(k)] # 0
<1> DEFINE a == blocks[k].at  r == CheckFrom[Onward(a)]
<1>1. /\ Start(k) = a /\ r \in Nat \cup {-1} /\ Cardinality(Bad(a)) \in Nat
      /\ CheckFrom[a] = IF Wrecked(a) THEN -1 ELSE IF r = -1 THEN -1 ELSE Cardinality(Bad(a)) + r
  BY WalkHere
<1>2. a \in Nat /\ a + 1 \in Region
  BY BlockFacts, LaidFacts
<1>3. CASE a \in hit
  <2>1. Wrecked(a)
    BY <1>3 DEF Zoned
  <2> QED BY <1>1, <2>1
<1>4. CASE a \notin hit
  <2>1. Bad(a) # {}
    <3>1. \A c \in Edge(blocks[k]) : c \in Region /\ (c \in hit => mem[c] # Guard)
      BY EdgePlaces DEF Zoned
    <3>2. Pre(blocks[k]) = Cells(a + HDR, REDZONE)
      BY DEF Pre
    <3>3. ASSUME Pre(blocks[k]) \cap hit # {} PROVE Bad(a) # {}
      <4>1. PICK c \in Pre(blocks[k]) : c \in hit
        BY <3>3
      <4>2. c \in Region /\ mem[c] # Guard
        BY <3>1, <4>1 DEF Edge
      <4>3. Pre(blocks[k]) \in Bad(a)
        BY <3>2, <4>2 DEF Bad
      <4> QED BY <4>3
    <3>4. CASE a + 1 \in hit
      <4>1. Pre(blocks[k]) \subseteq hit
        BY <1>4, <3>4 DEF Zoned
      <4>2. a + 2 \in Pre(blocks[k])
        <5>1. Pre(blocks[k]) = (a + 2)..(a + 2 + REDZONE - 1)
          BY <3>2 DEF Cells, HDR
        <5>2. REDZONE \in Nat /\ REDZONE > 0
          BY MemConstants
        <5> HIDE DEF a
        <5>3. a + 2 \in (a + 2)..(a + 2 + REDZONE - 1)
          BY <1>2, <5>2
        <5> QED BY <5>1, <5>3
      <4> QED BY <3>3, <4>1, <4>2
    <3>5. CASE a + 1 \notin hit
      <4>1. PICK c \in Cells(a, HDR) \cup Pre(blocks[k]) \cup Post(blocks[k]) : c \in hit
        BY DEF Damaged
      <4>2. c \notin Cells(a, HDR)
        <5>1. Cells(a, HDR) = {a, a + 1}
          BY <1>2 DEF Cells, HDR
        <5> QED BY <1>4, <3>5, <4>1, <5>1
      <4>3. CASE c \in Pre(blocks[k])
        BY <3>3, <4>1, <4>3
      <4>4. CASE c \in Post(blocks[k])
        <5>1. Trusted(k + 1)
          <6>1. k \in Nat /\ DOMAIN blocks \subseteq Nat
            BY LenProperties DEF MemTypes
          <6>2. \A i \in DOMAIN blocks : i < k + 1 => i < k \/ i = k
            BY <6>1
          <6> QED BY <3>5, <6>2 DEF Trusted
        <5>2. Post(blocks[k]) = Cells(a + HDR + REDZONE + round8(mem[a + 1]), REDZONE)
          BY <5>1 DEF Post, User, Sized
        <5>3. c \in Region /\ mem[c] # Guard
          BY <3>1, <4>1, <4>4 DEF Edge
        <5>4. Post(blocks[k]) \in Bad(a)
          BY <4>4, <5>2, <5>3 DEF Bad
        <5> QED BY <5>4
      <4> QED BY <4>1, <4>2, <4>3, <4>4
    <3> QED BY <3>4, <3>5
  <2>2. Cardinality(Bad(a)) # 0
    BY <2>1, BadFinite, FS_EmptySet
  <2> HIDE DEF a, r
  <2> QED BY <1>1, <2>2
<1> QED BY <1>3, <1>4

\* A sound block in front of a damaged one does not hide it.
LEMMA WalkPasses ==
    ASSUME MemTypes, AllSound, Laid, Sized, Packed, NEW k \in DOMAIN blocks, Trusted(k + 1),
           CheckFrom[Start(k + 1)] # 0
    PROVE  CheckFrom[Start(k)] # 0
<1> DEFINE a == blocks[k].at  r == CheckFrom[Onward(a)]
<1>1. /\ Start(k) = a /\ r \in Nat \cup {-1} /\ Cardinality(Bad(a)) \in Nat
      /\ CheckFrom[a] = IF Wrecked(a) THEN -1 ELSE IF r = -1 THEN -1 ELSE Cardinality(Bad(a)) + r
  BY WalkHere
<1>2. r # 0
  BY WalkOnward
<1> HIDE DEF a, r
<1> QED BY <1>1, <1>2

LEMMA NeverClean ==
    ASSUME MemTypes, AllSound, Sane, Packed, Zoned, guarded, \E j \in DOMAIN blocks : Damaged(blocks[j])
    PROVE  chaos_arena_check # 0
<1>0. Laid /\ Sized
  BY DEF Sane
<1>1. DOMAIN blocks = 1..Len(blocks) /\ Len(blocks) \in Nat
  BY LenProperties DEF MemTypes
<1> DEFINE D == {j \in DOMAIN blocks : Damaged(blocks[j])}
<1>2. PICK m \in D : \A k \in D : m <= k
  <2>1. D \subseteq Nat /\ D # {}
    BY <1>1
  <2> HIDE DEF D
  <2> QED BY <2>1, LeastNat
<1>3. m \in DOMAIN blocks /\ Damaged(blocks[m]) /\ m \in Nat /\ m >= 1
  BY <1>1
<1>4. ASSUME NEW k \in Nat, k <= m PROVE Trusted(k)
  <2>1. ASSUME NEW i \in DOMAIN blocks, i < k PROVE blocks[i].at + 1 \notin hit
    <3>1. i \in Nat /\ ~(m <= i)
      BY <1>1, <1>3, <1>4, <2>1
    <3>2. ~Damaged(blocks[i])
      BY <1>2, <3>1
    <3>3. blocks[i].at \in Nat
      BY BlockFacts
    <3>4. blocks[i].at + 1 \in Cells(blocks[i].at, HDR)
      BY <3>3 DEF Cells, HDR
    <3> QED BY <3>2, <3>4 DEF Damaged
  <2> QED BY <2>1 DEF Trusted
<1> HIDE DEF D
<1> DEFINE T == {i \in 0..(m - 1) : CheckFrom[Start(m - i)] = 0}
<1>5. 0 \notin T
  <2>1. m - 0 = m
    BY <1>3
  <2>2. CheckFrom[Start(m)] # 0
    BY <1>0, <1>3, <1>4, WalkNotices
  <2> QED BY <2>1, <2>2
<1>6. ASSUME T # {} PROVE FALSE
  <2>1. T \subseteq Nat
    BY <1>3
  <2>2. PICK q \in T : \A i \in T : q <= i
    <3> HIDE DEF T
    <3> QED BY <1>6, <2>1, LeastNat
  <2>3. q \in 0..(m - 1) /\ q # 0 /\ CheckFrom[Start(m - q)] = 0
    BY <1>5
  <2>4. q - 1 \in 0..(m - 1) /\ q - 1 \notin T
    BY <1>3, <2>2, <2>3
  <2> DEFINE k == m - q
  <2>5. k \in DOMAIN blocks /\ m - (q - 1) = k + 1 /\ k + 1 \in Nat /\ k + 1 <= m
    BY <1>1, <1>3, <2>3
  <2>6. CheckFrom[Start(m - (q - 1))] # 0
    BY <2>4
  <2>7. CheckFrom[Start(k + 1)] # 0
    BY <2>5, <2>6
  <2>8. CheckFrom[Start(k)] # 0
    <3> HIDE DEF k
    <3> QED BY <1>0, <1>4, <2>5, <2>7, WalkPasses
  <2> QED BY <2>3, <2>8
<1>7. CheckFrom[Start(1)] # 0
  <2>1. m - 1 \in 0..(m - 1) /\ m - 1 \notin T
    BY <1>3, <1>6
  <2>2. CheckFrom[Start(m - (m - 1))] # 0
    BY <2>1
  <2>3. m - (m - 1) = 1
    BY <1>3
  <2> QED BY <2>2, <2>3
<1> QED BY <1>7 DEF Packed, chaos_arena_check

LEMMA WalkRight ==
    ASSUME MemTypes, AllSound => Sane /\ Packed /\ (guarded => Zoned)
    PROVE  CheckExact
BY WalkExact, NeverClean DEF CheckExact

----------------------------------------------------------------------------
(* The steps and the walk *)

\* No step but a call or a write changes what the walk sees.
LEMMA StillWalks ==
    ASSUME AllSound => Packed /\ (guarded => Zoned), UNCHANGED <<mem, used, blocks, hit>>
    PROVE  AllSound' => Packed' /\ (guarded => Zoned')
BY DEF AllSound, Packed, Start, Size, Zoned, Trusted, Wrecked, Edge, Pre, Post, User

LEMMA WriteWalks ==
    ASSUME MemInv, AllSound => Packed /\ (guarded => Zoned), AllSound,
           NEW S, NEW v \in 0..(UInt32 - 1), Write(S, v), OneRun(S)
    PROVE  AllSound' => Packed' /\ (guarded => Zoned')
<1>1. blocks' = blocks /\ used' = used
  BY DEF Write
<1>2. Packed'
  BY <1>1 DEF Packed, Start, Size
<1>3. guarded => Zoned'
  BY WriteZones DEF MemInv, Sane
<1> QED BY <1>2, <1>3

LEMMA FreeWalks ==
    ASSUME MemInv, AllSound => Packed /\ (guarded => Zoned), NEW j \in DOMAIN blocks, chaos_arena_free(User(blocks[j]))
    PROVE  AllSound' => Packed' /\ (guarded => Zoned')
<1>1. AllSound' => AllSound
  <2>1. \A k \in DOMAIN blocks : k \in DOMAIN blocks' /\ blocks'[k].n = blocks[k].n
    BY FreeDoes DEF MemInv
  <2> QED BY <2>1 DEF AllSound
<1> QED BY <1>1, FreeZones DEF MemInv, Sane

LEMMA AllocWalks ==
    ASSUME MemInv, AllSound => Packed /\ (guarded => Zoned), NEW n \in 0..(SizeT - 1), chaos_arena_alloc(n)
    PROVE  AllSound' => Packed' /\ (guarded => Zoned')
<1>1. CASE alloc_refused(n)
  BY <1>1, StillWalks DEF alloc_refused
<1>2. CASE alloc_block(n)
  <2>1. MemTypes /\ (AllSound => Laid /\ Packed /\ (guarded => Zoned))
    BY DEF MemInv, Sane
  <2> QED BY <1>2, <2>1, AllocZones
<1> QED BY <1>1, <1>2 DEF chaos_arena_alloc

LEMMA WalkNext ==
    ASSUME MemInv, WalkInv, [MemNext]_memVars
    PROVE  AllSound' => Packed' /\ (guarded' => Zoned')
<1>0. AllSound => Packed /\ (guarded => Zoned)
  BY DEF WalkInv
<1>1. guarded' = guarded
  BY DEF MemNext, memVars, any_call, any_destroy, prog_alloc, corrupt_write, uaf_fill, first_free, prog_report, Terminating, Goes
<1>2. AllSound' => Packed' /\ (guarded => Zoned')
  <2>1. CASE UNCHANGED memVars
    BY <1>0, <2>1, StillWalks DEF memVars
  <2>2. CASE any_call
    <3>1. CASE \E n \in Sizes : chaos_arena_alloc(n)
      BY <1>0, <3>1, AllocWalks, MemConstants
    <3>2. ASSUME NEW p \in 0..(Total + HDR + REDZONE), chaos_arena_free(p)
          PROVE  AllSound' => Packed' /\ (guarded => Zoned')
      <4>1. CASE \E j \in DOMAIN blocks : User(blocks[j]) = p
        BY <1>0, <3>2, <4>1, FreeWalks
      <4>2. CASE \A j \in DOMAIN blocks : User(blocks[j]) # p
        <5>1. p \in Int
          OBVIOUS
        <5>2. UNCHANGED <<mem, used, blocks, hit>>
          BY <3>2, <4>2, <5>1, WildFree DEF MemInv
        <5> QED BY <1>0, <5>2, StillWalks
      <4> QED BY <4>1, <4>2
    <3>3. ASSUME AllSound, NEW j \in DOMAIN blocks, NEW l \in 1..Total, NEW v \in 0..(UInt32 - 1),
                 Write(Cells(User(blocks[j]), l), v) \/ Write(Cells(User(blocks[j]) - l, l), v)
          PROVE  AllSound' => Packed' /\ (guarded => Zoned')
      <4>1. l \in Nat
        OBVIOUS
      <4>2. OneRun(Cells(User(blocks[j]), l)) /\ OneRun(Cells(User(blocks[j]) - l, l))
        BY <4>1 DEF OneRun
      <4> QED BY <1>0, <3>3, <4>2, WriteWalks
    <3> QED BY <2>2, <3>1, <3>2, <3>3 DEF any_call
  <2>3. CASE any_destroy
    BY <1>0, <2>3, StillWalks DEF any_destroy
  <2>4. CASE prog_alloc
    <3>1. ALIGN \in 0..(SizeT - 1)
      BY MemConstants
    <3> QED BY <1>0, <2>4, <3>1, AllocWalks DEF prog_alloc
  <2>5. CASE corrupt_write \/ uaf_fill
    <3>1. client # "any" /\ pc \notin {"start", "failed"} /\ 0 \in 0..(UInt32 - 1) /\ \E S : Write(S, 0) /\ OneRun(S)
      BY <2>5, ProgWrites
    <3>2. AllSound
      BY <3>1, ProgramBlock
    <3> QED BY <1>0, <3>1, <3>2, WriteWalks
  <2>6. CASE first_free \/ prog_report
    <3>1. CASE client # "any" /\ pc \notin {"start", "failed"} /\ chaos_arena_free(User(B1))
      <4>1. 1 \in DOMAIN blocks /\ B1 = blocks[1]
        BY <3>1, ProgramBlock
      <4> QED BY <1>0, <3>1, <4>1, FreeWalks
    <3>2. CASE UNCHANGED <<mem, used, blocks, hit>>
      BY <1>0, <3>2, StillWalks
    <3> QED BY <2>6, <3>1, <3>2 DEF first_free, prog_report
  <2> QED BY <2>1, <2>2, <2>3, <2>4, <2>5, <2>6 DEF MemNext, Terminating
<1> QED BY <1>1, <1>2

\* The overrun of arena_corrupt reaches the redzone behind its block and no other.
LEMMA CorruptHits ==
    ASSUME MemInv, Corrupting, corrupt_write
    PROVE  0 \notin hit' /\ Pre(B1) \cap hit' = {} /\ Post(B1) \cap hit' # {}
<1> DEFINE S == Cells(User(B1), 2 * ALIGN)
<1>1. client = "arena_corrupt" /\ pc = "use" /\ hit' = hit \cup (S \ Owned) /\ hit = {}
  BY DEF corrupt_write, Write, Corrupting
<1>2. /\ 1 \in DOMAIN blocks /\ B1 = blocks[1] /\ B1.at = 0 /\ B1.n = ALIGN /\ MemTypes /\ AllSound /\ Laid
      /\ User(B1) = HDR + REDZONE
  BY <1>1, ProgramBlock DEF MemInv
<1>3. S = (HDR + REDZONE)..(HDR + REDZONE + 2 * ALIGN - 1)
  BY <1>2 DEF Cells
<1>4. Pre(B1) = HDR..(HDR + REDZONE - 1)
  BY <1>2, MemConstants DEF Pre, Cells, HDR
<1>5. Post(B1) = (HDR + REDZONE + ALIGN)..(HDR + REDZONE + ALIGN + REDZONE - 1)
  BY <1>2, ProgramSize DEF Post, Cells
<1> HIDE DEF S
<1>6. 0 \notin S /\ Pre(B1) \cap S = {}
  <2>1. REDZONE \in Nat \ {0} /\ ALIGN \in Nat \ {0}
    BY MemConstants
  <2>2. \A x \in S : x \in Int /\ x >= 2 + REDZONE
    BY <1>3, <2>1 DEF HDR
  <2>3. \A x \in Pre(B1) : x \in Int /\ x < 2 + REDZONE
    BY <1>4, <2>1 DEF HDR
  <2> QED BY <2>1, <2>2, <2>3
<1> DEFINE c == HDR + REDZONE + ALIGN
<1>7. c \in S /\ c \in Post(B1)
  <2>1. REDZONE \in Nat \ {0} /\ ALIGN \in Nat \ {0}
    BY MemConstants
  <2>2. c \in (HDR + REDZONE)..(HDR + REDZONE + 2 * ALIGN - 1)
    BY <2>1 DEF HDR
  <2>3. c \in (HDR + REDZONE + ALIGN)..(HDR + REDZONE + ALIGN + REDZONE - 1)
    BY <2>1 DEF HDR
  <2> QED BY <1>3, <1>5, <2>2, <2>3
<1> HIDE DEF c
<1>8. c \notin Owned
  BY <1>2, <1>7, NotOwned DEF Edge
<1> QED BY <1>1, <1>6, <1>7, <1>8

\* The scan of arena_corrupt counts that redzone.
LEMMA CorruptFound ==
    ASSUME MemInv, WalkInv, client = "arena_corrupt", pc = "report"
    PROVE  chaos_arena_check = 1
<1>1. CheckExact
  BY WalkRight DEF MemInv, WalkInv
<1>2. /\ DOMAIN blocks = {1} /\ B1 = blocks[1] /\ B1.at = 0 /\ AllSound /\ SizesIntact
  BY ProgramBlock
<1>3. guarded /\ 0 \notin hit /\ Pre(B1) \cap hit = {} /\ Post(B1) \cap hit # {}
  BY DEF WalkInv, Corrupting
<1> DEFINE Z == {z \in UNION {{Pre(blocks[j]), Post(blocks[j])} : j \in DOMAIN blocks} : z \cap hit # {}}
<1>4. Z = {Post(B1)}
  BY <1>2, <1>3
<1>5. ~\E j \in DOMAIN blocks : blocks[j].at \in hit
  BY <1>2, <1>3
<1>6. chaos_arena_check = Cardinality(Z)
  BY <1>1, <1>2, <1>3, <1>5 DEF CheckExact, Damage
<1> HIDE DEF Z
<1> QED BY <1>4, <1>6, FS_Singleton

LEMMA CorruptNext ==
    ASSUME MemInv, WalkInv, [MemNext]_memVars
    PROVE  Corrupting'
<1>0. Corrupting
  BY DEF WalkInv
<1>1. guarded' = guarded /\ client' = client
  BY DEF MemNext, memVars, any_call, any_destroy, prog_alloc, corrupt_write, uaf_fill, first_free, prog_report, Terminating, Goes
<1>2. CASE client # "arena_corrupt"
  BY <1>0, <1>1, <1>2 DEF Corrupting, CorruptReported
<1>3. CASE client = "arena_corrupt" /\ UNCHANGED memVars
  BY <1>0, <1>3 DEF Corrupting, CorruptReported, memVars, B1, Pre, Post, User
<1>4. CASE client = "arena_corrupt" /\ prog_alloc
  <2>1. pc = "start" /\ pc' = "use" /\ chaos_arena_alloc(ALIGN)
    BY <1>4 DEF prog_alloc, Goes
  <2>2. hit' = {}
    BY <1>0, <1>4, <2>1 DEF Corrupting, chaos_arena_alloc, alloc_refused, alloc_block
  <2> QED BY <1>0, <1>1, <2>1, <2>2 DEF Corrupting, CorruptReported
<1>5. CASE client = "arena_corrupt" /\ corrupt_write
  <2>1. pc' = "report" /\ blocks' = blocks
    BY <1>5 DEF corrupt_write, Goes, Write
  <2>2. 0 \notin hit' /\ Pre(B1) \cap hit' = {} /\ Post(B1) \cap hit' # {}
    BY <1>0, <1>5, CorruptHits
  <2>3. Pre(B1)' = Pre(B1) /\ Post(B1)' = Post(B1)
    BY <2>1 DEF B1, Pre, Post, User
  <2> QED BY <1>0, <1>1, <2>1, <2>2, <2>3 DEF Corrupting, CorruptReported
<1>6. CASE client = "arena_corrupt" /\ prog_report
  <2>1. pc = "report" /\ pc' = "end" /\ res' = chaos_arena_check
    BY <1>6 DEF prog_report, Goes
  <2>2. res' = 1
    BY <1>6, <2>1, CorruptFound
  <2> QED BY <1>0, <1>1, <2>1, <2>2 DEF Corrupting, CorruptReported
<1> QED BY <1>1, <1>2, <1>3, <1>4, <1>5, <1>6
        DEF MemNext, any_call, any_destroy, uaf_fill, first_free, Terminating

LEMMA WalkInvInit == MemInit => WalkInv
<1> SUFFICES ASSUME MemInit PROVE WalkInv
  OBVIOUS
<1>1. blocks = <<>> /\ used = 0 /\ pc \in {"start", "failed"} /\ hit = {} /\ DOMAIN blocks = {} /\ (client # "any" => guarded)
  BY DEF MemInit
<1> QED BY <1>1 DEF WalkInv, Packed, Start, Zoned, Corrupting, CorruptReported

LEMMA WalkInvNext == MemInv /\ WalkInv /\ [MemNext]_memVars => WalkInv'
BY WalkNext, CorruptNext DEF WalkInv

----------------------------------------------------------------------------
\* For any arena and any sequence of calls and overruns, of headers too: blocks stay
\* in the region and apart unless a size wraps or is cut to 32 bits, and alloc and
\* free write nowhere else unless an overrun changed a size.
THEOREM MemBlocksInArena == MemSpec => []BlocksInArena
<1>1. MemInv => BlocksInArena
  <2> SUFFICES ASSUME MemInv, AllSound
               PROVE  /\ SizesIntact => ~escaped
                      /\ \A j, k \in DOMAIN blocks :
                           /\ Extent(blocks[j]) \subseteq Region
                           /\ j # k => Extent(blocks[j]) \cap Extent(blocks[k]) = {}
    BY DEF BlocksInArena
  <2>1. MemTypes /\ Laid /\ Contained
    BY DEF MemInv, Sane
  <2>2. ASSUME NEW j \in DOMAIN blocks, NEW c \in Extent(blocks[j])
        PROVE  c \in Int /\ c >= blocks[j].at /\ c < blocks[j].at + Size(blocks[j])
    <3>1. c \in blocks[j].at..(blocks[j].at + Size(blocks[j]) - 1)
      BY <2>2 DEF Extent, Cells, Size
    <3>2. blocks[j].at \in Nat /\ Size(blocks[j]) \in Nat
      BY <2>1, BlockFacts
    <3> QED BY <3>1, <3>2
  <2>3. ASSUME NEW j \in DOMAIN blocks PROVE Extent(blocks[j]) \subseteq Region
    <3>1. blocks[j].at \in Nat /\ Size(blocks[j]) \in Nat /\ used \in Nat
          /\ blocks[j].at + Size(blocks[j]) <= used /\ used <= Total
      BY <2>1, BlockFacts DEF Laid, MemTypes
    <3> QED BY <2>2, <3>1, MemConstants DEF Region
  <2>4. ASSUME NEW j \in DOMAIN blocks, NEW k \in DOMAIN blocks, j # k
        PROVE  Extent(blocks[j]) \cap Extent(blocks[k]) = {}
    <3>1. \/ blocks[j].at + Size(blocks[j]) <= blocks[k].at
          \/ blocks[k].at + Size(blocks[k]) <= blocks[j].at
      BY <2>1, <2>4, Apart
    <3>2. /\ blocks[j].at \in Nat /\ Size(blocks[j]) \in Nat
          /\ blocks[k].at \in Nat /\ Size(blocks[k]) \in Nat
      BY <2>1, BlockFacts
    <3> QED BY <2>2, <3>1, <3>2
  <2> QED BY <2>1, <2>3, <2>4 DEF Contained
<1> QED BY <1>1, MemInvInit, MemInvNext, PTL DEF MemSpec

\* For any number of blocks, frees and overruns: while the sizes are intact
\* chaos_arena_check counts the redzones that were written over, each once, and
\* returns -1 exactly when a magic was; and whatever was written over, a size
\* included, it does not find a damaged arena clean.
THEOREM MemCheckExact == MemSpec => []CheckExact
<1>1. MemInv /\ WalkInv => CheckExact
  BY WalkRight DEF MemInv, WalkInv
<1> QED BY <1>1, WalkInvInit, WalkInvNext, MemInvInit, MemInvNext, PTL DEF MemSpec

\* No block is freed twice, whatever was overrun in between; double_free sees its
\* second free refused, uaf_callback reads the poison, and arena_corrupt's scan
\* finds one redzone.
THEOREM MemFreedOnceAndReported == MemSpec => []FreedOnceAndReported
<1>1. MemInv => FreedOnce
  BY DEF MemInv, Sane, Freed, FreedOnce
<1>2. MemInv /\ WalkInv => FreedOnceAndReported
  BY <1>1 DEF MemInv, Dangling, WalkInv, Corrupting, FreedOnceAndReported
<1> QED BY <1>2, WalkInvInit, WalkInvNext, MemInvInit, MemInvNext, PTL DEF MemSpec
=============================================================================
