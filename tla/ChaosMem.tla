------------------------------- MODULE ChaosMem -------------------------------
(***************************************************************************)
(* src/chaos/chaos_mem.c: a bump allocator with guarded blocks, and its    *)
(* clients: arena_corrupt.c, double_free.c, uaf_callback.c and "any", which *)
(* allocates, frees any pointer and writes over the ends of its blocks,    *)
(* headers included, as far as it likes.                                   *)
(*                                                                         *)
(* Memory is a row of cells.  A block is a cell for the magic, one for the *)
(* size, a redzone, the user's cells rounded up, and a redzone.  size_t    *)
(* and uint32_t keep the way they wrap, with the small limits below.       *)
(***************************************************************************)
EXTENDS Integers, Sequences, FiniteSets

CONSTANTS
    SizeT,      \* size_t holds 0..SizeT-1 (2^64 in the code)
    UInt32,     \* uint32_t holds 0..UInt32-1
    ALIGN,      \* what round8 rounds to
    REDZONE,    \* REDZONE_SIZE
    Total,      \* bytes of the arena
    Sizes,      \* sizes the "any" client asks for
    MaxBlocks,  \* bound on its allocations
    MaxWrites,  \* bound on its writes
    Clients     \* the programs a run starts

ASSUME MemAssumption ==
    /\ {SizeT, UInt32, ALIGN, REDZONE, Total, MaxBlocks, MaxWrites} \subseteq Nat \ {0}
    /\ Sizes \subseteq 0..(SizeT - 1)
    \* mmap has no region of half the address space, and a block of a size that
    \* fits in 32 bits does not come near it.
    /\ 2 * Total <= SizeT /\ 2 * (UInt32 + ALIGN + 2 * REDZONE + 2) <= SizeT
    \* The one block of a program fits in its arena.
    /\ ALIGN < UInt32 /\ ALIGN + 2 * REDZONE + 2 <= Total
    /\ Clients \subseteq {"any", "arena_corrupt", "double_free", "uaf_callback"}

\* What a cell can hold besides a size.
Live   == UInt32
Free   == UInt32 + 1
Guard  == UInt32 + 2
Poison == UInt32 + 3
Mark   == UInt32 + 4
Blank  == UInt32 + 5

VARIABLES
    mem,        \* the region
    used,       \* a->used
    guarded,    \* a->flags & CHAOS_ARENA_REDZONES
    escaped,    \* a memset or a header of the allocator went beyond the region
    blocks,     \* history: the blocks handed out: header offset, size asked for, freed
    hit,        \* history: cells a client wrote that no block's data owns
    writes,     \* how often it wrote
    client, pc, \* the client and where it is
    res         \* what its last call returned, or what it read

memVars == <<mem, used, guarded, escaped, blocks, hit, writes, client, pc, res>>

Region == 0..(Total - 1)
HDR    == 2

\* chaos_arena_create.  It refuses less than 4096 bytes, so a smaller arena never
\* exists; when calloc or mmap fail there is none and the client gives up.
MemInit ==
    /\ mem = [c \in Region |-> Blank] /\ used = 0 /\ guarded \in BOOLEAN /\ escaped = FALSE
    /\ blocks = <<>> /\ hit = {} /\ writes = 0
    /\ client \in Clients /\ (client # "any" => guarded)
    /\ pc \in {"start", "failed"} /\ res = 0

----------------------------------------------------------------------------
round8(n) == LET m == (n + ALIGN - 1) % SizeT IN m - (m % ALIGN)

\* Mutant: the redzone after the data is not counted.
block_total_short(n) == (HDR + REDZONE + round8(n)) % SizeT

block_total(n) == (HDR + REDZONE + round8(n) + REDZONE) % SizeT

\* n cells from c on.
Cells(c, n) == c..(c + n - 1)

Fill(m, S, v) == [c \in Region |-> IF c \in S THEN v ELSE m[c]]

User(b) == b.at + HDR + REDZONE
Pre(b)  == Cells(b.at + HDR, REDZONE)
Post(b) == Cells(User(b) + round8(b.n), REDZONE)

\* The request is sound: its block's size neither wraps nor is cut to 32 bits.
Sound(n) == n < UInt32 /\ HDR + 2 * REDZONE + n + ALIGN - 1 < SizeT

\* used + need > total: NULL
alloc_refused(n) ==
    /\ (used + block_total(n)) % SizeT > Total
    /\ res' = -1 /\ UNCHANGED <<mem, used, escaped, blocks, hit, writes>>

alloc_block(n) ==
    LET b     == [at |-> used, n |-> n, freed |-> 0]
        zones == IF guarded THEN Pre(b) \cup Post(b) ELSE {} IN
    /\ (used + block_total(n)) % SizeT <= Total
    /\ mem' = Fill(Fill(Fill(mem, {used}, Live), {used + 1}, n % UInt32), zones, Guard)
    /\ escaped' = (escaped \/ ~(Cells(used, HDR) \cup zones \subseteq Region))
    /\ used' = (used + block_total(n)) % SizeT
    /\ blocks' = Append(blocks, b)
    /\ hit' = hit \ Cells(used, block_total(n))
    /\ res' = User(b)
    /\ UNCHANGED writes

chaos_arena_alloc(n) == alloc_refused(n) \/ alloc_block(n)

\* Mutant: the block is poisoned and its magic stays.
arena_free_unmarked(p) ==
    LET h  == p - REDZONE - HDR
        ok == h \in Region /\ mem[h] = Live
        S  == IF ok THEN Cells(p, mem[h + 1]) ELSE {} IN
    /\ mem' = Fill(mem, S, Poison)
    /\ escaped' = (escaped \/ ~(S \subseteq Region))
    /\ blocks' = [j \in DOMAIN blocks |-> IF ok /\ blocks[j].at = h
                                          THEN [blocks[j] EXCEPT !.freed = @ + 1] ELSE blocks[j]]
    /\ res' = IF ok THEN 0 ELSE -1
    /\ UNCHANGED <<used, hit, writes>>

\* A wild pointer, a second free and a magic that was written over return -1.  The
\* memset trusts the size in the header.
chaos_arena_free(p) ==
    LET h  == p - REDZONE - HDR
        ok == h \in Region /\ mem[h] = Live
        S  == IF ok THEN Cells(p, mem[h + 1]) ELSE {} IN
    /\ mem' = Fill(Fill(mem, IF ok THEN {h} ELSE {}, Free), S, Poison)
    /\ escaped' = (escaped \/ ~(S \subseteq Region))
    /\ blocks' = [j \in DOMAIN blocks |-> IF ok /\ blocks[j].at = h
                                          THEN [blocks[j] EXCEPT !.freed = @ + 1] ELSE blocks[j]]
    /\ res' = IF ok THEN 0 ELSE -1
    /\ UNCHANGED <<used, hit, writes>>

\* Mutant: a freed block is taken for a wrecked one.
Wrecked_freed(off) == mem[off] # Live

Wrecked(off) == mem[off] \notin {Live, Free}

\* chaos_arena_check from offset off on: -1 if a magic is wrecked.  The walk trusts
\* the sizes in the headers.  One that was written over may lead it beyond the
\* region, where the code faults or finds one redzone more: here it finds none there.
CheckFrom[off \in Nat] ==
    IF off >= used THEN 0
    ELSE IF off + 1 \notin Region \/ Wrecked(off) THEN -1
    ELSE LET pad   == round8(mem[off + 1])
             pre   == Cells(off + HDR, REDZONE)
             post  == Cells(off + HDR + REDZONE + pad, REDZONE)
             bad   == {z \in {pre, post} : \E c \in z \cap Region : mem[c] # Guard}
             rest  == CheckFrom[off + HDR + 2 * REDZONE + pad]
         IN  IF rest = -1 THEN -1 ELSE Cardinality(bad) + rest

chaos_arena_check == IF guarded THEN CheckFrom[0] ELSE 0

----------------------------------------------------------------------------
(* Clients.  A write runs upwards or downwards from the start of a block's data. *)

AllSound == \A j \in DOMAIN blocks : Sound(blocks[j].n)

Owned == UNION {Cells(User(blocks[j]), round8(blocks[j].n)) : j \in DOMAIN blocks}

\* The cells that hold the blocks' sizes.
SizeCells == {blocks[j].at + 1 : j \in DOMAIN blocks}

\* What is written is no guard and no magic; over a size it is some number v.
Write(S, v) ==
    /\ S \subseteq Region
    /\ mem' = Fill(Fill(mem, S, Mark), S \cap SizeCells, v)
    /\ hit' = hit \cup (S \ Owned) /\ writes' = writes + 1
    /\ UNCHANGED <<used, escaped, blocks, res>>

Goes(to) == pc' = to /\ UNCHANGED <<guarded, client>>
B1       == blocks[1]

any_call ==
    /\ client = "any" /\ pc = "start" /\ Goes("start")
    /\ \/ Len(blocks) < MaxBlocks /\ \E n \in Sizes : chaos_arena_alloc(n)
       \/ ~escaped /\ \E p \in 0..(Total + HDR + REDZONE) : chaos_arena_free(p)
       \/ ~escaped /\ AllSound /\ writes < MaxWrites /\ \E j \in DOMAIN blocks, k \in 1..Total, v \in 0..(UInt32 - 1) :
            \/ Write(Cells(User(blocks[j]), k), v)
            \/ Write(Cells(User(blocks[j]) - k, k), v)

\* chaos_arena_destroy
any_destroy == client = "any" /\ pc = "start" /\ Goes("end") /\ UNCHANGED <<mem, used, escaped, blocks, hit, writes, res>>

\* Each program allocates one block in a fresh arena.
prog_alloc == client # "any" /\ pc = "start" /\ chaos_arena_alloc(ALIGN) /\ Goes("use")

\* arena_corrupt writes twice the block's size and scans.
corrupt_write == client = "arena_corrupt" /\ pc = "use" /\ Write(Cells(User(B1), 2 * ALIGN), 0) /\ Goes("report")

\* uaf_callback fills the closure.
uaf_fill == client = "uaf_callback" /\ pc = "use" /\ Write(Cells(User(B1), ALIGN), 0) /\ Goes("free")

\* double_free goes straight to the first free.
first_free ==
    /\ <<client, pc>> \in {<<"double_free", "use">>, <<"uaf_callback", "free">>}
    /\ chaos_arena_free(User(B1)) /\ Goes("report")

\* What the program reports: the scan, the second free, the dangling read.
prog_report ==
    /\ pc = "report" /\ Goes("end")
    /\ \/ client = "double_free" /\ chaos_arena_free(User(B1))
       \/ /\ client # "double_free"
          /\ res' = IF client = "arena_corrupt" THEN chaos_arena_check ELSE mem[User(B1)]
          /\ UNCHANGED <<mem, used, escaped, blocks, hit, writes>>

Terminating == pc \in {"end", "failed"} /\ UNCHANGED memVars

MemNext == \/ any_call \/ any_destroy \/ prog_alloc \/ corrupt_write \/ uaf_fill
           \/ first_free \/ prog_report \/ Terminating

MemSpec == MemInit /\ [][MemNext]_memVars

----------------------------------------------------------------------------
(* Properties *)

Extent(b) == Cells(b.at, HDR + 2 * REDZONE + round8(b.n))

\* No client has written over the size in a header.
SizesIntact == \A j \in DOMAIN blocks : blocks[j].at + 1 \notin hit

\* "All allocations within the arena are bounded by it", as far as that holds:
\* unless a request comes so close to SIZE_MAX that its size wraps, or is beyond 32
\* bits, blocks lie in the region and do not overlap whatever is overrun or freed;
\* and unless a size was written over as well, chaos_arena_alloc and
\* chaos_arena_free write nowhere else.
BlocksInArena == AllSound =>
    /\ SizesIntact => ~escaped
    /\ \A j, k \in DOMAIN blocks :
         /\ Extent(blocks[j]) \subseteq Region
         /\ j # k => Extent(blocks[j]) \cap Extent(blocks[k]) = {}

\* What chaos_arena_check is to return: the redzones written over, each once, or -1
\* if an overrun reached a block's magic.
Damage ==
    IF \E j \in DOMAIN blocks : blocks[j].at \in hit THEN -1
    ELSE Cardinality({z \in UNION {{Pre(blocks[j]), Post(blocks[j])} : j \in DOMAIN blocks} :
                         z \cap hit # {}})

\* A client wrote over the block's magic, its size or a redzone.
Damaged(b) == (Cells(b.at, HDR) \cup Pre(b) \cup Post(b)) \cap hit # {}

\* chaos_arena_check returns that as long as the sizes are intact: no false alarm
\* after a free.  Once one was written over the walk goes astray and the count may
\* be wrong, but a damaged arena is never found clean.
CheckExact == (AllSound /\ guarded) =>
    /\ SizesIntact => chaos_arena_check = Damage
    /\ (\E j \in DOMAIN blocks : Damaged(blocks[j])) => chaos_arena_check # 0

\* chaos_arena_free accepts a block at most once.
FreedOnce == AllSound => \A j \in DOMAIN blocks : blocks[j].freed <= 1

\* double_free sees its second free refused, uaf_callback reads the poison.
DanglingReported == pc = "end" =>
    /\ client = "double_free"  => res = -1
    /\ client = "uaf_callback" => res = Poison

\* arena_corrupt finds one redzone written over.
CorruptReported == (pc = "end" /\ client = "arena_corrupt") => res = 1

\* No block is freed twice, and the three programs end with what they promise.
FreedOnceAndReported == FreedOnce /\ DanglingReported /\ CorruptReported
=============================================================================
