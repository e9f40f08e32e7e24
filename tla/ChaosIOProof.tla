---------------------------- MODULE ChaosIOProof ----------------------------
(***************************************************************************)
(* Proofs about ChaosIO and its clients.  The slot table stays consistent  *)
(* with the kernel's descriptors for any number of threads, descriptors    *)
(* and slots, with any knobs, even if a descriptor is closed while another *)
(* call is using it.  If none is, what the slots account is what the files *)
(* hold, and a quota is overshot by no more than the number of callers     *)
(* allows.  disk_full and partial_write print true figures.                *)
(***************************************************************************)
EXTENDS FileScenarios, FiniteSetTheorems, TLAPS

\* A call that holds a descriptor the scenario does not: it has not returned it
\* yet, gives it back, or is about to close it.
Pending(t) == pc[t] \in {"alloc", "emfile", "close"}

\* The slots in use are those of the descriptors the scenario owns.
SlotOwned == \A i \in InUse : slots[i].fd \in owned

\* A pending descriptor is open, not owned, and held by that call alone.
PendingOk ==
    /\ \A t \in Callers : Pending(t) => fd[t] \in files \ owned
    /\ \A t, u \in Callers : Pending(t) /\ Pending(u) /\ fd[t] = fd[u] => t = u

IInv ==
    /\ TypeOK
    /\ SlotUnique /\ SlotOwned /\ OwnedHasSlot
    /\ owned \subseteq files
    /\ PendingOk /\ NoFdLeak

----------------------------------------------------------------------------
\* While descriptors are unique in the table, find_locked finds exactly the
\* slots that carry the one it was asked for.
LEMMA FindAll ==
    ASSUME TypeOK, SlotUnique, NEW f
    PROVE  find_locked(f) = {i \in Slots : slots[i].in_use /\ slots[i].fd = f}
  BY IOAssumption DEF find_locked, SlotUnique, InUse, Slots

\* What chaos_io_write lets through is a number of bytes, at most those asked for.
LEMMA PermitType ==
    ASSUME NEW s \in Slot, NEW k \in Nat, ~OverQuota(s)
    PROVE  Permit(s, k) \in Nat /\ Permit(s, k) <= k
  BY DEF Slot, Permit, Capped, Least, QuotaLeft, OverQuota

\* The same for chaos_io_read.
LEMMA CappedType ==
    ASSUME NEW s \in Slot, NEW k \in Nat
    PROVE  Capped(k, s.partial_max) \in Nat
  BY DEF Slot, Capped, Least

LEMMA InitIInv == Init => IInv
  BY IOAssumption, NoFdAssumption
     DEF Init, IInv, TypeOK, SlotUnique, SlotOwned, OwnedHasSlot, PendingOk, Pending, NoFdLeak,
         InUse, Slot, EmptySlot, NoFd

\* The part of the invariant about slots and descriptors does not change when a
\* caller that holds nothing moves to a place where it still holds nothing.
LEMMA PlainCall ==
    ASSUME IInv, NEW t \in Callers, ~Pending(t),
           NEW at \in {"idle", "write", "account", "read", "delay", "fsync"},
           NEW f \in Fds \cup {NoFd}, NEW k \in Nat,
           Call(t, at, f, k),
           UNCHANGED <<slots, files, owned>>, size' \in [Fds -> Nat]
    PROVE  IInv'
  BY DEF IInv, TypeOK, Call, SlotUnique, SlotOwned, OwnedHasSlot, PendingOk, Pending, NoFdLeak, InUse

\* A critical section that keeps in_use and fd of every slot keeps the
\* structure of the table.
LEMMA KeepsShape ==
    ASSUME IInv, slots' \in [Slots -> Slot],
           \A i \in Slots : slots'[i].in_use = slots[i].in_use /\ slots'[i].fd = slots[i].fd
    PROVE  /\ InUse' = InUse
           /\ UNCHANGED owned => SlotUnique' /\ SlotOwned' /\ OwnedHasSlot'
  <1>1. InUse' = InUse
    BY DEF InUse
  <1>. QED  BY <1>1 DEF IInv, SlotUnique, SlotOwned, OwnedHasSlot, InUse

----------------------------------------------------------------------------
\* chaos_io_open and chaos_io_close, the calls that hand descriptors about.
LEMMA HandOver ==
    ASSUME IInv, NEW t \in Callers,
           \/ \E f \in Fds : open_mkstemp(t, f)
           \/ open_alloc(t) \/ open_full(t) \/ open_emfile(t)
           \/ \E f \in Fds : close_slot(t, f)
           \/ close_fd(t)
    PROVE  IInv'
  <1>. USE NoFdAssumption
       DEF IInv, TypeOK, SlotUnique, SlotOwned, OwnedHasSlot, PendingOk, Pending, NoFdLeak,
           InUse, Call, Return
  <1>1. ASSUME NEW f \in Fds, open_mkstemp(t, f) PROVE IInv'
    BY <1>1 DEF open_mkstemp
  <1>2. CASE open_alloc(t)
    <2>1. PICK i \in free_locked :
            slots' = [slots EXCEPT ![i] = [EmptySlot EXCEPT !.in_use = TRUE, !.fd = fd[t]]]
      BY <1>2 DEF open_alloc
    <2>2. i \in Slots /\ ~slots[i].in_use
      BY DEF free_locked
    <2>3. fd[t] \in files \ owned /\ fd[t] \in Fds
      BY <1>2 DEF open_alloc
    <2>4. /\ slots'[i].in_use /\ slots'[i].fd = fd[t]
          /\ \A j \in Slots \ {i} : slots'[j] = slots[j]
          /\ slots' \in [Slots -> Slot]
      <3> DEFINE new == [EmptySlot EXCEPT !.in_use = TRUE, !.fd = fd[t]]
      <3>1. new.in_use /\ new.fd = fd[t]
        BY DEF EmptySlot
      <3>2. new \in Slot
        BY <2>3 DEF EmptySlot, Slot
      <3> HIDE DEF new
      <3>3. slots' = [slots EXCEPT ![i] = new] /\ slots \in [Slots -> Slot]
        BY <2>1 DEF new
      <3> QED BY <2>2, <3>1, <3>2, <3>3
    <2>5. InUse' = InUse \cup {i}
      BY <2>2, <2>4
    <2>6. SlotUnique' /\ SlotOwned' /\ OwnedHasSlot'
      BY <1>2, <2>2, <2>3, <2>4, <2>5 DEF open_alloc
    <2>7. TypeOK' /\ (owned \subseteq files)'
      BY <1>2, <2>3, <2>4 DEF open_alloc
    <2>8. PendingOk' /\ NoFdLeak'
      BY <1>2, <2>3 DEF open_alloc
    <2>. QED  BY <2>6, <2>7, <2>8
  <1>3. CASE open_full(t)
    BY <1>3 DEF open_full
  <1>4. CASE open_emfile(t)
    BY <1>4 DEF open_emfile
  <1>5. ASSUME NEW f \in Fds, close_slot(t, f) PROVE IInv'
    <2>1. \A i \in Slots : slots'[i] =
             IF slots[i].in_use /\ slots[i].fd = f
             THEN [slots[i] EXCEPT !.in_use = FALSE] ELSE slots[i]
      BY <1>5, FindAll DEF close_slot
    <2>2. slots' \in [Slots -> Slot]
      <3>1. \A s \in Slot : [s EXCEPT !.in_use = FALSE] \in Slot
        BY DEF Slot
      <3>. QED  BY <1>5, <3>1 DEF close_slot
    <2>3. /\ InUse' = {i \in InUse : slots[i].fd # f}
          /\ \A i \in Slots : slots'[i].fd = slots[i].fd
      BY <2>1, <2>2 DEF Slot
    <2>4. SlotUnique' /\ SlotOwned' /\ OwnedHasSlot'
      <3>1. owned' = owned \ {f}
        BY <1>5 DEF close_slot
      <3>2. \A i \in InUse' : i \in Slots /\ i \in InUse /\ slots[i].fd # f
        BY <2>3
      <3>3. SlotUnique'
        BY <2>3, <3>2
      <3>4. SlotOwned'
        BY <2>3, <3>1, <3>2
      <3>5. ASSUME NEW g \in owned' PROVE \E i \in InUse' : slots'[i].fd = g
        <4>1. PICK i \in InUse : slots[i].fd = g
          BY <3>1, <3>5
        <4>. QED  BY <2>3, <3>1, <3>5, <4>1
      <3>. QED  BY <3>3, <3>4, <3>5
    <2>5. TypeOK' /\ (owned \subseteq files)'
      BY <1>5, <2>2 DEF close_slot
    <2>6. PendingOk' /\ NoFdLeak'
      BY <1>5 DEF close_slot
    <2>. QED  BY <2>4, <2>5, <2>6
  <1>6. CASE close_fd(t)
    BY <1>6 DEF close_fd
  <1>. QED  BY <1>1, <1>2, <1>3, <1>4, <1>5, <1>6

\* chaos_io_write, chaos_io_read and chaos_io_fsync.
LEMMA Transfer ==
    ASSUME IInv, NEW t \in Callers,
           \/ \E f \in Fds, k \in 0..MaxWrite : write_check(t, f, k) \/ read_check(t, f, k)
           \/ \E w \in 1..MaxWrite : write_syscall(t, w)
           \/ write_nothing(t) \/ write_account(t)
           \/ \E f \in Fds : fsync_check(t, f)
           \/ fsync_delay(t) \/ read_or_fsync(t)
    PROVE  IInv'
  <1>. USE IOAssumption
  <1>0. ASSUME NEW f, find_locked(f) # {}
        PROVE  \E i \in find_locked(f) : SlotOf(f) = slots[i] /\ SlotOf(f) \in Slot
    BY <1>0 DEF SlotOf, find_locked, IInv, TypeOK
  <1>1. ASSUME NEW f \in Fds, NEW k \in 0..MaxWrite, write_check(t, f, k) PROVE IInv'
    <2>1. (IF find_locked(f) = {} THEN k ELSE Permit(SlotOf(f), k)) \in Nat
      BY <1>0, <1>1, PermitType DEF write_check
    <2>. QED  BY <1>1, <2>1, PlainCall DEF write_check, Pending, IInv, TypeOK
  <1>2. ASSUME NEW f \in Fds, NEW k \in 0..MaxWrite, read_check(t, f, k) PROVE IInv'
    <2>1. (IF find_locked(f) = {} THEN k ELSE Capped(k, SlotOf(f).partial_max)) \in Nat
      BY <1>0, CappedType
    <2>. QED  BY <1>2, <2>1, PlainCall DEF read_check, Pending, IInv, TypeOK
  <1>3. ASSUME NEW w \in 1..MaxWrite, write_syscall(t, w) PROVE IInv'
    BY <1>3, PlainCall DEF write_syscall, Pending, IInv, TypeOK
  <1>4. CASE write_nothing(t)
    BY <1>4, PlainCall DEF write_nothing, Return, Pending, IInv, TypeOK
  <1>5. CASE write_account(t)
    <2>1. /\ slots' \in [Slots -> Slot]
          /\ \A i \in Slots : slots'[i].in_use = slots[i].in_use /\ slots'[i].fd = slots[i].fd
      <3>1. \A s \in Slot : LET r == [s EXCEPT !.bytes_written = @ + n[t]]
                            IN  r \in Slot /\ r.in_use = s.in_use /\ r.fd = s.fd
        BY DEF Slot, IInv, TypeOK
      <3>2. \A i \in Slots : slots[i] \in Slot
        BY DEF IInv, TypeOK
      <3>. QED  BY <1>5, <3>1, <3>2 DEF write_account
    <2>2. SlotUnique' /\ SlotOwned' /\ OwnedHasSlot'
      BY <1>5, <2>1, KeepsShape DEF write_account
    <2>. QED  BY <1>5, <2>1, <2>2
              DEF write_account, Return, Call, IInv, TypeOK, PendingOk, Pending, NoFdLeak
  <1>6. ASSUME NEW f \in Fds, fsync_check(t, f) PROVE IInv'
    BY <1>6, PlainCall DEF fsync_check, Pending, IInv, TypeOK
  <1>7. CASE fsync_delay(t)
    BY <1>7, PlainCall DEF fsync_delay, Pending, IInv, TypeOK
  <1>8. CASE read_or_fsync(t)
    BY <1>8, PlainCall DEF read_or_fsync, Return, Pending, IInv, TypeOK
  <1>. QED  BY <1>1, <1>2, <1>3, <1>4, <1>5, <1>6, <1>7, <1>8

\* The knobs.
LEMMA Knobs ==
    ASSUME IInv, NEW f \in Fds,
           \/ \E q \in Quotas : chaos_io_set_quota(f, q)
           \/ \E c \in Chunks : chaos_io_set_partial(f, c)
           \/ \E b \in BOOLEAN : chaos_io_set_fsync_delay(f, b)
    PROVE  IInv'
  <1>1. /\ slots' \in [Slots -> Slot]
        /\ \A i \in Slots : slots'[i].in_use = slots[i].in_use /\ slots'[i].fd = slots[i].fd
        /\ UNCHANGED <<files, size, owned, pc, fd, n>>
    <2>. USE IOAssumption DEF OnSlot, callVars, Slot, IInv, TypeOK
    <2>1. CASE \E q \in Quotas : chaos_io_set_quota(f, q)
      BY <2>1 DEF chaos_io_set_quota
    <2>2. CASE \E c \in Chunks : chaos_io_set_partial(f, c)
      BY <2>2 DEF chaos_io_set_partial
    <2>3. CASE \E b \in BOOLEAN : chaos_io_set_fsync_delay(f, b)
      BY <2>3 DEF chaos_io_set_fsync_delay
    <2>. QED  BY <2>1, <2>2, <2>3
  <1>2. SlotUnique' /\ SlotOwned' /\ OwnedHasSlot'
    BY <1>1, KeepsShape
  <1>. QED  BY <1>1, <1>2 DEF IInv, TypeOK, PendingOk, Pending, NoFdLeak

LEMMA NextIInv == IInv /\ [Next]_vars => IInv'
  <1>. SUFFICES ASSUME IInv, [Next]_vars PROVE IInv'
    OBVIOUS
  <1>1. CASE UNCHANGED vars
    BY <1>1 DEF vars, IInv, TypeOK, SlotUnique, SlotOwned, OwnedHasSlot, PendingOk, Pending,
                NoFdLeak, InUse
  <1>. QED  BY <1>1, HandOver, Transfer, Knobs DEF Next

LEMMA SpecIInv == Spec => []IInv
  BY InitIInv, NextIInv, PTL DEF Spec

----------------------------------------------------------------------------
(* The theorems *)

\* Type correctness; in particular the subtraction quota - bytes_written, on
\* size_t in the code, never goes below zero.
THEOREM ChaosIOTypeOK == Spec => []TypeOK
  <1>1. IInv => TypeOK
    BY DEF IInv
  <1>. QED  BY <1>1, SpecIInv, PTL

\* At most one slot per descriptor, for every interleaving of opens and closes.
THEOREM ChaosIOSlotUnique == Spec => []SlotUnique
  <1>1. IInv => SlotUnique
    BY DEF IInv
  <1>. QED  BY <1>1, SpecIInv, PTL

\* A slot in use never outlives its descriptor.
THEOREM ChaosIOSlotBacked == Spec => []SlotBacked
  <1>1. IInv => SlotBacked
    BY DEF IInv, SlotOwned, SlotBacked
  <1>. QED  BY <1>1, SpecIInv, PTL

\* Every descriptor the scenario was given has the slot that carries its knobs.
THEOREM ChaosIOOwnedHasSlot == Spec => []OwnedHasSlot
  <1>1. IInv => OwnedHasSlot
    BY DEF IInv
  <1>. QED  BY <1>1, SpecIInv, PTL

\* No path of chaos_io_open or chaos_io_close leaks a descriptor.
THEOREM ChaosIONoFdLeak == Spec => []NoFdLeak
  <1>1. IInv => NoFdLeak
    BY DEF IInv
  <1>. QED  BY <1>1, SpecIInv, PTL

----------------------------------------------------------------------------
(* The bytes of the writes that are under way *)

\* A sum over the callers as the size of a set of pairs: one for each byte.
Pairs(a) == {p \in Callers \X (1..MaxWrite) : p[2] <= a[p[1]]}
Bytes(a) == Cardinality(Pairs(a))
Amounts  == [Callers -> 0..MaxWrite]

LEMMA BytesFinite ==
    ASSUME NEW a \in Amounts
    PROVE  IsFiniteSet(Pairs(a)) /\ Bytes(a) \in Nat
  <1>1. IsFiniteSet(Callers) /\ IsFiniteSet(1..MaxWrite)
    BY IOAssumption, FS_Interval
  <1>2. IsFiniteSet(Callers \X (1..MaxWrite))
    BY <1>1, FS_Product
  <1>3. Pairs(a) \subseteq Callers \X (1..MaxWrite)
    BY DEF Pairs
  <1>4. IsFiniteSet(Pairs(a))
    BY <1>2, <1>3, FS_Subset
  <1>. QED  BY <1>4, FS_CardinalityType DEF Bytes

LEMMA BytesNone ==
    ASSUME NEW a \in Amounts, \A t \in Callers : a[t] = 0
    PROVE  Bytes(a) = 0
  <1>1. Pairs(a) = {}
    <2>1. ASSUME NEW p \in Pairs(a) PROVE FALSE
      <3>1. p[1] \in Callers /\ p[2] \in 1..MaxWrite /\ p[2] <= a[p[1]]
        BY DEF Pairs
      <3>. QED  BY <3>1, IOAssumption
    <2>. QED  BY <2>1
  <1>. QED  BY <1>1, FS_EmptySet DEF Bytes

\* The pairs of the other callers.
Others(a, t) == {p \in Pairs(a) : p[1] # t}

\* One caller's amount and those of the others make up the sum.
LEMMA BytesSplit ==
    ASSUME NEW a \in Amounts, NEW t \in Callers
    PROVE  /\ Cardinality(Others(a, t)) \in Nat
           /\ Bytes(a) = a[t] + Cardinality(Others(a, t))
  <1>. DEFINE mine == {t} \X (1..a[t])
  <1>1. a[t] \in Nat /\ a[t] <= MaxWrite
    BY IOAssumption DEF Amounts
  <1>2. IsFiniteSet({t}) /\ Cardinality({t}) = 1
    BY FS_Singleton
  <1>3. IsFiniteSet(1..a[t]) /\ Cardinality(1..a[t]) = a[t]
    BY <1>1, FS_Interval, SMTT(30)
  <1>4. IsFiniteSet(mine) /\ Cardinality(mine) = a[t]
    <2>1. IsFiniteSet(mine) /\ Cardinality(mine) = Cardinality({t}) * Cardinality(1..a[t])
      BY <1>2, <1>3, FS_Product
    <2>. QED  BY <1>1, <1>2, <1>3, <2>1
  <1>5. IsFiniteSet(Others(a, t)) /\ Others(a, t) \subseteq Pairs(a)
    BY BytesFinite, FS_Subset DEF Others
  <1>6. Pairs(a) = mine \cup Others(a, t)
    <2>1. ASSUME NEW p \in mine PROVE p \in Pairs(a)
      <3>1. p[1] = t /\ p[2] \in 1..a[t] /\ p = <<p[1], p[2]>>
        OBVIOUS
      <3>2. p[2] \in 1..MaxWrite /\ p[2] <= a[p[1]]
        BY <1>1, <3>1, IOAssumption
      <3>. QED  BY <3>1, <3>2 DEF Pairs
    <2>2. ASSUME NEW p \in Pairs(a), p[1] = t PROVE p \in mine
      <3>1. p \in Callers \X (1..MaxWrite) /\ p[2] <= a[p[1]]
        BY DEF Pairs
      <3>2. p = <<p[1], p[2]>> /\ p[2] \in 1..a[t]
        BY <1>1, <2>2, <3>1, IOAssumption
      <3>. QED  BY <2>2, <3>2
    <2>3. \A p \in Others(a, t) : p \in Pairs(a) /\ p[1] # t
      BY DEF Others
    <2>4. \A p \in Pairs(a) : p[1] # t => p \in Others(a, t)
      BY DEF Others
    <2>. HIDE DEF mine
    <2>. QED  BY <2>1, <2>2, <2>3, <2>4
  <1>7. mine \cap Others(a, t) = {}
    <2>1. \A p \in mine : p[1] = t
      OBVIOUS
    <2>. QED  BY <2>1 DEF Others
  <1>8. Cardinality(Others(a, t)) \in Nat
    BY <1>5, FS_CardinalityType
  <1>9. Cardinality(mine \cup Others(a, t)) =
           Cardinality(mine) + Cardinality(Others(a, t)) - Cardinality(mine \cap Others(a, t))
    <2>. HIDE DEF mine
    <2>. QED  BY <1>4, <1>5, FS_Union
  <1>10. Cardinality(mine \cap Others(a, t)) = 0
    BY <1>7, FS_EmptySet
  <1>. HIDE DEF mine
  <1>. QED  BY <1>1, <1>4, <1>6, <1>8, <1>9, <1>10 DEF Bytes

\* The sum follows the one amount that changes.
LEMMA BytesChange ==
    ASSUME NEW a \in Amounts, NEW b \in Amounts, NEW t \in Callers,
           \A u \in Callers \ {t} : a[u] = b[u]
    PROVE  Bytes(b) + a[t] = Bytes(a) + b[t]
  <1>1. Others(a, t) = Others(b, t)
    BY DEF Others, Pairs
  <1>2. a[t] \in Nat /\ b[t] \in Nat
    BY IOAssumption DEF Amounts
  <1>. QED  BY <1>1, <1>2, BytesSplit

LEMMA BytesMono ==
    ASSUME NEW a \in Amounts, NEW b \in Amounts, \A u \in Callers : a[u] <= b[u]
    PROVE  Bytes(a) <= Bytes(b)
  <1>1. Pairs(a) \subseteq Pairs(b)
    <2>1. ASSUME NEW p \in Pairs(a) PROVE p \in Pairs(b)
      <3>1. p \in Callers \X (1..MaxWrite) /\ p[2] <= a[p[1]]
        BY DEF Pairs
      <3>2. p[2] \in Nat /\ a[p[1]] \in Nat /\ b[p[1]] \in Nat /\ a[p[1]] <= b[p[1]]
        BY <3>1, IOAssumption DEF Amounts
      <3>3. p[2] <= b[p[1]]
        BY <3>1, <3>2
      <3>. QED  BY <3>1, <3>3 DEF Pairs
    <2>. QED  BY <2>1
  <1>. QED  BY <1>1, BytesFinite, FS_Subset DEF Bytes

\* With nobody above q and one caller at nothing there is room for q more.
LEMMA BytesButOne ==
    ASSUME NEW a \in Amounts, NEW t \in Callers, NEW q \in Nat,
           a[t] = 0, \A u \in Callers : a[u] <= q
    PROVE  Bytes(a) + q <= q * Cardinality(Callers)
  <1>. DEFINE room == (Callers \ {t}) \X (1..q)
  <1>1. IsFiniteSet(Callers) /\ Cardinality(Callers) \in Nat
    BY IOAssumption, FS_CardinalityType
  <1>2. IsFiniteSet(Callers \ {t}) /\ Cardinality(Callers \ {t}) = Cardinality(Callers) - 1
    BY <1>1, FS_RemoveElement
  <1>3. IsFiniteSet(1..q) /\ Cardinality(1..q) = q
    BY FS_Interval
  <1>4. IsFiniteSet(room) /\ Cardinality(room) = Cardinality(Callers \ {t}) * Cardinality(1..q)
    BY <1>2, <1>3, FS_Product
  <1>5. Pairs(a) \subseteq room
    <2>1. ASSUME NEW p \in Pairs(a) PROVE p \in room
      <3>1. p \in Callers \X (1..MaxWrite) /\ p[2] <= a[p[1]]
        BY DEF Pairs
      <3>2. p = <<p[1], p[2]>> /\ p[1] \in Callers /\ p[2] \in Nat /\ p[2] >= 1
            /\ a[p[1]] \in Nat /\ a[p[1]] <= q
        BY <3>1, IOAssumption DEF Amounts
      <3>3. p[1] # t /\ p[2] \in 1..q
        BY <3>1, <3>2
      <3>. QED  BY <3>2, <3>3
    <2>. QED  BY <2>1
  <1>6. Bytes(a) <= Cardinality(room)
    <2>. HIDE DEF room
    <2>. QED  BY <1>4, <1>5, FS_Subset DEF Bytes
  <1>7. Bytes(a) \in Nat
    BY BytesFinite
  <1>8. \A c \in Nat : (c - 1) * q + q = q * c
    OBVIOUS
  <1>9. Cardinality(room) = (Cardinality(Callers) - 1) * q
    BY <1>2, <1>3, <1>4
  <1>. HIDE DEF room
  <1>10. Bytes(a) <= (Cardinality(Callers) - 1) * q
    BY <1>6, <1>9
  <1>. DEFINE c == Cardinality(Callers)
  <1>11. c \in Nat /\ (c - 1) * q \in Int /\ (c - 1) * q + q = q * c
    BY <1>1, <1>8
  <1>. QED  BY <1>7, <1>10, <1>11

----------------------------------------------------------------------------
(* Accounting, when no descriptor is closed under a call that uses it *)

\* The bytes caller t has under way on f at the places S, and those of all callers.
Share(S, f, t) == IF pc[t] \in S /\ fd[t] = f THEN n[t] ELSE 0
InFlight(S, f) == Bytes([t \in Callers |-> Share(S, f, t)])

Using   == {"write", "account", "read", "delay", "fsync"}
Waiting == {"account"}            \* written and not accounted
Granted == {"write", "account"}   \* let through by the check

\* No call moves more than it was asked to.
Small == \A t \in Callers : n[t] <= MaxWrite

\* A call that uses a descriptor uses one the scenario owns.
Holding == \A t \in Callers : pc[t] \in Using => fd[t] \in owned

\* A file that is being opened is empty.
Fresh == \A t \in Callers : pc[t] = "alloc" => size[fd[t]] = 0

\* The file is what was accounted and what waits to be.
Counted ==
    \A i \in InUse, f \in Fds : slots[i].fd = f =>
        size[f] = slots[i].bytes_written + InFlight(Waiting, f)

\* Under a quota no caller was let through with more than the quota, and what
\* was accounted and let through is at most one quota for every caller.
Granting ==
    \A i \in InUse, f \in Fds : slots[i].fd = f /\ slots[i].quota > 0 =>
        /\ \A t \in Callers : Share(Granted, f, t) <= slots[i].quota
        /\ slots[i].bytes_written + InFlight(Granted, f) <= slots[i].quota * Cardinality(Callers)

Places == Small /\ Holding /\ Fresh
AccInv == IInv /\ Places /\ Counted /\ (ConfigFirst => Granting)

LEMMA ShareType ==
    ASSUME TypeOK, Small, NEW S, NEW f
    PROVE  /\ \A t \in Callers : Share(S, f, t) \in 0..MaxWrite /\ Share(S, f, t) \in Nat
           /\ [t \in Callers |-> Share(S, f, t)] \in Amounts
           /\ InFlight(S, f) \in Nat
  <1>1. \A t \in Callers : Share(S, f, t) \in 0..MaxWrite /\ Share(S, f, t) \in Nat
    BY IOAssumption DEF Share, TypeOK, Small
  <1>2. [t \in Callers |-> Share(S, f, t)] \in Amounts
    BY <1>1 DEF Amounts
  <1>. QED  BY <1>1, <1>2, BytesFinite DEF InFlight

\* The same in the next state.
LEMMA ShareTypePrime ==
    ASSUME TypeOK', Small', NEW S, NEW f
    PROVE  /\ \A t \in Callers : Share(S, f, t)' \in 0..MaxWrite /\ Share(S, f, t)' \in Nat
           /\ InFlight(S, f)' \in Nat
  <1>. DEFINE b == [t \in Callers |-> Share(S, f, t)']
  <1>1. \A t \in Callers : Share(S, f, t)' \in 0..MaxWrite /\ Share(S, f, t)' \in Nat
    BY IOAssumption DEF Share, TypeOK, Small
  <1>2. b \in Amounts
    BY <1>1 DEF Amounts
  <1>3. InFlight(S, f)' = Bytes(b)
    BY DEF InFlight
  <1>. HIDE DEF b
  <1>. QED  BY <1>1, <1>2, <1>3, BytesFinite

LEMMA NothingInFlight ==
    ASSUME TypeOK, Small, NEW S, NEW f, \A t \in Callers : Share(S, f, t) = 0
    PROVE  InFlight(S, f) = 0
  <1>. DEFINE a == [t \in Callers |-> Share(S, f, t)]
  <1>1. a \in Amounts
    BY ShareType
  <1>2. \A t \in Callers : a[t] = 0
    OBVIOUS
  <1>. HIDE DEF a
  <1>3. Bytes(a) = 0
    BY <1>1, <1>2, BytesNone
  <1>. QED  BY <1>3 DEF a, InFlight

\* A call's step changes the sum by what its caller's share changes.
LEMMA CallMoves ==
    ASSUME TypeOK, Small, TypeOK', Small', NEW t \in Callers, NEW at, NEW g, NEW k,
           Call(t, at, g, k), NEW S, NEW f
    PROVE  /\ InFlight(S, f)' + Share(S, f, t) = InFlight(S, f) + Share(S, f, t)'
           /\ \A u \in Callers \ {t} : Share(S, f, u)' = Share(S, f, u)
           /\ Share(S, f, t)' = IF at \in S /\ g = f THEN k ELSE 0
  <1>. DEFINE a == [u \in Callers |-> Share(S, f, u)]
              b == [u \in Callers |-> Share(S, f, u)']
  <1>1. /\ \A u \in Callers \ {t} : Share(S, f, u)' = Share(S, f, u)
        /\ Share(S, f, t)' = IF at \in S /\ g = f THEN k ELSE 0
    BY DEF Share, Call, TypeOK
  <1>2. a \in Amounts
    BY ShareType
  <1>3. b \in Amounts
    <2>1. \A u \in Callers : Share(S, f, u)' \in 0..MaxWrite
      BY IOAssumption DEF Share, TypeOK, Small
    <2>. QED  BY <2>1 DEF Amounts
  <1>4. \A u \in Callers : a[u] = Share(S, f, u) /\ b[u] = Share(S, f, u)'
    OBVIOUS
  <1>5. InFlight(S, f) = Bytes(a) /\ InFlight(S, f)' = Bytes(b)
    BY DEF InFlight
  <1>. HIDE DEF a, b
  <1>6. Bytes(b) + a[t] = Bytes(a) + b[t]
    BY <1>1, <1>2, <1>3, <1>4, BytesChange
  <1>. QED  BY <1>1, <1>4, <1>5, <1>6

LEMMA CallOthers ==
    ASSUME TypeOK, NEW t \in Callers, NEW at, NEW g, NEW k, Call(t, at, g, k),
           NEW S, NEW f, NEW u \in Callers, u # t
    PROVE  Share(S, f, u)' = Share(S, f, u)
  BY DEF Share, Call, TypeOK

\* Whoever waits to account was let through.
LEMMA WaitingWasGranted ==
    ASSUME TypeOK, Small, NEW f
    PROVE  InFlight(Waiting, f) <= InFlight(Granted, f)
  <1>. DEFINE a == [u \in Callers |-> Share(Waiting, f, u)]
              b == [u \in Callers |-> Share(Granted, f, u)]
  <1>1. a \in Amounts /\ b \in Amounts
    BY ShareType
  <1>2. \A u \in Callers : a[u] <= b[u]
    BY DEF Share, Waiting, Granted, TypeOK
  <1>. HIDE DEF a, b
  <1>3. Bytes(a) <= Bytes(b)
    BY <1>1, <1>2, BytesMono
  <1>. QED  BY <1>3 DEF a, b, InFlight

\* What the callers hold, step by step.
LEMMA NextPlaces ==
    ASSUME ~Overlap, IInv, IInv', Places, [Next]_vars
    PROVE  Places'
  <1>. USE IOAssumption, NoFdAssumption DEF Places, Small, Holding, Fresh, Using, Call, Return, IInv, TypeOK
  <1>1. CASE UNCHANGED vars
    BY <1>1 DEF vars
  <1>2. ASSUME NEW t \in Callers, NEW f \in Fds, open_mkstemp(t, f) PROVE Places'
    BY <1>2 DEF open_mkstemp
  <1>3. ASSUME NEW t \in Callers, open_alloc(t) PROVE Places'
    BY <1>3 DEF open_alloc
  <1>4. ASSUME NEW t \in Callers, open_full(t) \/ open_emfile(t) PROVE Places'
    BY <1>4 DEF open_full, open_emfile
  <1>5. ASSUME NEW t \in Callers, NEW f \in Fds, NEW k \in 0..MaxWrite, write_check(t, f, k)
        PROVE  Places'
    <2>. DEFINE m == IF find_locked(f) = {} THEN k ELSE Permit(SlotOf(f), k)
    <2>1. m \in Nat /\ m <= MaxWrite
      <3>1. CASE find_locked(f) # {}
        <4>1. PICK i \in find_locked(f) : SlotOf(f) = slots[i]
          BY <3>1 DEF SlotOf
        <4>2. SlotOf(f) \in Slot /\ ~OverQuota(SlotOf(f))
          BY <1>5, <4>1 DEF write_check, find_locked
        <4>. QED  BY <3>1, <4>2, PermitType
      <3>. QED  BY <3>1
    <2>. HIDE DEF m
    <2>2. Call(t, "write", f, m) /\ UNCHANGED <<slots, files, size, owned>> /\ f \in owned
      BY <1>5 DEF write_check, m
    <2>. QED  BY <2>1, <2>2
  <1>6. ASSUME NEW t \in Callers, NEW f \in Fds, NEW k \in 0..MaxWrite, read_check(t, f, k)
        PROVE  Places'
    <2>. DEFINE m == IF find_locked(f) = {} THEN k ELSE Capped(k, SlotOf(f).partial_max)
    <2>1. m \in Nat /\ m <= MaxWrite
      <3>1. CASE find_locked(f) # {}
        <4>1. PICK i \in find_locked(f) : SlotOf(f) = slots[i]
          BY <3>1 DEF SlotOf
        <4>2. SlotOf(f) \in Slot
          BY <4>1 DEF find_locked
        <4>. QED  BY <3>1, <4>2 DEF Capped, Least, Slot
      <3>. QED  BY <3>1
    <2>. HIDE DEF m
    <2>2. Call(t, "read", f, m) /\ UNCHANGED <<slots, files, size, owned>> /\ f \in owned
      BY <1>6 DEF read_check, m
    <2>. QED  BY <2>1, <2>2
  <1>7. ASSUME NEW t \in Callers, NEW w \in 1..MaxWrite, write_syscall(t, w) PROVE Places'
    <2>1. fd[t] \in owned /\ fd[t] \in Fds
      BY <1>7 DEF write_syscall
    <2>2. \A u \in Callers : pc[u] = "alloc" => fd[u] # fd[t]
      BY <2>1 DEF PendingOk, Pending
    <2>. QED  BY <1>7, <2>1, <2>2 DEF write_syscall
  <1>8. ASSUME NEW t \in Callers, write_nothing(t) \/ write_account(t) PROVE Places'
    BY <1>8 DEF write_nothing, write_account
  <1>9. ASSUME NEW t \in Callers, NEW f \in Fds, fsync_check(t, f) PROVE Places'
    BY <1>9 DEF fsync_check
  <1>10. ASSUME NEW t \in Callers, fsync_delay(t) \/ read_or_fsync(t) PROVE Places'
    BY <1>10 DEF fsync_delay, read_or_fsync
  <1>11. ASSUME NEW t \in Callers, NEW f \in Fds, close_slot(t, f) PROVE Places'
    BY <1>11 DEF close_slot, Busy
  <1>12. ASSUME NEW t \in Callers, close_fd(t) PROVE Places'
    BY <1>12 DEF close_fd
  <1>13. ASSUME NEW f \in Fds, OnSlot(f) PROVE Places'
    BY <1>13 DEF OnSlot, callVars
  <1>. QED  BY <1>1, <1>2, <1>3, <1>4, <1>5, <1>6, <1>7, <1>8, <1>9, <1>10, <1>11, <1>12, <1>13
            DEF Next, chaos_io_set_quota, chaos_io_set_partial, chaos_io_set_fsync_delay

\* A step of a caller that is not writing, before or after, and that leaves the
\* slots in use and their files as they are or gives one up.
LEMMA Aside ==
    ASSUME AccInv, IInv', Places', NEW t \in Callers, NEW at, NEW g, NEW k, Call(t, at, g, k),
           pc[t] \notin Granted, at \notin Granted,
           \A i \in InUse' : /\ i \in InUse
                             /\ slots'[i].fd = slots[i].fd /\ slots'[i].quota = slots[i].quota
                             /\ slots'[i].bytes_written = slots[i].bytes_written
                             /\ size'[slots[i].fd] = size[slots[i].fd]
    PROVE  Counted' /\ (ConfigFirst => Granting')
  <1>1. TypeOK /\ TypeOK' /\ Small /\ Small'
    BY DEF AccInv, IInv, Places
  <1>2. ASSUME NEW f \in Fds, NEW S \in {Waiting, Granted}
        PROVE  /\ InFlight(S, f)' = InFlight(S, f)
               /\ \A u \in Callers : Share(S, f, u)' = Share(S, f, u)
    <2>1. Share(S, f, t) = 0 /\ Share(S, f, t)' = 0
      BY <1>1, <1>2, CallMoves DEF Share, Waiting, Granted
    <2>2. InFlight(S, f) \in Nat /\ InFlight(S, f)' \in Nat
      BY <1>1, ShareType, ShareTypePrime
    <2>. QED  BY <1>1, <2>1, <2>2, CallMoves
  <1>3. Counted'
    BY <1>2 DEF AccInv, Counted
  <1>4. ASSUME Granting PROVE Granting'
    BY <1>2, <1>4 DEF Granting
  <1>. QED  BY <1>3, <1>4 DEF AccInv

\* The new slot of chaos_io_open starts with an empty file and nobody on it.
LEMMA AllocCounts ==
    ASSUME AccInv, IInv', Places', NEW t \in Callers, open_alloc(t)
    PROVE  Counted' /\ (ConfigFirst => Granting')
  <1>1. TypeOK /\ TypeOK' /\ Small /\ Small'
    BY DEF AccInv, IInv, Places
  <1>2. PICK i \in free_locked :
          slots' = [slots EXCEPT ![i] = [EmptySlot EXCEPT !.in_use = TRUE, !.fd = fd[t]]]
    BY DEF open_alloc
  <1>3. /\ i \in Slots /\ slots'[i].fd = fd[t]
        /\ slots'[i].quota = 0 /\ slots'[i].bytes_written = 0
        /\ \A j \in Slots \ {i} : slots'[j] = slots[j]
    BY <1>1, <1>2 DEF free_locked, EmptySlot, TypeOK
  <1>4. \A j \in InUse' : j # i => j \in InUse /\ slots'[j] = slots[j]
    BY <1>3 DEF InUse
  <1>5. UNCHANGED size /\ size[fd[t]] = 0 /\ fd[t] \notin owned
    BY DEF open_alloc, AccInv, Places, Fresh, IInv, PendingOk, Pending
  <1>6. ASSUME NEW f \in Fds, NEW S \in {Waiting, Granted}
        PROVE  /\ InFlight(S, f)' = InFlight(S, f)
               /\ \A u \in Callers : Share(S, f, u)' = Share(S, f, u)
    <2>1. pc[t] \notin S /\ "idle" \notin S /\ Call(t, "idle", NoFd, 0)
      BY <1>6 DEF open_alloc, Return, Waiting, Granted
    <2>2. Share(S, f, t) = 0 /\ Share(S, f, t)' = 0
      BY <1>1, <2>1, CallMoves DEF Share
    <2>3. InFlight(S, f) \in Nat /\ InFlight(S, f)' \in Nat
      BY <1>1, ShareType, ShareTypePrime
    <2>. QED  BY <1>1, <2>1, <2>2, <2>3, CallMoves
  <1>7. ASSUME NEW f \in Fds, f = fd[t] PROVE InFlight(Waiting, f) = 0
    <2>1. \A u \in Callers : Share(Waiting, f, u) = 0
      BY <1>5, <1>7 DEF Share, Waiting, AccInv, Places, Holding, Using
    <2>. QED  BY <1>1, <2>1, NothingInFlight
  <1>8. Counted'
    <2>1. ASSUME NEW j \in InUse', NEW f \in Fds, slots'[j].fd = f
          PROVE  size'[f] = slots'[j].bytes_written + InFlight(Waiting, f)'
      <3>1. CASE j = i
        BY <1>3, <1>5, <1>6, <1>7, <2>1, <3>1
      <3>2. CASE j # i
        BY <1>4, <1>5, <1>6, <2>1, <3>2 DEF AccInv, Counted
      <3>. QED  BY <3>1, <3>2
    <2>. QED  BY <2>1 DEF Counted
  <1>9. ASSUME Granting PROVE Granting'
    <2>1. \A j \in InUse' : slots'[j].quota > 0 => j # i
      BY <1>3
    <2>. QED  BY <1>4, <1>6, <1>9, <2>1 DEF Granting
  <1>. QED  BY <1>8, <1>9 DEF AccInv

\* The check lets a caller through with at most what the quota leaves.
LEMMA PermitLeft ==
    ASSUME NEW s \in Slot, NEW k \in Nat, ~OverQuota(s), s.quota > 0
    PROVE  Permit(s, k) + s.bytes_written <= s.quota
  BY DEF Slot, Permit, Capped, Least, QuotaLeft, OverQuota

LEMMA CheckCounts ==
    ASSUME AccInv, IInv', Places', NEW t \in Callers, NEW g \in Fds, NEW k \in 0..MaxWrite,
           write_check(t, g, k)
    PROVE  Counted' /\ (ConfigFirst => Granting')
  <1>. DEFINE m == IF find_locked(g) = {} THEN k ELSE Permit(SlotOf(g), k)
  <1>1. TypeOK /\ TypeOK' /\ Small /\ Small'
    BY DEF AccInv, IInv, Places
  <1>2. Call(t, "write", g, m) /\ UNCHANGED <<slots, size>> /\ pc[t] = "idle"
    BY DEF write_check
  <1>3. ASSUME NEW i \in InUse, slots[i].fd = g, slots[i].quota > 0
        PROVE  m \in Nat /\ m + slots[i].bytes_written <= slots[i].quota
    <2>1. SlotUnique
      BY DEF AccInv, IInv
    <2>2. find_locked(g) = {i}
      BY <1>1, <1>3, <2>1, FindAll DEF InUse, SlotUnique
    <2>3. SlotOf(g) = slots[i] /\ slots[i] \in Slot /\ ~OverQuota(slots[i])
      BY <1>1, <1>3, <2>2 DEF SlotOf, write_check, InUse, TypeOK
    <2>4. k \in Nat
      BY IOAssumption
    <2>. QED  BY <1>3, <2>2, <2>3, <2>4, PermitLeft, PermitType
  <1>. HIDE DEF m
  <1>4. ASSUME NEW f \in Fds PROVE InFlight(Waiting, f)' = InFlight(Waiting, f)
    <2>0. Share(Waiting, f, t)' = IF "write" \in Waiting /\ g = f THEN m ELSE 0
      BY <1>1, <1>2, CallMoves
    <2>1. Share(Waiting, f, t) = 0 /\ Share(Waiting, f, t)' = 0
      BY <1>2, <2>0 DEF Share, Waiting
    <2>2. InFlight(Waiting, f) \in Nat /\ InFlight(Waiting, f)' \in Nat
      BY <1>1, ShareType, ShareTypePrime
    <2>. QED  BY <1>1, <1>2, <2>1, <2>2, CallMoves
  <1>5. Counted'
    BY <1>2, <1>4 DEF AccInv, Counted, InUse
  <1>6. ASSUME Granting PROVE Granting'
    <2>1. ASSUME NEW i \in InUse, NEW f \in Fds, slots[i].fd = f, slots[i].quota > 0
          PROVE  /\ \A u \in Callers : Share(Granted, f, u)' <= slots[i].quota
                 /\ slots[i].bytes_written + InFlight(Granted, f)'
                        <= slots[i].quota * Cardinality(Callers)
      <3>1. /\ \A u \in Callers : Share(Granted, f, u) <= slots[i].quota
            /\ slots[i].bytes_written + InFlight(Granted, f) <= slots[i].quota * Cardinality(Callers)
        BY <1>6, <2>1 DEF Granting
      <3>2. slots[i].bytes_written \in Nat /\ slots[i].quota \in Nat
        BY <1>1 DEF TypeOK, Slot, InUse
      <3>3. InFlight(Granted, f) \in Nat /\ InFlight(Granted, f)' \in Nat
        BY <1>1, ShareType, ShareTypePrime
      <3>4. Share(Granted, f, t) = 0
        BY <1>2 DEF Share, Granted
      <3>5. /\ InFlight(Granted, f)' + Share(Granted, f, t) = InFlight(Granted, f) + Share(Granted, f, t)'
            /\ \A u \in Callers \ {t} : Share(Granted, f, u)' = Share(Granted, f, u)
            /\ Share(Granted, f, t)' = IF g = f THEN m ELSE 0
        <4>1. "write" \in Granted
          BY DEF Granted
        <4>2. Call(t, "write", g, m)
          BY <1>2
        <4>3. ASSUME NEW u \in Callers \ {t} PROVE Share(Granted, f, u)' = Share(Granted, f, u)
          BY <1>1, <4>2, CallOthers
        <4>4. InFlight(Granted, f)' + Share(Granted, f, t) = InFlight(Granted, f) + Share(Granted, f, t)'
          BY <1>1, <4>2, CallMoves
        <4>5. Share(Granted, f, t)' = IF "write" \in Granted /\ g = f THEN m ELSE 0
          BY <1>1, <4>2, CallMoves
        <4>. QED  BY <4>1, <4>3, <4>4, <4>5
      <3>6. CASE g # f
        BY <3>1, <3>2, <3>3, <3>4, <3>5, <3>6
      <3>7. CASE g = f
        <4>1. m \in Nat /\ m + slots[i].bytes_written <= slots[i].quota
          BY <1>3, <2>1, <3>7
        <4>2. InFlight(Granted, f) + slots[i].quota <= slots[i].quota * Cardinality(Callers)
          <5>. DEFINE a == [u \in Callers |-> Share(Granted, f, u)]
          <5>1. a \in Amounts
            BY <1>1, ShareType
          <5>2. a[t] = 0 /\ \A u \in Callers : a[u] <= slots[i].quota
            BY <3>1, <3>4
          <5>3. InFlight(Granted, f) = Bytes(a)
            BY DEF InFlight
          <5>. HIDE DEF a
          <5>. QED  BY <3>2, <5>1, <5>2, <5>3, BytesButOne
        <4>3. slots[i].quota * Cardinality(Callers) \in Nat
          BY <3>2, IOAssumption, FS_CardinalityType
        <4>4. InFlight(Granted, f)' = InFlight(Granted, f) + m
          BY <3>3, <3>4, <3>5, <3>7, <4>1
        <4>5. slots[i].bytes_written + InFlight(Granted, f)' <= slots[i].quota * Cardinality(Callers)
          BY <3>2, <3>3, <4>1, <4>2, <4>3, <4>4
        <4>. QED  BY <3>1, <3>2, <3>5, <3>7, <4>1, <4>5
      <3>. QED  BY <3>6, <3>7
    <2>. QED  BY <1>2, <2>1 DEF Granting, InUse
  <1>. QED  BY <1>5, <1>6 DEF AccInv

\* write(2) appends at most what was let through; a write that fails gives it up.
LEMMA SyscallCounts ==
    ASSUME AccInv, IInv', Places', NEW t \in Callers,
           (\E w \in 1..MaxWrite : write_syscall(t, w)) \/ write_nothing(t)
    PROVE  Counted' /\ (ConfigFirst => Granting')
  <1>1. TypeOK /\ TypeOK' /\ Small /\ Small'
    BY DEF AccInv, IInv, Places
  <1>2. PICK at \in {"account", "idle"}, g \in Fds \cup {NoFd}, w \in Nat :
          /\ Call(t, at, g, w) /\ pc[t] = "write" /\ UNCHANGED slots
          /\ at = "idle" => UNCHANGED size
          /\ at = "account" => /\ g = fd[t] /\ w <= n[t] /\ g \in Fds
                               /\ size' = [size EXCEPT ![g] = @ + w]
    <2>1. ASSUME NEW w \in 1..MaxWrite, write_syscall(t, w)
          PROVE  /\ Call(t, "account", fd[t], w) /\ pc[t] = "write" /\ UNCHANGED slots
                 /\ w \in Nat /\ w <= n[t] /\ fd[t] \in Fds
                 /\ size' = [size EXCEPT ![fd[t]] = @ + w]
      BY <1>1, <2>1, IOAssumption DEF write_syscall, TypeOK, AccInv, IInv
    <2>2. CASE \E w \in 1..MaxWrite : write_syscall(t, w)
      BY <2>1, <2>2
    <2>3. CASE write_nothing(t)
      BY <2>3 DEF write_nothing, Return
    <2>. QED  BY <2>2, <2>3
  <1>2a. Call(t, at, g, w)
    BY <1>2
  <1>3. ASSUME NEW f \in Fds
        PROVE  /\ InFlight(Waiting, f) \in Nat
               /\ InFlight(Waiting, f)' = InFlight(Waiting, f)
                      + (IF at = "account" /\ f = g THEN w ELSE 0)
    <2>0. Share(Waiting, f, t)' = IF at \in Waiting /\ g = f THEN w ELSE 0
      BY <1>1, <1>2a, CallMoves
    <2>1. Share(Waiting, f, t) = 0 /\ Share(Waiting, f, t)' = IF at = "account" /\ f = g THEN w ELSE 0
      BY <1>2, <2>0 DEF Share, Waiting
    <2>2. InFlight(Waiting, f) \in Nat /\ InFlight(Waiting, f)' \in Nat
      BY <1>1, ShareType, ShareTypePrime
    <2>. QED  BY <1>1, <1>2a, <1>2, <2>1, <2>2, CallMoves
  <1>4. Counted'
    <2>1. ASSUME NEW i \in InUse, NEW f \in Fds, slots[i].fd = f
          PROVE  size'[f] = slots[i].bytes_written + InFlight(Waiting, f)'
      <3>1. size[f] = slots[i].bytes_written + InFlight(Waiting, f)
        BY <2>1 DEF AccInv, Counted
      <3>2. slots[i].bytes_written \in Nat /\ size[f] \in Nat
        BY <1>1 DEF TypeOK, Slot, InUse
      <3>3. size'[f] = size[f] + (IF at = "account" /\ f = g THEN w ELSE 0)
        BY <1>1, <1>2, <3>2 DEF TypeOK
      <3>. QED  BY <1>3, <3>1, <3>2, <3>3
    <2>. QED  BY <1>2, <2>1 DEF Counted, InUse
  <1>5. ASSUME NEW f \in Fds
        PROVE  /\ \A u \in Callers : Share(Granted, f, u)' <= Share(Granted, f, u)
               /\ InFlight(Granted, f)' <= InFlight(Granted, f)
    <2>1. Share(Granted, f, t) \in Nat /\ Share(Granted, f, t)' \in Nat
      BY <1>1, ShareType, ShareTypePrime
    <2>2. Share(Granted, f, t)' <= Share(Granted, f, t)
      <3>1. Share(Granted, f, t)' = IF at \in Granted /\ g = f THEN w ELSE 0
        BY <1>1, <1>2a, CallMoves
      <3>2. Share(Granted, f, t) = IF fd[t] = f THEN n[t] ELSE 0
        BY <1>2 DEF Share, Granted
      <3>3. at \in Granted => at = "account"
        BY <1>2 DEF Granted
      <3>. QED  BY <1>2, <2>1, <3>1, <3>2, <3>3
    <2>3. InFlight(Granted, f) \in Nat /\ InFlight(Granted, f)' \in Nat
      BY <1>1, ShareType, ShareTypePrime
    <2>4. \A u \in Callers : Share(Granted, f, u) \in Nat
      BY <1>1, ShareType
    <2>5. ASSUME NEW u \in Callers \ {t} PROVE Share(Granted, f, u)' = Share(Granted, f, u)
      BY <1>1, <1>2a, CallOthers
    <2>6. InFlight(Granted, f)' + Share(Granted, f, t) = InFlight(Granted, f) + Share(Granted, f, t)'
      BY <1>1, <1>2a, CallMoves
    <2>. QED  BY <2>1, <2>2, <2>3, <2>4, <2>5, <2>6
  <1>6. ASSUME Granting PROVE Granting'
    <2>1. ASSUME NEW i \in InUse, NEW f \in Fds, slots[i].fd = f, slots[i].quota > 0
          PROVE  /\ \A u \in Callers : Share(Granted, f, u)' <= slots[i].quota
                 /\ slots[i].bytes_written + InFlight(Granted, f)'
                        <= slots[i].quota * Cardinality(Callers)
      <3>1. /\ \A u \in Callers : Share(Granted, f, u) <= slots[i].quota
            /\ slots[i].bytes_written + InFlight(Granted, f) <= slots[i].quota * Cardinality(Callers)
        BY <1>6, <2>1 DEF Granting
      <3>2. slots[i].bytes_written \in Nat /\ slots[i].quota \in Nat
        BY <1>1 DEF TypeOK, Slot, InUse
      <3>3. InFlight(Granted, f) \in Nat /\ InFlight(Granted, f)' \in Nat
        BY <1>1, ShareType, ShareTypePrime
      <3>4. slots[i].quota * Cardinality(Callers) \in Nat
        BY <3>2, IOAssumption, FS_CardinalityType
      <3>5. \A u \in Callers : Share(Granted, f, u) \in Nat /\ Share(Granted, f, u)' \in Nat
        BY <1>1, ShareType, ShareTypePrime
      <3>. QED  BY <1>5, <3>1, <3>2, <3>3, <3>4, <3>5
    <2>. QED  BY <1>2, <2>1 DEF Granting, InUse
  <1>. QED  BY <1>4, <1>6 DEF AccInv

\* What was written moves from the call to the slot.
LEMMA AccountCounts ==
    ASSUME AccInv, IInv', Places', NEW t \in Callers, write_account(t)
    PROVE  Counted' /\ (ConfigFirst => Granting')
  <1>1. TypeOK /\ TypeOK' /\ Small /\ Small' /\ SlotUnique
    BY DEF AccInv, IInv, Places
  <1>2. Call(t, "idle", NoFd, 0) /\ UNCHANGED size /\ pc[t] = "account" /\ n[t] \in Nat
    BY <1>1 DEF write_account, Return, TypeOK
  <1>3. Call(t, "idle", NoFd, 0)
    BY <1>2
  <1>4. ASSUME NEW i \in Slots
        PROVE  /\ slots'[i].fd = slots[i].fd /\ slots'[i].quota = slots[i].quota
               /\ slots'[i].in_use = slots[i].in_use
               /\ slots'[i].bytes_written =
                     slots[i].bytes_written + (IF slots[i].in_use /\ slots[i].fd = fd[t] THEN n[t] ELSE 0)
    <2>1. slots[i] \in Slot /\ slots[i].bytes_written \in Nat
      BY <1>1 DEF TypeOK, Slot
    <2>2. slots'[i] = IF slots[i].in_use /\ slots[i].fd = fd[t]
                      THEN [slots[i] EXCEPT !.bytes_written = @ + n[t]] ELSE slots[i]
      BY <1>1, FindAll DEF write_account
    <2>. QED  BY <1>2, <2>1, <2>2 DEF Slot
  <1>5. InUse' = InUse
    BY <1>4 DEF InUse
  <1>6. ASSUME NEW f \in Fds, NEW S, "account" \in S, "idle" \notin S
        PROVE  /\ InFlight(S, f) \in Nat /\ InFlight(S, f)' \in Nat
               /\ InFlight(S, f)' + (IF fd[t] = f THEN n[t] ELSE 0) = InFlight(S, f)
               /\ \A u \in Callers : Share(S, f, u)' <= Share(S, f, u)
    <2>1. Share(S, f, t) = IF fd[t] = f THEN n[t] ELSE 0
      BY <1>2, <1>6 DEF Share
    <2>2. Share(S, f, t)' = 0
      BY <1>1, <1>3, <1>6, CallMoves
    <2>3. InFlight(S, f)' + Share(S, f, t) = InFlight(S, f) + Share(S, f, t)'
      BY <1>1, <1>3, CallMoves
    <2>4. InFlight(S, f) \in Nat /\ InFlight(S, f)' \in Nat
      BY <1>1, ShareType, ShareTypePrime
    <2>5. \A u \in Callers : Share(S, f, u) \in Nat
      BY <1>1, ShareType
    <2>6. ASSUME NEW u \in Callers, u # t PROVE Share(S, f, u)' = Share(S, f, u)
      BY <1>1, <1>3, <2>6, CallOthers
    <2>. QED  BY <2>1, <2>2, <2>3, <2>4, <2>5, <2>6
  <1>7. ASSUME NEW f \in Fds, NEW i \in InUse, slots[i].fd = f
        PROVE  /\ slots'[i].bytes_written = slots[i].bytes_written + (IF fd[t] = f THEN n[t] ELSE 0)
               /\ slots[i].bytes_written \in Nat /\ slots[i].quota \in Nat
    BY <1>1, <1>4, <1>7 DEF InUse, TypeOK, Slot
  <1>8. Counted'
    <2>1. ASSUME NEW i \in InUse, NEW f \in Fds, slots[i].fd = f
          PROVE  size[f] = slots'[i].bytes_written + InFlight(Waiting, f)'
      <3>1. "account" \in Waiting /\ "idle" \notin Waiting
        BY DEF Waiting
      <3>2. size[f] = slots[i].bytes_written + InFlight(Waiting, f)
        BY <2>1 DEF AccInv, Counted
      <3>. QED  BY <1>2, <1>6, <1>7, <2>1, <3>1, <3>2
    <2>2. \A i \in InUse : slots'[i].fd = slots[i].fd
      BY <1>4 DEF InUse
    <2>. QED  BY <1>2, <1>5, <2>1, <2>2 DEF Counted
  <1>9. ASSUME Granting PROVE Granting'
    <2>1. ASSUME NEW i \in InUse, NEW f \in Fds, slots[i].fd = f, slots[i].quota > 0
          PROVE  /\ \A u \in Callers : Share(Granted, f, u)' <= slots[i].quota
                 /\ slots'[i].bytes_written + InFlight(Granted, f)'
                        <= slots[i].quota * Cardinality(Callers)
      <3>1. "account" \in Granted /\ "idle" \notin Granted
        BY DEF Granted
      <3>2. /\ \A u \in Callers : Share(Granted, f, u) <= slots[i].quota
            /\ slots[i].bytes_written + InFlight(Granted, f) <= slots[i].quota * Cardinality(Callers)
        BY <1>9, <2>1 DEF Granting
      <3>3. slots'[i].bytes_written + InFlight(Granted, f)' = slots[i].bytes_written + InFlight(Granted, f)
        BY <1>2, <1>6, <1>7, <2>1, <3>1
      <3>4. ASSUME NEW u \in Callers PROVE Share(Granted, f, u)' <= slots[i].quota
        <4>1. Share(Granted, f, u) \in Nat /\ Share(Granted, f, u)' \in Nat
          BY <1>1, ShareType, ShareTypePrime
        <4>2. Share(Granted, f, u)' <= Share(Granted, f, u)
          BY <1>6, <3>1
        <4>. QED  BY <1>7, <2>1, <3>2, <4>1, <4>2
      <3>. QED  BY <3>2, <3>3, <3>4
    <2>2. \A i \in InUse : slots'[i].fd = slots[i].fd /\ slots'[i].quota = slots[i].quota
      BY <1>4 DEF InUse
    <2>. QED  BY <1>5, <2>1, <2>2 DEF Granting
  <1>. QED  BY <1>8, <1>9 DEF AccInv

\* A knob moves no bytes; a quota that is set up front finds none.
LEMMA KnobCounts ==
    ASSUME AccInv, IInv', Places', NEW g \in Fds,
           \/ \E q \in Quotas : chaos_io_set_quota(g, q)
           \/ \E c \in Chunks : chaos_io_set_partial(g, c)
           \/ \E b \in BOOLEAN : chaos_io_set_fsync_delay(g, b)
    PROVE  Counted' /\ (ConfigFirst => Granting')
  <1>1. TypeOK /\ TypeOK' /\ Small /\ Small' /\ SlotUnique
    BY DEF AccInv, IInv, Places
  <1>2. UNCHANGED <<size, pc, fd, n>>
    BY DEF chaos_io_set_quota, chaos_io_set_partial, chaos_io_set_fsync_delay, OnSlot, callVars
  <1>3. ASSUME NEW i \in Slots
        PROVE  /\ slots'[i].fd = slots[i].fd /\ slots'[i].in_use = slots[i].in_use
               /\ slots'[i].bytes_written = slots[i].bytes_written
               /\ \/ slots'[i].quota = slots[i].quota
                  \/ slots[i].in_use /\ slots[i].fd = g /\ (ConfigFirst => size[g] = 0 /\ ~Busy(g))
    <2>1. slots[i] \in Slot
      BY <1>1 DEF TypeOK
    <2>2. CASE \E q \in Quotas : chaos_io_set_quota(g, q)
      BY <1>1, <2>1, <2>2, FindAll DEF chaos_io_set_quota, Slot
    <2>3. CASE \E c \in Chunks : chaos_io_set_partial(g, c)
      BY <2>1, <2>3 DEF chaos_io_set_partial, Slot
    <2>4. CASE \E b \in BOOLEAN : chaos_io_set_fsync_delay(g, b)
      BY <2>1, <2>4 DEF chaos_io_set_fsync_delay, Slot
    <2>. QED  BY <2>2, <2>3, <2>4
  <1>4. InUse' = InUse /\ \A i \in InUse : i \in Slots
    BY <1>3 DEF InUse
  <1>5. ASSUME NEW S, NEW f
        PROVE  InFlight(S, f)' = InFlight(S, f) /\ \A u \in Callers : Share(S, f, u)' = Share(S, f, u)
    BY <1>2 DEF InFlight, Share
  <1>6. Counted'
    BY <1>2, <1>3, <1>4, <1>5 DEF AccInv, Counted
  <1>7. ASSUME ConfigFirst, Granting PROVE Granting'
    <2>1. ASSUME NEW i \in InUse, NEW f \in Fds, slots[i].fd = f, slots'[i].quota > 0
          PROVE  /\ \A u \in Callers : Share(Granted, f, u)' <= slots'[i].quota
                 /\ slots'[i].bytes_written + InFlight(Granted, f)'
                        <= slots'[i].quota * Cardinality(Callers)
      <3>1. CASE slots'[i].quota = slots[i].quota
        <4>1. /\ \A u \in Callers : Share(Granted, f, u) <= slots[i].quota
              /\ slots[i].bytes_written + InFlight(Granted, f) <= slots[i].quota * Cardinality(Callers)
          BY <1>7, <2>1, <3>1 DEF Granting
        <4>. QED  BY <1>3, <1>4, <1>5, <3>1, <4>1
      <3>2. CASE slots'[i].quota # slots[i].quota
        <4>1. f = g /\ size[f] = 0 /\ ~Busy(f)
          BY <1>3, <1>4, <1>7, <2>1, <3>2
        <4>2. \A u \in Callers : Share(Granted, f, u) = 0
          BY <4>1 DEF Busy, Share, Granted
        <4>3. InFlight(Granted, f) = 0
          BY <1>1, <4>2, NothingInFlight
        <4>4. slots[i].bytes_written \in Nat /\ slots'[i].quota \in Nat
          BY <1>1, <1>4 DEF TypeOK, Slot
        <4>5. InFlight(Waiting, f) \in Nat
          BY <1>1, ShareType
        <4>6. slots[i].bytes_written = 0
          BY <2>1, <4>1, <4>4, <4>5 DEF AccInv, Counted
        <4>7. slots'[i].quota * Cardinality(Callers) \in Nat
          BY <4>4, IOAssumption, FS_CardinalityType
        <4>8. slots'[i].bytes_written + InFlight(Granted, f)' = 0
          BY <1>3, <1>4, <1>5, <4>3, <4>6
        <4>. QED  BY <1>5, <4>2, <4>4, <4>7, <4>8
      <3>. QED  BY <3>1, <3>2
    <2>2. \A i \in InUse : slots'[i].fd = slots[i].fd
      BY <1>3, <1>4
    <2>. QED  BY <1>4, <2>1, <2>2 DEF Granting
  <1>. QED  BY <1>6, <1>7 DEF AccInv

LEMMA NextAccInv ==
    ASSUME ~Overlap, AccInv, [Next]_vars
    PROVE  AccInv'
  <1>1. IInv'
    BY NextIInv DEF AccInv
  <1>2. Places'
    BY <1>1, NextPlaces DEF AccInv
  <1>3. TypeOK /\ TypeOK' /\ SlotOwned /\ SlotUnique /\ owned \subseteq files
    BY <1>1 DEF AccInv, IInv
  <1>4. Counted' /\ (ConfigFirst => Granting')
    <2>1. CASE UNCHANGED vars
      <3>1. ASSUME NEW S, NEW f
            PROVE  InFlight(S, f)' = InFlight(S, f) /\ \A u \in Callers : Share(S, f, u)' = Share(S, f, u)
        BY <2>1 DEF vars, InFlight, Share
      <3>. QED  BY <2>1, <3>1 DEF vars, AccInv, Counted, Granting, InUse
    <2>2. ASSUME NEW t \in Callers, NEW g \in Fds, open_mkstemp(t, g)
          PROVE  Counted' /\ (ConfigFirst => Granting')
      <3>1. pc[t] \notin Granted /\ "alloc" \notin Granted /\ Call(t, "alloc", g, 0)
        BY <2>2 DEF open_mkstemp, Granted
      <3>2. InUse' = InUse /\ UNCHANGED slots
        BY <2>2 DEF open_mkstemp, InUse
      <3>3. \A i \in InUse : slots[i].fd \in Fds /\ slots[i].fd # g
        BY <1>3, <2>2 DEF open_mkstemp, SlotOwned, TypeOK
      <3>4. \A f \in Fds : f # g => size'[f] = size[f]
        BY <1>3, <2>2 DEF open_mkstemp, TypeOK
      <3>. QED  BY <1>1, <1>2, <3>1, <3>2, <3>3, <3>4, Aside
    <2>3. ASSUME NEW t \in Callers, NEW at, NEW g, NEW k, Call(t, at, g, k), UNCHANGED <<slots, size>>,
                 pc[t] \notin Granted, at \notin Granted
          PROVE  Counted' /\ (ConfigFirst => Granting')
      <3>1. InUse' = InUse
        BY <2>3 DEF InUse
      <3>. QED  BY <1>1, <1>2, <2>3, <3>1, Aside
    <2>4. ASSUME NEW t \in Callers,
                 \/ open_full(t) \/ open_emfile(t) \/ fsync_delay(t) \/ read_or_fsync(t) \/ close_fd(t)
                 \/ \E f \in Fds : fsync_check(t, f)
                 \/ \E f \in Fds, k \in 0..MaxWrite : read_check(t, f, k)
          PROVE  \E at, g, k : /\ Call(t, at, g, k) /\ UNCHANGED <<slots, size>>
                               /\ pc[t] \notin Granted /\ at \notin Granted
      <3>. USE DEF Granted, Return
      <3>1. CASE open_full(t)                   BY <3>1 DEF open_full
      <3>2. CASE open_emfile(t)                 BY <3>2 DEF open_emfile
      <3>3. CASE fsync_delay(t)                 BY <3>3 DEF fsync_delay
      <3>4. CASE read_or_fsync(t)               BY <3>4 DEF read_or_fsync
      <3>5. CASE close_fd(t)                    BY <3>5 DEF close_fd
      <3>6. CASE \E f \in Fds : fsync_check(t, f)  BY <3>6 DEF fsync_check
      <3>7. CASE \E f \in Fds, k \in 0..MaxWrite : read_check(t, f, k)
        BY <3>7 DEF read_check
      <3>. QED  BY <2>4, <3>1, <3>2, <3>3, <3>4, <3>5, <3>6, <3>7
    <2>5. ASSUME NEW t \in Callers, NEW g \in Fds, close_slot(t, g)
          PROVE  Counted' /\ (ConfigFirst => Granting')
      <3>1. pc[t] \notin Granted /\ "close" \notin Granted /\ Call(t, "close", g, 0) /\ UNCHANGED size
        BY <2>5 DEF close_slot, Granted
      <3>2. ASSUME NEW i \in InUse' PROVE i \in InUse /\ slots'[i] = slots[i]
        <4>1. i \in Slots /\ slots'[i].in_use /\ slots[i] \in Slot
          BY <1>3 DEF InUse, TypeOK
        <4>2. slots'[i] = IF slots[i].in_use /\ slots[i].fd = g
                          THEN [slots[i] EXCEPT !.in_use = FALSE] ELSE slots[i]
          BY <1>3, <2>5, <4>1, FindAll DEF close_slot
        <4>. QED  BY <4>1, <4>2 DEF Slot, InUse
      <3>. QED  BY <1>1, <1>2, <3>1, <3>2, Aside
    <2>. QED  BY <1>1, <1>2, <2>1, <2>2, <2>3, <2>4, <2>5,
                 AllocCounts, CheckCounts, SyscallCounts, AccountCounts, KnobCounts DEF Next
  <1>. QED  BY <1>1, <1>2, <1>4 DEF AccInv

LEMMA SpecAccInv ==
    ASSUME ~Overlap
    PROVE  Spec => []AccInv
  <1>1. Init => AccInv
    BY InitIInv, IOAssumption
       DEF Init, AccInv, Places, Small, Holding, Using, Fresh, Counted, Granting, InUse, EmptySlot
  <1>2. AccInv /\ [Next]_vars => AccInv'
    BY NextAccInv
  <1>. QED  BY <1>1, <1>2, PTL DEF Spec

\* As long as no descriptor is closed under a call that uses it, bytes_written is
\* the length of the file up to the writes still to be accounted, for any threads,
\* descriptors and slots, with a quota set at any time.
THEOREM ChaosIOAccountExact ==
    ASSUME ~Overlap
    PROVE  Spec => []AccountExact
  <1>1. ASSUME AccInv PROVE AccountExact
    <2>1. TypeOK /\ Small
      BY <1>1 DEF AccInv, IInv, Places
    <2>2. ASSUME NEW i \in InUse
          PROVE  /\ slots[i].bytes_written <= size[slots[i].fd]
                 /\ (\A t \in Callers : ~(pc[t] = "account" /\ fd[t] = slots[i].fd)) =>
                        slots[i].bytes_written = size[slots[i].fd]
      <3>1. PICK f \in Fds : slots[i].fd = f
        BY <1>1 DEF AccInv, IInv, SlotOwned, TypeOK
      <3>2. slots[i].bytes_written \in Nat /\ InFlight(Waiting, f) \in Nat
        BY <2>1, ShareType DEF TypeOK, Slot, InUse
      <3>3. size[f] = slots[i].bytes_written + InFlight(Waiting, f)
        BY <1>1, <3>1 DEF AccInv, Counted
      <3>4. ASSUME \A t \in Callers : ~(pc[t] = "account" /\ fd[t] = f)
            PROVE  InFlight(Waiting, f) = 0
        <4>1. \A t \in Callers : Share(Waiting, f, t) = 0
          BY <3>4 DEF Share, Waiting
        <4>. QED  BY <2>1, <4>1, NothingInFlight
      <3>. QED  BY <3>1, <3>2, <3>3, <3>4
    <2>. QED  BY <2>2 DEF AccountExact
  <1>2. Spec => []AccInv
    BY SpecAccInv
  <1>. QED  BY <1>1, <1>2, PTL

\* With the quota set up front the check-then-act of chaos_io_write lets every
\* caller overshoot at most once: a file never exceeds one quota per caller.
THEOREM ChaosIOOvershootBounded ==
    ASSUME ~Overlap, ConfigFirst
    PROVE  Spec => []OvershootBounded
  <1>1. ASSUME AccInv PROVE OvershootBounded
    <2>1. TypeOK /\ Small
      BY <1>1 DEF AccInv, IInv, Places
    <2>2. ASSUME NEW i \in InUse, slots[i].quota > 0
          PROVE  size[slots[i].fd] <= slots[i].quota * Cardinality(Callers)
      <3>1. PICK f \in Fds : slots[i].fd = f
        BY <1>1 DEF AccInv, IInv, SlotOwned, TypeOK
      <3>2. /\ slots[i].bytes_written \in Nat /\ slots[i].quota \in Nat
            /\ InFlight(Waiting, f) \in Nat /\ InFlight(Granted, f) \in Nat
        BY <2>1, ShareType DEF TypeOK, Slot, InUse
      <3>3. size[f] = slots[i].bytes_written + InFlight(Waiting, f)
        BY <1>1, <3>1 DEF AccInv, Counted
      <3>4. slots[i].bytes_written + InFlight(Granted, f) <= slots[i].quota * Cardinality(Callers)
        BY <1>1, <2>2, <3>1 DEF AccInv, Granting
      <3>5. InFlight(Waiting, f) <= InFlight(Granted, f)
        BY <2>1, WaitingWasGranted
      <3>6. slots[i].quota * Cardinality(Callers) \in Nat
        BY <3>2, IOAssumption, FS_CardinalityType
      <3>. QED  BY <3>1, <3>2, <3>3, <3>4, <3>5, <3>6
    <2>. QED  BY <2>2 DEF OvershootBounded
  <1>2. Spec => []AccInv
    BY SpecAccInv
  <1>. QED  BY <1>1, <1>2, PTL

----------------------------------------------------------------------------
(* disk_full and partial_write *)

\* The program's thread alone makes calls, on the one file it has opened.
Solo ==
    IF scen = "any" THEN step = "open"
    ELSE me \in Callers /\ \A t \in Callers \ {me} : pc[t] = "idle"

Stage ==
    scen # "any" =>
        /\ step \in {"open", "set", "naive", "loop", "broken", "close", "end"}
        /\ step = "open" => owned = {} /\ pc[me] \in {"idle", "alloc"}
        /\ step \in {"set", "broken", "end"} => pc[me] = "idle"
        /\ step \in {"naive", "loop"} => pc[me] \in {"idle", "write", "account"}
        /\ step = "close" => pc[me] = "close"
        /\ step \in {"set", "naive", "loop", "broken"} => \E f \in Fds : owned = {f}
        /\ step = "naive" => scen = "partial_write"
        /\ step = "broken" => scen = "partial_write"
        /\ pc[me] \in {"write", "account"} => fd[me] \in owned /\ left > 0

FileTypes ==
    /\ scen \in {"any", "disk_full", "partial_write"}
    /\ left \in Nat /\ total \in Nat /\ enospc \in Nat /\ naive \in Nat /\ sysfull \in BOOLEAN

\* Before its first write the program has counted nothing and the file is empty.
Blank ==
    /\ (scen # "any" /\ step \in {"open", "set", "naive"}) =>
           total = 0 /\ enospc = 0 /\ left = Rounds /\ naive = 0
    /\ (scen # "any" /\ step = "open" /\ pc[me] = "alloc") => size[fd[me]] = 0
    /\ (scen # "any" /\ step = "set") =>
           /\ \A f \in owned : size[f] = 0
           /\ \A i \in InUse : slots[i].bytes_written = 0 /\ slots[i].quota = 0

\* What disk_full counts, what the slot counts and the file agree, within the quota.
DiskOf(i, f) ==
    /\ slots[i].quota > 0 /\ slots[i].bytes_written = total /\ total <= slots[i].quota
    /\ size[f] = total + (IF pc[me] = "account" THEN n[me] ELSE 0)
    /\ pc[me] # "idle" => total + n[me] <= slots[i].quota /\ (enospc > 0 => sysfull)
    /\ enospc > 0 => total = slots[i].quota \/ sysfull

Disk ==
    (scen = "disk_full" /\ step = "loop") => \A f \in owned, i \in InUse : DiskOf(i, f)

\* partial_write has no quota, the limit cuts down each of its writes, and the file
\* holds what the naive call and the loop wrote.
PartialOf(i, f) ==
    /\ slots[i].quota = 0 /\ slots[i].partial_max > 0 /\ naive <= slots[i].partial_max
    /\ size[f] = naive + total + (IF pc[me] = "account" THEN n[me] ELSE 0)
    /\ pc[me] # "idle" => n[me] <= slots[i].partial_max

Partial ==
    (scen = "partial_write" /\ step \in {"naive", "loop", "broken"}) =>
        /\ total + left = Rounds /\ (pc[me] # "idle" => n[me] <= left)
        /\ \A f \in owned, i \in InUse : PartialOf(i, f)

FileInv == IInv /\ FileTypes /\ Solo /\ Stage /\ Blank /\ Disk /\ Partial

\* Every step of the programs is a step of ChaosIO's most general client.
LEMMA FileStep ==
    ASSUME TypeOK, Solo, [FileNext]_allVars
    PROVE  [Next]_vars
  <1>. USE DEF Solo
  <1>1. CASE UNCHANGED allVars
    BY <1>1 DEF allVars
  <1>2. CASE scen = "any" /\ Next
    BY <1>2
  <1>3. CASE file_open
    BY <1>3 DEF file_open, Next
  <1>4. CASE file_set
    BY <1>4 DEF file_set, Next, chaos_io_set_quota, chaos_io_set_partial, OnSlot, TypeOK
  <1>5. CASE file_write
    BY <1>5, IOAssumption DEF file_write, Idle, Next, write_check, TypeOK
  <1>6. CASE file_enospc
    BY <1>6 DEF file_enospc
  <1>7. CASE file_syscall
    BY <1>7 DEF file_syscall, Next
  <1>8. CASE file_write_fails
    BY <1>8 DEF file_write_fails, Next
  <1>9. CASE file_written
    BY <1>9 DEF file_written, Next
  <1>10. CASE file_close
    BY <1>10 DEF file_close, Idle, Next, close_slot, TypeOK
  <1>. QED  BY <1>1, <1>2, <1>3, <1>4, <1>5, <1>6, <1>7, <1>8, <1>9, <1>10 DEF FileNext

\* The one file the program owns, and its slot.
LEMMA OneFile ==
    ASSUME IInv, NEW f \in Fds, owned = {f}
    PROVE  File = f /\ \E i \in Slots : /\ InUse = {i} /\ slots[i].in_use /\ slots[i].fd = f
                                        /\ slots[i] \in Slot
                                        /\ find_locked(f) = {i} /\ SlotOf(f) = slots[i]
  <1>1. File = f
    BY DEF File
  <1>2. PICK i \in InUse : slots[i].fd = f
    BY DEF IInv, OwnedHasSlot
  <1>3. i \in Slots /\ slots[i].in_use /\ slots[i] \in Slot
    BY DEF InUse, IInv, TypeOK
  <1>4. InUse = {i}
    BY <1>2 DEF IInv, SlotOwned, SlotUnique
  <1>5. find_locked(f) = {i}
    BY <1>2, <1>3, <1>4, FindAll DEF IInv, InUse
  <1>6. SlotOf(f) = slots[i]
    BY <1>5 DEF SlotOf
  <1>. QED  BY <1>1, <1>2, <1>3, <1>4, <1>5, <1>6

LEMMA InitFileInv == FileInit => FileInv
  <1>. SUFFICES ASSUME FileInit PROVE FileInv
    OBVIOUS
  <1>. USE FileAssumption DEF FileInit, Init
  <1>1. IInv
    BY InitIInv
  <1>2. FileTypes
    BY DEF FileTypes
  <1>3. Solo /\ Stage
    BY DEF Solo, Stage
  <1>4. Blank /\ Disk /\ Partial
    BY <1>3 DEF Solo, Blank, Disk, Partial
  <1>. QED  BY <1>1, <1>2, <1>3, <1>4 DEF FileInv

Progress == FileTypes /\ Solo /\ Stage /\ Blank /\ Disk /\ Partial

\* A limit cuts a write down to itself.
LEMMA PermitPartial ==
    ASSUME NEW s \in Slot, NEW k \in Nat, s.partial_max > 0, ~OverQuota(s)
    PROVE  Permit(s, k) <= s.partial_max
  BY DEF Permit, Capped, Least, QuotaLeft, OverQuota, Slot

LEMMA FileOpens ==
    ASSUME FileInv, IInv', file_open
    PROVE  Progress'
  <1>. USE DEF FileInv, Progress, FileTypes, Solo, Stage, Blank, Disk, Partial, IInv, TypeOK, Goes, Call, Return
  <1>1. ASSUME NEW f \in Fds, open_mkstemp(me, f), Goes("open"), scen # "any", step = "open" PROVE Progress'
    BY <1>1 DEF open_mkstemp
  <1>2. CASE open_alloc(me) /\ Goes("set") /\ scen # "any" /\ step = "open"
    <2>1. PICK i \in free_locked :
            slots' = [slots EXCEPT ![i] = [EmptySlot EXCEPT !.in_use = TRUE, !.fd = fd[me]]]
      BY <1>2 DEF open_alloc
    <2>2. InUse = {}
      BY <1>2 DEF SlotOwned
    <2>3. /\ i \in Slots /\ slots'[i].bytes_written = 0 /\ slots'[i].quota = 0
          /\ \A j \in Slots \ {i} : slots'[j] = slots[j]
      BY <2>1 DEF free_locked, EmptySlot
    <2>4. \A j \in InUse' : slots'[j].bytes_written = 0 /\ slots'[j].quota = 0
      BY <2>2, <2>3 DEF InUse
    <2>5. owned' = {fd[me]} /\ fd[me] \in Fds
      BY <1>2 DEF open_alloc, PendingOk, Pending
    <2>. QED  BY <1>2, <2>4, <2>5 DEF open_alloc
  <1>3. CASE pc[me] = "idle" /\ Goes("end") /\ UNCHANGED vars /\ scen # "any"
    BY <1>3 DEF vars
  <1>. QED  BY <1>1, <1>2, <1>3 DEF file_open

LEMMA FileSets ==
    ASSUME FileInv, IInv', file_set
    PROVE  Progress'
  <1>. USE DEF FileInv, Progress, FileTypes, Solo, Stage, Blank, Disk, Partial, IInv, TypeOK, Goes
  <1>1. PICK f \in Fds : owned = {f}
    BY DEF file_set, Idle
  <1>2. PICK i \in Slots : /\ InUse = {i} /\ slots[i].in_use /\ slots[i].fd = f /\ slots[i] \in Slot
                           /\ find_locked(f) = {i} /\ SlotOf(f) = slots[i] /\ File = f
    BY <1>1, OneFile
  <1>3. UNCHANGED <<size, owned, pc, fd, n>>
    BY DEF file_set, chaos_io_set_quota, chaos_io_set_partial, OnSlot, callVars
  <1>4. CASE scen = "disk_full" /\ Goes("loop") /\ \E q \in Quotas \ {0} : chaos_io_set_quota(File, q)
    <2>1. PICK q \in Quotas \ {0} : chaos_io_set_quota(f, q)
      BY <1>2, <1>4
    <2>2. q \in Nat /\ q > 0
      BY IOAssumption
    <2>3. slots' = [j \in Slots |-> IF j \in {i} THEN [slots[j] EXCEPT !.quota = q] ELSE slots[j]]
      BY <1>2, <2>1 DEF chaos_io_set_quota
    <2>4. slots'[i] = [slots[i] EXCEPT !.quota = q] /\ \A j \in Slots \ {i} : slots'[j] = slots[j]
      BY <2>3
    <2>5. slots'[i].quota = q /\ slots'[i].bytes_written = slots[i].bytes_written
      BY <1>2, <2>4 DEF Slot
    <2>6. InUse' \subseteq {i}
      BY <1>2, <2>4 DEF InUse
    <2>7. total' = 0 /\ enospc' = 0 /\ slots[i].bytes_written = 0 /\ size[f] = 0 /\ pc[me] = "idle"
          /\ me' = me /\ sysfull' = sysfull
      BY <1>1, <1>2, <1>4 DEF file_set
    <2>8. ASSUME NEW g \in owned', NEW j \in InUse' PROVE DiskOf(j, g)'
      <3>1. g = f /\ j = i
        BY <1>1, <1>3, <2>6
      <3>. QED  BY <1>3, <2>2, <2>5, <2>7, <3>1 DEF DiskOf
    <2>9. Disk'
      BY <2>8
    <2>10. FileTypes' /\ Solo' /\ Stage' /\ Blank' /\ Partial'
      BY <1>1, <1>3, <1>4 DEF file_set
    <2>. QED  BY <2>9, <2>10
  <1>5. CASE scen = "partial_write" /\ Goes("naive") /\ \E c \in Chunks \ {0} : chaos_io_set_partial(File, c)
    <2>1. PICK c \in Chunks \ {0} : chaos_io_set_partial(f, c)
      BY <1>2, <1>5
    <2>2. c \in Nat /\ c > 0
      BY IOAssumption
    <2>3. \A j \in Slots : slots'[j] = IF j \in {i} THEN [slots[j] EXCEPT !.partial_max = c] ELSE slots[j]
      BY <1>2, <2>1 DEF chaos_io_set_partial
    <2>4. \A j \in InUse' : j = i
      BY <1>2, <2>3 DEF InUse
    <2>5. slots'[i].partial_max = c /\ slots'[i].quota = slots[i].quota
      BY <1>2, <2>3 DEF Slot
    <2>6. /\ slots[i].quota = 0 /\ size[f] = 0 /\ pc[me] = "idle" /\ total' = 0 /\ naive' = 0
          /\ me' = me
      BY <1>1, <1>2, <1>5 DEF file_set
    <2>7. ASSUME NEW g \in owned', NEW j \in InUse' PROVE PartialOf(j, g)'
      <3>1. g = f /\ j = i
        BY <1>1, <1>3, <2>4
      <3>. QED  BY <1>3, <2>2, <2>5, <2>6, <3>1 DEF PartialOf
    <2>8. Partial'
      BY <1>3, <1>5, <2>6, <2>7, FileAssumption DEF file_set
    <2>9. FileTypes' /\ Solo' /\ Stage' /\ Blank' /\ Disk'
      BY <1>1, <1>3, <1>5 DEF file_set
    <2>. QED  BY <2>8, <2>9
  <1>. QED  BY <1>4, <1>5 DEF file_set

LEMMA FileWrites ==
    ASSUME FileInv, IInv', file_write
    PROVE  Progress'
  <1>. USE DEF FileInv, Progress, FileTypes, Solo, Stage, Blank, Disk, Partial, IInv, TypeOK
  <1>1. PICK f \in Fds : owned = {f}
    BY DEF file_write, Idle
  <1>2. PICK i \in Slots : /\ InUse = {i} /\ slots[i].in_use /\ slots[i].fd = f /\ slots[i] \in Slot
                           /\ find_locked(f) = {i} /\ SlotOf(f) = slots[i] /\ File = f
    BY <1>1, OneFile
  <1>3. PICK k \in 1..MaxWrite : write_check(me, f, k) /\ (scen = "partial_write" => k = Least(left, MaxWrite))
    BY <1>2 DEF file_write
  <1>. DEFINE m == Permit(slots[i], k)
  <1>4. k \in Nat /\ (scen = "partial_write" => k <= left)
    BY <1>3, IOAssumption DEF Least
  <1>5. m \in Nat /\ m <= k
    BY <1>2, <1>3, <1>4, PermitType DEF write_check
  <1>6. slots[i].quota > 0 => m + slots[i].bytes_written <= slots[i].quota
    BY <1>2, <1>3, <1>4, PermitLeft DEF write_check
  <1>7. ~OverQuota(slots[i])
    BY <1>2, <1>3 DEF write_check
  <1>8. pc[me] = "idle" /\ Call(me, "write", f, m) /\ UNCHANGED <<slots, size, owned>>
    BY <1>2, <1>3 DEF write_check
  <1>. HIDE DEF m
  <1>9. UNCHANGED fileVars /\ scen # "any" /\ step \in {"naive", "loop"} /\ left > 0
    BY DEF file_write, Idle
  <1>10. UNCHANGED <<scen, me, step, left, total, enospc, naive, sysfull>>
    BY <1>9 DEF fileVars
  <1>11. pc'[me] = "write" /\ n'[me] = m /\ fd'[me] = f /\ \A t \in Callers \ {me} : pc'[t] = pc[t]
    BY <1>8, <1>9 DEF Call
  <1>12. FileTypes' /\ Solo' /\ Stage' /\ Blank'
    BY <1>1, <1>8, <1>9, <1>10, <1>11
  <1>17. ASSUME scen = "partial_write" PROVE PartialOf(i, f)'
    <2>1. PartialOf(i, f)
      BY <1>1, <1>2, <1>9, <1>17
    <2>2. m <= slots[i].partial_max
      BY <1>2, <1>4, <1>7, <2>1, PermitPartial DEF PartialOf, m
    <2>. QED  BY <1>5, <1>8, <1>10, <1>11, <2>1, <2>2 DEF PartialOf
  <1>14. ASSUME scen = "disk_full", step = "loop" PROVE DiskOf(i, f)'
    <2>1. DiskOf(i, f)
      BY <1>1, <1>2, <1>14
    <2>2. enospc > 0 => sysfull
      BY <1>7, <2>1, <1>2 DEF DiskOf, OverQuota, Slot
    <2>. QED  BY <1>5, <1>6, <1>8, <1>10, <1>11, <2>1, <2>2 DEF DiskOf
  <1>15. InUse' = InUse
    BY <1>8 DEF InUse
  <1>16. Disk'
    BY <1>1, <1>2, <1>8, <1>10, <1>14, <1>15
  <1>13. Partial'
    BY <1>1, <1>2, <1>4, <1>5, <1>8, <1>9, <1>10, <1>11, <1>15, <1>17
  <1>. QED  BY <1>12, <1>13, <1>16

LEMMA FileMeetsEnospc ==
    ASSUME FileInv, IInv', file_enospc
    PROVE  Progress'
  <1>. USE DEF FileInv, Progress, FileTypes, Solo, Stage, Blank, Disk, Partial, IInv, TypeOK
  <1>1. PICK f \in Fds : owned = {f}
    BY DEF file_enospc, Idle
  <1>2. PICK i \in Slots : /\ InUse = {i} /\ slots[i].in_use /\ slots[i].fd = f /\ slots[i] \in Slot
                           /\ find_locked(f) = {i} /\ SlotOf(f) = slots[i] /\ File = f
    BY <1>1, OneFile
  <1>3. /\ scen # "any" /\ pc[me] = "idle" /\ step = "loop" /\ left > 0 /\ OverQuota(slots[i])
        /\ enospc' = enospc + 1 /\ left' = left - 1
        /\ UNCHANGED <<slots, size, owned, pc, fd, n, scen, me, step, total>>
    BY <1>2 DEF file_enospc, Idle, vars
  <1>4. naive' = naive /\ sysfull' = sysfull
    BY DEF file_enospc
  <1>5. InUse' = InUse
    BY <1>3 DEF InUse
  <1>6. scen = "disk_full"
    <2>1. ASSUME scen = "partial_write" PROVE FALSE
      BY <1>1, <1>2, <1>3, <2>1 DEF PartialOf, OverQuota, Slot
    <2>. QED  BY <1>3, <2>1
  <1>7. DiskOf(i, f) /\ total = slots[i].quota
    BY <1>1, <1>2, <1>3, <1>6 DEF DiskOf, OverQuota, Slot
  <1>8. DiskOf(i, f)'
    BY <1>3, <1>4, <1>7 DEF DiskOf
  <1>9. Disk' /\ Partial'
    BY <1>1, <1>2, <1>3, <1>5, <1>6, <1>8
  <1>. QED  BY <1>1, <1>2, <1>3, <1>4, <1>9

LEMMA FileSyscalls ==
    ASSUME FileInv, IInv', file_syscall \/ file_write_fails
    PROVE  Progress'
  <1>. USE DEF FileInv, Progress, FileTypes, Solo, Stage, Blank, Disk, Partial, IInv, TypeOK
  <1>1. scen # "any" /\ pc[me] = "write" /\ me \in Callers
    BY DEF file_syscall, file_write_fails, write_syscall, write_nothing
  <1>2. step \in {"naive", "loop"} /\ left > 0
    BY <1>1
  <1>3. PICK f \in Fds : owned = {f} /\ fd[me] = f
    BY <1>1, <1>2
  <1>4. PICK i \in Slots : /\ InUse = {i} /\ slots[i].in_use /\ slots[i].fd = f /\ slots[i] \in Slot
                           /\ find_locked(f) = {i} /\ SlotOf(f) = slots[i] /\ File = f
    BY <1>3, OneFile
  <1>5. CASE file_syscall
    <2>1. PICK w \in 1..MaxWrite : write_syscall(me, w)
      BY <1>5 DEF file_syscall
    <2>2. /\ w \in Nat /\ w <= n[me] /\ size' = [size EXCEPT ![f] = @ + w]
          /\ Call(me, "account", f, w) /\ UNCHANGED <<slots, owned>>
      BY <1>3, <2>1, IOAssumption DEF write_syscall
    <2>3. UNCHANGED <<scen, me, step, left, total, enospc, naive, sysfull>>
      BY <1>5 DEF file_syscall, fileVars
    <2>4. pc'[me] = "account" /\ n'[me] = w /\ fd'[me] = f /\ size'[f] = size[f] + w
          /\ \A t \in Callers \ {me} : pc'[t] = pc[t]
      BY <1>1, <2>2 DEF Call
    <2>5. FileTypes' /\ Solo' /\ Stage' /\ Blank'
      BY <1>1, <1>2, <1>3, <2>2, <2>3, <2>4
    <2>10. ASSUME scen = "partial_write" PROVE PartialOf(i, f)'
      <3>1. PartialOf(i, f)
        BY <1>2, <1>3, <1>4, <2>10
      <3>2. slots[i].partial_max \in Nat /\ n[me] \in Nat /\ size[f] \in Nat
        BY <1>1, <1>4 DEF Slot
      <3>. QED  BY <1>1, <2>2, <2>3, <2>4, <3>1, <3>2 DEF PartialOf
    <2>7. ASSUME scen = "disk_full", step = "loop" PROVE DiskOf(i, f)'
      <3>1. DiskOf(i, f)
        BY <1>3, <1>4, <2>7
      <3>2. slots[i].quota \in Nat /\ n[me] \in Nat /\ size[f] \in Nat
        BY <1>1, <1>4 DEF Slot
      <3>. QED  BY <1>1, <2>2, <2>3, <2>4, <3>1, <3>2 DEF DiskOf
    <2>8. InUse' = InUse
      BY <2>2 DEF InUse
    <2>9. Disk'
      BY <1>3, <1>4, <2>2, <2>3, <2>7, <2>8
    <2>6. Partial'
      <3>1. n[me] \in Nat
        BY <1>1
      <3>. QED  BY <1>1, <1>2, <1>3, <1>4, <2>2, <2>3, <2>4, <2>8, <2>10, <3>1
    <2>. QED  BY <2>5, <2>6, <2>9
  <1>6. CASE file_write_fails
    <2>1. /\ Call(me, "idle", NoFd, 0) /\ UNCHANGED <<slots, size, owned, scen, me, total, naive>>
          /\ step' = IF scen = "partial_write" /\ step = "loop" THEN "broken" ELSE "loop"
          /\ left' = IF scen = "disk_full" THEN left - 1 ELSE left
          /\ enospc' = enospc \/ enospc' = enospc + 1
          /\ sysfull' = TRUE \/ (sysfull' = sysfull /\ enospc' = enospc)
      BY <1>6 DEF file_write_fails, write_nothing, Return
    <2>2. pc'[me] = "idle" /\ n'[me] = 0 /\ \A t \in Callers \ {me} : pc'[t] = pc[t]
      BY <1>1, <2>1 DEF Call
    <2>3. FileTypes'
      <3>1. left' \in Nat /\ total' \in Nat /\ enospc' \in Nat /\ naive' \in Nat
        BY <1>2, <2>1
      <3>2. sysfull' \in BOOLEAN
        BY <2>1, Zenon
      <3>. QED  BY <2>1, <3>1, <3>2
    <2>9. Solo' /\ Stage'
      BY <1>1, <1>2, <1>3, <2>1, <2>2
    <2>10. Blank'
      BY <1>1, <1>2, <2>1, <2>2
    <2>8. ASSUME scen = "partial_write" PROVE PartialOf(i, f)'
      <3>1. PartialOf(i, f)
        BY <1>2, <1>3, <1>4, <2>8
      <3>. QED  BY <1>1, <2>1, <2>2, <3>1 DEF PartialOf
    <2>5. ASSUME scen = "disk_full" PROVE DiskOf(i, f)'
      <3>1. DiskOf(i, f)
        BY <1>2, <1>3, <1>4, <2>5
      <3>. QED  BY <1>1, <2>1, <2>2, <3>1 DEF DiskOf
    <2>6. InUse' = InUse
      BY <2>1 DEF InUse
    <2>7. Disk'
      BY <1>3, <1>4, <2>1, <2>5, <2>6
    <2>4. Partial'
      BY <1>1, <1>2, <1>3, <1>4, <2>1, <2>2, <2>6, <2>8
    <2>. QED  BY <2>3, <2>4, <2>7, <2>9, <2>10
  <1>. QED  BY <1>5, <1>6

LEMMA FileCounts ==
    ASSUME FileInv, IInv', file_written
    PROVE  Progress'
  <1>. USE DEF FileInv, Progress, FileTypes, Solo, Stage, Blank, Disk, Partial, IInv, TypeOK
  <1>1. scen # "any" /\ pc[me] = "account" /\ me \in Callers
    BY DEF file_written, write_account
  <1>2. step \in {"naive", "loop"} /\ left > 0
    BY <1>1
  <1>3. PICK f \in Fds : owned = {f} /\ fd[me] = f
    BY <1>1, <1>2
  <1>4. PICK i \in Slots : /\ InUse = {i} /\ slots[i].in_use /\ slots[i].fd = f /\ slots[i] \in Slot
                           /\ find_locked(f) = {i} /\ SlotOf(f) = slots[i] /\ File = f
    BY <1>3, OneFile
  <1>5. /\ Call(me, "idle", NoFd, 0) /\ UNCHANGED <<size, owned, scen, me, enospc, sysfull>>
        /\ slots' = [j \in Slots |-> IF j \in {i} THEN [slots[j] EXCEPT !.bytes_written = @ + n[me]]
                                     ELSE slots[j]]
        /\ step' = "loop" /\ total' = IF step = "naive" THEN total ELSE total + n[me]
    BY <1>3, <1>4 DEF file_written, write_account, Return
  <1>16. naive' = IF step = "naive" THEN n[me] ELSE naive
    BY DEF file_written
  <1>6. left' = IF step = "naive" THEN left ELSE IF scen = "partial_write" THEN left - n[me] ELSE left - 1
    BY <1>1, <1>2 DEF file_written
  <1>7. pc'[me] = "idle" /\ n[me] \in Nat /\ \A t \in Callers \ {me} : pc'[t] = pc[t]
    BY <1>1, <1>5 DEF Call
  <1>8. slots[i].bytes_written \in Nat
    BY <1>4 DEF Slot
  <1>9. /\ slots'[i].quota = slots[i].quota /\ slots'[i].partial_max = slots[i].partial_max
        /\ slots'[i].bytes_written = slots[i].bytes_written + n[me]
        /\ \A j \in Slots \ {i} : slots'[j] = slots[j]
    BY <1>4, <1>5, <1>7, <1>8 DEF Slot
  <1>10. InUse' \subseteq {i}
    BY <1>4, <1>9 DEF InUse
  <1>11. left' \in Nat /\ total' \in Nat /\ naive' \in Nat
    BY <1>1, <1>2, <1>5, <1>6, <1>7, <1>16
  <1>12. FileTypes' /\ Solo' /\ Stage' /\ Blank'
    BY <1>1, <1>2, <1>3, <1>5, <1>7, <1>11
  <1>13. Partial'
    <2>1. ASSUME scen = "partial_write" PROVE PartialOf(i, f)'
      <3>1. PartialOf(i, f) /\ (step = "naive" => naive = 0 /\ total = 0)
        BY <1>2, <1>3, <1>4, <2>1
      <3>2. CASE step = "naive"
        BY <1>1, <1>5, <1>7, <1>9, <1>16, <3>1, <3>2 DEF PartialOf
      <3>3. CASE step = "loop"
        BY <1>1, <1>5, <1>7, <1>9, <1>16, <3>1, <3>3 DEF PartialOf
      <3>. QED  BY <1>2, <3>2, <3>3
    <2>2. scen = "partial_write" => total' + left' = Rounds
      BY <1>1, <1>2, <1>5, <1>6, <1>7
    <2>. QED  BY <1>3, <1>5, <1>7, <1>10, <2>1, <2>2
  <1>14. ASSUME scen = "disk_full" PROVE DiskOf(i, f)'
    <2>1. step = "loop" /\ DiskOf(i, f)
      BY <1>2, <1>3, <1>4, <1>14
    <2>. QED  BY <1>1, <1>5, <1>7, <1>8, <1>9, <2>1 DEF DiskOf
  <1>15. Disk'
    BY <1>3, <1>5, <1>10, <1>14
  <1>. QED  BY <1>12, <1>13, <1>15

LEMMA FileCloses ==
    ASSUME FileInv, IInv', file_close
    PROVE  Progress'
  <1>. USE DEF FileInv, Progress, FileTypes, Solo, Stage, Blank, Disk, Partial, IInv, TypeOK, Goes, Call, Return
  <1>1. CASE close_slot(me, File) /\ Goes("close") /\ scen # "any"
    BY <1>1 DEF close_slot
  <1>2. CASE step = "close" /\ close_fd(me) /\ Goes("end")
    BY <1>2 DEF close_fd
  <1>. QED  BY <1>1, <1>2 DEF file_close, Idle

LEMMA NextFileInv == FileInv /\ [FileNext]_allVars => FileInv' /\ [Next]_vars
  <1>. SUFFICES ASSUME FileInv, [FileNext]_allVars PROVE FileInv' /\ [Next]_vars
    OBVIOUS
  <1>1. [Next]_vars
    BY FileStep DEF FileInv, IInv
  <1>2. IInv'
    BY <1>1, NextIInv DEF FileInv
  <1>3. CASE UNCHANGED allVars
    BY <1>2, <1>3
       DEF allVars, vars, fileVars, FileInv, FileTypes, Solo, Stage, Blank, Disk, DiskOf, Partial,
           PartialOf, InUse
  <1>4. CASE scen = "any" /\ UNCHANGED fileVars
    <2>1. UNCHANGED <<scen, me, step, left, total, enospc, naive, sysfull>>
      BY <1>4 DEF fileVars
    <2>2. FileTypes' /\ Solo' /\ Stage'
      BY <1>4, <2>1 DEF FileInv, FileTypes, Solo, Stage
    <2>3. Blank' /\ Disk' /\ Partial'
      BY <1>4, <2>1 DEF Blank, Disk, Partial
    <2>. QED  BY <1>1, <1>2, <2>2, <2>3 DEF FileInv
  <1>5. ASSUME Progress' PROVE FileInv'
    BY <1>2, <1>5 DEF Progress, FileInv
  <1>. QED  BY <1>1, <1>2, <1>3, <1>4, <1>5, FileOpens, FileSets, FileWrites, FileMeetsEnospc,
               FileSyscalls, FileCounts, FileCloses DEF FileNext

LEMMA SpecFileInv == FileSpec => []FileInv
  BY InitFileInv, NextFileInv, PTL DEF FileSpec

\* disk_full and partial_write use chaos_io as its general clients do, so what
\* holds of every client holds of them.
THEOREM FileClientsAreClients == FileSpec => Spec
  <1>1. FileInit => Init
    BY DEF FileInit
  <1>. QED  BY <1>1, SpecFileInv, NextFileInv, PTL DEF FileSpec, Spec

\* The figures of disk_full and partial_write are true for any quota, chunk, buffer
\* and number of rounds, whatever write(2) returns.
THEOREM FileFiguresHold == FileSpec => []FileFigures
  <1>1. ASSUME FileInv PROVE FileFigures
    <2>1. ASSUME scen = "disk_full", Idle, step = "loop"
          PROVE  /\ total = size[File] /\ total <= SlotOf(File).quota
                 /\ enospc > 0 => total = SlotOf(File).quota \/ sysfull
      <3>1. PICK f \in Fds : owned = {f}
        BY <1>1, <2>1 DEF FileInv, Stage
      <3>2. PICK i \in Slots : InUse = {i} /\ SlotOf(f) = slots[i] /\ File = f
        BY <1>1, <3>1, OneFile DEF FileInv
      <3>3. DiskOf(i, f)
        BY <1>1, <2>1, <3>1, <3>2 DEF FileInv, Disk
      <3>. QED  BY <1>1, <2>1, <3>2, <3>3 DEF DiskOf, Idle, FileInv, FileTypes
    <2>2. ASSUME scen = "partial_write", Idle, step \in {"loop", "broken"}
          PROVE  /\ size[File] = naive + total /\ naive <= SlotOf(File).partial_max
                 /\ total + left = Rounds
      <3>1. PICK f \in Fds : owned = {f}
        BY <1>1, <2>2 DEF FileInv, Stage
      <3>2. PICK i \in Slots : InUse = {i} /\ SlotOf(f) = slots[i] /\ File = f
        BY <1>1, <3>1, OneFile DEF FileInv
      <3>3. PartialOf(i, f) /\ total + left = Rounds
        BY <1>1, <2>2, <3>1, <3>2 DEF FileInv, Partial
      <3>. QED  BY <1>1, <2>2, <3>2, <3>3 DEF PartialOf, Idle, FileInv, FileTypes
    <2>. QED  BY <2>1, <2>2 DEF FileFigures
  <1>. QED  BY <1>1, SpecFileInv, PTL
=============================================================================
