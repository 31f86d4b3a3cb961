--------------------------- MODULE SlotListProofs ---------------------------
(***************************************************************************)
(* Lemmas about the operators of SlotList: the free list of a fresh pool,  *)
(* and what get_slot and release_slot do to a pool whose list is exact.    *)
(* The proofs of every component that owns a buffer cite them.             *)
(***************************************************************************)
EXTENDS SlotList, FiniteSetTheorems, TLAPS

\* The successor of a slot in a fresh buffer (5thdbuffer.h:204).
LEMMA NextFresh ==
  ASSUME NEW s \in Slot
  PROVE  /\ (s + 1) % Size \in Slot
         /\ s + 1 < Size => (s + 1) % Size = s + 1
<1>1. Size \in Nat /\ Size > 0 /\ s \in Nat /\ s < Size
  BY SizeAssumption DEF Slot
<1>2. CASE s + 1 < Size
  <2>1. (s + 1) % Size = s + 1
    BY <1>1, <1>2
  <2> QED
    BY <1>1, <1>2, <2>1 DEF Slot
<1>3. CASE s + 1 = Size
  <2>1. (s + 1) % Size = 0
    BY <1>1, <1>3
  <2> QED
    BY <1>1, <1>3, <2>1 DEF Slot
<1> QED
  BY <1>1, <1>2, <1>3

\* What _init leaves behind is a well-typed pool with an exact free list.
LEMMA FreshIsExact == FreshPool \in PoolType /\ FreeListExact(FreshPool)
<1> DEFINE c == [i \in 1 .. Size |-> i - 1]
<1>1. Size \in Nat /\ Size > 0 /\ 0 \in Slot
  BY SizeAssumption DEF Slot
<1>2. FreshPool \in PoolType
  BY <1>1, NextFresh DEF FreshPool, PoolType
<1>3. FreshPool.used = 0 /\ FreshPool.free = 0 /\ FreeSlots(FreshPool) = Slot
  BY DEF FreshPool, FreeSlots
<1>4. c \in [1 .. Size -> Slot]
  BY <1>1 DEF Slot
<1>5. \A s \in Slot : \E i \in 1 .. Size : c[i] = s
  <2> SUFFICES ASSUME NEW s \in Slot PROVE \E i \in 1 .. Size : c[i] = s
    OBVIOUS
  <2>1. s + 1 \in 1 .. Size /\ c[s + 1] = s
    BY <1>1 DEF Slot
  <2> QED
    BY <2>1
<1>6. \A i, j \in 1 .. Size : c[i] = c[j] => i = j
  BY <1>1
<1>7. \A i \in 1 .. Size - 1 : FreshPool.next[c[i]] = c[i + 1]
  <2> SUFFICES ASSUME NEW i \in 1 .. Size - 1
               PROVE  FreshPool.next[c[i]] = c[i + 1]
    OBVIOUS
  <2>1. c[i] = i - 1 /\ i - 1 \in Slot /\ c[i + 1] = i /\ (i - 1) + 1 < Size
    BY <1>1 DEF Slot
  <2>2. FreshPool.next[i - 1] = ((i - 1) + 1) % Size
    BY <2>1 DEF FreshPool
  <2>3. ((i - 1) + 1) % Size = (i - 1) + 1
    BY <2>1, NextFresh
  <2> QED
    BY <2>1, <2>2, <2>3
<1>8. IsFreeList(FreshPool, c)
  <2>1. DOMAIN c = 1 .. Size /\ Size - FreshPool.used = Size /\ c[1] = 0
    BY <1>1, <1>3
  <2> QED
    BY <1>1, <1>3, <1>4, <1>5, <1>6, <1>7, <2>1 DEF IsFreeList
<1> QED
  BY <1>1, <1>2, <1>3, <1>4, <1>8 DEF FreeListExact

\* get_slot turns a caller down only when every slot is in use.
LEMMA ExhaustedIsAllInUse ==
  ASSUME NEW p \in PoolType, FreeListExact(p), IsExhausted(p)
  PROVE  \A s \in Slot : p.inUse[s]
<1>1. Size - p.used = 0
  BY SizeAssumption DEF IsExhausted
<1>2. PICK c \in [1 .. 0 -> FreeSlots(p)] : IsFreeList(p, c)
  BY <1>1 DEF FreeListExact
<1>3. DOMAIN c = {}
  BY <1>2
<1>4. FreeSlots(p) = {}
  BY <1>2, <1>3 DEF IsFreeList
<1> QED
  BY <1>4 DEF FreeSlots

\* get_slot on a pool that is not exhausted takes a free slot and leaves
\* the rest of the list.
LEMMA AcquiredIsExact ==
  ASSUME NEW p \in PoolType, FreeListExact(p), ~IsExhausted(p)
  PROVE  /\ p.free \in Slot /\ ~p.inUse[p.free]
         /\ Acquired(p) \in PoolType
         /\ Acquired(p).inUse = [p.inUse EXCEPT ![p.free] = TRUE]
         /\ Acquired(p).used = p.used + 1
         /\ FreeListExact(Acquired(p))
<1> DEFINE q == Acquired(p)
           n == Size - p.used
<1>1. PICK c \in [1 .. n -> FreeSlots(p)] : IsFreeList(p, c)
  BY DEF FreeListExact
<1>2. n \in Nat /\ n > 0 /\ Size \in Nat /\ p.used \in 0 .. Size - 1
  BY SizeAssumption DEF IsExhausted, PoolType
<1>3. c[1] = p.free /\ p.free \in FreeSlots(p)
  BY <1>1, <1>2 DEF IsFreeList
<1>4. p.free \in Slot /\ ~p.inUse[p.free]
  BY <1>3 DEF FreeSlots
<1>5. /\ q.inUse = [p.inUse EXCEPT ![p.free] = TRUE]
      /\ q.next = p.next /\ q.free = p.next[p.free] /\ q.used = p.used + 1
      /\ q \in PoolType
  BY <1>2, <1>4 DEF Acquired, PoolType
<1>6. FreeSlots(q) = FreeSlots(p) \ {p.free}
  BY <1>4, <1>5 DEF FreeSlots, PoolType
<1> DEFINE d == [i \in 1 .. n - 1 |-> c[i + 1]]
<1>7. Size - q.used = n - 1
  BY <1>2, <1>5
<1>8. d \in [1 .. n - 1 -> FreeSlots(q)]
  <2> SUFFICES ASSUME NEW i \in 1 .. n - 1 PROVE c[i + 1] \in FreeSlots(q)
    OBVIOUS
  <2>1. i + 1 \in 1 .. n /\ 1 \in 1 .. n /\ i + 1 # 1
    BY <1>2
  <2>2. c[i + 1] # c[1]
    BY <1>1, <2>1 DEF IsFreeList
  <2> QED
    BY <1>3, <1>6, <2>1, <2>2
<1>9. \A s \in FreeSlots(q) : \E i \in 1 .. n - 1 : d[i] = s
  <2> SUFFICES ASSUME NEW s \in FreeSlots(q) PROVE \E i \in 1 .. n - 1 : d[i] = s
    OBVIOUS
  <2>1. PICK j \in 1 .. n : c[j] = s
    BY <1>1, <1>6 DEF IsFreeList
  <2>2. j # 1
    BY <1>3, <1>6, <2>1
  <2>3. j - 1 \in 1 .. n - 1 /\ (j - 1) + 1 = j
    BY <1>2, <2>2
  <2> QED
    BY <2>1, <2>3
<1>10. \A i, j \in 1 .. n - 1 : d[i] = d[j] => i = j
  <2> SUFFICES ASSUME NEW i \in 1 .. n - 1, NEW j \in 1 .. n - 1, d[i] = d[j]
               PROVE  i = j
    OBVIOUS
  <2>1. i + 1 \in 1 .. n /\ j + 1 \in 1 .. n /\ c[i + 1] = c[j + 1]
    BY <1>2
  <2>2. i + 1 = j + 1
    BY <1>1, <2>1 DEF IsFreeList
  <2> QED
    BY <2>2
<1>11. n - 1 > 0 => d[1] = q.free
  <2> SUFFICES ASSUME n - 1 > 0 PROVE d[1] = q.free
    OBVIOUS
  <2>1. 1 \in 1 .. n - 1 /\ d[1] = c[2]
    BY <1>2
  <2>2. p.next[c[1]] = c[2]
    BY <1>1, <2>1 DEF IsFreeList
  <2> QED
    BY <1>3, <1>5, <2>1, <2>2
<1>12. \A i \in 1 .. (n - 1) - 1 : q.next[d[i]] = d[i + 1]
  <2> SUFFICES ASSUME NEW i \in 1 .. (n - 1) - 1 PROVE q.next[d[i]] = d[i + 1]
    OBVIOUS
  <2>1. /\ i \in 1 .. n - 1 /\ i + 1 \in 1 .. n - 1
        /\ d[i] = c[i + 1] /\ d[i + 1] = c[(i + 1) + 1]
    BY <1>2
  <2>2. p.next[c[i + 1]] = c[(i + 1) + 1]
    BY <1>1, <2>1 DEF IsFreeList
  <2> QED
    BY <1>5, <2>1, <2>2
<1>13. IsFreeList(q, d)
  <2>1. DOMAIN d = 1 .. n - 1
    OBVIOUS
  <2>2. q.used < Size => d[1] = q.free
    BY <1>2, <1>5, <1>11
  <2> QED
    BY <1>7, <1>8, <1>9, <1>10, <1>12, <2>1, <2>2 DEF IsFreeList
<1> QED
  BY <1>4, <1>5, <1>7, <1>8, <1>13 DEF FreeListExact

\* There are Size slots.
LEMMA SlotsAreCounted == IsFiniteSet(Slot) /\ Cardinality(Slot) = Size
<1>1. Size \in Nat /\ Size > 0 /\ Size - 1 \in Int
  BY SizeAssumption
<1>2. /\ IsFiniteSet(0 .. Size - 1)
      /\ Cardinality(0 .. Size - 1) = IF 0 > Size - 1 THEN 0 ELSE (Size - 1) - 0 + 1
  BY <1>1, FS_Interval
<1> QED
  BY <1>1, <1>2 DEF Slot

\* used_count counts the slots in use.
InUse(p) == { s \in Slot : p.inUse[s] }

\* used_count is the number of slots in use.
LEMMA InUseIsCounted ==
  ASSUME NEW p \in PoolType, FreeListExact(p)
  PROVE  IsFiniteSet(InUse(p)) /\ Cardinality(InUse(p)) = p.used
<1>1. Size \in Nat /\ Size > 0 /\ p.used \in 0 .. Size
  BY SizeAssumption DEF PoolType
<1> DEFINE n == Size - p.used
<1>2. n \in Nat /\ Size = n + p.used
  BY <1>1
<1>3. IsFiniteSet(Slot) /\ Cardinality(Slot) = Size
  BY SlotsAreCounted
<1>4. IsFiniteSet(1 .. n) /\ Cardinality(1 .. n) = n
  <2> HIDE DEF n
  <2>1. /\ IsFiniteSet(1 .. n)
        /\ Cardinality(1 .. n) = IF 1 > n THEN 0 ELSE n - 1 + 1
    BY <1>2, FS_Interval
  <2> QED
    BY <1>2, <2>1
<1>5. PICK c \in [1 .. n -> FreeSlots(p)] : IsFreeList(p, c)
  BY DEF FreeListExact
<1>6. Cardinality(FreeSlots(p)) = n
  <2>1. /\ \A i, j \in 1 .. n : c[i] = c[j] => i = j
        /\ \A s \in FreeSlots(p) : \E i \in 1 .. n : c[i] = s
    BY <1>5 DEF IsFreeList
  <2> HIDE DEF n
  <2>2. c \in Injection(1 .. n, FreeSlots(p))
    BY <1>5, <2>1 DEF Injection, IsInjective
  <2>3. c \in Surjection(1 .. n, FreeSlots(p))
    BY <1>5, <2>1 DEF Surjection
  <2>4. ExistsBijection(1 .. n, FreeSlots(p))
    BY <2>2, <2>3 DEF Bijection, ExistsBijection
  <2> QED
    BY <1>4, <2>4, FS_Bijection
<1>7. InUse(p) = Slot \ FreeSlots(p) /\ Slot \cap FreeSlots(p) = FreeSlots(p)
  BY DEF InUse, FreeSlots
<1>8. /\ IsFiniteSet(Slot \ FreeSlots(p))
      /\ Cardinality(Slot \ FreeSlots(p)) = Cardinality(Slot) - Cardinality(Slot \cap FreeSlots(p))
  BY <1>3, FS_Difference
<1>9. IsFiniteSet(InUse(p)) /\ Cardinality(InUse(p)) = Size - n
  BY <1>3, <1>6, <1>7, <1>8
<1> QED
  BY <1>1, <1>9

\* It is positive when a slot is in use.
LEMMA InUseIsPositive ==
  ASSUME NEW p \in PoolType, FreeListExact(p), NEW s \in Slot, p.inUse[s]
  PROVE  p.used > 0
<1>1. IsFiniteSet(InUse(p)) /\ Cardinality(InUse(p)) = p.used /\ s \in InUse(p)
  BY InUseIsCounted DEF InUse
<1>2. Cardinality(InUse(p)) # 0
  BY <1>1, FS_EmptySet
<1> QED
  BY <1>1, <1>2, SizeAssumption DEF PoolType

\* release_slot of a slot in use puts it before the rest of the list.
LEMMA ReleasedIsExact ==
  ASSUME NEW p \in PoolType, FreeListExact(p), NEW s \in Slot, p.inUse[s]
  PROVE  /\ Released(p, s) \in PoolType
         /\ Released(p, s).inUse = [p.inUse EXCEPT ![s] = FALSE]
         /\ Released(p, s).free = s
         /\ Released(p, s).used = p.used - 1
         /\ FreeListExact(Released(p, s))
<1> DEFINE q == Released(p, s)
           n == Size - p.used
<1>1. PICK c \in [1 .. n -> FreeSlots(p)] : IsFreeList(p, c)
  BY DEF FreeListExact
<1>2. n \in Nat /\ Size \in Nat /\ p.used \in 1 .. Size
  BY InUseIsPositive, SizeAssumption DEF PoolType
<1>3. /\ q.inUse = [p.inUse EXCEPT ![s] = FALSE]
      /\ q.next = [p.next EXCEPT ![s] = p.free] /\ q.free = s /\ q.used = p.used - 1
      /\ q \in PoolType
  BY <1>2 DEF Released, PoolType
<1>4. FreeSlots(q) = FreeSlots(p) \cup {s} /\ s \notin FreeSlots(p)
  BY <1>3 DEF FreeSlots, PoolType
<1> DEFINE d == [i \in 1 .. n + 1 |-> IF i = 1 THEN s ELSE c[i - 1]]
<1>5. Size - q.used = n + 1 /\ q.used < Size
  BY <1>2, <1>3
<1>6. d[1] = s /\ \A i \in 1 .. n : d[i + 1] = c[i] /\ c[i] \in FreeSlots(p)
  <2>1. 1 \in 1 .. n + 1 /\ d[1] = s
    BY <1>2
  <2>2. ASSUME NEW i \in 1 .. n PROVE d[i + 1] = c[i] /\ c[i] \in FreeSlots(p)
    <3>1. i + 1 \in 1 .. n + 1 /\ i + 1 # 1 /\ (i + 1) - 1 = i
      BY <1>2
    <3> QED
      BY <3>1
  <2> QED
    BY <2>1, <2>2
<1>7. d \in [1 .. n + 1 -> FreeSlots(q)]
  <2> SUFFICES ASSUME NEW i \in 1 .. n + 1 PROVE d[i] \in FreeSlots(q)
    OBVIOUS
  <2>1. CASE i = 1
    BY <1>4, <1>6, <2>1
  <2>2. CASE i # 1
    <3>1. i - 1 \in 1 .. n /\ d[i] = c[i - 1]
      BY <1>2, <2>2
    <3> QED
      BY <1>4, <3>1
  <2> QED
    BY <2>1, <2>2
<1>8. \A t \in FreeSlots(q) : \E i \in 1 .. n + 1 : d[i] = t
  <2> SUFFICES ASSUME NEW t \in FreeSlots(q) PROVE \E i \in 1 .. n + 1 : d[i] = t
    OBVIOUS
  <2>1. CASE t = s
    <3>1. 1 \in 1 .. n + 1
      BY <1>2
    <3> QED
      BY <1>6, <2>1, <3>1
  <2>2. CASE t # s
    <3>1. PICK j \in 1 .. n : c[j] = t
      BY <1>1, <1>4, <2>2 DEF IsFreeList
    <3>2. j + 1 \in 1 .. n + 1 /\ d[j + 1] = t
      BY <1>2, <1>6, <3>1
    <3> QED
      BY <3>2
  <2> QED
    BY <2>1, <2>2
<1>9. \A i, j \in 1 .. n + 1 : d[i] = d[j] => i = j
  <2> SUFFICES ASSUME NEW i \in 1 .. n + 1, NEW j \in 1 .. n + 1, d[i] = d[j]
               PROVE  i = j
    OBVIOUS
  <2>1. ASSUME NEW k \in 1 .. n + 1, k # 1
        PROVE  k - 1 \in 1 .. n /\ d[k] = c[k - 1] /\ d[k] # s
    <3>1. k - 1 \in 1 .. n /\ d[k] = c[k - 1]
      BY <1>2, <2>1
    <3> QED
      BY <1>4, <3>1
  <2>2. CASE i = 1 \/ j = 1
    BY <1>6, <2>1, <2>2
  <2>3. CASE i # 1 /\ j # 1
    <3>1. i - 1 \in 1 .. n /\ j - 1 \in 1 .. n /\ c[i - 1] = c[j - 1]
      BY <2>1, <2>3
    <3>2. i - 1 = j - 1
      BY <1>1, <3>1 DEF IsFreeList
    <3> QED
      BY <3>2
  <2> QED
    BY <2>2, <2>3
<1>10. \A i \in 1 .. n : q.next[d[i]] = d[i + 1]
  <2> SUFFICES ASSUME NEW i \in 1 .. n PROVE q.next[d[i]] = d[i + 1]
    OBVIOUS
  <2>1. d[i + 1] = c[i] /\ n > 0
    BY <1>2, <1>6
  <2>2. CASE i = 1
    <3>1. c[1] = p.free
      BY <1>1, <1>2, <2>1 DEF IsFreeList
    <3>2. q.next[s] = p.free
      BY <1>3 DEF PoolType
    <3> QED
      BY <1>6, <2>1, <2>2, <3>1, <3>2
  <2>3. CASE i # 1
    <3>1. i - 1 \in 1 .. n - 1 /\ (i - 1) + 1 = i /\ d[i] = c[i - 1]
      BY <1>2, <2>3
    <3>2. p.next[c[i - 1]] = c[i]
      BY <1>1, <3>1 DEF IsFreeList
    <3>3. c[i - 1] \in Slot /\ c[i - 1] # s
      <4>1. i - 1 \in 1 .. n
        BY <1>2, <2>3
      <4>2. c[i - 1] \in FreeSlots(p)
        BY <4>1
      <4> QED
        BY <1>4, <4>2 DEF FreeSlots
    <3>4. q.next[c[i - 1]] = p.next[c[i - 1]]
      BY <1>3, <3>3 DEF PoolType
    <3> QED
      BY <2>1, <3>1, <3>2, <3>4
  <2> QED
    BY <2>2, <2>3
<1>11. IsFreeList(q, d)
  <2>1. DOMAIN d = 1 .. n + 1 /\ (n + 1) - 1 = n
    BY <1>2
  <2> HIDE DEF d, n, q
  <2> QED
    BY <1>3, <1>5, <1>6, <1>7, <1>8, <1>9, <1>10, <2>1 DEF IsFreeList
<1> QED
  BY <1>3, <1>5, <1>7, <1>11 DEF FreeListExact
=============================================================================
