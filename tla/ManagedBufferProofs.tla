------------------------- MODULE ManagedBufferProofs -------------------------
(***************************************************************************)
(* ManagedBuffer for every Size and every set of callers: its invariants,  *)
(* what no step may do to a forgotten slot, and that it implements         *)
(* SlotPool.  The invariants support each other: that the head of the list *)
(* is free (FreeListSound) makes a granted slot new to its caller, that    *)
(* held slots are in use (ExclusiveHandles) makes a released slot one the  *)
(* list does not contain yet.  A guard word is never written again, so     *)
(* what is claimed of intact buffers has to be shown of them alone.        *)
(***************************************************************************)
EXTENDS ManagedBuffer, SlotListProofs

Inv == TypeOK /\ FreeListSound /\ ExclusiveHandles

\* A fresh buffer.
LEMMA InitInv == Init => Inv
<1> SUFFICES ASSUME Init PROVE Inv
  OBVIOUS
<1>1. TypeOK
  BY FreshIsExact DEF Init, TypeOK, Results
<1>2. FreeListSound
  BY FreshIsExact DEF Init, FreeListSound
<1>3. ExclusiveHandles
  BY DEF Init, ExclusiveHandles
<1> QED
  BY <1>1, <1>2, <1>3 DEF Inv

\* What an intact buffer has before a step that leaves the guard words alone.
LEMMA IntactBefore ==
  ASSUME Inv, UNCHANGED canary, Intact'
  PROVE  Intact /\ FreeListExact(pool) /\ ExclusiveHandles
BY DEF Inv, Intact, FreeListSound

\* The steps that leave the lists, the guard words and the pointers alone.
LEMMA SameBuffer ==
  ASSUME Inv, UNCHANGED <<pool, canary, handle>>
  PROVE  FreeListSound' /\ ExclusiveHandles'
BY DEF Inv, FreeListSound, ExclusiveHandles, Intact

\* get_slot hands out the head of the list, which nobody holds.
LEMMA GetSlotInv ==
  ASSUME Inv, NEW h \in Handle, GetSlot(h)
  PROVE  Inv'
<1> USE NullAssumption
<1>1. UNCHANGED <<canary, dead>>
  BY DEF GetSlot
<1>2. ASSUME UNCHANGED <<pool, handle>>, result' = [result EXCEPT ![h] = "null"]
      PROVE  Inv'
  <2>1. TypeOK'
    BY <1>1, <1>2 DEF Inv, TypeOK, Results
  <2> QED
    BY <1>1, <1>2, <2>1, SameBuffer DEF Inv
<1>3. ASSUME NEW s \in Slot, Intact => s = pool.free, Intact => ~IsExhausted(pool),
             handle' = [handle EXCEPT ![h] = s], Relinked(Acquired(pool)),
             result' = [result EXCEPT ![h] = "slot"]
      PROVE  Inv'
  <2>1. ASSUME Intact
        PROVE  /\ pool' \in PoolType /\ FreeListExact(pool') /\ ~pool.inUse[s]
               /\ pool'.inUse = [pool.inUse EXCEPT ![s] = TRUE]
    BY <1>3, <2>1, AcquiredIsExact DEF Inv, TypeOK, FreeListSound, Relinked
  <2>2. TypeOK'
    <3>1. pool' \in PoolType
      BY <1>3, <2>1 DEF Relinked, Inv, TypeOK
    <3> QED
      BY <1>1, <1>3, <3>1 DEF Inv, TypeOK, Results
  <2>3. FreeListSound'
    BY <1>1, <2>1 DEF FreeListSound, Intact
  <2>4. ExclusiveHandles'
    <3> SUFFICES ASSUME Intact' PROVE ExclusiveHandles'
      BY DEF ExclusiveHandles
    <3>1. Intact /\ ExclusiveHandles
      BY <1>1, IntactBefore
    <3>2. \A g \in Handle : handle[g] # s
      BY <2>1, <3>1 DEF ExclusiveHandles, Inv, TypeOK
    <3> QED
      BY <1>3, <2>1, <3>1, <3>2 DEF ExclusiveHandles, Inv, TypeOK, PoolType
  <2> QED
    BY <2>2, <2>3, <2>4 DEF Inv
<1> QED
  BY <1>2, <1>3 DEF GetSlot

\* release_slot puts back a slot that is in use and that only h holds.
LEMMA AcceptReleaseInv ==
  ASSUME Inv, NEW h \in Handle, AcceptRelease(h)
  PROVE  Inv'
<1> USE NullAssumption
<1> DEFINE s == handle[h]
<1>1. /\ s \in Slot /\ Relinked(Released(pool, s))
      /\ handle' = [handle EXCEPT ![h] = NULL]
      /\ result' = [result EXCEPT ![h] = "ok"]
      /\ UNCHANGED <<canary, dead>>
  BY DEF AcceptRelease, Reads, Inv, TypeOK
<1>2. ASSUME Intact
      PROVE  /\ pool' \in PoolType /\ FreeListExact(pool')
             /\ pool'.inUse = [pool.inUse EXCEPT ![s] = FALSE]
  <2>1. pool.inUse[s]
    BY <1>2 DEF AcceptRelease, Reads
  <2> QED
    BY <1>1, <1>2, <2>1, ReleasedIsExact DEF Inv, TypeOK, FreeListSound, Relinked
<1>3. TypeOK'
  <2>1. pool' \in PoolType
    BY <1>1, <1>2 DEF Relinked, Inv, TypeOK
  <2> QED
    BY <1>1, <2>1 DEF Inv, TypeOK, Results
<1>4. FreeListSound'
  BY <1>1, <1>2 DEF FreeListSound, Intact
<1>5. ExclusiveHandles'
  <2> SUFFICES ASSUME Intact' PROVE ExclusiveHandles'
    BY DEF ExclusiveHandles
  <2>1. Intact /\ ExclusiveHandles
    BY <1>1, IntactBefore
  <2>2. \A g \in Handle : g # h => handle[g] # s
    BY <1>1, <2>1 DEF ExclusiveHandles
  <2> QED
    BY <1>1, <1>2, <2>1, <2>2 DEF ExclusiveHandles, Inv, TypeOK, PoolType
<1> QED
  BY <1>3, <1>4, <1>5 DEF Inv

\* An early return of a caller only shrinks the set of held slots.
LEMMA ForgetInv ==
  ASSUME Inv, NEW h \in Handle, Forget(h)
  PROVE  Inv'
<1> USE NullAssumption
<1>1. /\ handle' = [handle EXCEPT ![h] = NULL]
      /\ result' = [result EXCEPT ![h] = "none"]
      /\ UNCHANGED <<pool, canary, dead>>
  BY DEF Forget
<1>2. TypeOK'
  BY <1>1 DEF Inv, TypeOK, Results
<1>3. FreeListSound'
  BY <1>1 DEF Inv, FreeListSound, Intact
<1>4. ExclusiveHandles'
  BY <1>1 DEF Inv, TypeOK, ExclusiveHandles, Intact
<1> QED
  BY <1>2, <1>3, <1>4 DEF Inv

\* The guard word of the slot that is written to does not survive.
LEMMA OverrunSeen ==
  ASSUME TypeOK, NEW h \in Handle, Overrun(h)
  PROVE  ~Intact' /\ handle[h] \in Slot /\ ~canary'[handle[h]]
BY NullAssumption DEF Overrun, Overwritten, Intact, TypeOK

\* So an overrun leaves no intact buffer to claim anything of.
LEMMA OverrunInv ==
  ASSUME Inv, NEW h \in Handle, Overrun(h)
  PROVE  Inv'
<1>1. FreeListSound' /\ ExclusiveHandles'
  BY OverrunSeen DEF Inv, FreeListSound, ExclusiveHandles
<1>2. TypeOK'
  BY FreshIsExact DEF Overrun, Inv, TypeOK
<1> QED
  BY <1>1, <1>2 DEF Inv

\* The invariant is inductive.
LEMMA NextInv == Inv /\ [Next]_vars => Inv'
<1> SUFFICES ASSUME Inv, [Next]_vars PROVE Inv'
  OBVIOUS
<1>1. ASSUME NEW h \in Handle, GetSlot(h) PROVE Inv'
  BY <1>1, GetSlotInv
<1>2. ASSUME NEW h \in Handle, RejectRelease(h) PROVE Inv'
  <2>1. UNCHANGED <<pool, canary, handle, dead>> /\ result' = [result EXCEPT ![h] = "err"]
    BY <1>2 DEF RejectRelease
  <2>2. TypeOK'
    BY <2>1 DEF Inv, TypeOK, Results
  <2> QED
    BY <2>1, <2>2, SameBuffer DEF Inv
<1>3. ASSUME dead' = TRUE, UNCHANGED <<pool, canary, handle, result>> PROVE Inv'
  <2>1. TypeOK'
    BY <1>3 DEF Inv, TypeOK
  <2> QED
    BY <1>3, <2>1, SameBuffer DEF Inv
<1>4. ASSUME NEW h \in Handle, AbortRelease(h) PROVE Inv'
  BY <1>3, <1>4 DEF AbortRelease
<1>5. ASSUME NEW h \in Handle, AcceptRelease(h) PROVE Inv'
  BY <1>5, AcceptReleaseInv
<1>6. ASSUME NEW h \in Handle, Forget(h) PROVE Inv'
  BY <1>6, ForgetInv
<1>7. ASSUME NEW h \in Handle, Overrun(h) PROVE Inv'
  BY <1>7, OverrunInv
<1>8. CASE CheckIntegrity \/ Collapse
  BY <1>3, <1>8 DEF CheckIntegrity, Collapse
<1>9. CASE UNCHANGED vars
  <2>1. TypeOK'
    BY <1>9 DEF vars, Inv, TypeOK
  <2> QED
    BY <1>9, <2>1, SameBuffer DEF vars, Inv
<1> QED
  BY <1>1, <1>2, <1>4, <1>5, <1>6, <1>7, <1>8, <1>9 DEF Next, ReleaseSlot

\* The invariant holds always.
LEMMA BufferInv == Spec => []Inv
  BY InitInv, NextInv, PTL DEF Spec

\* The types of the buffer, for every Size and every number of callers.
THEOREM BufferTypes == Spec => []TypeOK
<1>1. Inv => TypeOK
  BY DEF Inv
<1> QED
  BY <1>1, BufferInv, PTL

\* As long as the guard words are there, the list of 5thdbuffer.h:76-81
\* enumerates the free slots.
THEOREM FreeListAlwaysSound == Spec => []FreeListSound
<1>1. Inv => FreeListSound
  BY DEF Inv
<1> QED
  BY <1>1, BufferInv, PTL

\* No slot of an intact buffer ever has two owners (5thdbuffer.h:105-113).
THEOREM HandlesAlwaysExclusive == Spec => []ExclusiveHandles
<1>1. Inv => ExclusiveHandles
  BY DEF Inv
<1> QED
  BY <1>1, BufferInv, PTL

-----------------------------------------------------------------------------

\* A slot dropped on an early return (software_bus.cpp:49-62) is not given out
\* or taken back again, in any buffer that stays intact.
THEOREM OrphansNeverReturn == Spec => OrphansStay
<1>1. Inv /\ [Next]_vars => [Intact' => Orphans \subseteq Orphans']_vars
  <2> SUFFICES ASSUME Inv, Next, Intact', NEW s \in Orphans PROVE s \in Orphans'
    BY DEF Orphans, vars
  <2> USE NullAssumption
  <2>1. s \in Slot /\ pool.inUse[s] /\ \A g \in Handle : handle[g] # s
    BY DEF Orphans
  <2>2. ASSUME NEW h \in Handle, GetSlot(h) PROVE s \in Orphans'
    <3>1. Intact /\ FreeListExact(pool)
      BY <2>2, IntactBefore DEF GetSlot
    <3>2. CASE IsExhausted(pool)
      BY <2>1, <2>2, <3>1, <3>2 DEF GetSlot, Orphans
    <3>3. CASE ~IsExhausted(pool)
      <4>1. /\ handle' = [handle EXCEPT ![h] = pool.free]
            /\ ~pool.inUse[pool.free] /\ pool.free \in Slot
            /\ pool'.inUse = [pool.inUse EXCEPT ![pool.free] = TRUE]
        BY <2>2, <3>1, <3>3, AcquiredIsExact DEF GetSlot, Relinked, Inv, TypeOK
      <4>2. pool'.inUse[s] /\ \A g \in Handle : handle'[g] # s
        BY <2>1, <4>1 DEF Inv, TypeOK, PoolType
      <4> QED
        BY <2>1, <4>2 DEF Orphans
    <3> QED
      BY <3>2, <3>3
  <2>3. ASSUME NEW h \in Handle, AcceptRelease(h) PROVE s \in Orphans'
    <3>1. Intact /\ FreeListExact(pool)
      BY <2>3, IntactBefore DEF AcceptRelease
    <3>2. /\ handle[h] \in Slot /\ handle' = [handle EXCEPT ![h] = NULL]
          /\ pool'.inUse = [pool.inUse EXCEPT ![handle[h]] = FALSE]
      BY <2>3, <3>1, ReleasedIsExact DEF AcceptRelease, Reads, Relinked, Inv, TypeOK
    <3>3. pool'.inUse[s] /\ \A g \in Handle : handle'[g] # s
      BY <2>1, <3>2 DEF Inv, TypeOK, PoolType
    <3> QED
      BY <2>1, <3>3 DEF Orphans
  <2>4. ASSUME NEW h \in Handle, Forget(h) PROVE s \in Orphans'
    BY <2>1, <2>4 DEF Forget, Inv, TypeOK, Orphans
  <2>5. ASSUME UNCHANGED <<pool, handle>> PROVE s \in Orphans'
    BY <2>1, <2>5 DEF Orphans
  <2>6. ASSUME NEW h \in Handle, RejectRelease(h) \/ AbortRelease(h) PROVE s \in Orphans'
    BY <2>5, <2>6 DEF RejectRelease, AbortRelease
  <2>7. ASSUME NEW h \in Handle, Overrun(h) PROVE FALSE
    BY <2>7, OverrunSeen DEF Inv
  <2>8. CASE CheckIntegrity \/ Collapse
    BY <2>5, <2>8 DEF CheckIntegrity, Collapse
  <2> QED
    BY <2>2, <2>3, <2>4, <2>6, <2>7, <2>8 DEF Next, ReleaseSlot
<1> QED
  BY <1>1, BufferInv, PTL DEF Spec, OrphansStay

-----------------------------------------------------------------------------

Held == { s \in Slot : pool.inUse[s] }
Says == [h \in Handle |-> Told[result[h]]]
Hurt == { s \in Slot : ~canary[s] }

\* The initial buffer is an initial pool.
LEMMA PoolInit == Init => Promise!Init
  BY DEF Init, Promise!Init, Told, FreshPool

\* The buffer is intact when the pool is sound.
LEMMA IntactIsSound == TypeOK => (Intact <=> Promise!Sound)
  BY DEF Intact, Promise!Sound

\* Every step of the buffer is a step of the pool.
LEMMA PoolNext == Inv /\ [Next]_vars => [Promise!Next]_(Promise!vars)
<1> SUFFICES ASSUME Inv, [Next]_vars PROVE [Promise!Next]_(Promise!vars)
  OBVIOUS
<1> USE NullAssumption
<1>1. CASE UNCHANGED vars
  BY <1>1 DEF vars, Promise!vars
<1>2. CASE Next
  <2>1. ~dead /\ (Promise!Sound => Intact)
    BY <1>2, IntactIsSound DEF Next, Inv
  <2>2. ASSUME NEW h \in Handle, NEW r \in Results, result' = [result EXCEPT ![h] = r]
        PROVE  Says' = [Says EXCEPT ![h] = Told[r]]
    BY <2>2 DEF Inv, TypeOK, Says
  <2>3. ASSUME NEW h \in Handle, GetSlot(h)
        PROVE  Promise!Take(h) \/ Promise!Refuse(h)
    <3>1. handle[h] = NULL /\ UNCHANGED <<canary, dead>>
      BY <2>3 DEF GetSlot
    <3>2. ASSUME Intact => IsExhausted(pool), UNCHANGED <<pool, handle>>,
                 result' = [result EXCEPT ![h] = "null"]
          PROVE  Promise!Refuse(h)
      <4>1. Says' = [Says EXCEPT ![h] = "refused"]
        BY <2>2, <3>2 DEF Results, Told
      <4>2. Intact => Slot \subseteq Held
        BY <3>2, ExhaustedIsAllInUse DEF Inv, TypeOK, FreeListSound, Held
      <4> QED
        BY <2>1, <3>1, <3>2, <4>1, <4>2 DEF Promise!Refuse, Promise!Tell, Held, Says
    <3>3. ASSUME NEW s \in Slot, Intact => s = pool.free, Intact => ~IsExhausted(pool),
                 handle' = [handle EXCEPT ![h] = s], Relinked(Acquired(pool)),
                 result' = [result EXCEPT ![h] = "slot"]
          PROVE  Promise!Take(h)
      <4>1. ASSUME Intact
            PROVE  /\ ~pool.inUse[s] /\ pool'.inUse = [pool.inUse EXCEPT ![s] = TRUE]
        BY <3>3, <4>1, AcquiredIsExact DEF Inv, TypeOK, FreeListSound, Relinked
      <4>2. Says' = [Says EXCEPT ![h] = "granted"]
        BY <2>2, <3>3 DEF Results, Told
      <4>3. Intact => s \notin Held /\ Held' = Held \cup {s}
        BY <4>1 DEF Inv, TypeOK, PoolType, Held
      <4> QED
        BY <2>1, <3>1, <3>3, <4>2, <4>3 DEF Promise!Take, Promise!Tell, Held, Says
    <3> QED
      BY <2>3, <3>2, <3>3 DEF GetSlot
  <2>4. ASSUME NEW h \in Handle, RejectRelease(h) PROVE Promise!Reject(h)
    <3>1. /\ Intact => handle[h] = NULL
          /\ UNCHANGED <<pool, canary, handle, dead>>
          /\ result' = [result EXCEPT ![h] = "err"]
      BY <2>4 DEF RejectRelease, Reads, Inv, ExclusiveHandles
    <3>2. Says' = [Says EXCEPT ![h] = "rejected"]
      BY <2>2, <3>1 DEF Results, Told
    <3> QED
      BY <2>1, <3>1, <3>2 DEF Promise!Reject, Promise!Tell, Says
  <2>5. ASSUME NEW h \in Handle, AbortRelease(h) PROVE Promise!Die
    BY <2>5 DEF AbortRelease, Reads, Promise!Die, Inv, TypeOK, check_canary
  <2>6. ASSUME NEW h \in Handle, AcceptRelease(h) PROVE Promise!Give(h)
    <3>1. /\ handle[h] \in Slot /\ handle[h] # NULL
          /\ canary[handle[h]]
          /\ handle' = [handle EXCEPT ![h] = NULL]
          /\ result' = [result EXCEPT ![h] = "ok"]
          /\ UNCHANGED <<canary, dead>>
      BY <2>6 DEF AcceptRelease, Reads, Inv, TypeOK, check_canary
    <3>2. Intact => pool'.inUse = [pool.inUse EXCEPT ![handle[h]] = FALSE]
      BY <2>6, <3>1, ReleasedIsExact DEF AcceptRelease, Reads, Relinked, Inv, TypeOK, FreeListSound
    <3>3. Intact => Held' = Held \ {handle[h]}
      BY <3>1, <3>2 DEF Inv, TypeOK, PoolType, Held
    <3>4. Says' = [Says EXCEPT ![h] = "accepted"]
      BY <2>2, <3>1 DEF Results, Told
    <3> QED
      BY <2>1, <3>1, <3>3, <3>4 DEF Promise!Give, Promise!Tell, Held, Says
  <2>7. ASSUME NEW h \in Handle, Forget(h) PROVE Promise!Lose(h)
    <3>1. /\ handle[h] # NULL
          /\ handle' = [handle EXCEPT ![h] = NULL]
          /\ result' = [result EXCEPT ![h] = "none"]
          /\ UNCHANGED <<pool, canary, dead>>
      BY <2>7 DEF Forget
    <3>2. Says' = [Says EXCEPT ![h] = "idle"]
      BY <2>2, <3>1 DEF Results, Told
    <3> QED
      BY <3>1, <3>2 DEF Promise!Lose, Promise!Tell, Says
  <2>8. ASSUME NEW h \in Handle, Overrun(h) PROVE Promise!Spoil(h)
    <3>1. /\ handle[h] # NULL /\ handle[h] \in Slot
          /\ canary' = [s \in Slot |-> canary[s] /\ s \notin Overwritten(handle[h])]
          /\ UNCHANGED <<handle, result, dead>>
      BY <2>8, OverrunSeen DEF Overrun, Inv
    <3>2. Hurt' = Hurt \cup {handle[h]} \cup Overwritten(handle[h])
      BY <3>1 DEF Inv, TypeOK, Hurt, Overwritten
    <3>3. Overwritten(handle[h]) \in SUBSET Slot
      BY DEF Overwritten
    <3> QED
      BY <3>1, <3>2, <3>3 DEF Promise!Spoil, Hurt
  <2>9. CASE CheckIntegrity \/ Collapse
    <3>1. Promise!Die
      BY <2>9 DEF CheckIntegrity, Collapse, Intact, Promise!Die, check_canary
    <3> QED
      BY <2>1, <3>1 DEF Promise!Next
  <2> QED
    BY <1>2, <2>1, <2>3, <2>4, <2>5, <2>6, <2>7, <2>8, <2>9
       DEF Next, ReleaseSlot, Promise!Next
<1> QED
  BY <1>1, <1>2

\* For every Size and every set of callers the buffer keeps what SlotPool
\* promises: get_slot fails only when all slots are held, and release_slot
\* only when there is nothing to release; after an overrun, a damaged slot is
\* not taken back.
THEOREM BufferImplementsPool == Spec => ImplementsPool
  BY BufferInv, PoolInit, PoolNext, PTL DEF Spec, ImplementsPool, Promise!Spec
=============================================================================
