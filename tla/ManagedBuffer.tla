---------------------------- MODULE ManagedBuffer ----------------------------
(***************************************************************************)
(* ManagedBuffer<T, Size> of core/common/5thdbuffer.h with its callers.    *)
(*                                                                         *)
(* Every operation that touches the buffer runs under _mutex, so it is one *)
(* atomic step.  A caller is a local T* of a function that uses the buffer *)
(* (all_msg and replay in the bus, all_msg in the transmitter): get_slot   *)
(* fills it, release_slot(&p) empties it.  Two things callers do between   *)
(* those calls are actions as well: returning early without a release (the *)
(* error paths of ZMQBus::_send_message) and copying 302 bytes into a      *)
(* frame that has been sent already (its memcpy), which runs over the      *)
(* guard word, the next slot, and its guard word.                          *)
(*                                                                         *)
(* Once that has happened in_use, next and, behind the last slot, the      *)
(* mutex and the counters are bytes of a message.  pool is not followed    *)
(* any further then: what is read of it may be anything.                   *)
(*                                                                         *)
(* A broken guard word aborts the process: the recovery action registered  *)
(* for MANAGE_BUFF_OVERFLOW, _handle_canary, always returns false.         *)
(***************************************************************************)
EXTENDS SlotList

CONSTANTS Handle,  \* the callers' pointer variables
          NULL     \* nullptr

ASSUME NullAssumption == NULL \notin Slot

VARIABLES
  pool,     \* in_use and next of the slots, current_free and used_count
  canary,   \* which slots still have their guard word
  handle,   \* the pointer each caller holds
  result,   \* what the caller's last call returned
  dead      \* the process aborted, crashed or hangs

vars == <<pool, canary, handle, result, dead>>

\* "null" is the nullptr of get_slot, "err" any Err of release_slot.
Results == {"none", "slot", "null", "ok", "err"}

TypeOK ==
  /\ pool \in PoolType
  /\ canary \in [Slot -> BOOLEAN]
  /\ handle \in [Handle -> Slot \cup {NULL}]
  /\ result \in [Handle -> Results]
  /\ dead \in BOOLEAN

Init ==
  /\ pool = FreshPool
  /\ canary = [s \in Slot |-> TRUE]
  /\ handle = [h \in Handle |-> NULL]
  /\ result = [h \in Handle |-> "none"]
  /\ dead = FALSE

-----------------------------------------------------------------------------

\* Nothing has been overwritten: pool is what memory holds.
Intact == \A s \in Slot : canary[s]

\* What the buffer writes to its lists.
Relinked(p) == pool' = IF Intact THEN p ELSE pool

\* Callers assign the pointer when they declare it, so it is NULL before.
GetSlot(h) ==
  /\ handle[h] = NULL
  /\ \/ /\ Intact => IsExhausted(pool)
        /\ result' = [result EXCEPT ![h] = "null"]
        /\ UNCHANGED <<pool, handle>>
     \/ /\ Intact => ~IsExhausted(pool)
        /\ \E s \in Slot :
             /\ Intact => s = pool.free
             /\ handle' = [handle EXCEPT ![h] = s]
        /\ Relinked(Acquired(pool))
        /\ result' = [result EXCEPT ![h] = "slot"]
  /\ UNCHANGED <<canary, dead>>

\* Mutant of check_canary: the guard word is not looked at.
check_canary_skipped(s) == TRUE

check_canary(s) == canary[s]

\* in_use of the slot of h may be read as b.
Reads(h, b) == handle[h] # NULL /\ (Intact => pool.inUse[handle[h]] = b)

\* Null, or a slot that is not in use: nothing but the Err is produced.
RejectRelease(h) ==
  /\ handle[h] = NULL \/ Reads(h, FALSE)
  /\ result' = [result EXCEPT ![h] = "err"]
  /\ UNCHANGED <<pool, canary, handle, dead>>

AbortRelease(h) ==
  /\ Reads(h, TRUE) /\ ~check_canary(handle[h])
  /\ dead' = TRUE
  /\ UNCHANGED <<pool, canary, handle, result>>

AcceptRelease(h) ==
  /\ Reads(h, TRUE) /\ check_canary(handle[h])
  /\ Relinked(Released(pool, handle[h]))
  /\ handle' = [handle EXCEPT ![h] = NULL]
  /\ result' = [result EXCEPT ![h] = "ok"]
  /\ UNCHANGED <<canary, dead>>

ReleaseSlot(h) == RejectRelease(h) \/ AbortRelease(h) \/ AcceptRelease(h)

CheckIntegrity ==
  /\ \E s \in Slot : ~check_canary(s)
  /\ dead' = TRUE
  /\ UNCHANGED <<pool, canary, handle, result>>

Forget(h) ==
  /\ handle[h] # NULL
  /\ handle' = [handle EXCEPT ![h] = NULL]
  /\ result' = [result EXCEPT ![h] = "none"]
  /\ UNCHANGED <<pool, canary, dead>>

Overrun(h) ==
  /\ handle[h] # NULL
  /\ canary' = [s \in Slot |-> canary[s] /\ s \notin Overwritten(handle[h])]
  /\ pool' = FreshPool  \* any value: it is not read any more
  /\ UNCHANGED <<handle, result, dead>>

\* libzmq refuses the overwritten frame it is given, a link leads out of the
\* buffer, or the mutex is locked for ever.
Collapse ==
  /\ ~Intact
  /\ dead' = TRUE
  /\ UNCHANGED <<pool, canary, handle, result>>

Next ==
  /\ ~dead
  /\ \/ \E h \in Handle : GetSlot(h) \/ ReleaseSlot(h) \/ Forget(h) \/ Overrun(h)
     \/ CheckIntegrity \/ Collapse

Spec == Init /\ [][Next]_vars

-----------------------------------------------------------------------------
(* Properties *)

\* As long as no guard word is broken, the list that starts at current_free
\* enumerates exactly the slots that are not in use, each once, and is as long
\* as used_count says: what get_slot (5thdbuffer.h:105-113) relies on when it
\* follows next without looking at in_use.  So a buffer check_integrity has
\* nothing against is sound.
FreeListSound == Intact => FreeListExact(pool)

\* As long as no guard word is broken, no two callers hold the same slot, and a
\* slot a caller holds is in use, so release_slot (5thdbuffer.h:131) never
\* answers "Slot is not in use" to a caller that holds a slot.
ExclusiveHandles ==
  Intact =>
    /\ \A g, h \in Handle : handle[g] # NULL /\ handle[g] = handle[h] => g = h
    /\ \A h \in Handle : handle[h] # NULL => pool.inUse[handle[h]]

\* A slot whose pointer was dropped without release_slot (the early returns
\* of software_bus.cpp:49-62) is in use for the rest of the run, or until lists
\* are overwritten.
Orphans == { s \in Slot : pool.inUse[s] /\ \A h \in Handle : handle[h] # s }
OrphansStay == [][Intact' => Orphans \subseteq Orphans']_vars

\* The buffer implements the pool of slots its callers count on.
Told == [none |-> "idle", slot |-> "granted", null |-> "refused",
         ok |-> "accepted", err |-> "rejected"]

Promise == INSTANCE SlotPool WITH
  Slots <- Slot, Callers <- Handle, None <- NULL,
  held <- { s \in Slot : pool.inUse[s] },
  has <- handle,
  answer <- [h \in Handle |-> Told[result[h]]],
  damaged <- { s \in Slot : ~canary[s] }

\* Whatever the free list does, a caller sees SlotPool: an unheld slot, or
\* nullptr exactly when every slot is held, and an Err from release_slot
\* exactly when it has nothing to release.  After an overrun all that is left
\* is that release_slot never takes back a slot with a broken guard word
\* (5thdbuffer.h:135-140).
ImplementsPool == Promise!Spec
=============================================================================
