------------------------------ MODULE SlotList ------------------------------
(***************************************************************************)
(* The intrusive free list of ManagedBuffer<T, Size>                       *)
(* (core/common/5thdbuffer.h), as pure operators on a record.              *)
(*                                                                         *)
(* The buffer keeps, per slot, in_use and next, and two counters of its    *)
(* own, current_free and used_count.  next is meaningful only while a slot *)
(* is free; the next of the last free slot dangles (it wraps to slot 0 in  *)
(* a fresh buffer) and only the used_count guard of get_slot keeps it from *)
(* being followed.  Every component that owns a buffer (ManagedBuffer, the *)
(* bus, the transmitter) is modelled with these operators.                 *)
(***************************************************************************)
EXTENDS Integers, FiniteSets

CONSTANT Size  \* the template parameter: 10 in the bus and the transmitter

ASSUME SizeAssumption == Size \in Nat \ {0}

Slot == 0 .. Size - 1

\* What _init leaves behind, with the member initialisers.
FreshPool ==
  [ inUse |-> [s \in Slot |-> FALSE],
    next  |-> [s \in Slot |-> (s + 1) % Size],
    free  |-> 0,
    used  |-> 0 ]

\* Mutants of IsExhausted: the bound is off by one, either way.
IsExhaustedLate(p) == p.used > Size
IsExhaustedEarly(p) == p.used >= Size - 1

\* The guard of get_slot.
IsExhausted(p) == p.used = Size

\* get_slot past its guard: the slot handed out is p.free.
Acquired(p) ==
  [ inUse |-> [p.inUse EXCEPT ![p.free] = TRUE],
    next  |-> p.next,
    free  |-> p.next[p.free],
    used  |-> p.used + 1 ]

\* Mutants of Released: next is not written; it is written after
\* current_free; current_free is not written.
ReleasedUnlinked(p, s) ==
  [p EXCEPT !.inUse = [@ EXCEPT ![s] = FALSE], !.free = s, !.used = @ - 1]
ReleasedSelfLinked(p, s) ==
  [ReleasedUnlinked(p, s) EXCEPT !.next = [@ EXCEPT ![s] = s]]
ReleasedOffList(p, s) == [ReleasedUnlinked(p, s) EXCEPT !.free = p.free]

\* release_slot past its guards: the slot becomes the head of the list.
Released(p, s) ==
  [ inUse |-> [p.inUse EXCEPT ![s] = FALSE],
    next  |-> [p.next EXCEPT ![s] = p.free],
    free  |-> s,
    used  |-> p.used - 1 ]

\* The slots whose guard word is lost when 302 bytes are copied into an empty
\* frame of slot s.  The 64 bytes of the frame end at the guard word; behind it
\* come all of the next slot and the in_use of the one after that.
Overwritten(s) == {s, s + 1} \cap Slot

-----------------------------------------------------------------------------

PoolType ==
  [ inUse : [Slot -> BOOLEAN],
    next  : [Slot -> Slot],
    free  : Slot,
    used  : 0 .. Size ]

FreeSlots(p) == { s \in Slot : ~p.inUse[s] }

\* c enumerates, from the head on and without repetition, exactly the slots
\* that are not in use.
IsFreeList(p, c) ==
  /\ c \in [1 .. Size - p.used -> FreeSlots(p)]
  /\ \A s \in FreeSlots(p) : \E i \in DOMAIN c : c[i] = s
  /\ \A i, j \in DOMAIN c : c[i] = c[j] => i = j
  /\ p.used < Size => c[1] = p.free
  /\ \A i \in 1 .. Size - p.used - 1 : p.next[c[i]] = c[i + 1]

FreeListExact(p) ==
  \E c \in [1 .. Size - p.used -> FreeSlots(p)] : IsFreeList(p, c)
=============================================================================
