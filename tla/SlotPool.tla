------------------------------ MODULE SlotPool ------------------------------
(***************************************************************************)
(* What a buffer of slots promises its callers, with no list in sight: a   *)
(* caller is given a slot nobody holds, and is refused only when all are   *)
(* held; a slot given back can be given out again, and giving back is      *)
(* turned down only when there is nothing to give back; a slot a caller    *)
(* forgets stays held for good.  Once a caller has written past its slot   *)
(* nothing is promised of who holds what, and held may be anything; but a  *)
(* damaged slot is not taken back, and damage that is noticed ends the     *)
(* process.                                                                *)
(***************************************************************************)
CONSTANTS Slots, Callers, None

VARIABLES
  held,     \* slots given out and not given back
  has,      \* the slot each caller holds, or None
  answer,   \* what each caller was last told
  damaged,  \* slots whose guard word was overwritten
  dead      \* the process aborted

vars == <<held, has, answer, damaged, dead>>

Answers == {"idle", "granted", "refused", "accepted", "rejected"}

Init ==
  /\ held = {}
  /\ has = [c \in Callers |-> None]
  /\ answer = [c \in Callers |-> "idle"]
  /\ damaged = {}
  /\ dead = FALSE

Tell(c, a) == answer' = [answer EXCEPT ![c] = a]

Sound == damaged = {}

\* Any slot that is not held may be given out.
Take(c) ==
  /\ has[c] = None
  /\ \E s \in Slots :
       /\ Sound => s \notin held /\ held' = held \cup {s}
       /\ has' = [has EXCEPT ![c] = s]
  /\ Tell(c, "granted")
  /\ UNCHANGED <<damaged, dead>>

Refuse(c) ==
  /\ has[c] = None
  /\ Sound => Slots \subseteq held
  /\ Tell(c, "refused")
  /\ UNCHANGED <<held, has, damaged, dead>>

\* Only a slot that is not damaged is taken back.
Give(c) ==
  /\ has[c] # None /\ has[c] \notin damaged
  /\ Sound => held' = held \ {has[c]}
  /\ has' = [has EXCEPT ![c] = None]
  /\ Tell(c, "accepted")
  /\ UNCHANGED <<damaged, dead>>

Reject(c) ==
  /\ Sound => has[c] = None
  /\ Tell(c, "rejected")
  /\ UNCHANGED <<held, has, damaged, dead>>

\* The caller drops its only pointer: held stays as it was.
Lose(c) ==
  /\ has[c] # None
  /\ has' = [has EXCEPT ![c] = None]
  /\ Tell(c, "idle")
  /\ UNCHANGED <<held, damaged, dead>>

\* A holder writes past the end of its slot, into others as well.
Spoil(c) ==
  /\ has[c] # None
  /\ \E S \in SUBSET Slots : damaged' = damaged \cup {has[c]} \cup S
  /\ UNCHANGED <<has, answer, dead>>

\* The damage is noticed, or the process does not survive it.
Die ==
  /\ damaged # {}
  /\ dead' = TRUE
  /\ UNCHANGED <<held, has, answer, damaged>>

Next ==
  /\ ~dead
  /\ \/ \E c \in Callers :
          Take(c) \/ Refuse(c) \/ Give(c) \/ Reject(c) \/ Lose(c) \/ Spoil(c)
     \/ Die

Spec == Init /\ [][Next]_vars
=============================================================================
