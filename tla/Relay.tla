-------------------------------- MODULE Relay --------------------------------
(***************************************************************************)
(* What the bus promises its clients, with no slots, frames or free list   *)
(* in sight: it takes messages in the order they arrived, each once, and   *)
(* gives each to the client it names or to nobody.                         *)
(*                                                                         *)
(* A relay starts with Spare spares.  A forward uses one up without taking *)
(* it away; only a forward that breaks off does that, and then the next    *)
(* one is there.  On a spare that was used up the relay breaks down, and   *)
(* with no spare left it forwards nothing.                                 *)
(***************************************************************************)
EXTENDS Naturals, Sequences

CONSTANTS
  Client, NULL, LOST,
  Spare     \* forwards that may break off before nothing is forwarded

VARIABLES
  state,    \* up, down, or broken
  waiting,  \* the messages not taken yet, in order of arrival
  known,    \* the clients a message was taken from
  got,      \* what each client was given, in order
  half,     \* whose connection an unfinished message holds, NULL or LOST
  broken,   \* forwards that broke off
  usedUp    \* the present spare was used

vars == <<state, waiting, known, got, half, broken, usedUp>>

Message == [src : Client, dst : Client]

Init ==
  /\ state = "up" /\ waiting = <<>> /\ known = {}
  /\ got = [c \in Client |-> <<>>] /\ half = NULL
  /\ broken = 0 /\ usedUp = FALSE

-----------------------------------------------------------------------------

Offer(m) ==
  /\ waiting' = Append(waiting, m)
  /\ UNCHANGED <<state, known, got, half, broken, usedUp>>

Known == known \cup {Head(waiting).src}

Take ==
  /\ state = "up" /\ waiting # <<>>
  /\ waiting' = Tail(waiting) /\ known' = Known

Forwards == Head(waiting).dst \in Known /\ broken < Spare

\* Whoever holds an unfinished message is given the rest of it.
Receiver == IF half # NULL THEN {half} ELSE {Head(waiting).dst, LOST}

Ignore ==
  /\ Take /\ ~Forwards
  /\ UNCHANGED <<state, got, half, broken, usedUp>>

Forward ==
  /\ Take /\ Forwards /\ ~usedUp
  /\ \E c \in Receiver :
       got' = IF c = LOST THEN got ELSE [got EXCEPT ![c] = Append(@, Head(waiting))]
  /\ half' = NULL /\ usedUp' = TRUE
  /\ UNCHANGED <<state, broken>>

BreakOff ==
  /\ Take /\ Forwards
  /\ broken' = broken + 1 /\ usedUp' = FALSE
  /\ half' \in {half} \cup Receiver
  /\ UNCHANGED <<state, got>>

BreakDown ==
  /\ Take /\ Forwards /\ usedUp
  /\ state' = "broken"
  /\ UNCHANGED <<got, half, broken, usedUp>>

\* The client that holds an unfinished message is gone.
HangUp ==
  /\ half \in Client /\ half' = LOST
  /\ UNCHANGED <<state, waiting, known, got, broken, usedUp>>

Stop ==
  /\ state = "up" /\ state' = "down"
  /\ UNCHANGED <<waiting, known, got, half, broken, usedUp>>

Next ==
  \/ Ignore \/ Forward \/ BreakOff \/ BreakDown \/ HangUp \/ Stop
  \/ \E m \in Message : Offer(m)

Spec == Init /\ [][Next]_vars
=============================================================================
