------------------------------- MODULE Mailbox -------------------------------
(***************************************************************************)
(* What a client of the bus counts on when it calls IpcClient::send: a     *)
(* call either fails and leaves nothing behind, or puts its own message,   *)
(* whole and once, behind the ones before it.  The messages are read in    *)
(* that order.  Only the end of a process loses any: the reader's end      *)
(* those in front, the writer's end those in the back.                     *)
(***************************************************************************)
EXTENDS Naturals, Sequences

CONSTANTS Message, None

VARIABLES
  call,  \* the message of the call in progress, or None
  box,   \* messages on their way, in order
  got    \* the message read last, or None

vars == <<call, box, got>>

Init == call = None /\ box = <<>> /\ got = None

Begin(m) ==
  /\ call = None
  /\ call' = m
  /\ UNCHANGED <<box, got>>

Succeed ==
  /\ call # None
  /\ box' = Append(box, call)
  /\ call' = None
  /\ UNCHANGED got

Fail ==
  /\ call # None
  /\ call' = None
  /\ UNCHANGED <<box, got>>

Read ==
  /\ box # <<>>
  /\ got' = Head(box)
  /\ box' = Tail(box)
  /\ UNCHANGED call

LoseFront ==
  /\ \E n \in 0 .. Len(box) : box' = SubSeq(box, n + 1, Len(box))
  /\ got' = None
  /\ UNCHANGED call

LoseBack ==
  /\ \E n \in 0 .. Len(box) : box' = SubSeq(box, 1, n)
  /\ call' = None
  /\ UNCHANGED got

Next ==
  \/ \E m \in Message : Begin(m)
  \/ Succeed \/ Fail \/ Read \/ LoseFront \/ LoseBack

Spec == Init /\ [][Next]_vars
=============================================================================
