------------------------------- MODULE IpcLink -------------------------------
(***************************************************************************)
(* A client and the bus it announces itself to: Transmitter on one end of  *)
(* the connection, the receiving half of ZMQBus::_handle_msg (5thD_        *)
(* Software_Bus/core/src/software_bus.cpp) on the other.  Either process   *)
(* may be killed and restarted at any time, and they start in any order.   *)
(*                                                                         *)
(* What the bus does with its slots and with messages for other clients is *)
(* in SoftwareBus; here it reads the frames of a message and registers the *)
(* sender.  The ROUTER socket puts the identity of the connection in front *)
(* of each message; its first frame is that one.                           *)
(***************************************************************************)
EXTENDS Transmitter

CONSTANTS NONE, GARBAGE

ASSUME IpcLinkAssumption == NONE \notin Payload /\ GARBAGE \notin Payload

VARIABLES
  up,          \* the bus runs and its bind succeeded
  inbox,       \* complete messages in its socket
  registered,  \* _clients has an entry for the client
  data         \* what _handle_msg worked on last

busVars == <<up, inbox, registered, data>>
linkVars == <<vars, busVars>>

LinkTypeOK ==
  /\ TypeOK
  /\ up \in BOOLEAN /\ registered \in BOOLEAN
  /\ inbox \in Seq(Seq(Frame))
  /\ data \in Payload \cup {NONE, GARBAGE}

LinkInit == Init /\ up = FALSE /\ inbox = <<>> /\ registered = FALSE /\ data = NONE

-----------------------------------------------------------------------------

\* The sockets move complete messages only.
Transfer ==
  /\ joined /\ up /\ queue # <<>> /\ Len(inbox) < HighWater
  /\ inbox' = Append(inbox, Head(queue))
  /\ queue' = Tail(queue)
  /\ UNCHANGED <<pc, until, joined, pool, mine, named, payload, open, failures,
                 up, registered, data>>

\* The loop copies every frame of 302 bytes to the same place.  Without one,
\* the local variable is what the stack held.
Parts(m) == { i \in DOMAIN m : m[i] \in Payload }

Contents(m) ==
  IF Parts(m) = {} THEN GARBAGE
  ELSE m[CHOOSE i \in Parts(m) : \A j \in Parts(m) : j <= i]

\* The ids are fields of the data, so nobody is registered by garbage.
Handle ==
  /\ up /\ inbox # <<>>
  /\ data' = Contents(Head(inbox))
  /\ registered' = (registered \/ data' # GARBAGE)
  /\ inbox' = Tail(inbox)
  /\ UNCHANGED <<vars, up>>

BusStart ==
  /\ ~up
  /\ up' = TRUE
  /\ UNCHANGED <<vars, inbox, registered, data>>

\* Killed, or told to end: what is in the socket goes with it.
BusEnd ==
  /\ up
  /\ up' = FALSE /\ inbox' = <<>> /\ registered' = FALSE /\ data' = NONE
  /\ UNCHANGED vars

ClientSide == (Client \/ Signal \/ Die \/ Restart) /\ UNCHANGED busVars

LinkNext == ClientSide \/ Transfer \/ Handle \/ BusStart \/ BusEnd

Spec == LinkInit /\ [][LinkNext]_linkVars

\* Threads and sockets that can take a step take it; nobody has to start,
\* stop or fail.
FairSpec ==
  /\ Spec
  /\ WF_linkVars(Client /\ UNCHANGED busVars)
  /\ WF_linkVars(Transfer) /\ WF_linkVars(Handle)

-----------------------------------------------------------------------------
(* Properties *)

\* Every path of _send gives its slot back (transmitter.cpp:114), so each
\* call finds all ten free and takes slot 0: it never answers
\* MANAGE_BUFF_FULL, for which nobody registered a recovery.
SlotsComeBack == pc \notin Sending => pool.used = 0 /\ pool.free = 0

\* A message has the data of one call and ends with it, whatever failed
\* before it on the way: only its last frame has 302 bytes.  So the variable
\* _handle_msg reads without initialising it (software_bus.cpp:72) is
\* always written first.
EndsInData(m) == Parts(m) = {Len(m)}
MessagesEndInData ==
  \A q \in {queue, inbox} : \A i \in DOMAIN q : EndsInData(q[i])

\* The identity frame of a slot is sized once (izmq.cpp:9), and every call
\* works with the same slot: the bytes of the identity are in the first
\* frame of a message or in none, also when a failed call left its frames to
\* the next one (transmitter.cpp:127).
NameLeads(m) == \A i \in DOMAIN m : m[i] = NAME => i = 1
NamesLead == NameLeads(open) /\ \A q \in {queue, inbox} : \A i \in DOMAIN q : NameLeads(q[i])

\* The pair implements the mailbox its users count on: a call that failed
\* half-way leaves nothing to be read, one that succeeded exactly its own
\* message, and only the end of a process loses messages.
Box ==
  LET flow == inbox \o queue IN [i \in 1 .. Len(flow) |-> Contents(flow[i])]

Promise == INSTANCE Mailbox WITH
  Message <- Payload, None <- NONE,
  call <- IF pc \in Sending THEN payload ELSE NONE,
  box <- Box,
  got <- data

ImplementsMailbox == Promise!Spec

\* A bus that was restarted forgot its clients; the loop that announces the
\* peer every 200 ms (peer_module.cpp:100) brings it back, if the bus stays.
Announces == pc # "ended" /\ until /\ joined
RegistersAgain == <>[](up /\ Announces) => <>[]registered

\* Told to end, the client does: the announcements it still holds are taken
\* by a bus that stays.  Without one the destructor of the context waits for
\* ever (izmq.cpp:59).
SignalEndsClient == <>[]up => (~until ~> pc = "ended")
=============================================================================
