----------------------------- MODULE SoftwareBus -----------------------------
(***************************************************************************)
(* The bus process: ZMQBus (5thD_Software_Bus/core/src/software_bus.cpp),  *)
(* the ZMQWReceiver loop it runs in (core/receiver.cpp) and the buffer of  *)
(* message slots it works with (core/common/5thdbuffer.h), over a ZeroMQ   *)
(* ROUTER socket.                                                          *)
(*                                                                         *)
(* One thread runs listen and worker; each message is handled by one call  *)
(* of _handle_msg, which is one action here.  Clients append to the queue  *)
(* of the socket, come and go, and a signal may arrive between any two     *)
(* steps.  A client's src_id and the identity of its connection are the    *)
(* same value (ZMQWTransmitter::_init sets ZMQ_IDENTITY from CLIENTS_IDS), *)
(* so the map _clients is the set of its keys.                             *)
(*                                                                         *)
(* The frames of a slot are sized once, by init_allmsg (core/izmq.cpp);    *)
(* zmq_msg_send leaves an empty frame behind and zmq_msg_close an invalid  *)
(* one, and no code sizes them again.  Sending through a slot whose frames *)
(* have been sent copies 302 bytes into an empty frame, over the guard     *)
(* words of the slot and of the next one and all there is between them     *)
(* (software_bus.cpp:58): nothing is known of the process from then on,    *)
(* and pc = "undefined".                                                   *)
(***************************************************************************)
EXTENDS SlotList, Sequences

CONSTANTS
  Client,       \* the ids of 5thdipcmsg.h that exchange messages
  NULL,
  LOST,         \* where frames for nobody go
  MaxSends,     \* bound: messages all clients send
  MaxFailures,  \* bound: sends that return -1
  MaxDrops      \* bound: disconnections

ASSUME BusAssumption ==
  /\ NULL \notin Client /\ LOST \notin Client /\ NULL # LOST
  /\ MaxSends \in Nat /\ MaxFailures \in Nat /\ MaxDrops \in Nat

VARIABLES
  pc,         \* the worker thread: listen, check, poll, handle, done, undefined
  until,      \* ZMQBus::_poll
  pool,       \* _msg_buffer's lists
  canary,     \* _msg_buffer's guard words
  frames,     \* what each slot's frames are good for
  clients,    \* the keys of _clients
  bound,      \* zmq_bind succeeded
  connected,  \* the clients with a connection to the socket
  inbox,      \* complete messages in the socket, in arrival order
  open,       \* the connection of a multipart message not ended yet, or NULL
  outbox,     \* the messages each client was sent, in order
  sends, failures, drops,  \* bounded counters
  read,       \* messages taken from the socket
  halves      \* connections a forward broke off on

busVars == <<pc, pool, canary, frames, clients, outbox, open, read, failures, halves>>
vars == <<busVars, until, bound, connected, inbox, sends, drops>>

Message == [src : Client, dst : Client]
Frames == {"sized", "received", "sent"}

TypeOK ==
  /\ pc \in {"listen", "check", "poll", "handle", "done", "undefined"}
  /\ until \in BOOLEAN /\ bound \in BOOLEAN
  /\ pool \in PoolType
  /\ canary \in [Slot -> BOOLEAN]
  /\ frames \in [Slot -> Frames]
  /\ clients \subseteq Client /\ connected \subseteq Client /\ halves \subseteq Client
  /\ inbox \in Seq(Message)
  /\ open \in Client \cup {NULL, LOST}
  /\ outbox \in [Client -> Seq(Message)]
  /\ sends \in 0 .. MaxSends /\ read \in 0 .. MaxSends
  /\ failures \in 0 .. MaxFailures /\ drops \in 0 .. MaxDrops

Init ==
  /\ pc = "listen" /\ until = TRUE /\ bound = FALSE
  /\ pool = FreshPool
  /\ canary = [s \in Slot |-> TRUE]
  /\ frames = [s \in Slot |-> "sized"]
  /\ clients = {} /\ connected = {} /\ halves = {}
  /\ inbox = <<>> /\ outbox = [c \in Client |-> <<>>] /\ open = NULL
  /\ sends = 0 /\ read = 0 /\ failures = 0 /\ drops = 0

-----------------------------------------------------------------------------
(* The worker thread *)

\* run ignores what listen returns: a failed bind leads to the same loop.
Listen ==
  /\ pc = "listen"
  /\ bound' \in BOOLEAN
  /\ pc' = "check"
  /\ UNCHANGED <<until, pool, canary, frames, clients, connected, inbox, open,
                 outbox, sends, failures, drops, read, halves>>

\* Mutant of AfterCheck: the flag is not looked at.
AfterCheckAlways == "poll"

AfterCheck == IF until THEN "poll" ELSE "done"

CheckUntil ==
  /\ pc = "check"
  /\ pc' = AfterCheck
  /\ UNCHANGED <<until, bound, pool, canary, frames, clients, connected, inbox,
                 open, outbox, sends, failures, drops, read, halves>>

\* The poll reports a message, times out, or is interrupted by the signal.
Poll ==
  /\ pc = "poll"
  /\ \/ inbox # <<>> /\ pc' = "handle"
     \/ inbox = <<>> /\ pc' = "check"
     \/ ~until /\ pc' = "done"
  /\ UNCHANGED <<until, bound, pool, canary, frames, clients, connected, inbox,
                 open, outbox, sends, failures, drops, read, halves>>

\* What _handle_msg does in every case that takes the message: the sender is
\* registered before the destination is looked up.
Known == clients \cup {Head(inbox).src}

\* Mutant of Registered: the lookup is not consulted.
RegisteredAlways == TRUE

Registered == Head(inbox).dst \in Known

\* The pool after _handle_msg: with the handler's own slot, which its RAII
\* cleanup returns, and with the sender's as well, given back or leaked.
\* KeepHandler is a mutant of BackHandler (no cleanup), LoseSender one of
\* BackSender.
KeepHandler(p, mine) == p
BackHandler(p, mine) == Released(p, mine)
LoseSender(p, mine) == Released(Acquired(p), mine)
BackSender(p, mine) == Released(Released(Acquired(p), p.free), mine)

Received(slot) == [frames EXCEPT ![slot] = "received"]

TakeMessage ==
  /\ inbox' = Tail(inbox)
  /\ clients' = Known
  /\ read' = read + 1
  /\ UNCHANGED <<until, bound, connected, sends, drops>>

\* Nothing is sent: the destination never registered, or no second slot is
\* left for _send_message, which then reports Ok.
DropMessage(mine, p) ==
  /\ ~Registered \/ IsExhausted(p)
  /\ TakeMessage
  /\ pool' = BackHandler(p, mine)
  /\ frames' = Received(mine)
  /\ pc' = "check"
  /\ UNCHANGED <<canary, open, outbox, failures, halves>>

\* Mutant of Route: the identity of the sender is used.
RouteBack(s) == IF Head(inbox).src \in connected THEN Head(inbox).src ELSE LOST

\* Where the frames sent through slot s end up.  Those of an unfinished
\* message keep going where its first one went; an identity frame that has
\* been sent before is empty and names nobody.
Route(s) == IF open # NULL THEN open
            ELSE IF frames[s] = "sized" /\ Head(inbox).dst \in connected
            THEN Head(inbox).dst ELSE LOST

\* All three frames are accepted by the socket.
SendMessage(mine, p) ==
  /\ Registered /\ ~IsExhausted(p) /\ frames[p.free] = "sized"
  /\ TakeMessage
  /\ outbox' = IF Route(p.free) = LOST THEN outbox
               ELSE [outbox EXCEPT ![Route(p.free)] = Append(@, Head(inbox))]
  /\ open' = NULL
  /\ pool' = BackSender(p, mine)
  /\ frames' = [Received(mine) EXCEPT ![p.free] = "sent"]
  /\ pc' = "check"
  /\ UNCHANGED <<canary, failures, halves>>

\* One of the three sends returns -1: _send_message returns without giving
\* its slot back.  Frames that had been accepted stay accepted.
FailSend(mine, p) ==
  /\ Registered /\ ~IsExhausted(p)
  /\ failures < MaxFailures
  /\ TakeMessage
  /\ failures' = failures + 1
  /\ \/ UNCHANGED <<open, halves>>
     \/ /\ open' = Route(p.free)
        /\ halves' = halves \cup ({Route(p.free)} \ {LOST})
  /\ pool' = LoseSender(p, mine)
  /\ frames' = Received(mine)
  /\ pc' = "check"
  /\ UNCHANGED <<canary, outbox>>

\* The slot's frames are not the ones init_allmsg sized, and the two sends
\* before the copy succeed.
Misfill(mine, p) ==
  /\ Registered /\ ~IsExhausted(p) /\ frames[p.free] # "sized"
  /\ TakeMessage
  /\ canary' = [s \in Slot |-> canary[s] /\ s \notin Overwritten(p.free)]
  /\ pool' = Acquired(p)
  /\ frames' = Received(mine)
  /\ pc' = "undefined"
  /\ UNCHANGED <<open, outbox, failures, halves>>

\* The identity frame cannot be received; the slot goes back unused.
ReceiveFails(mine, p) ==
  /\ ~until
  /\ pool' = BackHandler(p, mine)
  /\ pc' = "check"
  /\ UNCHANGED <<until, bound, canary, frames, clients, connected, inbox, open,
                 outbox, sends, failures, drops, read, halves>>

\* Without a slot the message is left in the socket.
HandleMsg ==
  /\ pc = "handle"
  /\ IF IsExhausted(pool)
     THEN /\ pc' = "check"
          /\ UNCHANGED <<until, bound, pool, canary, frames, clients, connected,
                         inbox, open, outbox, sends, failures, drops, read, halves>>
     ELSE LET mine == pool.free
              p == Acquired(pool)
          IN \/ DropMessage(mine, p)
             \/ SendMessage(mine, p)
             \/ FailSend(mine, p)
             \/ Misfill(mine, p)
             \/ ReceiveFails(mine, p)

Worker == Listen \/ CheckUntil \/ Poll \/ HandleMsg

-----------------------------------------------------------------------------
(* The rest of the world *)

\* signal_handler, for SIGINT and SIGTERM.
Signal ==
  /\ until
  /\ until' = FALSE
  /\ UNCHANGED <<busVars, bound, connected, inbox, sends, drops>>

Connect(c) ==
  /\ bound /\ c \notin connected
  /\ connected' = connected \cup {c}
  /\ UNCHANGED <<busVars, until, bound, inbox, sends, drops>>

\* A message being sent to a lost connection is lost to its end.
Disconnect(c) ==
  /\ c \in connected /\ drops < MaxDrops
  /\ connected' = connected \ {c}
  /\ drops' = drops + 1
  /\ open' = IF open = c THEN LOST ELSE open
  /\ UNCHANGED <<pc, until, bound, pool, canary, frames, clients, inbox, outbox,
                 sends, failures, read, halves>>

Send(c, d) ==
  /\ c \in connected /\ sends < MaxSends
  /\ inbox' = Append(inbox, [src |-> c, dst |-> d])
  /\ sends' = sends + 1
  /\ UNCHANGED <<busVars, until, bound, connected, drops>>

Next ==
  \/ Worker
  \/ Signal
  \/ \E c \in Client : Connect(c) \/ Disconnect(c) \/ \E d \in Client : Send(c, d)

Spec == Init /\ [][Next]_vars

\* The worker thread is scheduled; nothing is assumed of clients or signals.
FairSpec == Spec /\ WF_vars(Worker)

-----------------------------------------------------------------------------
(* Properties *)

Halted == pc \in {"done", "undefined"}

\* The slot behind slot 0 is the one _send_message takes.  Its frames are good
\* for one message, and it stays there until a failed send loses it.
Spent ==
  \/ pc = "undefined"
  \/ pool.used < Size - 1 /\ frames[pool.next[0]] = "sent"

\* What the worker thread is to a client.
Standing == CASE pc = "undefined" -> "broken" [] pc = "done" -> "down" [] OTHER -> "up"

\* Clients see a relay with as many spares as there are slots besides the one
\* messages are received in (software_bus.cpp:48-62, 5thdbuffer.h:105): each
\* message is taken once and in order, and what becomes of the lists, the
\* frames and the multipart messages comes down to one bit and one count.
Promise == INSTANCE Relay WITH
  Spare <- Size - 1,
  state <- Standing,
  waiting <- inbox, known <- clients, got <- outbox, half <- open,
  broken <- failures, usedUp <- Spent
ImplementsRelay == Promise!Spec

\* Between two messages the only slots in use are those of forwards whose
\* send failed (software_bus.cpp:48-62): every other path of _handle_msg
\* gives back what it took.
LeaksAreFailures == pc # "undefined" => pool.used = failures

\* The early return of _handle_msg for want of a slot (software_bus.cpp:76)
\* is never taken: _send_message can leak every slot but the last, since it
\* is the second to take one.
ReceiveSlotReserved == pc # "undefined" => pool.used < Size

\* The free list is last in, first out, so the slot messages are received
\* in is always the same one and its closed frames are never sent.
ReceiveSlotNeverSent ==
  /\ pc # "undefined" => pool.free = 0
  /\ \A s \in Slot : frames[s] = "received" => s = 0

\* For the same reason forwards need fresh slots: the second one to get that
\* far takes the slot the first one emptied, so only a failed send, which
\* takes that slot away, lets the bus complete another forward.
TotalSent == { e \in Client \X (1 .. MaxSends) : e[2] <= Len(outbox[e[1]]) }
ForwardsNeedFreshSlots == Cardinality(TotalSent) <= failures + 1

\* A client is given only messages addressed to it, unless an earlier
\* forward to that very client broke off half-way (software_bus.cpp:53-61):
\* then its connection takes the next message, whoever it was for.
DeliveredAsAddressed ==
  \A c \in Client : \A i \in DOMAIN outbox[c] :
    outbox[c][i].dst = c \/ c \in halves

\* A client receives nothing before it has sent something itself.
OnlyKnownReceive == \A c \in Client : outbox[c] # <<>> => c \in clients

\* Once all slots but one have leaked, nothing is ever forwarded again,
\* while _send_message reports Ok for every message it drops.
LossIsPermanent ==
  [][pool.used = Size - 1 => pool'.used = Size - 1 /\ outbox' = outbox]_vars

\* The guard words are never overwritten: what check_canary asserts
\* (5thdbuffer.h:193, "Buffer overflow detected").
GuardWordsIntact == \A s \in Slot : canary[s]

\* Every message that reaches the socket is read, unless the loop ended.
EveryMessageRead ==
  \A n \in 1 .. MaxSends : sends >= n ~> (read >= n \/ Halted)

\* After the signal the loop ends (receiver.cpp:25: the flag is looked at
\* after every message and at least every 500 ms).
SignalEndsLoop == ~until ~> Halted
=============================================================================
