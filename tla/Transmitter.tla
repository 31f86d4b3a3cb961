----------------------------- MODULE Transmitter -----------------------------
(***************************************************************************)
(* A client of the bus: the send loop of the peer (5thD_Peer/              *)
(* peer_module.cpp), IpcClient (core/5thdipc_client.cpp) and               *)
(* ZMQWTransmitter (core/transmitter.cpp) over a ZeroMQ DEALER socket.     *)
(*                                                                         *)
(* One thread does everything, one zmq_msg_send is one action, and each of *)
(* them may return -1.  IpcClient::send hands over one ipc_msg_t, so the   *)
(* loop over the chunks of a message runs once.  The buffer has ten slots; *)
(* a frame that was sent is empty until it is sized again, which _send     *)
(* does with the frame of the data only.                                   *)
(*                                                                         *)
(* The socket keeps the frames of a message that was not ended (open) and  *)
(* up to HighWater complete messages for the other end (queue).            *)
(***************************************************************************)
EXTENDS SlotList, Sequences

CONSTANTS
  NULL,
  MaxPayload,   \* bound: what a message can hold
  HighWater,    \* ZMQ_SNDHWM and ZMQ_RCVHWM
  MaxFailures   \* bound: sends that return -1 although the socket could take the frame

ASSUME TransmitterAssumption ==
  /\ NULL \notin Slot
  /\ MaxPayload \in Nat \ {0} /\ HighWater \in Nat \ {0} /\ MaxFailures \in Nat

\* A frame is what the other end can tell of it: an identity of 7 bytes, no
\* bytes, or an ipc_msg_t.
NAME == -1
EMPTY == 0
Payload == 1 .. MaxPayload
Frame == {NAME, EMPTY} \cup Payload

VARIABLES
  pc,       \* connect, check, send, identity, empty, data, linger, ended
  until,    \* termination_requested
  joined,   \* zmq_connect succeeded
  pool,     \* _msg_buffer
  mine,     \* all_msg
  named,    \* slots whose identity frame still has its 7 bytes
  payload,  \* the message of the last call
  open, queue,
  failures

vars == <<pc, until, joined, pool, mine, named, payload, open, queue, failures>>

Sending == {"identity", "empty", "data"}

TypeOK ==
  /\ pc \in {"connect", "check", "send", "linger", "ended"} \cup Sending
  /\ until \in BOOLEAN /\ joined \in BOOLEAN
  /\ pool \in PoolType /\ mine \in Slot \cup {NULL}
  /\ named \subseteq Slot
  /\ payload \in Payload
  /\ open \in Seq(Frame) /\ queue \in Seq(Seq(Frame))
  /\ failures \in 0 .. MaxFailures

Init ==
  /\ pc = "connect" /\ until = TRUE /\ joined = FALSE
  /\ pool = FreshPool /\ mine = NULL /\ named = Slot /\ payload = 1
  /\ open = <<>> /\ queue = <<>>
  /\ failures = 0

-----------------------------------------------------------------------------

\* Whatever connect returns, IpcClient::_init ignores it.
Connect ==
  /\ pc = "connect"
  /\ joined' \in BOOLEAN
  /\ pc' = "check"
  /\ UNCHANGED <<until, pool, mine, named, payload, open, queue, failures>>

\* Mutant of AfterCheck: the flag is not looked at.
AfterCheckAlways == "send"

AfterCheck == IF until THEN "send" ELSE "linger"

CheckUntil ==
  /\ pc = "check"
  /\ pc' = AfterCheck
  /\ UNCHANGED <<until, joined, pool, mine, named, payload, open, queue, failures>>

\* _send is called with any message; it returns at once from a full buffer.
Send ==
  /\ pc = "send"
  /\ payload' \in Payload
  /\ IF IsExhausted(pool)
     THEN pc' = "check" /\ UNCHANGED <<pool, mine>>
     ELSE /\ pool' = Acquired(pool)
          /\ mine' = pool.free
          /\ pc' = "identity"
  /\ UNCHANGED <<until, joined, named, open, queue, failures>>

\* A frame can always be added to an unfinished message.
Accepts == open # <<>> \/ (joined /\ Len(queue) < HighWater)

SendIdentity ==
  /\ pc = "identity" /\ Accepts
  /\ open' = Append(open, IF mine \in named THEN NAME ELSE EMPTY)
  /\ named' = named \ {mine}
  /\ pc' = "empty"
  /\ UNCHANGED <<until, joined, pool, mine, payload, queue, failures>>

\* Mutant of Delimited: the frame is sent without ZMQ_SNDMORE.
DelimitedOnce ==
  queue' = Append(queue, Append(open, EMPTY)) /\ open' = <<>>

Delimited == open' = Append(open, EMPTY) /\ UNCHANGED queue

SendEmpty ==
  /\ pc = "empty"
  /\ Delimited
  /\ pc' = "data"
  /\ UNCHANGED <<until, joined, pool, mine, named, payload, failures>>

\* Mutant of GiveBack: without the cleanup the pointer is dropped only.
GiveBackNever == mine' = NULL /\ UNCHANGED pool

\* The cleanup at the end of _send, on every path that took a slot.
GiveBack == pool' = Released(pool, mine) /\ mine' = NULL

SendData ==
  /\ pc = "data"
  /\ queue' = Append(queue, Append(open, payload))
  /\ open' = <<>>
  /\ GiveBack
  /\ pc' = "check"
  /\ UNCHANGED <<until, joined, named, payload, failures>>

\* Mutant of FramesKept: the frames accepted so far are ended as a message.
FramesEnded ==
  queue' = (IF open = <<>> THEN queue ELSE Append(queue, open)) /\ open' = <<>>

\* zmq_msg_send returns -1: what was accepted before stays in the socket.
FramesKept == UNCHANGED <<open, queue>>

\* ZMQ_SNDTIMEO ends the wait of a first frame for a socket that cannot take
\* one, and so does a signal; no other failure has to happen.
SendFails ==
  /\ pc \in Sending
  /\ IF pc = "identity" /\ ~Accepts
     THEN UNCHANGED failures
     ELSE failures < MaxFailures /\ failures' = failures + 1
  /\ FramesKept
  /\ GiveBack
  /\ pc' = "check"
  /\ UNCHANGED <<until, joined, named, payload>>

\* The memory of a process that is gone, and what was in its socket.
Gone ==
  /\ pc' = "ended" /\ until' = TRUE /\ joined' = FALSE
  /\ pool' = FreshPool /\ mine' = NULL /\ named' = Slot /\ payload' = 1
  /\ open' = <<>> /\ queue' = <<>>
  /\ UNCHANGED failures

\* zmq_ctx_destroy returns when the other end has taken every message: no
\* code changes the ZMQ_LINGER of the socket.
Leave == pc = "linger" /\ queue = <<>> /\ Gone

Client == Connect \/ CheckUntil \/ Send \/ SendIdentity \/ SendEmpty \/ SendData
            \/ SendFails \/ Leave

-----------------------------------------------------------------------------

\* signal_handler of the peer.
Signal ==
  /\ pc # "ended" /\ until
  /\ until' = FALSE
  /\ UNCHANGED <<pc, joined, pool, mine, named, payload, open, queue, failures>>

\* The process is killed, or a second signal interrupts zmq_ctx_destroy.
Die == pc # "ended" /\ Gone

Restart ==
  /\ pc = "ended"
  /\ pc' = "connect"
  /\ UNCHANGED <<until, joined, pool, mine, named, payload, open, queue, failures>>
=============================================================================
