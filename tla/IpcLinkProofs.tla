---------------------------- MODULE IpcLinkProofs ----------------------------
(***************************************************************************)
(* Proofs about IpcLink, for any size of the buffer, any capacity of the   *)
(* queues, any payloads and any number of failing sends.                   *)
(*                                                                         *)
(* The slots need no list: after each call the pool is the fresh one, down *)
(* to the order of its free list.  The rest is about the unfinished        *)
(* message: it holds no data, and its slot lost the identity with its      *)
(* first frame.                                                            *)
(***************************************************************************)
EXTENDS IpcLink, TLAPS

Slots ==
  IF pc \in Sending THEN pool = Acquired(FreshPool) /\ mine = 0
                    ELSE pool = FreshPool /\ mine = NULL

Unfinished ==
  /\ Parts(open) = {} /\ NameLeads(open)
  /\ pc \in {"empty", "data"} => open # <<>>
  /\ 0 \in named => open = <<>>

Complete(m) == EndsInData(m) /\ NameLeads(m)

Messages ==
  /\ \A i \in DOMAIN queue : Complete(queue[i])
  /\ \A i \in DOMAIN inbox : Complete(inbox[i])

IInv == LinkTypeOK /\ Slots /\ Unfinished /\ Messages

-----------------------------------------------------------------------------
(* The pool *)

\* A buffer has a slot 0.
LEMMA ZeroIsSlot == 0 \in Slot
  BY SizeAssumption DEF Slot

\* A fresh buffer hands out slot 0 and has a slot to give.
LEMMA FreshPoolType ==
  /\ FreshPool \in PoolType /\ Acquired(FreshPool) \in PoolType
  /\ FreshPool.free = 0 /\ FreshPool.used = 0 /\ ~IsExhausted(FreshPool)
<1>1. FreshPool \in PoolType
  <2>1. \A s \in Slot : (s + 1) % Size \in Slot
    BY SizeAssumption DEF Slot
  <2> QED  BY <2>1, ZeroIsSlot, SizeAssumption DEF FreshPool, PoolType
<1>2. FreshPool.free = 0 /\ FreshPool.used = 0 /\ ~IsExhausted(FreshPool)
  BY SizeAssumption DEF FreshPool, IsExhausted
<1>3. Acquired(FreshPool) \in PoolType
  <2>1. FreshPool.next[0] \in Slot
    BY <1>1, ZeroIsSlot DEF PoolType
  <2>2. 1 \in 0 .. Size
    BY SizeAssumption
  <2> QED  BY <1>1, <1>2, <2>1, <2>2 DEF Acquired, PoolType
<1> QED  BY <1>1, <1>2, <1>3

\* What a call takes and gives back leaves no trace.
LEMMA TakeAndGive == Released(Acquired(FreshPool), 0) = FreshPool
<1>1. [[FreshPool.inUse EXCEPT ![0] = TRUE] EXCEPT ![0] = FALSE] = FreshPool.inUse
  BY ZeroIsSlot DEF FreshPool
<1>2. [FreshPool.next EXCEPT ![0] = FreshPool.next[0]] = FreshPool.next
  BY ZeroIsSlot DEF FreshPool
<1>3. Released(Acquired(FreshPool), 0) =
        [inUse |-> FreshPool.inUse, next |-> FreshPool.next, free |-> 0, used |-> 0]
  BY <1>1, <1>2, FreshPoolType DEF Released, Acquired
<1> QED  BY <1>3 DEF FreshPool

-----------------------------------------------------------------------------
(* Messages *)

\* A message without data has data exactly where data is put behind it.
LEMMA PartsOfAppend ==
  ASSUME NEW m \in Seq(Frame), NEW f \in Frame, Parts(m) = {}
  PROVE  Parts(Append(m, f)) = IF f \in Payload THEN {Len(m) + 1} ELSE {}
  BY DEF Parts

\* A name leads a message when no name is put behind another frame.
LEMMA AppendName ==
  ASSUME NEW m \in Seq(Frame), NEW f \in Frame, NameLeads(m),
         f = NAME => m = <<>>
  PROVE  NameLeads(Append(m, f))
  BY DEF NameLeads

\* A name, an empty frame and data are told apart.
LEMMA Kinds == NAME \in Frame /\ EMPTY \in Frame /\ NAME \notin Payload /\ EMPTY \notin Payload
               /\ NAME # EMPTY
  BY DEF NAME, EMPTY, Frame, Payload

\* A finished message is the unfinished one with the data behind it.
LEMMA Finished ==
  ASSUME NEW m \in Seq(Frame), NEW p \in Payload, Parts(m) = {}, NameLeads(m)
  PROVE  Append(m, p) \in Seq(Frame) /\ Complete(Append(m, p))
<1>1. p \in Frame /\ p # NAME
  BY Kinds DEF Frame
<1>2. Parts(Append(m, p)) = {Len(m) + 1} /\ Len(Append(m, p)) = Len(m) + 1
  BY <1>1, PartsOfAppend
<1>3. NameLeads(Append(m, p))
  BY <1>1, AppendName
<1> QED  BY <1>1, <1>2, <1>3 DEF Complete, EndsInData

\* What the bus reads of a message that ends in data is its last frame.
LEMMA LastIsContents ==
  ASSUME NEW m \in Seq(Frame), EndsInData(m)
  PROVE  Len(m) \in DOMAIN m /\ Contents(m) = m[Len(m)] /\ Contents(m) \in Payload
<1>1. Len(m) \in Parts(m)
  BY DEF EndsInData
<1>2. \A i \in Parts(m) : i = Len(m)
  BY DEF EndsInData
<1>3. Len(m) \in DOMAIN m /\ m[Len(m)] \in Payload
  BY <1>1 DEF Parts
<1>4. Len(m) <= Len(m)
  BY <1>3
<1>5. (CHOOSE i \in Parts(m) : \A j \in Parts(m) : j <= i) = Len(m)
  BY <1>1, <1>2, <1>4
<1> QED  BY <1>1, <1>3, <1>5 DEF Contents

\* The empty queue of messages, and the empty message.
LEMMA NoMessages == <<>> \in Seq(Frame) /\ <<>> \in Seq(Seq(Frame)) /\ DOMAIN <<>> = {}
  OBVIOUS

-----------------------------------------------------------------------------
(* The invariant is inductive *)

\* A client not started yet, and a bus that does not run.
LEMMA InitIInv == LinkInit => IInv
<1> SUFFICES ASSUME LinkInit PROVE IInv
  OBVIOUS
<1> USE DEF LinkInit, Init
<1>1. LinkTypeOK
  <2>1. 1 \in Payload /\ 0 \in 0 .. MaxFailures
    BY TransmitterAssumption DEF Payload
  <2>2. TypeOK
    BY <2>1, FreshPoolType, NoMessages DEF TypeOK
  <2> QED  BY <2>2, NoMessages DEF LinkTypeOK
<1>2. Slots
  BY DEF Slots, Sending
<1>3. Unfinished /\ Messages
  BY DEF Unfinished, Messages, Parts, NameLeads
<1> QED  BY <1>1, <1>2, <1>3 DEF IInv

\* What the calls of the loop have in common: the messages are left alone.
LEMMA SameMessages ==
  ASSUME Messages, UNCHANGED <<queue, inbox>>
  PROVE  Messages'
  BY DEF Messages

\* The steps that leave the unfinished message and the names alone.
LEMMA SameOpen ==
  ASSUME Unfinished, UNCHANGED <<open, named>>, pc' \in {"empty", "data"} => open # <<>>
  PROVE  Unfinished'
  BY DEF Unfinished

\* The pool after a call is the one before it.
LEMMA GivenBack ==
  ASSUME Slots, pc \in Sending, GiveBack
  PROVE  pool' = FreshPool /\ mine' = NULL
  BY TakeAndGive DEF Slots, GiveBack

\* A call of _send takes slot 0 (transmitter.cpp:114).
LEMMA SendInv ==
  ASSUME IInv, Send, UNCHANGED busVars
  PROVE  IInv'
<1> USE DEF IInv, Send, busVars
<1>1. pool = FreshPool /\ ~IsExhausted(pool)
  BY FreshPoolType DEF Slots, Sending
<1>2. pool' = Acquired(FreshPool) /\ mine' = 0 /\ pc' = "identity"
  BY <1>1, FreshPoolType
<1>3. LinkTypeOK'
  BY <1>2, FreshPoolType, ZeroIsSlot DEF LinkTypeOK, TypeOK, Sending
<1>4. Slots'
  BY <1>2 DEF Slots, Sending
<1>5. Unfinished' /\ Messages'
  BY <1>2, SameOpen, SameMessages
<1> QED  BY <1>3, <1>4, <1>5

\* The identity frame goes (transmitter.cpp:127).
LEMMA SendIdentityInv ==
  ASSUME IInv, SendIdentity, UNCHANGED busVars
  PROVE  IInv'
<1> USE DEF IInv, SendIdentity, busVars
<1> DEFINE f == IF mine \in named THEN NAME ELSE EMPTY
<1>1. mine = 0 /\ pool = Acquired(FreshPool)
  BY DEF Slots, Sending
<1>2. f \in Frame /\ f \notin Payload /\ open \in Seq(Frame)
  BY Kinds DEF LinkTypeOK, TypeOK
<1>3. f = NAME => open = <<>>
  BY <1>1, Kinds DEF Unfinished
<1>4. open' = Append(open, f) /\ open' \in Seq(Frame) /\ open' # <<>>
  BY <1>2
<1>5. Parts(open') = {} /\ NameLeads(open')
  BY <1>2, <1>3, <1>4, PartsOfAppend, AppendName DEF Unfinished
<1>6. LinkTypeOK'
  <2>1. pc' \in Sending /\ named' \subseteq Slot
    BY DEF Sending, LinkTypeOK, TypeOK
  <2>2. TypeOK'
    BY <1>4, <2>1 DEF LinkTypeOK, TypeOK
  <2> QED  BY <2>2 DEF LinkTypeOK
<1>7. Slots'
  BY <1>1 DEF Slots, Sending
<1>8. Unfinished'
  BY <1>1, <1>4, <1>5 DEF Unfinished
<1> QED  BY <1>6, <1>7, <1>8, SameMessages

\* The delimiter goes.
LEMMA SendEmptyInv ==
  ASSUME IInv, SendEmpty, UNCHANGED busVars
  PROVE  IInv'
<1> USE DEF IInv, SendEmpty, Delimited, busVars
<1>1. open \in Seq(Frame) /\ open # <<>>
  BY DEF LinkTypeOK, TypeOK, Unfinished
<1>2. open' = Append(open, EMPTY) /\ open' \in Seq(Frame) /\ open' # <<>>
  BY <1>1, Kinds
<1>3. Parts(open') = {} /\ NameLeads(open')
  BY <1>1, <1>2, Kinds, PartsOfAppend, AppendName DEF Unfinished
<1>4. LinkTypeOK'
  BY <1>2 DEF LinkTypeOK, TypeOK, Sending
<1>5. Slots'
  BY DEF Slots, Sending
<1>6. Unfinished'
  BY <1>1, <1>2, <1>3 DEF Unfinished
<1> QED  BY <1>4, <1>5, <1>6, SameMessages

\* The data goes: the message is finished and the slot given back.
LEMMA SendDataInv ==
  ASSUME IInv, SendData, UNCHANGED busVars
  PROVE  IInv'
<1> USE DEF IInv, SendData, busVars
<1> DEFINE m == Append(open, payload)
<1>1. m \in Seq(Frame) /\ Complete(m)
  BY Finished DEF LinkTypeOK, TypeOK, Unfinished
<1>2. queue \in Seq(Seq(Frame)) /\ queue' = Append(queue, m)
  BY DEF LinkTypeOK, TypeOK
<1>3. queue' \in Seq(Seq(Frame)) /\ \A i \in DOMAIN queue' : Complete(queue'[i])
  <2>1. queue' \in Seq(Seq(Frame))
    BY <1>1, <1>2
  <2>2. ASSUME NEW i \in DOMAIN queue'  PROVE Complete(queue'[i])
    <3>1. queue'[i] = m \/ (i \in DOMAIN queue /\ queue'[i] = queue[i])
      BY <1>1, <1>2
    <3> QED  BY <1>1, <3>1 DEF Messages
  <2> QED  BY <2>1, <2>2
<1>4. pool' = FreshPool /\ mine' = NULL /\ pc' = "check"
  BY GivenBack DEF Sending
<1>5. LinkTypeOK'
  BY <1>3, <1>4, FreshPoolType DEF LinkTypeOK, TypeOK
<1>6. Slots'
  BY <1>4 DEF Slots, Sending
<1>7. Unfinished'
  BY <1>4 DEF Unfinished, Parts, NameLeads
<1>8. Messages'
  BY <1>3 DEF Messages
<1> QED  BY <1>5, <1>6, <1>7, <1>8

\* Any of the three sends fails (transmitter.cpp:128).
LEMMA SendFailsInv ==
  ASSUME IInv, SendFails, UNCHANGED busVars
  PROVE  IInv'
<1> USE DEF IInv, SendFails, FramesKept, busVars
<1>1. pool' = FreshPool /\ mine' = NULL /\ pc' = "check"
  BY GivenBack
<1>2. failures' \in 0 .. MaxFailures
  BY TransmitterAssumption DEF LinkTypeOK, TypeOK
<1>3. LinkTypeOK'
  BY <1>1, <1>2, FreshPoolType DEF LinkTypeOK, TypeOK
<1>4. Slots'
  BY <1>1 DEF Slots, Sending
<1>5. Unfinished' /\ Messages'
  BY <1>1, SameOpen, SameMessages
<1> QED  BY <1>3, <1>4, <1>5

\* The end of a process, however it comes.
LEMMA GoneInv ==
  ASSUME IInv, Gone, UNCHANGED busVars
  PROVE  IInv'
<1> USE DEF IInv, Gone, busVars
<1>1. 1 \in Payload
  BY TransmitterAssumption DEF Payload
<1>2. LinkTypeOK'
  BY <1>1, FreshPoolType, NoMessages DEF LinkTypeOK, TypeOK
<1>3. Slots'
  BY DEF Slots, Sending
<1>4. Unfinished' /\ Messages'
  BY DEF Unfinished, Messages, Parts, NameLeads
<1> QED  BY <1>2, <1>3, <1>4

\* The steps outside of calls: Connect, CheckUntil, Signal, Restart.
LEMMA LoopInv ==
  ASSUME IInv, Connect \/ CheckUntil \/ Signal \/ Restart, UNCHANGED busVars
  PROVE  IInv'
<1> USE DEF IInv, busVars
<1>1. UNCHANGED <<pool, mine, named, payload, open, queue, failures>>
  BY DEF Connect, CheckUntil, Signal, Restart
<1>2. (pc' = pc) \/ (pc \notin Sending /\ pc' \in {"check", "send", "linger", "connect"})
  BY DEF Connect, CheckUntil, AfterCheck, Signal, Restart, Sending
<1>3. until' \in BOOLEAN /\ joined' \in BOOLEAN
  BY DEF Connect, CheckUntil, Signal, Restart, LinkTypeOK, TypeOK
<1>4. LinkTypeOK'
  BY <1>1, <1>2, <1>3 DEF LinkTypeOK, TypeOK
<1>5. Slots'
  BY <1>1, <1>2 DEF Slots, Sending
<1>6. Unfinished'
  BY <1>1, <1>2, SameOpen DEF Unfinished
<1>7. Messages'
  BY <1>1, SameMessages
<1> QED  BY <1>4, <1>5, <1>6, <1>7

\* The steps that move or drop complete messages.
LEMMA LinkInv ==
  ASSUME IInv, Transfer \/ Handle \/ BusStart \/ BusEnd
  PROVE  IInv'
<1> USE DEF IInv
<1>1. UNCHANGED <<pc, until, joined, pool, mine, named, payload, open, failures>>
  BY DEF Transfer, Handle, BusStart, BusEnd, vars
<1>2. queue \in Seq(Seq(Frame)) /\ inbox \in Seq(Seq(Frame))
  BY DEF LinkTypeOK, TypeOK
<1>3. /\ queue' \in Seq(Seq(Frame)) /\ inbox' \in Seq(Seq(Frame)) /\ Messages'
      /\ up' \in BOOLEAN /\ registered' \in BOOLEAN /\ data' \in Payload \cup {NONE, GARBAGE}
  <2>1. CASE Transfer
    <3> USE DEF Transfer
    <3>1. inbox' \in Seq(Seq(Frame)) /\ queue' \in Seq(Seq(Frame)) /\ 1 \in DOMAIN queue
      BY <1>2, <2>1
    <3>2. \A i \in DOMAIN queue' : i + 1 \in DOMAIN queue /\ queue'[i] = queue[i + 1]
      BY <1>2, <2>1
    <3>3. \A i \in DOMAIN inbox' : inbox'[i] = queue[1] \/ (i \in DOMAIN inbox /\ inbox'[i] = inbox[i])
      BY <1>2, <2>1
    <3>4. Messages'
      BY <3>1, <3>2, <3>3 DEF Messages
    <3> QED  BY <2>1, <3>1, <3>4 DEF LinkTypeOK
  <2>2. CASE Handle
    <3> USE DEF Handle, vars
    <3>1. inbox' \in Seq(Seq(Frame)) /\ 1 \in DOMAIN inbox /\ Head(inbox) = inbox[1]
      BY <1>2, <2>2
    <3>2. \A i \in DOMAIN inbox' : i + 1 \in DOMAIN inbox /\ inbox'[i] = inbox[i + 1]
      BY <1>2, <2>2
    <3>3. data' \in Payload
      <4>1. inbox[1] \in Seq(Frame) /\ EndsInData(inbox[1])
        BY <1>2, <3>1 DEF Messages, Complete
      <4> QED  BY <2>2, <3>1, <4>1, LastIsContents
    <3>4. Messages'
      BY <2>2, <3>2 DEF Messages
    <3> QED  BY <1>2, <2>2, <3>1, <3>3, <3>4 DEF LinkTypeOK
  <2>3. CASE BusStart
    BY <1>2, <2>3, SameMessages DEF BusStart, vars, LinkTypeOK
  <2>4. CASE BusEnd
    BY <1>2, <2>4, NoMessages DEF BusEnd, vars, Messages
  <2> QED  BY <2>1, <2>2, <2>3, <2>4
<1>4. LinkTypeOK'
  BY <1>1, <1>3 DEF LinkTypeOK, TypeOK
<1>5. Slots' /\ Unfinished'
  BY <1>1 DEF Slots, Unfinished
<1> QED  BY <1>3, <1>4, <1>5

\* The invariant is inductive.
LEMMA NextIInv == IInv /\ [LinkNext]_linkVars => IInv'
<1> SUFFICES ASSUME IInv, [LinkNext]_linkVars PROVE IInv'
  OBVIOUS
<1>1. CASE ClientSide
  BY <1>1, SendInv, SendIdentityInv, SendEmptyInv, SendDataInv, SendFailsInv, GoneInv, LoopInv
     DEF ClientSide, Client, Leave, Die
<1>2. CASE Transfer \/ Handle \/ BusStart \/ BusEnd
  BY <1>2, LinkInv
<1>3. CASE UNCHANGED linkVars
  BY <1>3 DEF linkVars, vars, busVars, IInv, LinkTypeOK, TypeOK, Slots, Unfinished, Messages
<1> QED  BY <1>1, <1>2, <1>3 DEF LinkNext

\* The invariant holds always.
LEMMA Invariance == Spec => []IInv
  BY InitIInv, NextIInv, PTL DEF Spec

\* Every variable of client, connection and bus has its type (transmitter.cpp,
\* software_bus.cpp): in particular no message is read as garbage.
THEOREM LinkTypes == Spec => []LinkTypeOK
  BY Invariance, PTL DEF IInv

\* Between two calls of send every slot is free again (transmitter.cpp:114).
THEOREM SlotsAlwaysComeBack == Spec => []SlotsComeBack
<1>1. IInv => SlotsComeBack
  BY FreshPoolType DEF IInv, Slots, SlotsComeBack
<1> QED  BY <1>1, Invariance, PTL

\* A message ends with the data of one call, and holds no other
\* (transmitter.cpp:140, software_bus.cpp:99).
THEOREM MessagesAlwaysEndInData == Spec => []MessagesEndInData
<1>1. IInv => MessagesEndInData
  BY DEF IInv, Messages, Complete, MessagesEndInData
<1> QED  BY <1>1, Invariance, PTL

\* Only the first frame of a message can carry the identity
\* (transmitter.cpp:127).
THEOREM NamesAlwaysLead == Spec => []NamesLead
<1>1. IInv => NamesLead
  BY DEF IInv, Messages, Unfinished, Complete, NamesLead
<1> QED  BY <1>1, Invariance, PTL

-----------------------------------------------------------------------------
(* IpcLink implements Mailbox *)

Message == Seq(Frame)

\* What the bus reads from a sequence of messages.
Reading(f) == [i \in 1 .. Len(f) |-> Contents(f[i])]

\* What is read of a queue of complete messages is a queue of data.
LEMMA ReadingType ==
  ASSUME NEW f \in Seq(Message), \A i \in DOMAIN f : Complete(f[i])
  PROVE  /\ Reading(f) \in Seq(Payload) /\ Len(Reading(f)) = Len(f) /\ Len(f) \in Nat
         /\ \A i \in 1 .. Len(f) : Reading(f)[i] = Contents(f[i])
<1>1. ASSUME NEW i \in 1 .. Len(f) PROVE Contents(f[i]) \in Payload
  BY LastIsContents DEF Complete, Message
<1>2. Reading(f) \in [1 .. Len(f) -> Payload] /\ Len(f) \in Nat
  BY <1>1 DEF Reading
<1>3. Reading(f) \in Seq(Payload) /\ Len(Reading(f)) = Len(f)
  BY <1>2
<1> QED  BY <1>2, <1>3 DEF Reading

\* Sequences of the same length with the same elements are equal.
LEMMA EqualSequences ==
  ASSUME NEW S, NEW s \in Seq(S), NEW t \in Seq(S), Len(s) = Len(t),
         \A i \in 1 .. Len(s) : s[i] = t[i]
  PROVE  s = t
  OBVIOUS

\* One more message behind the others.
LEMMA ReadingAppend ==
  ASSUME NEW f \in Seq(Message), \A i \in DOMAIN f : Complete(f[i]),
         NEW m \in Message, Complete(m)
  PROVE  Reading(Append(f, m)) = Append(Reading(f), Contents(m))
<1> DEFINE g == Append(f, m)
           t == Append(Reading(f), Contents(m))
<1>1. g \in Seq(Message) /\ Len(g) = Len(f) + 1 /\ g[Len(f) + 1] = m
      /\ \A i \in 1 .. Len(f) : g[i] = f[i]
  OBVIOUS
<1>2. \A i \in DOMAIN g : Complete(g[i])
  BY <1>1
<1>3. /\ Reading(g) \in Seq(Payload) /\ Len(Reading(g)) = Len(f) + 1
      /\ \A i \in 1 .. Len(f) + 1 : Reading(g)[i] = Contents(g[i])
  <2> HIDE DEF g
  <2> QED  BY <1>1, <1>2, ReadingType
<1>4. /\ Reading(f) \in Seq(Payload) /\ Len(Reading(f)) = Len(f) /\ Len(f) \in Nat
      /\ \A i \in 1 .. Len(f) : Reading(f)[i] = Contents(f[i])
  BY ReadingType
<1>5. Contents(m) \in Payload
  BY LastIsContents DEF Complete, Message
<1>6. /\ t \in Seq(Payload) /\ Len(t) = Len(f) + 1 /\ t[Len(f) + 1] = Contents(m)
      /\ \A i \in 1 .. Len(f) : t[i] = Reading(f)[i]
  BY <1>4, <1>5
<1>7. ASSUME NEW i \in 1 .. Len(f) + 1  PROVE Reading(g)[i] = t[i]
  <2> HIDE DEF g, t
  <2>1. i = Len(f) + 1 \/ i \in 1 .. Len(f)
    BY <1>4
  <2> QED  BY <1>1, <1>3, <1>4, <1>6, <2>1
<1> QED
  <2> HIDE DEF g, t
  <2>1. Reading(g) = t  BY <1>3, <1>6, <1>7, EqualSequences
  <2> QED  BY <2>1 DEF g, t

\* The first message read.
LEMMA ReadingTail ==
  ASSUME NEW f \in Seq(Message), \A i \in DOMAIN f : Complete(f[i]), f # <<>>
  PROVE  /\ Reading(f) # <<>> /\ Head(Reading(f)) = Contents(Head(f))
         /\ Reading(Tail(f)) = Tail(Reading(f))
<1> DEFINE g == Tail(f)
           t == Tail(Reading(f))
<1>1. /\ g \in Seq(Message) /\ Len(g) = Len(f) - 1 /\ Len(f) \in Nat \ {0}
      /\ \A i \in 1 .. Len(f) - 1 : g[i] = f[i + 1]
  OBVIOUS
<1>2. \A i \in DOMAIN g : Complete(g[i])
  <2>1. \A i \in DOMAIN g : i + 1 \in DOMAIN f /\ g[i] = f[i + 1]
    BY <1>1
  <2> QED  BY <2>1
<1>3. /\ Reading(g) \in Seq(Payload) /\ Len(Reading(g)) = Len(f) - 1
      /\ \A i \in 1 .. Len(f) - 1 : Reading(g)[i] = Contents(g[i])
  <2> HIDE DEF g
  <2> QED  BY <1>1, <1>2, ReadingType
<1>4. /\ Reading(f) \in Seq(Payload) /\ Len(Reading(f)) = Len(f)
      /\ \A i \in 1 .. Len(f) : Reading(f)[i] = Contents(f[i])
  BY ReadingType
<1>5. Reading(f) # <<>> /\ Head(Reading(f)) = Contents(Head(f))
  BY <1>1, <1>4
<1>6. /\ t \in Seq(Payload) /\ Len(t) = Len(f) - 1
      /\ \A i \in 1 .. Len(f) - 1 : t[i] = Reading(f)[i + 1]
  BY <1>1, <1>4, <1>5
<1>7. ASSUME NEW i \in 1 .. Len(f) - 1  PROVE Reading(g)[i] = t[i]
  <2> HIDE DEF g, t
  <2>1. i + 1 \in 1 .. Len(f)  BY <1>1
  <2> QED  BY <1>1, <1>3, <1>4, <1>6, <2>1
<1>8. Reading(g) = t
  <2> HIDE DEF g, t
  <2> QED  BY <1>3, <1>6, <1>7, EqualSequences
<1> QED  BY <1>5, <1>8

\* A loss at either end of the connection cuts the box there.
LEMMA ReadingParts ==
  ASSUME NEW in \in Seq(Message), NEW out \in Seq(Message),
         \A i \in DOMAIN in : Complete(in[i]),
         \A i \in DOMAIN out : Complete(out[i])
  PROVE  LET b == Reading(in \o out)
         IN  /\ b \in Seq(Payload) /\ Len(in) \in 0 .. Len(b)
             /\ Reading(in) = SubSeq(b, 1, Len(in))
             /\ Reading(out) = SubSeq(b, Len(in) + 1, Len(b))
<1> DEFINE f == in \o out
           b == Reading(f)
<1>1. /\ f \in Seq(Message) /\ Len(f) = Len(in) + Len(out)
      /\ Len(in) \in Nat /\ Len(out) \in Nat
  OBVIOUS
<1>2. \A i \in 1 .. Len(in) : f[i] = in[i]
  OBVIOUS
<1>3. \A i \in 1 .. Len(out) : f[Len(in) + i] = out[i]
  OBVIOUS
<1>4. \A i \in DOMAIN f : Complete(f[i])
  OBVIOUS
<1>5. /\ b \in Seq(Payload) /\ Len(b) = Len(in) + Len(out)
      /\ \A i \in 1 .. Len(in) + Len(out) : b[i] = Contents(f[i])
  <2> HIDE DEF f
  <2> QED  BY <1>1, <1>4, ReadingType
<1>6. /\ Reading(in) \in Seq(Payload) /\ Len(Reading(in)) = Len(in)
      /\ \A i \in 1 .. Len(in) : Reading(in)[i] = Contents(in[i])
  BY ReadingType
<1>7. /\ Reading(out) \in Seq(Payload) /\ Len(Reading(out)) = Len(out)
      /\ \A i \in 1 .. Len(out) : Reading(out)[i] = Contents(out[i])
  BY ReadingType
<1> HIDE DEF f, b
<1>8. Reading(in) = SubSeq(b, 1, Len(in))
  <2> DEFINE s == SubSeq(b, 1, Len(in))
  <2>1. s \in Seq(Payload) /\ Len(s) = Len(in) /\ \A i \in 1 .. Len(in) : s[i] = b[i]
    BY <1>1, <1>5
  <2>2. \A i \in 1 .. Len(in) : Reading(in)[i] = s[i]
    BY <1>1, <1>2, <1>5, <1>6, <2>1
  <2> HIDE DEF s
  <2>3. Reading(in) = s  BY <1>6, <2>1, <2>2, EqualSequences
  <2> QED  BY <2>3 DEF s
<1>9. Reading(out) = SubSeq(b, Len(in) + 1, Len(b))
  <2> DEFINE s == SubSeq(b, Len(in) + 1, Len(b))
  <2>1. s \in Seq(Payload) /\ Len(s) = Len(out) /\ \A i \in 1 .. Len(out) : s[i] = b[Len(in) + i]
    BY <1>1, <1>5
  <2>2. ASSUME NEW i \in 1 .. Len(out) PROVE Reading(out)[i] = s[i]
    <3>1. Len(in) + i \in 1 .. Len(in) + Len(out)  BY <1>1
    <3> QED  BY <1>3, <1>5, <1>7, <2>1, <3>1
  <2> HIDE DEF s
  <2>3. Reading(out) = s  BY <1>7, <2>1, <2>2, EqualSequences
  <2> QED  BY <2>3 DEF s
<1> QED  BY <1>1, <1>5, <1>8, <1>9 DEF b, f

\* The messages on their way are complete.
LEMMA MessageFacts ==
  ASSUME IInv
  PROVE  /\ Box = Reading(inbox \o queue)
         /\ inbox \in Seq(Message) /\ queue \in Seq(Message)
         /\ inbox \o queue \in Seq(Message)
         /\ \A i \in DOMAIN inbox : Complete(inbox[i])
         /\ \A i \in DOMAIN queue : Complete(queue[i])
         /\ \A i \in DOMAIN (inbox \o queue) : Complete((inbox \o queue)[i])
<1>1. inbox \in Seq(Message) /\ queue \in Seq(Message)
  BY DEF IInv, LinkTypeOK, TypeOK, Message
<1>2. inbox \o queue \in Seq(Message)
  BY <1>1
<1>3. Box = Reading(inbox \o queue)
  BY DEF Box, Reading
<1>4. (\A i \in DOMAIN inbox : Complete(inbox[i])) /\ (\A i \in DOMAIN queue : Complete(queue[i]))
  BY DEF IInv, Messages
<1>5. \A i \in DOMAIN (inbox \o queue) : Complete((inbox \o queue)[i])
  BY <1>1, <1>4
<1> QED  BY <1>1, <1>2, <1>3, <1>4, <1>5

\* A message that is finished is the last one in the box.
LEMMA BoxAppend ==
  ASSUME IInv, SendData, UNCHANGED inbox
  PROVE  Box' = Append(Box, payload)
<1> DEFINE m == Append(open, payload)
<1>1. m \in Message /\ Complete(m) /\ Contents(m) = payload
  <2>1. open \in Seq(Frame) /\ Parts(open) = {} /\ NameLeads(open) /\ payload \in Payload
    BY DEF IInv, LinkTypeOK, TypeOK, Unfinished
  <2>2. m \in Seq(Frame) /\ Complete(m)
    BY <2>1, Finished
  <2>3. Contents(m) = m[Len(m)]
    BY <2>2, LastIsContents DEF Complete
  <2>4. m[Len(m)] = payload
    BY <2>1 DEF Frame
  <2> QED  BY <2>2, <2>3, <2>4 DEF Message
<1>2. Box' = Reading(inbox \o Append(queue, m))
  BY DEF SendData, Box, Reading
<1> HIDE DEF m
<1>3. inbox \o Append(queue, m) = Append(inbox \o queue, m)
  BY <1>1, MessageFacts
<1> QED  BY <1>1, <1>2, <1>3, MessageFacts, ReadingAppend

\* A message that crosses the connection keeps its place in the box.
LEMMA BoxTransfer ==
  ASSUME IInv, Transfer
  PROVE  Box' = Box
<1>1. inbox \in Seq(Message) /\ queue \in Seq(Message) /\ queue # <<>>
  BY MessageFacts DEF Transfer
<1>2. Append(inbox, Head(queue)) \o Tail(queue) = inbox \o queue
  <2>1. Append(inbox, Head(queue)) \in Seq(Message) /\ Tail(queue) \in Seq(Message)
    BY <1>1
  <2>2. Append(inbox, Head(queue)) \o Tail(queue) \in Seq(Message) /\ inbox \o queue \in Seq(Message)
    BY <1>1, <2>1
  <2>3. /\ Len(Append(inbox, Head(queue)) \o Tail(queue)) = Len(inbox \o queue)
        /\ \A i \in 1 .. Len(inbox \o queue) :
             (Append(inbox, Head(queue)) \o Tail(queue))[i] = (inbox \o queue)[i]
    BY <1>1, <2>1
  <2> QED  BY <2>2, <2>3, EqualSequences
<1> QED  BY <1>2 DEF Transfer, Box

\* The bus reads the message at the front.
LEMMA BoxHandle ==
  ASSUME IInv, Handle
  PROVE  Box # <<>> /\ data' = Head(Box) /\ Box' = Tail(Box)
<1>1. inbox \in Seq(Message) /\ queue \in Seq(Message) /\ inbox # <<>>
  BY MessageFacts DEF Handle
<1>2. /\ inbox \o queue # <<>> /\ Head(inbox \o queue) = Head(inbox)
      /\ Tail(inbox) \o queue = Tail(inbox \o queue)
  <2>1. /\ inbox \o queue # <<>> /\ Head(inbox \o queue) = Head(inbox)
        /\ Tail(inbox) \in Seq(Message) /\ inbox \o queue \in Seq(Message)
    BY <1>1
  <2>2. Tail(inbox) \o queue \in Seq(Message) /\ Tail(inbox \o queue) \in Seq(Message)
    BY <1>1, <2>1
  <2>3. /\ Len(Tail(inbox) \o queue) = Len(Tail(inbox \o queue))
        /\ \A i \in 1 .. Len(Tail(inbox) \o queue) :
             (Tail(inbox) \o queue)[i] = Tail(inbox \o queue)[i]
    BY <1>1, <2>1, <2>2
  <2> QED  BY <2>1, <2>2, <2>3, EqualSequences
<1>3. Box' = Reading(Tail(inbox) \o queue) /\ data' = Contents(Head(inbox))
  BY DEF Handle, vars, Box, Reading
<1> QED  BY <1>2, <1>3, MessageFacts, ReadingTail

-----------------------------------------------------------------------------

\* Nothing on its way is an empty box.
LEMMA EmptyBox == (queue = <<>> /\ inbox = <<>>) => Box = <<>>
  BY DEF Box

\* The box changes with the queues only.
LEMMA SameBox == UNCHANGED <<queue, inbox>> => Box' = Box
  BY DEF Box

\* The end of the client loses what is in its socket.
LEMMA BoxGone ==
  ASSUME IInv, Gone, UNCHANGED busVars
  PROVE  Promise!Next
<1>1. /\ Box \in Seq(Payload) /\ Len(inbox) \in 0 .. Len(Box)
      /\ Reading(inbox) = SubSeq(Box, 1, Len(inbox))
  BY MessageFacts, ReadingParts
<1>2. Box' = SubSeq(Box, 1, Len(inbox))
  <2>1. inbox' \o queue' = inbox
    BY MessageFacts DEF Gone, busVars
  <2>2. Box' = Reading(inbox)
    BY <2>1 DEF Box, Reading
  <2> QED  BY <1>1, <2>2
<1>3. pc' \notin Sending /\ data' = data
  BY DEF Gone, busVars, Sending
<1>4. Promise!LoseBack
  BY <1>1, <1>2, <1>3 DEF Promise!LoseBack
<1> QED  BY <1>4 DEF Promise!Next

\* The end of the bus loses what is in its own.
LEMMA BoxBusEnd ==
  ASSUME IInv, BusEnd
  PROVE  Promise!Next
<1>1. /\ Box \in Seq(Payload) /\ Len(inbox) \in 0 .. Len(Box)
      /\ Reading(queue) = SubSeq(Box, Len(inbox) + 1, Len(Box))
  <2>1. /\ inbox \in Seq(Message) /\ queue \in Seq(Message) /\ Box = Reading(inbox \o queue)
        /\ \A i \in DOMAIN (inbox \o queue) : Complete((inbox \o queue)[i])
        /\ \A i \in DOMAIN inbox : Complete(inbox[i])
        /\ \A i \in DOMAIN queue : Complete(queue[i])
    BY MessageFacts
  <2> QED  BY <2>1, ReadingParts
<1>2. Box' = SubSeq(Box, Len(inbox) + 1, Len(Box))
  <2>1. inbox' \o queue' = queue
    <3>1. inbox' = <<>> /\ queue' = queue
      BY DEF BusEnd, vars
    <3>2. queue \in Seq(Message)
      BY MessageFacts
    <3>3. <<>> \o queue = queue
      BY <3>2
    <3> QED  BY <3>1, <3>3
  <2>2. Box' = Reading(queue)
    BY <2>1 DEF Box, Reading
  <2> QED  BY <1>1, <2>2
<1>3. data' = NONE /\ UNCHANGED <<pc, payload>>
  BY DEF BusEnd, vars
<1>4. Promise!LoseFront
  BY <1>1, <1>2, <1>3 DEF Promise!LoseFront
<1> QED  BY <1>4 DEF Promise!Next

\* Each step of the client is a step of the mailbox or none.
LEMMA ClientRefines ==
  ASSUME IInv, ClientSide
  PROVE  [Promise!Next]_Promise!vars
<1> USE DEF ClientSide, busVars
<1>1. payload \in Payload /\ NONE \notin Payload
  BY IpcLinkAssumption DEF IInv, LinkTypeOK, TypeOK
<1>2. CASE Connect \/ CheckUntil \/ SendIdentity \/ SendEmpty \/ Signal \/ Restart
  <2>1. UNCHANGED <<payload, queue>> /\ (pc' \in Sending <=> pc \in Sending)
    BY <1>2 DEF Connect, CheckUntil, AfterCheck, SendIdentity, SendEmpty, Delimited, Signal,
                Restart, Sending
  <2> QED  BY <2>1, SameBox DEF Promise!vars
<1>3. CASE Send
  <2>1. UNCHANGED <<queue, inbox, data>> /\ pc \notin Sending /\ payload' \in Payload
    BY <1>3 DEF Send, Sending
  <2>2. ~IsExhausted(pool)
    BY <2>1, FreshPoolType DEF IInv, Slots
  <2>3. pc' \in Sending
    BY <1>3, <2>2 DEF Send, Sending
  <2>4. Promise!Begin(payload')
    BY <2>1, <2>3, SameBox DEF Promise!Begin
  <2> QED  BY <2>1, <2>4 DEF Promise!Next
<1>4. CASE SendData
  <2>1. pc \in Sending /\ pc' \notin Sending
    BY <1>4 DEF SendData, Sending
  <2>2. Promise!Succeed
    BY <1>1, <1>4, <2>1, BoxAppend DEF Promise!Succeed
  <2> QED  BY <2>2 DEF Promise!Next
<1>5. CASE SendFails
  <2>1. pc \in Sending /\ pc' \notin Sending /\ UNCHANGED queue
    BY <1>5 DEF SendFails, FramesKept, Sending
  <2>2. Promise!Fail
    BY <1>1, <2>1, SameBox DEF Promise!Fail
  <2> QED  BY <2>2 DEF Promise!Next
<1>6. CASE Leave \/ Die
  BY <1>6, BoxGone DEF Leave, Die
<1> QED  BY <1>2, <1>3, <1>4, <1>5, <1>6 DEF Client

\* Each step of the connection and of the bus is a step of the mailbox or none.
LEMMA BusRefines ==
  ASSUME IInv, Transfer \/ Handle \/ BusStart \/ BusEnd
  PROVE  [Promise!Next]_Promise!vars
<1>1. CASE Transfer
  BY <1>1, BoxTransfer DEF Transfer, Promise!vars
<1>2. CASE Handle
  <2>1. Promise!Read
    BY <1>2, BoxHandle DEF Handle, vars, Promise!Read
  <2> QED  BY <2>1 DEF Promise!Next
<1>3. CASE BusStart
  BY <1>3, SameBox DEF BusStart, vars, Promise!vars
<1>4. CASE BusEnd
  BY <1>4, BoxBusEnd
<1> QED  BY <1>1, <1>2, <1>3, <1>4

\* Every call of IpcClient::send either leaves nothing behind or puts its own
\* message behind the ones before it, and they are read in that order
\* (transmitter.cpp:101-148, software_bus.cpp:84-120).
THEOREM LinkImplementsMailbox == Spec => ImplementsMailbox
<1>1. LinkInit => Promise!Init
  BY EmptyBox DEF LinkInit, Init, Promise!Init, Sending
<1>2. IInv /\ [LinkNext]_linkVars => [Promise!Next]_Promise!vars
  <2> SUFFICES ASSUME IInv, [LinkNext]_linkVars PROVE [Promise!Next]_Promise!vars
    OBVIOUS
  <2>1. CASE UNCHANGED linkVars
    BY <2>1, SameBox DEF linkVars, vars, busVars, Promise!vars
  <2> QED  BY <2>1, ClientRefines, BusRefines DEF LinkNext
<1> QED  BY <1>1, <1>2, Invariance, PTL DEF Spec, ImplementsMailbox, Promise!Spec
=============================================================================
