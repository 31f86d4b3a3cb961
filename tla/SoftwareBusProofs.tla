-------------------------- MODULE SoftwareBusProofs --------------------------
(***************************************************************************)
(* The bus for every Size, every set of clients and every bound.           *)
(*                                                                         *)
(* One inductive invariant carries all results.  Its heart is Lists and    *)
(* FrameUse: between two messages the head of the free list is slot 0,     *)
(* and a slot whose frames were sent is in use or the one right behind it. *)
(* So the handler always receives in slot 0, and a completed forward stops *)
(* the ones after it until a failed send takes its slot off the list.      *)
(***************************************************************************)
EXTENDS SoftwareBus, SlotListProofs, SequenceTheorems

Queue ==
  /\ pc = "handle" => inbox # <<>>
  /\ read + Len(inbox) = sends

Lists == pc # "undefined" =>
  /\ FreeListExact(pool)
  /\ pool.used = failures /\ pool.used < Size /\ pool.free = 0

FrameUse ==
  /\ \A s \in Slot : frames[s] = "received" => s = 0
  /\ \A s \in Slot : frames[s] = "sent" => s # 0
  /\ pc # "undefined" =>
       \A s \in Slot : frames[s] = "sent" => pool.inUse[s] \/ pool.next[0] = s

SentSlots == { s \in Slot : frames[s] = "sent" }

Deliveries ==
  /\ IsFiniteSet(TotalSent) /\ Cardinality(TotalSent) <= Cardinality(SentSlots)
  /\ Cardinality(SentSlots) <= failures + 1

Addressing ==
  /\ open \in halves \cup {NULL, LOST}
  /\ halves \subseteq clients
  /\ DeliveredAsAddressed /\ OnlyKnownReceive

Inv == TypeOK /\ Queue /\ Lists /\ FrameUse /\ Deliveries /\ Addressing

-----------------------------------------------------------------------------

\* A buffer has a slot 0.
LEMMA ZeroIsSlot == 0 \in Slot
  BY SizeAssumption DEF Slot

\* The pool once _handle_msg has taken its slot.
LEMMA HandlerTakes ==
  ASSUME NEW q \in PoolType, FreeListExact(q), q.used < Size, q.free = 0
  PROVE  /\ Acquired(q) \in PoolType /\ FreeListExact(Acquired(q))
         /\ Acquired(q).inUse[0] /\ Acquired(q).free = q.next[0]
         /\ Acquired(q).used = q.used + 1
         /\ \A s \in Slot : q.inUse[s] => Acquired(q).inUse[s]
<1>1. ~IsExhausted(q)
  BY SizeAssumption DEF IsExhausted, PoolType
<1>2. /\ Acquired(q) \in PoolType /\ FreeListExact(Acquired(q))
      /\ Acquired(q).inUse = [q.inUse EXCEPT ![0] = TRUE]
      /\ Acquired(q).used = q.used + 1
  BY <1>1, AcquiredIsExact
<1>3. Acquired(q).free = q.next[0]
  BY DEF Acquired
<1> QED
  BY <1>2, <1>3, ZeroIsSlot DEF PoolType

\* Every path of _handle_msg that returns leaves an exact list with slot 0
\* at its head, and one slot fewer on it exactly when the sender's is lost.
LEMMA HandlerReturns ==
  ASSUME NEW q \in PoolType, FreeListExact(q), q.used < Size, q.free = 0,
         NEW p, p = Acquired(q)
  PROVE  /\ BackHandler(p, 0) \in PoolType /\ FreeListExact(BackHandler(p, 0))
         /\ BackHandler(p, 0).used = q.used /\ BackHandler(p, 0).free = 0
         /\ BackHandler(p, 0).next[0] = q.next[0]
         /\ \A s \in Slot \ {0} : q.inUse[s] => BackHandler(p, 0).inUse[s]
         /\ ~IsExhausted(p) =>
              /\ p.free \in Slot /\ p.free # 0 /\ Acquired(p) \in PoolType
              /\ BackSender(p, 0) \in PoolType /\ FreeListExact(BackSender(p, 0))
              /\ BackSender(p, 0).used = q.used /\ BackSender(p, 0).free = 0
              /\ BackSender(p, 0).next[0] = p.free
              /\ \A s \in Slot \ {0} : q.inUse[s] => BackSender(p, 0).inUse[s]
              /\ LoseSender(p, 0) \in PoolType /\ FreeListExact(LoseSender(p, 0))
              /\ LoseSender(p, 0).used = q.used + 1 /\ LoseSender(p, 0).free = 0
              /\ \A s \in Slot \ {0} :
                   q.inUse[s] \/ s = p.free => LoseSender(p, 0).inUse[s]
              /\ q.used + 1 < Size
<1>1. /\ p \in PoolType /\ FreeListExact(p) /\ p.inUse[0]
      /\ p.free = q.next[0] /\ p.used = q.used + 1
      /\ \A s \in Slot : q.inUse[s] => p.inUse[s]
  BY HandlerTakes
<1>2. q.used \in Nat /\ Size \in Nat
  BY SizeAssumption DEF PoolType
<1>3. /\ BackHandler(p, 0) \in PoolType /\ FreeListExact(BackHandler(p, 0))
      /\ BackHandler(p, 0).used = q.used /\ BackHandler(p, 0).free = 0
      /\ \A s \in Slot \ {0} : q.inUse[s] => BackHandler(p, 0).inUse[s]
  <2>1. /\ Released(p, 0) \in PoolType /\ FreeListExact(Released(p, 0))
        /\ Released(p, 0).used = p.used - 1 /\ Released(p, 0).free = 0
        /\ Released(p, 0).inUse = [p.inUse EXCEPT ![0] = FALSE]
    BY <1>1, ZeroIsSlot, ReleasedIsExact
  <2>2. \A s \in Slot \ {0} : q.inUse[s] => Released(p, 0).inUse[s]
    BY <1>1, <2>1, ZeroIsSlot DEF PoolType
  <2> QED
    BY <1>1, <1>2, <2>1, <2>2 DEF BackHandler
<1>4. BackHandler(p, 0).next[0] = q.next[0]
  BY <1>1, ZeroIsSlot DEF BackHandler, Released, PoolType
<1>5. ASSUME ~IsExhausted(p)
      PROVE  /\ p.free \in Slot /\ p.free # 0 /\ Acquired(p) \in PoolType
             /\ BackSender(p, 0) \in PoolType /\ FreeListExact(BackSender(p, 0))
             /\ BackSender(p, 0).used = q.used /\ BackSender(p, 0).free = 0
             /\ BackSender(p, 0).next[0] = p.free
             /\ \A s \in Slot \ {0} : q.inUse[s] => BackSender(p, 0).inUse[s]
             /\ LoseSender(p, 0) \in PoolType /\ FreeListExact(LoseSender(p, 0))
             /\ LoseSender(p, 0).used = q.used + 1 /\ LoseSender(p, 0).free = 0
             /\ \A s \in Slot \ {0} :
                  q.inUse[s] \/ s = p.free => LoseSender(p, 0).inUse[s]
             /\ q.used + 1 < Size
  <2> DEFINE a == Acquired(p)
             b == Released(a, p.free)
  <2>1. /\ p.free \in Slot /\ ~p.inUse[p.free]
        /\ a \in PoolType /\ FreeListExact(a)
        /\ a.inUse = [p.inUse EXCEPT ![p.free] = TRUE]
        /\ a.used = p.used + 1
    BY <1>1, <1>5, AcquiredIsExact
  <2>2. p.free # 0 /\ a.inUse[p.free] /\ a.inUse[0]
    BY <1>1, <2>1, ZeroIsSlot DEF PoolType
  <2>3. /\ b \in PoolType /\ FreeListExact(b)
        /\ b.inUse = [a.inUse EXCEPT ![p.free] = FALSE]
        /\ b.free = p.free /\ b.used = a.used - 1
    BY <2>1, <2>2, ReleasedIsExact
  <2>4. b.inUse[0]
    BY <2>1, <2>2, <2>3, ZeroIsSlot DEF PoolType
  <2>5. /\ Released(b, 0) \in PoolType /\ FreeListExact(Released(b, 0))
        /\ Released(b, 0).used = q.used /\ Released(b, 0).free = 0
        /\ \A s \in Slot \ {0} : q.inUse[s] => Released(b, 0).inUse[s]
    <3>1. /\ Released(b, 0) \in PoolType /\ FreeListExact(Released(b, 0))
          /\ Released(b, 0).used = b.used - 1 /\ Released(b, 0).free = 0
          /\ Released(b, 0).inUse = [b.inUse EXCEPT ![0] = FALSE]
      <4>1. b \in PoolType /\ FreeListExact(b) /\ b.inUse[0]
        BY <2>3, <2>4
      <4> HIDE DEF a, b
      <4> QED
        BY <4>1, ZeroIsSlot, ReleasedIsExact
    <3>2. ASSUME NEW s \in Slot \ {0}, q.inUse[s] PROVE Released(b, 0).inUse[s]
      <4>1. p.inUse[s] /\ s # p.free
        BY <1>1, <2>1, <3>2
      <4>2. b.inUse[s]
        BY <2>1, <2>3, <4>1 DEF PoolType
      <4> QED
        BY <2>3, <3>1, <4>2 DEF PoolType
    <3> QED
      BY <1>1, <1>2, <2>1, <2>3, <3>1, <3>2
  <2>6. Released(b, 0).next[0] = p.free
    BY <2>3, ZeroIsSlot DEF Released, PoolType
  <2>7. /\ Released(a, 0) \in PoolType /\ FreeListExact(Released(a, 0))
        /\ Released(a, 0).used = q.used + 1 /\ Released(a, 0).free = 0
        /\ \A s \in Slot \ {0} :
             q.inUse[s] \/ s = p.free => Released(a, 0).inUse[s]
    <3>1. /\ Released(a, 0) \in PoolType /\ FreeListExact(Released(a, 0))
          /\ Released(a, 0).used = a.used - 1 /\ Released(a, 0).free = 0
          /\ Released(a, 0).inUse = [a.inUse EXCEPT ![0] = FALSE]
      <4>1. a \in PoolType /\ FreeListExact(a) /\ a.inUse[0]
        BY <2>1, <2>2
      <4> HIDE DEF a, b
      <4> QED
        BY <4>1, ZeroIsSlot, ReleasedIsExact
    <3>2. ASSUME NEW s \in Slot \ {0}, q.inUse[s] \/ s = p.free
          PROVE  Released(a, 0).inUse[s]
      <4>1. a.inUse[s]
        BY <1>1, <2>1, <2>2, <3>2 DEF PoolType
      <4> QED
        BY <2>1, <3>1, <4>1 DEF PoolType
    <3> QED
      BY <1>1, <1>2, <2>1, <3>1, <3>2
  <2>8. q.used + 1 < Size
    BY <1>1, <1>2, <1>5 DEF IsExhausted, PoolType
  <2> QED
    BY <2>1, <2>2, <2>5, <2>6, <2>7, <2>8 DEF BackSender, LoseSender
<1> QED
  BY <1>3, <1>4, <1>5

\* Slots in use and the one behind slot 0 are one more than used_count says.
LEMMA SentAreFew ==
  ASSUME NEW q \in PoolType, FreeListExact(q), NEW f \in [Slot -> Frames],
         \A s \in Slot : f[s] = "sent" => q.inUse[s] \/ q.next[0] = s
  PROVE  Cardinality({ s \in Slot : f[s] = "sent" }) <= q.used + 1
<1> DEFINE S == { s \in Slot : f[s] = "sent" }
           T == InUse(q) \cup {q.next[0]}
<1>1. IsFiniteSet(InUse(q)) /\ Cardinality(InUse(q)) = q.used /\ q.used \in Nat
  BY InUseIsCounted, SizeAssumption DEF PoolType
<1>2. IsFiniteSet(T) /\ Cardinality(T) <= q.used + 1
  BY <1>1, FS_AddElement
<1>3. S \subseteq T
  BY DEF InUse
<1>4. IsFiniteSet(S) /\ Cardinality(S) <= Cardinality(T)
  BY <1>2, <1>3, FS_Subset
<1>5. Cardinality(S) \in Nat /\ Cardinality(T) \in Nat
  BY <1>2, <1>4, FS_CardinalityType
<1> HIDE DEF S, T
<1>6. Cardinality(S) <= q.used + 1
  BY <1>1, <1>2, <1>4, <1>5
<1> QED
  BY <1>6 DEF S

\* The slots that were sent can be counted.
LEMMA SentAreFinite ==
  IsFiniteSet(SentSlots) /\ Cardinality(SentSlots) \in Nat
  BY SlotsAreCounted, FS_Subset, FS_CardinalityType DEF SentSlots

-----------------------------------------------------------------------------

\* A bus before its receiver listens.
LEMMA InitInv == Init => Inv
<1> SUFFICES ASSUME Init PROVE Inv
  OBVIOUS
<1> USE BusAssumption DEF Init
<1>1. FreshPool \in PoolType /\ FreeListExact(FreshPool)
      /\ FreshPool.used = 0 /\ FreshPool.free = 0
  BY FreshIsExact DEF FreshPool
<1>2. TypeOK
  <2>1. <<>> \in Seq(Message)
    OBVIOUS
  <2>2. outbox \in [Client -> Seq(Message)] /\ inbox \in Seq(Message)
    BY <2>1
  <2>3. frames \in [Slot -> Frames] /\ canary \in [Slot -> BOOLEAN]
    BY DEF Frames
  <2>4. sends \in 0 .. MaxSends /\ read \in 0 .. MaxSends
    OBVIOUS
  <2>5. failures \in 0 .. MaxFailures /\ drops \in 0 .. MaxDrops
    OBVIOUS
  <2>6. open \in Client \cup {NULL, LOST}
    OBVIOUS
  <2>7. clients \subseteq Client /\ connected \subseteq Client /\ halves \subseteq Client
    OBVIOUS
  <2>8. until \in BOOLEAN /\ bound \in BOOLEAN /\ pc = "listen" /\ pool \in PoolType
    BY <1>1
  <2> HIDE DEF Init
  <2> QED
    BY <2>2, <2>3, <2>4, <2>5, <2>6, <2>7, <2>8 DEF TypeOK
<1>3. Lists
  BY <1>1, SizeAssumption DEF Lists
<1>4. Queue /\ FrameUse
  BY DEF Queue, FrameUse
<1>6. Deliveries
  <2>1. TotalSent = {} /\ SentSlots = {}
    BY DEF TotalSent, SentSlots
  <2> QED
    BY <2>1, FS_EmptySet DEF Deliveries
<1>5. Addressing
  BY DEF Addressing, DeliveredAsAddressed, OnlyKnownReceive
<1> QED
  BY <1>2, <1>3, <1>4, <1>5, <1>6 DEF Inv

\* The three parts of the invariant that a step can disturb only through the
\* variables they name.
LEMMA ListsKept ==
  ASSUME Lists, UNCHANGED <<pool, failures>>, pc' # "undefined" => pc # "undefined"
  PROVE  Lists'
  BY DEF Lists

\* The steps that leave slots and frames alone.
LEMMA FrameUseKept ==
  ASSUME FrameUse, UNCHANGED <<pool, frames>>, pc' # "undefined" => pc # "undefined"
  PROVE  FrameUse'
  BY DEF FrameUse

\* The steps that deliver nothing.
LEMMA OutboxKept ==
  ASSUME Inv, UNCHANGED <<frames, outbox, open, halves, clients, failures>>
  PROVE  Deliveries' /\ Addressing'
  BY DEF Inv, Deliveries, SentSlots, TotalSent,
         Addressing, DeliveredAsAddressed, OnlyKnownReceive

\* The receiver loop (receiver.cpp).
LEMMA LoopInv == Inv /\ (Listen \/ CheckUntil \/ Poll \/ UNCHANGED vars) => Inv'
<1> SUFFICES ASSUME Inv, Listen \/ CheckUntil \/ Poll \/ UNCHANGED vars PROVE Inv'
  OBVIOUS
<1> DEFINE rest == <<until, pool, canary, frames, clients, connected, inbox, open,
                     outbox, sends, failures, drops, read, halves>>
<1>1. /\ UNCHANGED rest
      /\ bound' \in BOOLEAN
      /\ pc' = pc \/ pc' \in {"check", "poll", "done"} \/ (pc' = "handle" /\ inbox # <<>>)
      /\ pc' # "undefined" => pc # "undefined"
  <2>1. bound \in BOOLEAN
    BY DEF Inv, TypeOK
  <2>2. CASE Listen
    <3>1. pc = "listen" /\ pc' = "check" /\ bound' \in BOOLEAN /\ UNCHANGED rest
      BY <2>2 DEF Listen
    <3> HIDE DEF rest
    <3> QED
      BY <3>1
  <2>3. CASE CheckUntil
    <3>1. pc = "check" /\ pc' \in {"poll", "done"} /\ bound' = bound
      BY <2>3 DEF CheckUntil, AfterCheck
    <3>2. UNCHANGED rest
      BY <2>3 DEF CheckUntil
    <3> HIDE DEF rest
    <3> QED
      BY <2>1, <3>1, <3>2
  <2>4. CASE Poll
    <3>1. /\ pc = "poll" /\ bound' = bound
          /\ pc' \in {"check", "done"} \/ (pc' = "handle" /\ inbox # <<>>)
      BY <2>4 DEF Poll
    <3>2. UNCHANGED rest
      BY <2>4 DEF Poll
    <3> HIDE DEF rest
    <3> QED
      BY <2>1, <3>1, <3>2
  <2>5. CASE UNCHANGED vars
    <3>1. pc' = pc /\ bound' = bound
      BY <2>5 DEF vars, busVars
    <3>2. UNCHANGED rest
      BY <2>5 DEF vars, busVars
    <3> HIDE DEF rest
    <3> QED
      BY <2>1, <3>1, <3>2
  <2> QED
    BY <2>2, <2>3, <2>4, <2>5
<1>2. TypeOK'
  BY <1>1 DEF Inv, TypeOK
<1>3. Queue'
  BY <1>1 DEF Inv, Queue
<1> QED
  BY <1>1, <1>2, <1>3, ListsKept, FrameUseKept, OutboxKept DEF Inv

\* signal_handler clears the flag.
LEMMA SignalInv == Inv /\ Signal => Inv'
<1> SUFFICES ASSUME Inv, Signal PROVE Inv'
  OBVIOUS
<1>1. UNCHANGED <<busVars, bound, connected, inbox, sends, drops>> /\ until' = FALSE
  BY DEF Signal
<1>2. TypeOK' /\ Queue'
  BY <1>1 DEF busVars, Inv, TypeOK, Queue
<1> QED
  BY <1>1, <1>2, ListsKept, FrameUseKept, OutboxKept DEF busVars, Inv

\* A client connects.
LEMMA ConnectInv == ASSUME Inv, NEW c \in Client, Connect(c) PROVE Inv'
<1>1. UNCHANGED <<busVars, until, bound, inbox, sends, drops>>
      /\ connected' = connected \cup {c}
  BY DEF Connect
<1>2. TypeOK' /\ Queue'
  BY <1>1 DEF busVars, Inv, TypeOK, Queue
<1> QED
  BY <1>1, <1>2, ListsKept, FrameUseKept, OutboxKept DEF busVars, Inv

\* A client is gone.
LEMMA DisconnectInv == ASSUME Inv, NEW c \in Client, Disconnect(c) PROVE Inv'
<1> USE BusAssumption
<1>1. /\ UNCHANGED <<pc, until, bound, pool, canary, frames, clients, inbox,
                     outbox, sends, failures, read, halves>>
      /\ connected' = connected \ {c}
      /\ drops' = drops + 1 /\ drops < MaxDrops
      /\ open' = open \/ open' = LOST
  BY DEF Disconnect
<1>2. TypeOK'
  BY <1>1 DEF Inv, TypeOK
<1>3. Queue' /\ Deliveries'
  BY <1>1 DEF Inv, Queue, Deliveries, SentSlots, TotalSent
<1>4. Addressing'
  BY <1>1 DEF Inv, Addressing, DeliveredAsAddressed, OnlyKnownReceive
<1> QED
  BY <1>1, <1>2, <1>3, <1>4, ListsKept, FrameUseKept DEF Inv

\* A client sends.
LEMMA SendInv ==
  ASSUME Inv, NEW c \in Client, NEW d \in Client, Send(c, d) PROVE Inv'
<1> USE BusAssumption
<1> DEFINE m == [src |-> c, dst |-> d]
<1>1. /\ UNCHANGED <<busVars, until, bound, connected, drops>>
      /\ inbox' = Append(inbox, m) /\ sends' = sends + 1 /\ sends < MaxSends
  BY DEF Send
<1>2. inbox \in Seq(Message) /\ m \in Message /\ read \in Nat /\ sends \in Nat
  BY DEF Inv, TypeOK, Message
<1>3. inbox' \in Seq(Message) /\ Len(inbox') = Len(inbox) + 1 /\ inbox' # <<>>
  BY <1>1, <1>2, AppendProperties
<1>4. TypeOK'
  BY <1>1, <1>2, <1>3 DEF busVars, Inv, TypeOK
<1>5. Queue'
  BY <1>1, <1>2, <1>3 DEF busVars, Inv, Queue
<1> QED
  BY <1>1, <1>4, <1>5, ListsKept, FrameUseKept, OutboxKept DEF busVars, Inv

-----------------------------------------------------------------------------
(* _handle_msg *)

\* What taking a message does to the queue and the registered clients.
LEMMA TakeFacts ==
  ASSUME Inv, pc = "handle", TakeMessage
  PROVE  /\ Head(inbox) \in Message
         /\ Known \subseteq Client /\ clients \subseteq Known /\ clients' = Known
         /\ inbox' \in Seq(Message) /\ read' \in 0 .. MaxSends
         /\ read' + Len(inbox') = sends' /\ sends' \in 0 .. MaxSends
         /\ UNCHANGED <<until, bound, connected, drops>>
<1> USE BusAssumption
<1>1. /\ inbox \in Seq(Message) /\ inbox # <<>>
      /\ read \in Nat /\ sends \in 0 .. MaxSends /\ read + Len(inbox) = sends
  BY DEF Inv, TypeOK, Queue
<1>2. /\ Head(inbox) \in Message /\ Tail(inbox) \in Seq(Message)
      /\ Len(Tail(inbox)) = Len(inbox) - 1 /\ Len(inbox) \in Nat /\ Len(inbox) > 0
  BY <1>1, HeadTailProperties
<1>3. Head(inbox).src \in Client
  BY <1>2 DEF Message
<1>4. Known \subseteq Client /\ clients \subseteq Known
  BY <1>3 DEF Known, Inv, TypeOK
<1>5. /\ inbox' = Tail(inbox) /\ clients' = Known /\ read' = read + 1
      /\ UNCHANGED <<until, bound, connected, sends, drops>>
  BY DEF TakeMessage
<1>6. read' \in 0 .. MaxSends /\ read' + Len(inbox') = sends' /\ sends' \in 0 .. MaxSends
  BY <1>1, <1>2, <1>5
<1> QED
  BY <1>2, <1>4, <1>5, <1>6

\* The handler's slot is slot 0, and there is one.
LEMMA HandlerSlot ==
  ASSUME Inv, pc = "handle"
  PROVE  /\ ~IsExhausted(pool) /\ pool.free = 0 /\ pool.used < Size
         /\ pool \in PoolType /\ FreeListExact(pool) /\ pool.used = failures
  BY SizeAssumption DEF Inv, Lists, TypeOK, PoolType, IsExhausted

\* Recording the received frames in slot 0.
LEMMA ReceivedFacts ==
  ASSUME Inv
  PROVE  /\ Received(0) \in [Slot -> Frames]
         /\ \A s \in Slot : Received(0)[s] = "received" => s = 0
         /\ \A s \in Slot : Received(0)[s] = "sent" <=> frames[s] = "sent"
         /\ { s \in Slot : Received(0)[s] = "sent" } = SentSlots
  BY ZeroIsSlot DEF Inv, TypeOK, FrameUse, Received, Frames, SentSlots

\* A message for nobody is dropped.
LEMMA DropInv ==
  ASSUME Inv, pc = "handle", DropMessage(pool.free, Acquired(pool))
  PROVE  Inv'
<1> DEFINE p == Acquired(pool)
<1>1. pool.free = 0 /\ pool.used < Size /\ pool \in PoolType
      /\ FreeListExact(pool) /\ pool.used = failures
  BY HandlerSlot
<1>2. /\ TakeMessage /\ pool' = BackHandler(p, 0) /\ frames' = Received(0)
      /\ pc' = "check" /\ UNCHANGED <<canary, open, outbox, failures, halves>>
  BY <1>1 DEF DropMessage
<1>3. /\ pool' \in PoolType /\ FreeListExact(pool') /\ pool'.used = pool.used
      /\ pool'.free = 0 /\ pool'.next[0] = pool.next[0]
      /\ \A s \in Slot \ {0} : pool.inUse[s] => pool'.inUse[s]
  BY <1>1, <1>2, HandlerReturns
<1>4. TypeOK'
  BY <1>2, <1>3, TakeFacts, ReceivedFacts DEF Inv, TypeOK
<1>5. Queue'
  BY <1>2, TakeFacts DEF Queue
<1>6. Lists'
  BY <1>1, <1>2, <1>3 DEF Lists
<1>7. FrameUse'
  BY <1>2, <1>3, ReceivedFacts DEF Inv, FrameUse
<1>8. Deliveries'
  BY <1>2, ReceivedFacts DEF Inv, Deliveries, SentSlots, TotalSent
<1>9. Addressing'
  BY <1>2, TakeFacts DEF Inv, Addressing, DeliveredAsAddressed, OnlyKnownReceive
<1> QED
  BY <1>4, <1>5, <1>6, <1>7, <1>8, <1>9 DEF Inv

\* Receiving is interrupted.
LEMMA ReceiveFailsInv ==
  ASSUME Inv, pc = "handle", ReceiveFails(pool.free, Acquired(pool))
  PROVE  Inv'
<1>1. pool.free = 0 /\ pool.used < Size /\ pool \in PoolType
      /\ FreeListExact(pool) /\ pool.used = failures
  BY HandlerSlot
<1>2. /\ pool' = BackHandler(Acquired(pool), 0) /\ pc' = "check"
      /\ UNCHANGED <<until, bound, canary, frames, clients, connected, inbox, open,
                     outbox, sends, failures, drops, read, halves>>
  BY <1>1 DEF ReceiveFails
<1>3. /\ pool' \in PoolType /\ FreeListExact(pool') /\ pool'.used = pool.used
      /\ pool'.free = 0 /\ pool'.next[0] = pool.next[0]
      /\ \A s \in Slot \ {0} : pool.inUse[s] => pool'.inUse[s]
  BY <1>1, <1>2, HandlerReturns
<1>4. TypeOK' /\ Queue'
  BY <1>2, <1>3 DEF Inv, TypeOK, Queue
<1>5. Lists'
  BY <1>1, <1>2, <1>3 DEF Lists
<1>6. FrameUse'
  BY <1>2, <1>3 DEF Inv, FrameUse
<1> QED
  BY <1>2, <1>4, <1>5, <1>6, OutboxKept DEF Inv

\* The copy runs past frames that were sent before (software_bus.cpp:58).
LEMMA MisfillInv ==
  ASSUME Inv, pc = "handle", Misfill(pool.free, Acquired(pool))
  PROVE  Inv'
<1> DEFINE p == Acquired(pool)
<1>1. pool.free = 0 /\ pool.used < Size /\ pool \in PoolType
      /\ FreeListExact(pool) /\ pool.used = failures
  BY HandlerSlot
<1>2. /\ TakeMessage /\ ~IsExhausted(p) /\ pool' = Acquired(p)
      /\ canary' = [s \in Slot |-> canary[s] /\ s \notin Overwritten(p.free)]
      /\ frames' = Received(0) /\ pc' = "undefined"
      /\ UNCHANGED <<open, outbox, failures, halves>>
  BY <1>1 DEF Misfill
<1>3. p.free \in Slot /\ Acquired(p) \in PoolType
  BY <1>1, <1>2, HandlerReturns
<1>4. TypeOK'
  BY <1>2, <1>3, TakeFacts, ReceivedFacts DEF Inv, TypeOK
<1>5. Queue' /\ Lists'
  BY <1>2, TakeFacts DEF Queue, Lists
<1>6. FrameUse' /\ Deliveries'
  BY <1>2, ReceivedFacts DEF Inv, FrameUse, Deliveries, SentSlots, TotalSent
<1>7. Addressing'
  BY <1>2, TakeFacts DEF Inv, Addressing, DeliveredAsAddressed, OnlyKnownReceive
<1> QED
  BY <1>4, <1>5, <1>6, <1>7 DEF Inv

\* A forward fails half-way and its slot is lost.
LEMMA FailSendInv ==
  ASSUME Inv, pc = "handle", FailSend(pool.free, Acquired(pool))
  PROVE  Inv'
<1> USE BusAssumption
<1> DEFINE p == Acquired(pool)
<1>1. pool.free = 0 /\ pool.used < Size /\ pool \in PoolType
      /\ FreeListExact(pool) /\ pool.used = failures
  BY HandlerSlot
<1> DEFINE to == Route(p.free)
<1>2. /\ TakeMessage /\ Registered /\ ~IsExhausted(p)
      /\ failures < MaxFailures /\ failures' = failures + 1
      /\ pool' = LoseSender(p, 0) /\ frames' = Received(0) /\ pc' = "check"
      /\ \/ UNCHANGED <<open, halves>>
         \/ open' = to /\ halves' = halves \cup ({to} \ {LOST})
      /\ UNCHANGED <<canary, outbox>>
  BY <1>1 DEF FailSend
<1>3. /\ pool' \in PoolType /\ FreeListExact(pool') /\ pool'.used = pool.used + 1
      /\ pool'.free = 0 /\ pool'.used < Size /\ failures \in Nat
      /\ \A s \in Slot \ {0} : pool.inUse[s] \/ s = p.free => pool'.inUse[s]
  BY <1>1, <1>2, HandlerReturns DEF Inv, TypeOK
<1>4. to \in Known \cup {LOST}
  BY <1>2, TakeFacts DEF Route, Registered, Inv, Addressing
<1>5. TypeOK'
  <2>1. open' \in Client \cup {NULL, LOST} /\ halves' \subseteq Client
    BY <1>2, <1>4, TakeFacts DEF Inv, TypeOK
  <2>2. failures' \in 0 .. MaxFailures
    BY <1>2 DEF Inv, TypeOK
  <2> QED
    BY <1>2, <1>3, <2>1, <2>2, TakeFacts, ReceivedFacts DEF Inv, TypeOK
<1>6. Queue' /\ Lists'
  BY <1>1, <1>2, <1>3, TakeFacts DEF Queue, Lists
<1>7. FrameUse'
  <2>1. p.free = pool.next[0]
    BY <1>1, HandlerTakes
  <2> QED
    BY <1>2, <1>3, <2>1, ReceivedFacts DEF Inv, FrameUse
<1>8. Deliveries'
  <2>1. SentSlots' = SentSlots /\ TotalSent' = TotalSent
    BY <1>2, ReceivedFacts DEF SentSlots, TotalSent
  <2> QED
    BY <1>2, <1>3, <2>1, SentAreFinite DEF Inv, Deliveries
<1>9. Addressing'
  <2>1. halves \subseteq halves' /\ halves' \subseteq clients'
    BY <1>2, <1>4, TakeFacts DEF Inv, Addressing
  <2>2. open' \in halves' \cup {NULL, LOST}
    BY <1>2 DEF Inv, Addressing
  <2>3. DeliveredAsAddressed' /\ OnlyKnownReceive'
    BY <1>2, <2>1, TakeFacts DEF Inv, Addressing, DeliveredAsAddressed, OnlyKnownReceive
  <2> QED
    BY <2>1, <2>2, <2>3 DEF Addressing
<1> QED
  BY <1>5, <1>6, <1>7, <1>8, <1>9 DEF Inv

\* A forward goes through.
LEMMA SendMessageInv ==
  ASSUME Inv, pc = "handle", SendMessage(pool.free, Acquired(pool))
  PROVE  Inv'
<1> USE BusAssumption
<1> DEFINE p == Acquired(pool)
           m == Head(inbox)
<1>1. pool.free = 0 /\ pool.used < Size /\ pool \in PoolType
      /\ FreeListExact(pool) /\ pool.used = failures
  BY HandlerSlot
<1> DEFINE to == Route(p.free)
<1>2. /\ TakeMessage /\ Registered /\ ~IsExhausted(p) /\ frames[p.free] = "sized"
      /\ outbox' = IF to = LOST THEN outbox
                   ELSE [outbox EXCEPT ![to] = Append(@, m)]
      /\ open' = NULL /\ pool' = BackSender(p, 0)
      /\ frames' = [Received(0) EXCEPT ![p.free] = "sent"]
      /\ pc' = "check" /\ UNCHANGED <<canary, failures, halves>>
  BY <1>1 DEF SendMessage
<1>3. /\ p.free \in Slot /\ p.free # 0 /\ p.free = pool.next[0]
      /\ pool' \in PoolType /\ FreeListExact(pool') /\ pool'.used = pool.used
      /\ pool'.free = 0 /\ pool'.next[0] = p.free
      /\ \A s \in Slot \ {0} : pool.inUse[s] => pool'.inUse[s]
  BY <1>1, <1>2, HandlerReturns, HandlerTakes
<1>4. /\ to \in Known \cup {LOST} /\ m \in Message
      /\ to # LOST => to \in Client /\ (to = m.dst \/ to \in halves)
  BY <1>2, TakeFacts DEF Route, Registered, Inv, Addressing
<1>5. /\ outbox' \in [Client -> Seq(Message)]
      /\ \A c \in Client : \/ outbox'[c] = outbox[c]
                           \/ c = to /\ c # LOST /\ outbox'[c] = Append(outbox[c], m)
  <2> HIDE DEF m, to
  <2>1. outbox \in [Client -> Seq(Message)]
    BY DEF Inv, TypeOK
  <2>2. \A c \in Client : Append(outbox[c], m) \in Seq(Message)
    BY <1>4, <2>1, AppendProperties
  <2>3. CASE to = LOST
    <3>1. outbox' = outbox
      BY <1>2, <2>3
    <3> QED
      BY <2>1, <3>1
  <2>4. CASE to # LOST
    <3>1. outbox' = [outbox EXCEPT ![to] = Append(outbox[to], m)] /\ to \in Client
      BY <1>2, <1>4, <2>4
    <3>2. outbox' \in [Client -> Seq(Message)]
      BY <2>1, <2>2, <3>1
    <3>3. \A c \in Client : outbox'[c] = IF c = to THEN Append(outbox[c], m) ELSE outbox[c]
      BY <2>1, <3>1
    <3> QED
      BY <2>4, <3>2, <3>3
  <2> QED
    BY <2>3, <2>4
<1>6. \A c \in Client :
        /\ outbox[c] \in Seq(Message) /\ Len(outbox[c]) \in Nat
        /\ Append(outbox[c], m) # <<>> /\ Len(Append(outbox[c], m)) = Len(outbox[c]) + 1
        /\ \A i \in DOMAIN Append(outbox[c], m) :
             \/ i \in DOMAIN outbox[c] /\ Append(outbox[c], m)[i] = outbox[c][i]
             \/ Append(outbox[c], m)[i] = m
  <2> HIDE DEF m
  <2> SUFFICES ASSUME NEW c \in Client
               PROVE  /\ outbox[c] \in Seq(Message) /\ Len(outbox[c]) \in Nat
                      /\ Append(outbox[c], m) # <<>>
                      /\ Len(Append(outbox[c], m)) = Len(outbox[c]) + 1
                      /\ \A i \in DOMAIN Append(outbox[c], m) :
                           \/ i \in DOMAIN outbox[c] /\ Append(outbox[c], m)[i] = outbox[c][i]
                           \/ Append(outbox[c], m)[i] = m
    OBVIOUS
  <2>1. outbox[c] \in Seq(Message) /\ m \in Message
    BY <1>4 DEF Inv, TypeOK
  <2> QED
    BY <2>1, AppendProperties
<1>7. /\ frames' \in [Slot -> Frames]
      /\ frames'[p.free] = "sent"
      /\ \A s \in Slot : s # p.free => frames'[s] = Received(0)[s]
  BY <1>2, <1>3, ReceivedFacts DEF Frames
<1>8. TypeOK'
  BY <1>2, <1>3, <1>5, <1>7, TakeFacts DEF Inv, TypeOK
<1>9. Queue' /\ Lists'
  BY <1>1, <1>2, <1>3, TakeFacts DEF Queue, Lists
<1>10. FrameUse'
  BY <1>2, <1>3, <1>7, ReceivedFacts DEF Inv, FrameUse
<1>11. Deliveries'
  <2>1. /\ IsFiniteSet(SentSlots) /\ Cardinality(SentSlots) \in Nat
        /\ Cardinality(SentSlots') = Cardinality(SentSlots) + 1
    <3>1. SentSlots' = SentSlots \cup {p.free} /\ p.free \notin SentSlots
      BY <1>2, <1>3, <1>7, ReceivedFacts DEF SentSlots
    <3> QED
      BY <3>1, SentAreFinite, FS_AddElement
  <2>2. Cardinality(SentSlots') <= failures' + 1
    <3>1. \A s \in Slot : frames'[s] = "sent" => pool'.inUse[s] \/ pool'.next[0] = s
      BY <1>2, <1>10 DEF FrameUse
    <3>2. Cardinality({ s \in Slot : frames'[s] = "sent" }) <= pool'.used + 1
      BY <1>3, <1>7, <3>1, SentAreFew
    <3> QED
      BY <1>1, <1>2, <1>3, <3>2 DEF SentSlots
  <2> DEFINE new == <<to, Len(outbox[to]) + 1>>
  <2>3. TotalSent' \subseteq TotalSent \cup {new}
    <3> SUFFICES ASSUME NEW e \in TotalSent' PROVE e \in TotalSent \/ e = new
      OBVIOUS
    <3> HIDE DEF m, to
    <3>1. /\ e \in Client \X (1 .. MaxSends) /\ e[1] \in Client /\ e[2] \in Nat
          /\ e[2] <= Len(outbox'[e[1]]) /\ e = <<e[1], e[2]>>
      BY DEF TotalSent
    <3>2. CASE outbox'[e[1]] = outbox[e[1]]
      BY <3>1, <3>2 DEF TotalSent
    <3>3. CASE e[1] = to /\ outbox'[e[1]] = Append(outbox[e[1]], m)
      <4>1. e[2] <= Len(outbox[to]) + 1 /\ Len(outbox[to]) \in Nat
        BY <1>6, <3>1, <3>3
      <4>2. e[2] <= Len(outbox[to]) \/ e[2] = Len(outbox[to]) + 1
        BY <3>1, <4>1
      <4>3. CASE e[2] <= Len(outbox[to])
        BY <3>1, <3>3, <4>3 DEF TotalSent
      <4>4. CASE e[2] = Len(outbox[to]) + 1
        BY <3>1, <3>3, <4>4
      <4> QED
        BY <4>2, <4>3, <4>4
    <3> QED
      BY <1>5, <3>1, <3>2, <3>3
  <2>4. IsFiniteSet(TotalSent) /\ Cardinality(TotalSent) <= Cardinality(SentSlots)
    BY DEF Inv, Deliveries
  <2> HIDE DEF new
  <2>5. IsFiniteSet(TotalSent \cup {new})
        /\ Cardinality(TotalSent \cup {new}) <= Cardinality(TotalSent) + 1
        /\ Cardinality(TotalSent) \in Nat /\ Cardinality(TotalSent \cup {new}) \in Nat
    <3>1. /\ IsFiniteSet(TotalSent \cup {new})
          /\ Cardinality(TotalSent \cup {new}) = IF new \in TotalSent
               THEN Cardinality(TotalSent) ELSE Cardinality(TotalSent) + 1
      BY <2>4, FS_AddElement
    <3>2. Cardinality(TotalSent) \in Nat
      BY <2>4, FS_CardinalityType
    <3> QED
      BY <3>1, <3>2
  <2>6. /\ IsFiniteSet(TotalSent') /\ Cardinality(TotalSent') \in Nat
        /\ Cardinality(TotalSent') <= Cardinality(TotalSent \cup {new})
    BY <2>3, <2>5, FS_Subset, FS_CardinalityType
  <2> QED
    BY <2>1, <2>2, <2>4, <2>5, <2>6 DEF Deliveries
<1>12. Addressing'
  <2>1. open' \in halves' \cup {NULL, LOST} /\ halves' \subseteq clients'
    BY <1>2, TakeFacts DEF Inv, Addressing
  <2>2. DeliveredAsAddressed'
    <3> SUFFICES ASSUME NEW c \in Client, NEW i \in DOMAIN outbox'[c]
                 PROVE  outbox'[c][i].dst = c \/ c \in halves'
      BY DEF DeliveredAsAddressed
    <3>1. \/ i \in DOMAIN outbox[c] /\ outbox'[c][i] = outbox[c][i]
          \/ c = to /\ c # LOST /\ outbox'[c][i] = m
      <4> HIDE DEF m, to
      <4> QED
        BY <1>5, <1>6
    <3>2. i \in DOMAIN outbox[c] => outbox[c][i].dst = c \/ c \in halves
      BY DEF Inv, Addressing, DeliveredAsAddressed
    <3> HIDE DEF m, to
    <3> QED
      BY <1>2, <1>4, <3>1, <3>2
  <2>3. OnlyKnownReceive'
    <3>1. halves \subseteq clients /\ \A c \in Client : outbox[c] # <<>> => c \in clients
      BY DEF Inv, Addressing, OnlyKnownReceive
    <3>2. clients \subseteq clients' /\ clients' = Known
      BY <1>2, TakeFacts
    <3> HIDE DEF m, to
    <3> QED
      BY <1>4, <1>5, <3>1, <3>2 DEF OnlyKnownReceive
  <2> QED
    BY <2>1, <2>2, <2>3 DEF Addressing
<1> QED
  BY <1>8, <1>9, <1>10, <1>11, <1>12 DEF Inv

\* The handler, one path at a time.
LEMMA HandleMsgInv == Inv /\ HandleMsg => Inv'
<1> SUFFICES ASSUME Inv, HandleMsg PROVE Inv'
  OBVIOUS
<1>1. pc = "handle" /\ ~IsExhausted(pool)
  BY HandlerSlot DEF HandleMsg
<1>2. \/ DropMessage(pool.free, Acquired(pool))
      \/ SendMessage(pool.free, Acquired(pool))
      \/ FailSend(pool.free, Acquired(pool))
      \/ Misfill(pool.free, Acquired(pool))
      \/ ReceiveFails(pool.free, Acquired(pool))
  BY <1>1 DEF HandleMsg
<1> QED
  BY <1>1, <1>2, DropInv, SendMessageInv, FailSendInv, MisfillInv, ReceiveFailsInv

-----------------------------------------------------------------------------

\* The invariant holds always.
LEMMA BusInv == Spec => []Inv
<1>1. Inv /\ [Next]_vars => Inv'
  BY LoopInv, HandleMsgInv, SignalInv, ConnectInv, DisconnectInv, SendInv
     DEF Next, Worker
<1> QED
  BY <1>1, InitInv, PTL DEF Spec

\* The types of the bus's state, for every size of its buffer.
THEOREM BusTypeOK == Spec => []TypeOK
  BY BusInv, PTL DEF Inv

\* _handle_msg always finds a slot to receive in (software_bus.cpp:74),
\* whatever the number of slots, clients, messages and failures.
THEOREM BusKeepsReceiving == Spec => []ReceiveSlotReserved
<1>1. Inv => ReceiveSlotReserved
  BY DEF Inv, Lists, ReceiveSlotReserved
<1> QED
  BY <1>1, BusInv, PTL

\* Between two messages exactly the slots of failed sends are in use
\* (software_bus.cpp:48-62).
THEOREM BusLeaksAreFailures == Spec => []LeaksAreFailures
<1>1. Inv => LeaksAreFailures
  BY DEF Inv, Lists, LeaksAreFailures
<1> QED
  BY <1>1, BusInv, PTL

\* Messages are received in slot 0, whose frames are never sent.
THEOREM BusReceivesInOneSlot == Spec => []ReceiveSlotNeverSent
<1>1. Inv => ReceiveSlotNeverSent
  BY DEF Inv, Lists, FrameUse, ReceiveSlotNeverSent
<1> QED
  BY <1>1, BusInv, PTL

\* A client is only ever given what was addressed to it, unless a forward to
\* it broke off half-way (software_bus.cpp:53-61).
THEOREM BusAddressing == Spec => []DeliveredAsAddressed
<1>1. Inv => DeliveredAsAddressed
  BY DEF Inv, Addressing
<1> QED
  BY <1>1, BusInv, PTL

\* Nor is it given anything before it registered (software_bus.cpp:124).
THEOREM BusServesRegistered == Spec => []OnlyKnownReceive
<1>1. Inv => OnlyKnownReceive
  BY DEF Inv, Addressing
<1> QED
  BY <1>1, BusInv, PTL

\* With one slot left the handler takes it, and its sender finds none
\* (software_bus.cpp:41): nothing is forwarded any more, for ever.
THEOREM BusLossIsPermanent == Spec => LossIsPermanent
<1> DEFINE Worn == pool.used = Size - 1 => pool'.used = Size - 1 /\ outbox' = outbox
<1>1. Inv /\ [Next]_vars => Worn
  <2> SUFFICES ASSUME Inv, [Next]_vars, pool.used = Size - 1
               PROVE  pool'.used = Size - 1 /\ outbox' = outbox
    OBVIOUS
  <2>1. CASE UNCHANGED <<pool, outbox>>
    BY <2>1
  <2>2. CASE HandleMsg
    <3>1. pc = "handle" /\ ~IsExhausted(pool)
      BY <2>2, HandlerSlot DEF HandleMsg
    <3>2. /\ pool.free = 0 /\ pool.used < Size
          /\ pool \in PoolType /\ FreeListExact(pool)
      BY <3>1, HandlerSlot
    <3>3. IsExhausted(Acquired(pool))
      BY <3>2, HandlerTakes, SizeAssumption DEF IsExhausted
    <3>4. \/ DropMessage(0, Acquired(pool))
          \/ ReceiveFails(0, Acquired(pool))
      BY <2>2, <3>1, <3>2, <3>3 DEF HandleMsg, SendMessage, FailSend, Misfill
    <3>5. pool' = BackHandler(Acquired(pool), 0) /\ outbox' = outbox
      BY <3>4 DEF DropMessage, ReceiveFails
    <3> QED
      BY <3>2, <3>5, HandlerReturns
  <2>3. CASE Listen \/ CheckUntil \/ Poll \/ Signal \/ UNCHANGED vars
    BY <2>1, <2>3 DEF Listen, CheckUntil, Poll, Signal, vars, busVars
  <2>4. CASE \E c \in Client : Connect(c) \/ Disconnect(c) \/ \E d \in Client : Send(c, d)
    BY <2>1, <2>4 DEF Connect, Disconnect, Send, busVars
  <2> QED
    BY <2>2, <2>3, <2>4 DEF Next, Worker
<1> QED
  BY <1>1, BusInv, PTL DEF Spec, LossIsPermanent

\* However many slots the buffer has, the bus completes at most one forward
\* more than it has failed: _send_message always takes the slot behind the
\* head of the list, and nothing sizes its frames again
\* (software_bus.cpp:46-59, izmq.cpp:8-12).
THEOREM BusNeedsFreshSlots == Spec => []ForwardsNeedFreshSlots
<1>1. Inv => ForwardsNeedFreshSlots
  <2> SUFFICES ASSUME Inv PROVE ForwardsNeedFreshSlots
    OBVIOUS
  <2>1. /\ Cardinality(TotalSent) \in Nat /\ Cardinality(SentSlots) \in Nat
        /\ failures \in Nat
    BY SentAreFinite, FS_CardinalityType, BusAssumption DEF Inv, TypeOK, Deliveries
  <2> QED
    BY <2>1 DEF Inv, Deliveries, ForwardsNeedFreshSlots
<1> QED
  BY <1>1, BusInv, PTL

-----------------------------------------------------------------------------
(* The bus is a relay *)

\* The slot behind slot 0 once a sender's slot is lost: the next one on the
\* free list, if there is one besides slot 0.
LEMMA NextSpare ==
  ASSUME NEW q \in PoolType, FreeListExact(q), q.used < Size, q.free = 0,
         NEW p, p = Acquired(q), ~IsExhausted(p),
         LoseSender(p, 0).used < Size - 1
  PROVE  LET s == LoseSender(p, 0).next[0]
         IN s \in Slot /\ ~q.inUse[s] /\ s # q.next[0]
<1> DEFINE a == Acquired(p)
<1>1. /\ p \in PoolType /\ FreeListExact(p) /\ p.free = q.next[0]
      /\ p.used = q.used + 1
      /\ \A s \in Slot : q.inUse[s] => p.inUse[s]
  BY HandlerTakes
<1>2. /\ p.free \in Slot /\ a \in PoolType /\ FreeListExact(a)
      /\ a.inUse = [p.inUse EXCEPT ![p.free] = TRUE] /\ a.used = p.used + 1
  BY <1>1, AcquiredIsExact
<1>3. LoseSender(p, 0).next[0] = a.free /\ LoseSender(p, 0).used = a.used - 1
  <2> HIDE DEF a
  <2>1. Released(a, 0).next[0] = a.free /\ Released(a, 0).used = a.used - 1
    BY <1>2, ZeroIsSlot DEF Released, PoolType
  <2> QED
    BY <2>1 DEF LoseSender, a
<1>4. ~IsExhausted(a)
  BY <1>2, <1>3, SizeAssumption DEF IsExhausted, PoolType
<1>5. a.free \in Slot /\ ~a.inUse[a.free]
  <2> HIDE DEF a
  <2> QED
    BY <1>2, <1>4, AcquiredIsExact
<1>6. a.free # p.free /\ ~q.inUse[a.free]
  <2> HIDE DEF a
  <2> QED
    BY <1>1, <1>2, <1>5 DEF PoolType
<1> QED
  BY <1>1, <1>3, <1>5, <1>6

\* Every path of _handle_msg that takes the message takes it from the relay's
\* queue, and looks its destination up among the relay's clients.
LEMMA RelayTakes ==
  ASSUME Inv, pc = "handle", TakeMessage
  PROVE  Promise!Take /\ Promise!Known = Known
<1>1. inbox # <<>> /\ Standing = "up"
  BY DEF Inv, Queue, Standing
<1> QED
  BY <1>1 DEF TakeMessage, Promise!Take, Promise!Known, Known

\* A message finds a second slot exactly when the relay has a spare.
LEMMA RelayForwards ==
  ASSUME Inv, pc = "handle"
  PROVE  Promise!Forwards <=> Registered /\ ~IsExhausted(Acquired(pool))
<1>1. /\ pool.free = 0 /\ pool.used < Size /\ pool \in PoolType
      /\ FreeListExact(pool) /\ pool.used = failures
  BY HandlerSlot
<1>2. Acquired(pool).used = failures + 1 /\ failures \in Nat
  BY <1>1, HandlerTakes, BusAssumption DEF Inv, TypeOK
<1>3. failures < Size - 1 <=> ~IsExhausted(Acquired(pool))
  BY <1>1, <1>2, SizeAssumption DEF IsExhausted
<1> QED
  BY <1>3 DEF Promise!Forwards, Promise!Known, Registered, Known

\* The sender's slot is used up exactly when its frames are not the sized ones.
LEMMA RelaySpent ==
  ASSUME Inv, pc = "handle", ~IsExhausted(Acquired(pool))
  PROVE  Spent <=> frames[Acquired(pool).free] # "sized"
<1>1. /\ pool.free = 0 /\ pool.used < Size /\ pool \in PoolType
      /\ FreeListExact(pool) /\ pool.used = failures
  BY HandlerSlot
<1> DEFINE s == Acquired(pool).free
<1>2. s \in Slot /\ s # 0 /\ pool.used < Size - 1 /\ s = pool.next[0]
  BY <1>1, HandlerReturns, HandlerTakes, SizeAssumption DEF PoolType
<1>3. frames[s] \in Frames /\ frames[s] # "received"
  BY <1>2 DEF Inv, TypeOK, FrameUse
<1> HIDE DEF s
<1>4. Spent <=> frames[s] # "sized"
  BY <1>2, <1>3 DEF Spent, Frames
<1> QED
  BY <1>4 DEF s

\* Frames go to a client the relay may pick.
LEMMA RelayRoute ==
  ASSUME Inv, pc = "handle", NEW s
  PROVE  Route(s) \in Promise!Receiver
  BY DEF Route, Promise!Receiver

\* A dropped message is one the relay ignores.
LEMMA DropIsIgnore ==
  ASSUME Inv, pc = "handle", DropMessage(pool.free, Acquired(pool))
  PROVE  Promise!Ignore
<1> DEFINE p == Acquired(pool)
<1>1. /\ pool.free = 0 /\ pool.used < Size /\ pool \in PoolType
      /\ FreeListExact(pool) /\ pool.used = failures
  BY HandlerSlot
<1>2. /\ TakeMessage /\ pool' = BackHandler(p, 0) /\ frames' = Received(0)
      /\ pc' = "check" /\ UNCHANGED <<canary, open, outbox, failures, halves>>
      /\ ~Registered \/ IsExhausted(p)
  BY <1>1 DEF DropMessage
<1>3. pool'.used = pool.used /\ pool'.next[0] = pool.next[0] /\ pool.next[0] \in Slot
  BY <1>1, <1>2, HandlerReturns, ZeroIsSlot DEF PoolType
<1>4. frames'[pool'.next[0]] = "sent" <=> frames[pool.next[0]] = "sent"
  BY <1>2, <1>3, ReceivedFacts
<1>5. Spent' = Spent
  BY <1>2, <1>3, <1>4 DEF Spent
<1>6. Standing' = "up" /\ Standing = "up"
  BY <1>2 DEF Standing
<1> QED
  BY <1>2, <1>5, <1>6, RelayTakes, RelayForwards DEF Promise!Ignore

\* A completed forward hands the message on and uses the spare up.
LEMMA SendIsForward ==
  ASSUME Inv, pc = "handle", SendMessage(pool.free, Acquired(pool))
  PROVE  Promise!Forward
<1> DEFINE p == Acquired(pool)
<1>1. /\ pool.free = 0 /\ pool.used < Size /\ pool \in PoolType
      /\ FreeListExact(pool) /\ pool.used = failures
  BY HandlerSlot
<1> DEFINE to == Route(p.free)
<1>2. /\ TakeMessage /\ Registered /\ ~IsExhausted(p) /\ frames[p.free] = "sized"
      /\ outbox' = IF to = LOST THEN outbox
                   ELSE [outbox EXCEPT ![to] = Append(@, Head(inbox))]
      /\ open' = NULL /\ pool' = BackSender(p, 0)
      /\ frames' = [Received(0) EXCEPT ![p.free] = "sent"]
      /\ pc' = "check" /\ UNCHANGED <<canary, failures, halves>>
  BY <1>1 DEF SendMessage
<1>3. /\ p.free \in Slot /\ pool'.used = pool.used /\ pool'.next[0] = p.free
      /\ pool'.used < Size - 1
  BY <1>1, <1>2, HandlerReturns, SizeAssumption DEF PoolType
<1>4. frames'[p.free] = "sent"
  BY <1>2, <1>3, ReceivedFacts
<1>5. Spent' = TRUE /\ Spent = FALSE
  BY <1>2, <1>3, <1>4, RelaySpent DEF Spent
<1>6. Standing' = "up" /\ Standing = "up"
  BY <1>2 DEF Standing
<1>7. to \in Promise!Receiver
  BY RelayRoute
<1> HIDE DEF to
<1> QED
  BY <1>2, <1>5, <1>6, <1>7, RelayTakes, RelayForwards DEF Promise!Forward

\* A failed forward is one that breaks off: the next slot is a fresh one.
LEMMA FailIsBreakOff ==
  ASSUME Inv, pc = "handle", FailSend(pool.free, Acquired(pool))
  PROVE  Promise!BreakOff
<1> DEFINE p == Acquired(pool)
           to == Route(p.free)
<1>1. /\ pool.free = 0 /\ pool.used < Size /\ pool \in PoolType
      /\ FreeListExact(pool) /\ pool.used = failures
  BY HandlerSlot
<1>2. /\ TakeMessage /\ Registered /\ ~IsExhausted(p)
      /\ failures' = failures + 1
      /\ pool' = LoseSender(p, 0) /\ frames' = Received(0) /\ pc' = "check"
      /\ open' \in {open, to}
      /\ UNCHANGED <<canary, outbox>>
  BY <1>1 DEF FailSend
<1>3. Spent' = FALSE
  <2>1. CASE pool'.used < Size - 1
    <3> DEFINE s == pool'.next[0]
    <3>1. s \in Slot /\ ~pool.inUse[s] /\ s # pool.next[0]
      BY <1>1, <1>2, <2>1, NextSpare
    <3> HIDE DEF s
    <3>2. frames[s] # "sent"
      BY <3>1 DEF Inv, FrameUse
    <3>3. frames'[s] # "sent"
      BY <1>2, <3>1, <3>2, ReceivedFacts
    <3> QED
      BY <1>2, <3>3 DEF Spent, s
  <2>2. CASE ~(pool'.used < Size - 1)
    BY <1>2, <2>2 DEF Spent
  <2> QED
    BY <2>1, <2>2
<1>4. Standing' = "up" /\ Standing = "up"
  BY <1>2 DEF Standing
<1>5. to \in Promise!Receiver
  BY RelayRoute
<1> HIDE DEF to
<1> QED
  BY <1>2, <1>3, <1>4, <1>5, RelayTakes, RelayForwards DEF Promise!BreakOff

\* Frames that were sent before break the relay down.
LEMMA MisfillIsBreakDown ==
  ASSUME Inv, pc = "handle", Misfill(pool.free, Acquired(pool))
  PROVE  Promise!BreakDown
<1>1. /\ TakeMessage /\ Registered /\ ~IsExhausted(Acquired(pool))
      /\ frames[Acquired(pool).free] # "sized"
      /\ pc' = "undefined" /\ UNCHANGED <<open, outbox, failures, halves>>
  BY DEF Misfill
<1>2. Spent /\ Spent' = TRUE /\ Standing' = "broken"
  BY <1>1, RelaySpent DEF Spent, Standing
<1>3. Spent = TRUE
  BY <1>2, RelaySpent, <1>1 DEF Spent
<1> QED
  BY <1>1, <1>2, <1>3, RelayTakes, RelayForwards DEF Promise!BreakDown

\* What the steps that take no message leave alone.
LEMMA SpentKept ==
  ASSUME UNCHANGED <<pool, frames>>, pc # "undefined", pc' # "undefined"
  PROVE  Spent' = Spent
  BY DEF Spent

\* The relay sees of the receiver loop only that it ends.
LEMMA LoopIsStop ==
  ASSUME Inv, Listen \/ CheckUntil \/ Poll
  PROVE  Promise!Stop \/ UNCHANGED Promise!vars
<1>1. /\ UNCHANGED <<pool, frames, inbox, clients, outbox, open, failures>>
      /\ pc \notin {"undefined", "done"} /\ pc' # "undefined"
  BY DEF Listen, CheckUntil, AfterCheck, Poll
<1>2. Spent' = Spent
  BY <1>1, SpentKept
<1>3. Standing = "up" /\ Standing' \in {"up", "down"}
  BY <1>1 DEF Standing
<1> QED
  BY <1>1, <1>2, <1>3 DEF Promise!Stop, Promise!vars

\* A message the handler could not receive stays with the relay.
LEMMA ReceiveFailsIsNothing ==
  ASSUME Inv, pc = "handle", ReceiveFails(pool.free, Acquired(pool))
  PROVE  UNCHANGED Promise!vars
<1>1. /\ pool.free = 0 /\ pool.used < Size /\ pool \in PoolType
      /\ FreeListExact(pool) /\ pool.used = failures
  BY HandlerSlot
<1>2. /\ pool' = BackHandler(Acquired(pool), 0) /\ pc' = "check"
      /\ UNCHANGED <<frames, inbox, clients, outbox, open, failures>>
  BY <1>1 DEF ReceiveFails
<1>3. pool'.used = pool.used /\ pool'.next[0] = pool.next[0]
  BY <1>1, <1>2, HandlerReturns
<1>4. Spent' = Spent /\ Standing' = Standing
  BY <1>2, <1>3 DEF Spent, Standing
<1> QED
  BY <1>2, <1>4 DEF Promise!vars

\* What signals and clients do is an offer, a client hanging up, or nothing.
LEMMA WorldIsRelay ==
  ASSUME Inv,
         \/ Signal \/ UNCHANGED vars
         \/ \E c \in Client : Connect(c) \/ Disconnect(c) \/ \E d \in Client : Send(c, d)
  PROVE  [Promise!Next]_(Promise!vars)
<1>1. CASE UNCHANGED <<pc, pool, frames>>
  <2>1. Spent' = Spent /\ Standing' = Standing
    BY <1>1 DEF Spent, Standing
  <2>2. CASE Signal \/ UNCHANGED vars \/ \E c \in Client : Connect(c)
    BY <2>1, <2>2 DEF Signal, vars, busVars, Connect, Promise!vars
  <2>3. ASSUME NEW c \in Client, Disconnect(c)
        PROVE  Promise!HangUp \/ UNCHANGED Promise!vars
    BY <2>1, <2>3 DEF Disconnect, Promise!HangUp, Promise!vars
  <2>4. ASSUME NEW c \in Client, NEW d \in Client, Send(c, d)
        PROVE  \E m \in Promise!Message : Promise!Offer(m)
    <3>1. [src |-> c, dst |-> d] \in Promise!Message
      BY DEF Promise!Message
    <3>2. Promise!Offer([src |-> c, dst |-> d])
      BY <2>1, <2>4 DEF Send, busVars, Promise!Offer
    <3> QED
      BY <3>1, <3>2
  <2> QED
    BY <2>2, <2>3, <2>4 DEF Promise!Next
<1> QED
  BY <1>1 DEF Signal, vars, busVars, Connect, Disconnect, Send

\* The bus starts as a relay with all its spares.
LEMMA RelayInit == Init => Promise!Init
<1> SUFFICES ASSUME Init PROVE Promise!Init
  OBVIOUS
<1>1. Standing = "up" /\ Spent = FALSE
  <2>1. frames[pool.next[0]] # "sent"
    BY FreshIsExact, ZeroIsSlot DEF Init, PoolType
  <2> QED
    BY <2>1 DEF Init, Standing, Spent
<1> QED
  BY <1>1 DEF Init, Promise!Init

\* Every step of the bus is a step of the relay, or none.
LEMMA RelayNext == Inv /\ [Next]_vars => [Promise!Next]_(Promise!vars)
<1> SUFFICES ASSUME Inv, [Next]_vars PROVE [Promise!Next]_(Promise!vars)
  OBVIOUS
<1>1. CASE HandleMsg
  <2>1. pc = "handle" /\ ~IsExhausted(pool)
    BY <1>1, HandlerSlot DEF HandleMsg
  <2>2. \/ DropMessage(pool.free, Acquired(pool))
        \/ SendMessage(pool.free, Acquired(pool))
        \/ FailSend(pool.free, Acquired(pool))
        \/ Misfill(pool.free, Acquired(pool))
        \/ ReceiveFails(pool.free, Acquired(pool))
    BY <1>1, <2>1 DEF HandleMsg
  <2> QED
    BY <2>1, <2>2, DropIsIgnore, SendIsForward, FailIsBreakOff,
       MisfillIsBreakDown, ReceiveFailsIsNothing DEF Promise!Next
<1>2. CASE Listen \/ CheckUntil \/ Poll
  BY <1>2, LoopIsStop DEF Promise!Next
<1>3. CASE \/ Signal \/ UNCHANGED vars
           \/ \E c \in Client : Connect(c) \/ Disconnect(c) \/ \E d \in Client : Send(c, d)
  BY <1>3, WorldIsRelay
<1> QED
  BY <1>1, <1>2, <1>3 DEF Next, Worker

\* To its clients the bus is a relay (software_bus.cpp:27-133), whatever the
\* number of slots: every message is taken once and in order, a spare is
\* gone for every forward that broke off, and the second forward on the same
\* spare is where the process is lost.
THEOREM BusImplementsRelay == Spec => ImplementsRelay
  BY BusInv, RelayInit, RelayNext, PTL DEF Spec, ImplementsRelay, Promise!Spec
=============================================================================
