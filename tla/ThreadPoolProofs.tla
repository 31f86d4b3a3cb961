-------------------------- MODULE ThreadPoolProofs --------------------------
(***************************************************************************)
(* What TLAPS proves of ThreadPool, for any number of threads, callers and *)
(* tasks: no queued task is forgotten by sleeping workers, and the pool    *)
(* implements TaskQueue.                                                   *)
(***************************************************************************)
EXTENDS ThreadPool, FiniteSetTheorems, TLAPS

\* The queue holds the last tasks that were enqueued, in order; what runs is
\* older and runs once.
Started == made - Len(tasks)
InOrder ==
  /\ Len(tasks) <= made
  /\ \A i \in 1 .. Len(tasks) : tasks[i] = Started + i
  /\ finished \subseteq 1 .. made
  /\ \A w \in Worker :
       /\ pc[w] = "running" => task[w] \in 1 .. Started
       /\ \A v \in Worker : pc[w] = "running" /\ pc[v] = "running" /\ task[w] = task[v] => w = v

\* Workers leave once the destructor has set the flag, never the last of them
\* with a task in the queue, and all of them before it returns.
Departures ==
  /\ phase \in {"new", "open"} => ~stop
  /\ \A w \in Worker : pc[w] = "left" => stop
  /\ tasks # <<>> => \E w \in Worker : pc[w] # "left"
  /\ phase = "joined" => \A w \in Worker : pc[w] = "left"

\* The threads that are not there yet.
Unborn == \A w \in Worker : pc[w] = "unborn" <=> w > spawned

IInv == TypeOK /\ InOrder /\ Departures /\ Unborn

-----------------------------------------------------------------------------
(* Types and the inductive invariant *)

\* A pool under construction satisfies the invariant.
LEMMA InitIInv == Init => IInv
<1> SUFFICES ASSUME Init PROVE IInv
  OBVIOUS
<1> USE ThreadPoolAssumption DEF Init
<1>1. TypeOK
  <2>1. spawned \in 0 .. NumThreads /\ made \in 0 .. MaxTasks /\ tasks \in Seq(Task)
    OBVIOUS
  <2>2. notifying \in SUBSET Caller /\ finished \in SUBSET Task
    OBVIOUS
  <2>3. /\ pc \in [Worker -> {"unborn", "ready", "waiting", "running", "left"}]
        /\ task \in [Worker -> Task \cup {NONE}]
    OBVIOUS
  <2> QED
    BY <2>1, <2>2, <2>3 DEF TypeOK
<1>2. InOrder /\ Departures /\ Unborn
  BY DEF InOrder, Started, Departures, Unborn, Worker
<1> QED
  BY <1>1, <1>2 DEF IInv

\* Every step keeps the invariant.
LEMMA NextIInv == IInv /\ [Next]_vars => IInv'
<1> SUFFICES ASSUME IInv, [Next]_vars PROVE IInv'
  OBVIOUS
<1> USE ThreadPoolAssumption DEF Goto, At
<1>1. CASE Spawn
  <2>1. TypeOK'
    <3>1. spawned' \in 0 .. NumThreads
      BY <1>1 DEF IInv, TypeOK, Spawn, MoreWorkers
    <3>2. pc' \in [Worker -> {"unborn", "ready", "waiting", "running", "left"}]
      BY <1>1 DEF IInv, TypeOK, Spawn
    <3> QED
      BY <1>1, <3>1, <3>2 DEF IInv, TypeOK, Spawn
  <2>2. InOrder'
    BY <1>1 DEF IInv, TypeOK, InOrder, Started, Spawn, MoreWorkers
  <2>3. Departures'
    BY <1>1 DEF IInv, TypeOK, Departures, Spawn, MoreWorkers
  <2>4. Unborn'
    BY <1>1 DEF IInv, TypeOK, Unborn, Spawn, Worker
  <2> QED
    BY <2>1, <2>2, <2>3, <2>4 DEF IInv
<1>2. CASE Constructed
  <2>1. TypeOK'
    BY <1>2 DEF IInv, TypeOK, Constructed, Task
  <2>2. InOrder'
    BY <1>2 DEF IInv, TypeOK, InOrder, Started, Constructed
  <2>3. Departures'
    BY <1>2 DEF IInv, TypeOK, Departures, Constructed
  <2>4. Unborn'
    BY <1>2 DEF IInv, TypeOK, Unborn, Constructed
  <2> QED
    BY <2>1, <2>2, <2>3, <2>4 DEF IInv
<1>3. CASE NotifyAll
  <2>1. TypeOK'
    BY <1>3 DEF IInv, TypeOK, NotifyAll, Woken, Task
  <2>2. InOrder'
    BY <1>3 DEF IInv, TypeOK, InOrder, Started, NotifyAll, Woken
  <2>3. Departures'
    BY <1>3 DEF IInv, TypeOK, Departures, NotifyAll, Woken
  <2>4. Unborn'
    BY <1>3 DEF IInv, TypeOK, Unborn, NotifyAll, Woken
  <2> QED
    BY <2>1, <2>2, <2>3, <2>4 DEF IInv
<1>4. CASE Join
  <2>1. TypeOK'
    BY <1>4 DEF IInv, TypeOK, Join, Task
  <2>2. InOrder'
    BY <1>4 DEF IInv, TypeOK, InOrder, Started, Join
  <2>3. Departures'
    BY <1>4 DEF IInv, TypeOK, Departures, Join
  <2>4. Unborn'
    BY <1>4 DEF IInv, TypeOK, Unborn, Join
  <2> QED
    BY <2>1, <2>2, <2>3, <2>4 DEF IInv
<1>5. CASE Stop
  <2>1. TypeOK'
    BY <1>5 DEF IInv, TypeOK, Stop, Task
  <2>2. InOrder'
    BY <1>5 DEF IInv, TypeOK, InOrder, Started, Stop
  <2>3. Departures'
    BY <1>5 DEF IInv, TypeOK, Departures, Stop
  <2>4. Unborn'
    BY <1>5 DEF IInv, TypeOK, Unborn, Stop
  <2> QED
    BY <2>1, <2>2, <2>3, <2>4 DEF IInv
<1>6. CASE Terminate
  <2>1. TypeOK'
    BY <1>6 DEF IInv, TypeOK, Terminate, Task
  <2>2. InOrder'
    BY <1>6 DEF IInv, TypeOK, InOrder, Started, Terminate
  <2>3. Departures'
    BY <1>6 DEF IInv, TypeOK, Departures, Terminate
  <2>4. Unborn'
    BY <1>6 DEF IInv, TypeOK, Unborn, Terminate
  <2> QED
    BY <2>1, <2>2, <2>3, <2>4 DEF IInv
<1>7. ASSUME NEW t \in Caller, Push(t) PROVE IInv'
  <2>1. TypeOK'
    BY <1>7 DEF IInv, TypeOK, Push, MayCall, Notifier, Caller, Task
  <2>2. InOrder'
    <3>1. tasks \in Seq(Task) /\ made \in Nat /\ made + 1 \in Task /\ Len(tasks) \in Nat
      BY <1>7 DEF IInv, TypeOK, Push, Task
    <3>2. Len(tasks') = Len(tasks) + 1 /\ made' = made + 1 /\ tasks'[Len(tasks) + 1] = made + 1
      BY <1>7, <3>1 DEF Push
    <3>3. \A i \in 1 .. Len(tasks) : tasks'[i] = tasks[i]
      BY <1>7, <3>1 DEF Push
    <3>4. Started' = Started
      BY <3>1, <3>2 DEF Started
    <3>5. \A i \in 1 .. Len(tasks') : tasks'[i] = Started' + i
      <4> SUFFICES ASSUME NEW i \in 1 .. Len(tasks') PROVE tasks'[i] = Started' + i
        OBVIOUS
      <4>1. CASE i \in 1 .. Len(tasks)
        BY <3>3, <3>4, <4>1 DEF IInv, InOrder
      <4>2. CASE i = Len(tasks) + 1
        BY <3>1, <3>2, <3>4, <4>2 DEF Started
      <4> QED
        BY <3>1, <3>2, <4>1, <4>2
    <3>6. finished' \subseteq 1 .. made' /\ Len(tasks') <= made'
      BY <1>7, <3>1, <3>2 DEF Push, IInv, InOrder
    <3> QED
      BY <1>7, <3>4, <3>5, <3>6 DEF Push, IInv, InOrder
  <2>3. Departures'
    <3>1. \E w \in Worker : pc[w] # "left"
      <4>1. CASE t \in Client
        <5>1. \A w \in Worker : pc[w] # "left"
          BY <1>7, <4>1 DEF Push, MayCall, IInv, Departures
        <5>2. 1 \in Worker
          BY DEF Worker
        <5> QED
          BY <5>1, <5>2
      <4>2. CASE t \in Worker
        BY <1>7, <4>2 DEF Push, MayCall
      <4> QED
        BY <4>1, <4>2 DEF Caller
    <3> QED
      BY <1>7, <3>1 DEF Push, IInv, Departures
  <2>4. Unborn'
    BY <1>7 DEF IInv, TypeOK, Unborn, Push
  <2> QED
    BY <2>1, <2>2, <2>3, <2>4 DEF IInv
<1>8. ASSUME NEW t \in Caller, NotifyOne(t) PROVE IInv'
  <2>1. TypeOK'
    BY <1>8 DEF IInv, TypeOK, NotifyOne, Task
  <2>2. InOrder'
    BY <1>8 DEF IInv, TypeOK, InOrder, Started, NotifyOne
  <2>3. Departures'
    BY <1>8 DEF IInv, TypeOK, Departures, NotifyOne
  <2>4. Unborn'
    BY <1>8 DEF IInv, TypeOK, Unborn, NotifyOne
  <2> QED
    BY <2>1, <2>2, <2>3, <2>4 DEF IInv
<1>9. ASSUME NEW w \in Worker, Wait(w) PROVE IInv'
  <2>1. TypeOK'
    BY <1>9 DEF IInv, TypeOK, Wait, Task
  <2>2. InOrder'
    BY <1>9 DEF IInv, TypeOK, InOrder, Started, Wait
  <2>3. Departures'
    BY <1>9 DEF IInv, TypeOK, Departures, Wait
  <2>4. Unborn'
    BY <1>9 DEF IInv, TypeOK, Unborn, Wait
  <2> QED
    BY <2>1, <2>2, <2>3, <2>4 DEF IInv
<1>10. ASSUME NEW w \in Worker, WakeUp(w) PROVE IInv'
  <2>1. TypeOK'
    BY <1>10 DEF IInv, TypeOK, WakeUp, Task
  <2>2. InOrder'
    BY <1>10 DEF IInv, TypeOK, InOrder, Started, WakeUp
  <2>3. Departures'
    BY <1>10 DEF IInv, TypeOK, Departures, WakeUp
  <2>4. Unborn'
    BY <1>10 DEF IInv, TypeOK, Unborn, WakeUp
  <2> QED
    BY <2>1, <2>2, <2>3, <2>4 DEF IInv
<1>11. ASSUME NEW w \in Worker, Leave(w) PROVE IInv'
  <2>1. TypeOK'
    BY <1>11 DEF IInv, TypeOK, Leave, MayLeave, Awake, Task
  <2>2. InOrder'
    BY <1>11 DEF IInv, TypeOK, InOrder, Started, Leave, MayLeave, Awake
  <2>3. Departures'
    BY <1>11 DEF IInv, TypeOK, Departures, Leave, MayLeave, Awake
  <2>4. Unborn'
    BY <1>11 DEF IInv, TypeOK, Unborn, Leave
  <2> QED
    BY <2>1, <2>2, <2>3, <2>4 DEF IInv
<1>12. ASSUME NEW w \in Worker, Take(w) PROVE IInv'
  <2>1. TypeOK'
    BY <1>12 DEF IInv, TypeOK, Take, MayLeave, Awake, Task
  <2>2. InOrder'
    <3>1. tasks \in Seq(Task) /\ tasks # <<>> /\ Len(tasks) \in Nat \ {0} /\ made \in Nat
      BY <1>12 DEF IInv, TypeOK, Take, MayLeave, Awake
    <3>2. Len(tasks') = Len(tasks) - 1 /\ \A i \in 1 .. Len(tasks') : tasks'[i] = tasks[i + 1]
      BY <1>12, <3>1 DEF Take
    <3>3. Started' = Started + 1 /\ Started \in Nat
      BY <1>12, <3>1, <3>2 DEF Take, Started, IInv, InOrder
    <3>4. \A i \in 1 .. Len(tasks') : tasks'[i] = Started' + i
      <4> SUFFICES ASSUME NEW i \in 1 .. Len(tasks') PROVE tasks'[i] = Started' + i
        OBVIOUS
      <4>1. i + 1 \in 1 .. Len(tasks) /\ tasks'[i] = tasks[i + 1]
        BY <3>1, <3>2
      <4> QED
        BY <3>3, <4>1 DEF IInv, InOrder
    <3>5. task'[w] = Started + 1
      BY <1>12, <3>1, <3>3 DEF Take, IInv, TypeOK, InOrder
    <3>6. \A v \in Worker \ {w} : task'[v] = task[v] /\ pc'[v] = pc[v]
      BY <1>12 DEF Take, IInv, TypeOK
    <3>7. \A v \in Worker : pc[v] = "running" => task[v] \in 1 .. Started
      BY DEF IInv, InOrder
    <3>8. \A v \in Worker : pc'[v] = "running" =>
            IF v = w THEN task'[v] = Started + 1 ELSE pc[v] = "running" /\ task'[v] \in 1 .. Started
      BY <3>5, <3>6, <3>7
    <3>9. \A v, u \in Worker :
            pc'[v] = "running" /\ pc'[u] = "running" /\ task'[v] = task'[u] => v = u
      BY <3>3, <3>6, <3>8 DEF IInv, InOrder
    <3>10. \A v \in Worker : pc'[v] = "running" => task'[v] \in 1 .. Started'
      BY <3>3, <3>8
    <3>11. finished' \subseteq 1 .. made' /\ Len(tasks') <= made'
      BY <1>12, <3>1, <3>2 DEF Take, IInv, InOrder
    <3> QED
      BY <3>4, <3>9, <3>10, <3>11 DEF InOrder
  <2>3. Departures'
    BY <1>12 DEF IInv, TypeOK, Departures, Take, MayLeave, Awake
  <2>4. Unborn'
    BY <1>12 DEF IInv, TypeOK, Unborn, Take
  <2> QED
    BY <2>1, <2>2, <2>3, <2>4 DEF IInv
<1>13. ASSUME NEW w \in Worker, Finish(w) PROVE IInv'
  <2>1. TypeOK'
    <3>1. task[w] \in Task
      <4>1. made \in 0 .. MaxTasks /\ Len(tasks) \in Nat /\ task[w] \in 1 .. Started
        BY <1>13 DEF Finish, IInv, TypeOK, InOrder
      <4> QED
        BY <4>1 DEF Started, Task
    <3> QED
      BY <1>13, <3>1 DEF IInv, TypeOK, Finish
  <2>2. InOrder'
    <3>1. task[w] \in 1 .. made
      <4>1. made \in Nat /\ Len(tasks) \in Nat /\ task[w] \in 1 .. Started
        BY <1>13 DEF Finish, IInv, TypeOK, InOrder
      <4> QED
        BY <4>1 DEF Started
    <3>2. \A v \in Worker : pc'[v] = "running" => pc[v] = "running" /\ task'[v] = task[v]
      BY <1>13 DEF Finish, IInv, TypeOK
    <3>3. UNCHANGED <<tasks, made, Started>> /\ finished' = finished \cup {task[w]}
      BY <1>13 DEF Finish, Started
    <3> QED
      BY <3>1, <3>2, <3>3 DEF IInv, InOrder
  <2>3. Departures'
    BY <1>13 DEF IInv, TypeOK, Departures, Finish
  <2>4. Unborn'
    BY <1>13 DEF IInv, TypeOK, Unborn, Finish
  <2> QED
    BY <2>1, <2>2, <2>3, <2>4 DEF IInv
<1>14. CASE UNCHANGED vars
  BY <1>14 DEF vars, IInv, TypeOK, InOrder, Started, Departures, Unborn
<1> QED
  BY <1>1, <1>2, <1>3, <1>4, <1>5, <1>6, <1>7, <1>8, <1>9, <1>10, <1>11, <1>12, <1>13, <1>14 DEF Next, Own, Step

\* The invariant holds in every behaviour.
LEMMA AlwaysIInv == Spec => []IInv
  BY InitIInv, NextIInv, PTL DEF Spec

\* The types of the state of the pool.
THEOREM PoolTypeOK == Spec => []TypeOK
<1>1. IInv => TypeOK
  BY DEF IInv
<1> QED
  BY <1>1, AlwaysIInv, PTL

-----------------------------------------------------------------------------
(* No forgotten task *)

\* The sets that are counted are finite.
LEMMA CountedSets ==
  ASSUME TypeOK
  PROVE  /\ \A l : IsFiniteSet(At(l)) /\ Cardinality(At(l)) \in Nat
         /\ IsFiniteSet(notifying) /\ Cardinality(notifying) \in Nat
         /\ Len(tasks) \in Nat
<1>1. IsFiniteSet(Worker)
  BY FS_Interval, ThreadPoolAssumption DEF Worker
<1>2. IsFiniteSet(Caller)
  BY <1>1, FS_Union, ThreadPoolAssumption DEF Caller
<1>3. \A l : IsFiniteSet(At(l)) /\ Cardinality(At(l)) \in Nat
  <2> TAKE l
  <2>1. At(l) \in SUBSET Worker
    BY DEF At
  <2> QED
    BY <1>1, <2>1, FS_Subset, FS_CardinalityType
<1>4. IsFiniteSet(notifying) /\ Cardinality(notifying) \in Nat
  BY <1>2, FS_Subset, FS_CardinalityType DEF TypeOK
<1> QED
  BY <1>3, <1>4 DEF TypeOK

\* A worker that gets ready is one more of them, and a sleeper less if it was
\* one.
LEMMA OneMoreReady ==
  ASSUME TypeOK, NEW w \in Worker, pc[w] # "ready", Goto(w, "ready")
  PROVE  /\ Cardinality(At("ready")') = Cardinality(At("ready")) + 1
         /\ At("waiting")' \subseteq At("waiting")
<1>1. At("ready")' = At("ready") \cup {w} /\ w \notin At("ready")
  BY DEF At, Goto, TypeOK
<1>2. At("waiting")' \subseteq At("waiting")
  BY DEF At, Goto, TypeOK
<1> QED
  BY <1>1, <1>2, CountedSets, FS_AddElement

\* notify_one comes after the unlock and the woken worker may be late, and
\* still no task is left to sleeping workers (thread_pool.cpp:10, 40).
THEOREM NoTaskForgotten == Spec => []WakeUpPerTask
<1>1. Init => WakeUpPerTask
  BY DEF Init, WakeUpPerTask, At
<1>2. TypeOK /\ TypeOK' /\ WakeUpPerTask /\ [Next]_vars => WakeUpPerTask'
  <2> SUFFICES ASSUME TypeOK, TypeOK', WakeUpPerTask, [Next]_vars, At("waiting")' # {}
               PROVE  Len(tasks') <= Cardinality(At("ready")') + Cardinality(notifying')
    BY DEF WakeUpPerTask
  <2> DEFINE Enough == Len(tasks') <= Cardinality(At("ready")') + Cardinality(notifying')
  <2>1. ASSUME NEW w \in Worker, pc[w] # "ready", Goto(w, "ready"),
               UNCHANGED <<tasks, notifying>>
        PROVE  Enough
    BY <2>1, OneMoreReady, CountedSets DEF WakeUpPerTask
  <2>2. ASSUME UNCHANGED <<tasks, notifying, pc>> PROVE Enough
    BY <2>2 DEF WakeUpPerTask, At
  <2>3. ASSUME tasks' = <<>> PROVE Enough
    <3>1. Cardinality(At("ready")') \in Nat /\ Cardinality(notifying') \in Nat
      <4>1. IsFiniteSet(Worker)
        BY FS_Interval, ThreadPoolAssumption DEF Worker
      <4>2. IsFiniteSet(Caller)
        BY <4>1, FS_Union, ThreadPoolAssumption DEF Caller
      <4>3. At("ready")' \in SUBSET Worker /\ notifying' \in SUBSET Caller
        BY DEF At, TypeOK
      <4> QED
        BY <4>1, <4>2, <4>3, FS_Subset, FS_CardinalityType
    <3>2. Len(tasks') = 0
      BY <2>3
    <3> QED
      BY <3>1, <3>2
  <2>4. CASE Spawn
    <3>1. spawned + 1 \in Worker
      BY <2>4 DEF Spawn, MoreWorkers, TypeOK, Worker
    <3>2. CASE pc[spawned + 1] = "ready"
      BY <2>2, <2>4, <3>1, <3>2 DEF Spawn, Goto, TypeOK
    <3> QED
      BY <2>1, <2>4, <3>1, <3>2 DEF Spawn
  <2>5. CASE Constructed \/ Join \/ Stop \/ Terminate \/ UNCHANGED vars
    BY <2>2, <2>5 DEF Constructed, Join, Stop, Terminate, vars
  <2>6. CASE NotifyAll
    BY <2>6 DEF NotifyAll, Woken, At
  <2>7. ASSUME NEW t \in Caller, Push(t) PROVE Enough
    <3>1. Len(tasks') = Len(tasks) + 1
      BY <2>7 DEF Push, TypeOK
    <3>2. Cardinality(notifying') = Cardinality(notifying) + 1
      BY <2>7, CountedSets, FS_AddElement DEF Push, Notifier
    <3>3. At("ready")' = At("ready") /\ At("waiting")' = At("waiting")
      BY <2>7 DEF Push, At
    <3> QED
      BY <3>1, <3>2, <3>3, CountedSets DEF WakeUpPerTask
  <2>8. ASSUME NEW t \in Caller, NotifyOne(t) PROVE Enough
    <3>1. CASE At("waiting") = {}
      BY <2>8, <3>1 DEF NotifyOne, At
    <3>2. CASE At("waiting") # {}
      <4>1. PICK w \in At("waiting") : Goto(w, "ready")
        BY <2>8, <3>2 DEF NotifyOne
      <4>2. Cardinality(At("ready")') = Cardinality(At("ready")) + 1
        BY <4>1, OneMoreReady DEF At
      <4>3. Cardinality(notifying') = Cardinality(notifying) - 1
        BY <2>8, CountedSets, FS_RemoveElement DEF NotifyOne
      <4>4. UNCHANGED tasks
        BY <2>8 DEF NotifyOne
      <4> QED
        BY <3>2, <4>2, <4>3, <4>4, CountedSets DEF WakeUpPerTask
    <3> QED
      BY <3>1, <3>2
  <2>9. ASSUME NEW w \in Worker, Wait(w) \/ Leave(w) PROVE Enough
    BY <2>3, <2>9 DEF Wait, Leave, Awake, MayLeave
  <2>10. ASSUME NEW w \in Worker, WakeUp(w) PROVE Enough
    BY <2>1, <2>10 DEF WakeUp
  <2>11. ASSUME NEW w \in Worker, Take(w) PROVE Enough
    <3>1. Len(tasks') = Len(tasks) - 1
      BY <2>11 DEF Take, Awake, MayLeave, TypeOK
    <3>2. At("ready")' = At("ready") \ {w} /\ w \in At("ready")
      BY <2>11 DEF Take, Goto, At, TypeOK
    <3>3. Cardinality(At("ready")') = Cardinality(At("ready")) - 1
      BY <3>2, CountedSets, FS_RemoveElement
    <3>4. UNCHANGED notifying /\ At("waiting")' = At("waiting")
      BY <2>11 DEF Take, Goto, At, TypeOK
    <3> QED
      BY <3>1, <3>3, <3>4, CountedSets DEF WakeUpPerTask
  <2>12. ASSUME NEW w \in Worker, Finish(w) PROVE Enough
    BY <2>1, <2>12 DEF Finish
  <2> QED
    BY <2>4, <2>5, <2>6, <2>7, <2>8, <2>9, <2>10, <2>11, <2>12 DEF Next, Own, Step
<1>3. IInv => TypeOK
  BY DEF IInv
<1> QED
  BY <1>1, <1>2, <1>3, AlwaysIInv, PTL DEF Spec

-----------------------------------------------------------------------------
(* The queue of tasks *)

Running == {task[w] : w \in At("running")}

\* A worker that neither takes nor ends a task changes nothing a caller sees.
LEMMA SameQueue ==
  ASSUME UNCHANGED <<tasks, finished>>, Running' = Running, (phase = "joined")' = (phase = "joined")
  PROVE  UNCHANGED Queue!vars
BY DEF Queue!vars, Running

\* The pool implements the queue of tasks its callers count on.
THEOREM PoolImplementsQueue == Spec => ImplementsQueue
<1>1. Init => Queue!Init
  BY DEF Init, Queue!Init, At
<1>2. IInv /\ IInv' /\ [Next]_vars => [Queue!Next]_(Queue!vars)
  <2> SUFFICES ASSUME IInv, IInv', [Next]_vars PROVE [Queue!Next]_(Queue!vars)
    OBVIOUS
  <2> DEFINE Same == UNCHANGED Queue!vars
  <2>1. ASSUME NEW w \in Worker, Goto(w, "ready"), pc[w] # "running",
               UNCHANGED <<tasks, task, finished, phase>>
        PROVE  Same
    <3>1. At("running")' = At("running")
      BY <2>1 DEF At, Goto, IInv, TypeOK
    <3> QED
      BY <2>1, <3>1, SameQueue DEF Running
  <2>2. ASSUME UNCHANGED <<tasks, task, finished, pc>>, phase # "joined", phase' # "joined"
        PROVE  Same
    BY <2>2, SameQueue DEF Running, At
  <2>3. CASE UNCHANGED vars
    BY <2>3 DEF vars, At, Queue!vars
  <2>4. CASE Spawn
    <3>1. pc[spawned + 1] = "unborn"
      BY <2>4 DEF Spawn, MoreWorkers, IInv, TypeOK, Unborn, Worker
    <3>2. At("running")' = At("running")
      BY <2>4, <3>1 DEF Spawn, Goto, At, IInv, TypeOK
    <3> QED
      BY <2>4, <3>2, SameQueue DEF Spawn, Running
  <2>5. CASE Constructed \/ Stop
    BY <2>2, <2>5 DEF Constructed, Stop
  <2>6. CASE Terminate
    <3>1. phase # "joined"
      BY <2>6 DEF Terminate, At, IInv, Departures
    <3> QED
      BY <2>2, <2>6, <3>1 DEF Terminate
  <2>7. CASE NotifyAll
    <3>1. At("running")' = At("running")
      BY <2>7 DEF NotifyAll, Woken, At, IInv, TypeOK
    <3> QED
      BY <2>7, <3>1, SameQueue DEF NotifyAll, Running
  <2>8. CASE Join
    <3>1. At("running") = {} /\ tasks = <<>>
      BY <2>8 DEF Join, At, IInv, Departures
    <3> QED
      BY <2>8, <3>1 DEF Join, Queue!Next, Queue!Close, Running, At
  <2>9. ASSUME NEW t \in Caller, Push(t) PROVE Queue!Submit
    <3>1. phase # "joined" /\ phase' # "joined"
      BY <2>9, ThreadPoolAssumption DEF Push, MayCall, Caller, IInv, Departures
    <3>2. made + 1 \in Task /\ made \in Nat /\ Len(tasks) \in Nat
      BY <2>9 DEF Push, IInv, TypeOK, Task
    <3>3. \A i \in DOMAIN tasks : tasks[i] # made + 1
      <4>1. DOMAIN tasks = 1 .. Len(tasks)
        BY DEF IInv, TypeOK
      <4> QED
        BY <3>2, <4>1 DEF IInv, InOrder, Started
    <3>4. made + 1 \notin finished /\ \A w \in At("running") : task[w] # made + 1
      BY <3>2 DEF IInv, TypeOK, InOrder, Started, At
    <3>5. made + 1 \notin Queue!Queued
      BY <3>3 DEF Queue!Queued
    <3>6. UNCHANGED {task[w] : w \in At("running")}
      BY <2>9 DEF Push, At
    <3> QED
      BY <2>9, <3>1, <3>2, <3>4, <3>5, <3>6 DEF Push, Queue!Submit
  <2>10. ASSUME NEW t \in Caller, NotifyOne(t) PROVE Same
    <3>1. CASE At("waiting") = {}
      BY <2>10, <3>1 DEF NotifyOne, At, Queue!vars
    <3>2. CASE At("waiting") # {}
      BY <2>1, <2>10, <3>2 DEF NotifyOne, At
    <3> QED
      BY <3>1, <3>2
  <2>11. ASSUME NEW w \in Worker, Wait(w) \/ WakeUp(w) \/ Leave(w) PROVE Same
    <3>1. At("running")' = At("running")
      BY <2>11 DEF Wait, WakeUp, Leave, Goto, At, IInv, TypeOK
    <3> QED
      BY <2>11, <3>1, SameQueue DEF Wait, WakeUp, Leave, Running
  <2>12. ASSUME NEW w \in Worker, Take(w) PROVE Queue!StartTask
    <3>1. tasks # <<>> /\ At("running")' = At("running") \cup {w} /\ w \notin At("running")
      BY <2>12 DEF Take, Awake, MayLeave, Goto, At, IInv, TypeOK
    <3>2. task'[w] = Head(tasks) /\ \A v \in At("running") : task'[v] = task[v]
      BY <2>12, <3>1 DEF Take, At, IInv, TypeOK
    <3>3. Running' = Running \cup {Head(tasks)}
      BY <3>1, <3>2 DEF Running
    <3> QED
      BY <2>12, <3>1, <3>3 DEF Take, Queue!StartTask, Running
  <2>13. ASSUME NEW w \in Worker, Finish(w) PROVE Queue!EndTask
    <3>1. At("running")' = At("running") \ {w} /\ w \in At("running")
      BY <2>13 DEF Finish, Goto, At, IInv, TypeOK
    <3>2. \A v \in At("running") \ {w} : task'[v] = task[v] /\ task[v] # task[w]
      BY <2>13, <3>1 DEF Finish, At, IInv, TypeOK, InOrder
    <3>3. Running' = Running \ {task[w]} /\ task[w] \in Running
      BY <3>1, <3>2 DEF Running
    <3> QED
      BY <2>13, <3>3 DEF Finish, Queue!EndTask, Running
  <2> QED
    BY <2>3, <2>4, <2>5, <2>6, <2>7, <2>8, <2>9, <2>10, <2>11, <2>12, <2>13
       DEF Next, Own, Step, Queue!Next
<1> QED
  BY <1>1, <1>2, AlwaysIInv, PTL DEF Spec, ImplementsQueue, Queue!Spec
-----------------------------------------------------------------------------
(* What the destructor may count on *)

\* What has left the queue runs or has ended.
Accounted ==
  \A t \in 1 .. Started : t \in finished \/ \E w \in Worker : pc[w] = "running" /\ task[w] = t

\* The flag is set before notify_all, and a worker that finds it set does not
\* go to sleep any more.
Awoken ==
  /\ phase \in {"stopping", "joining", "joined"} => stop
  /\ phase \in {"joining", "joined"} => At("waiting") = {}

\* Every step keeps account of the tasks and lets nobody sleep again.
LEMMA NextDrained == IInv /\ IInv' /\ Accounted /\ Awoken /\ [Next]_vars => (Accounted /\ Awoken)'
<1> SUFFICES ASSUME IInv, IInv', Accounted, Awoken, [Next]_vars PROVE (Accounted /\ Awoken)'
  OBVIOUS
<1> USE ThreadPoolAssumption
<1>1. Awoken'
  <2>1. CASE Spawn \/ Constructed \/ Join \/ Stop \/ Terminate \/ UNCHANGED vars
    BY <2>1 DEF Spawn, Constructed, Join, Stop, Terminate, vars, Goto, At, Awoken, IInv, TypeOK
  <2>2. CASE NotifyAll
    BY <2>2 DEF NotifyAll, Woken, At, Awoken, IInv, TypeOK
  <2>3. ASSUME NEW t \in Caller, Push(t) \/ NotifyOne(t) PROVE Awoken'
    BY <2>3 DEF Push, NotifyOne, Goto, At, Awoken, IInv, TypeOK
  <2>4. ASSUME NEW w \in Worker, Step(w) \/ WakeUp(w) PROVE Awoken'
    BY <2>4 DEF Step, Wait, Leave, Take, Finish, WakeUp, Awake, Goto, At, Awoken, IInv, TypeOK
  <2> QED
    BY <2>1, <2>2, <2>3, <2>4 DEF Next, Own
<1>2. Accounted'
  <2>1. ASSUME UNCHANGED <<made, tasks, task, finished>>,
               \A w \in Worker : pc[w] = "running" => pc'[w] = "running"
        PROVE  Accounted'
    BY <2>1 DEF Accounted, Started
  <2>2. CASE Spawn
    <3>1. pc[spawned + 1] = "unborn"
      BY <2>2 DEF Spawn, MoreWorkers, IInv, TypeOK, Unborn, Worker
    <3> QED
      BY <2>1, <2>2, <3>1 DEF Spawn, Goto, IInv, TypeOK
  <2>3. CASE Constructed \/ NotifyAll \/ Join \/ Stop \/ Terminate \/ UNCHANGED vars
    BY <2>1, <2>3 DEF Constructed, NotifyAll, Woken, At, Join, Stop, Terminate, vars, IInv, TypeOK
  <2>4. ASSUME NEW t \in Caller, Push(t) PROVE Accounted'
    <3>1. Started' = Started
      BY <2>4 DEF Push, Started, IInv, TypeOK
    <3> QED
      BY <2>4, <3>1 DEF Push, Accounted
  <2>5. ASSUME NEW t \in Caller, NotifyOne(t) PROVE Accounted'
    BY <2>1, <2>5 DEF NotifyOne, Goto, At, IInv, TypeOK
  <2>6. ASSUME NEW w \in Worker, Wait(w) \/ Leave(w) \/ WakeUp(w) PROVE Accounted'
    BY <2>1, <2>6 DEF Wait, Leave, WakeUp, Goto, IInv, TypeOK
  <2>7. ASSUME NEW w \in Worker, Take(w) PROVE Accounted'
    <3>1. tasks # <<>> /\ pc[w] = "ready"
      BY <2>7 DEF Take, Awake, MayLeave
    <3>2. Len(tasks) \in Nat \ {0} /\ Len(tasks') = Len(tasks) - 1 /\ made \in Nat
      BY <2>7, <3>1 DEF Take, IInv, TypeOK
    <3>3. Started' = Started + 1 /\ Started \in Nat
      BY <2>7, <3>2 DEF Take, Started, IInv, InOrder
    <3>4. pc'[w] = "running" /\ task'[w] = Started'
      BY <2>7, <3>1, <3>2, <3>3 DEF Take, Goto, IInv, TypeOK, InOrder
    <3>5. \A v \in Worker : pc[v] = "running" => pc'[v] = "running" /\ task'[v] = task[v]
      BY <2>7, <3>1 DEF Take, Goto, IInv, TypeOK
    <3>6. \A t \in 1 .. Started' : t \in 1 .. Started \/ t = Started'
      BY <3>3
    <3> QED
      BY <2>7, <3>4, <3>5, <3>6 DEF Take, Accounted
  <2>8. ASSUME NEW w \in Worker, Finish(w) PROVE Accounted'
    <3>1. \A v \in Worker \ {w} : pc'[v] = pc[v] /\ task'[v] = task[v]
      BY <2>8 DEF Finish, Goto, IInv, TypeOK
    <3>2. Started' = Started /\ finished' = finished \cup {task[w]}
      BY <2>8 DEF Finish, Started
    <3> QED
      BY <3>1, <3>2 DEF Accounted
  <2> QED
    BY <2>2, <2>3, <2>4, <2>5, <2>6, <2>7, <2>8 DEF Next, Own, Step
<1> QED
  BY <1>1, <1>2

\* Both hold in every behaviour.
LEMMA AlwaysDrained == Spec => [](IInv /\ Accounted /\ Awoken)
<1>1. Init => Accounted /\ Awoken
  BY DEF Init, Accounted, Started, Awoken
<1> QED
  BY <1>1, NextDrained, AlwaysIInv, PTL DEF Spec

\* Once notify_all has been called no worker sleeps and none goes to sleep
\* again: nobody is left behind by the joins (thread_pool.cpp:28-31).
THEOREM NobodySleepsOn == Spec => [](phase \in {"joining", "joined"} => At("waiting") = {})
<1>1. Awoken => (phase \in {"joining", "joined"} => At("waiting") = {})
  BY DEF Awoken
<1> QED
  BY <1>1, AlwaysDrained, PTL

\* When the destructor returns every task that enqueue accepted has ended,
\* those that tasks submitted during the joins included (thread_pool.cpp:11, 23-32).
THEOREM DestructorDrains == Spec => [](phase = "joined" => finished = 1 .. made)
<1>1. IInv /\ Accounted => (phase = "joined" => finished = 1 .. made)
  <2> SUFFICES ASSUME IInv, Accounted, phase = "joined" PROVE finished = 1 .. made
    OBVIOUS
  <2>1. tasks = <<>> /\ \A w \in Worker : pc[w] # "running"
    BY DEF IInv, Departures
  <2>2. Started = made
    BY <2>1 DEF Started, IInv, TypeOK
  <2> QED
    BY <2>1, <2>2 DEF Accounted, IInv, InOrder
<1> QED
  BY <1>1, AlwaysDrained, PTL
=============================================================================
