----------------------------- MODULE ThreadPool -----------------------------
(***************************************************************************)
(* ThreadPool (core/thread_pool.h, core/thread_pool.cpp): its workers, its *)
(* constructor and destructor, and the threads that call enqueue, which    *)
(* may be workers too: a task may submit tasks.                            *)
(*                                                                         *)
(* What is done under queueMutex is one step.  notify_one and notify_all   *)
(* come after the unlock and are steps of their own.  The object outlives  *)
(* the calls of other threads: the destructor starts when none is in       *)
(* progress.  Tasks return or throw.                                       *)
(***************************************************************************)
EXTENDS Naturals, Sequences, FiniteSets

CONSTANTS
  NumThreads,  \* numThreads
  Client,      \* threads that use the pool
  NONE,        \* no task
  MaxTasks     \* bound: calls of enqueue

Worker == 1 .. NumThreads
Caller == Client \cup Worker
Task == 1 .. MaxTasks

\* A pool of no threads accepts tasks and never runs them.
ASSUME ThreadPoolAssumption ==
  /\ NumThreads \in Nat \ {0} /\ MaxTasks \in Nat
  /\ Client \cap Worker = {} /\ IsFiniteSet(Client)
  /\ NONE \notin Task

VARIABLES
  phase,      \* of the object: "new", "open", "stopping", "joining", "joined"
  spawned,    \* workers.size()
  tasks,      \* the queue; a task is the number of its enqueue
  stop,
  pc,         \* where each worker is; "waiting" is in condition.wait
  task,       \* what each worker runs
  notifying,  \* callers between the unlock of enqueue and notify_one
  made,       \* tasks enqueued so far
  finished    \* tasks that have returned

vars == <<phase, spawned, tasks, stop, pc, task, notifying, made, finished>>

TypeOK ==
  /\ phase \in {"new", "open", "stopping", "joining", "joined", "terminated"}
  /\ spawned \in 0 .. NumThreads
  /\ tasks \in Seq(Task) /\ stop \in BOOLEAN
  /\ pc \in [Worker -> {"unborn", "ready", "waiting", "running", "left"}]
  /\ task \in [Worker -> Task \cup {NONE}]
  /\ notifying \in SUBSET Caller
  /\ made \in 0 .. MaxTasks /\ finished \in SUBSET Task

Init ==
  /\ phase = "new" /\ spawned = 0
  /\ tasks = <<>> /\ stop = FALSE
  /\ pc = [w \in Worker |-> "unborn"] /\ task = [w \in Worker |-> NONE]
  /\ notifying = {} /\ made = 0 /\ finished = {}

At(l) == {w \in Worker : pc[w] = l}
Goto(w, l) == pc' = [pc EXCEPT ![w] = l]

-----------------------------------------------------------------------------
(* The constructor *)

MoreWorkers == spawned < NumThreads

\* A thread runs as soon as it is there.
Spawn ==
  /\ phase = "new" /\ MoreWorkers
  /\ spawned' = spawned + 1
  /\ Goto(spawned + 1, "ready")
  /\ UNCHANGED <<phase, tasks, stop, task, notifying, made, finished>>

Constructed ==
  /\ phase = "new" /\ ~MoreWorkers
  /\ phase' = "open"
  /\ UNCHANGED <<spawned, tasks, stop, pc, task, notifying, made, finished>>

-----------------------------------------------------------------------------
(* enqueue *)

MayCall(t) == IF t \in Client THEN phase = "open" ELSE pc[t] = "running"

\* Mutant of Notifier: the second of two tasks wakes nobody.
NotifierIfEmpty(t) == IF tasks = <<>> THEN {t} ELSE {}

Notifier(t) == {t}

Push(t) ==
  /\ MayCall(t) /\ t \notin notifying /\ made < MaxTasks
  /\ made' = made + 1
  /\ tasks' = Append(tasks, made + 1)
  /\ notifying' = notifying \cup Notifier(t)
  /\ UNCHANGED <<phase, spawned, stop, pc, task, finished>>

NotifyOne(t) ==
  /\ t \in notifying
  /\ notifying' = notifying \ {t}
  /\ IF At("waiting") = {}
     THEN UNCHANGED pc
     ELSE \E w \in At("waiting") : Goto(w, "ready")
  /\ UNCHANGED <<phase, spawned, tasks, stop, task, made, finished>>

-----------------------------------------------------------------------------
(* The workers *)

\* The predicate of the wait.
Awake == stop \/ tasks # <<>>

\* Mutant of MayLeave: what is still queued is dropped.
MayLeaveEarly == stop

MayLeave == stop /\ tasks = <<>>

Wait(w) ==
  /\ pc[w] = "ready" /\ ~Awake
  /\ Goto(w, "waiting")
  /\ UNCHANGED <<phase, spawned, tasks, stop, task, notifying, made, finished>>

\* A condition variable may wake up for no reason.
WakeUp(w) ==
  /\ pc[w] = "waiting"
  /\ Goto(w, "ready")
  /\ UNCHANGED <<phase, spawned, tasks, stop, task, notifying, made, finished>>

Leave(w) ==
  /\ pc[w] = "ready" /\ Awake /\ MayLeave
  /\ Goto(w, "left")
  /\ UNCHANGED <<phase, spawned, tasks, stop, task, notifying, made, finished>>

Take(w) ==
  /\ pc[w] = "ready" /\ Awake /\ ~MayLeave
  /\ task' = [task EXCEPT ![w] = Head(tasks)]
  /\ tasks' = Tail(tasks)
  /\ Goto(w, "running")
  /\ UNCHANGED <<phase, spawned, stop, notifying, made, finished>>

\* The task returns; it is not inside a call of enqueue then.
Finish(w) ==
  /\ pc[w] = "running" /\ w \notin notifying
  /\ finished' = finished \cup {task[w]}
  /\ task' = [task EXCEPT ![w] = NONE]
  /\ Goto(w, "ready")
  /\ UNCHANGED <<phase, spawned, tasks, stop, notifying, made>>

-----------------------------------------------------------------------------
(* The destructor *)

Stop ==
  /\ phase = "open" /\ notifying \cap Client = {}
  /\ phase' = "stopping" /\ stop' = TRUE
  /\ UNCHANGED <<spawned, tasks, pc, task, notifying, made, finished>>

\* Mutant of Woken: one worker is told, not all of them.
WokenOne == {w \in At("waiting") : \A v \in At("waiting") : w <= v}

Woken == At("waiting")

NotifyAll ==
  /\ phase = "stopping"
  /\ phase' = "joining"
  /\ pc' = [w \in Worker |-> IF w \in Woken THEN "ready" ELSE pc[w]]
  /\ UNCHANGED <<spawned, tasks, stop, task, notifying, made, finished>>

Join ==
  /\ phase = "joining" /\ At("left") = Worker
  /\ phase' = "joined"
  /\ UNCHANGED <<spawned, tasks, stop, pc, task, notifying, made, finished>>

\* A thread cannot be created, or a task throws: nobody catches it.
Terminate ==
  /\ (phase = "new" /\ MoreWorkers) \/ At("running") \ notifying # {}
  /\ phase' = "terminated"
  /\ UNCHANGED <<spawned, tasks, stop, pc, task, notifying, made, finished>>

-----------------------------------------------------------------------------

\* What a worker does of its own accord.
Step(w) == Wait(w) \/ Leave(w) \/ Take(w) \/ Finish(w)

\* The thread that owns the pool.
Own == Spawn \/ Constructed \/ NotifyAll \/ Join

Next ==
  /\ phase # "terminated"
  /\ \/ Own \/ Stop \/ Terminate
     \/ \E t \in Caller : Push(t) \/ NotifyOne(t)
     \/ \E w \in Worker : Step(w) \/ WakeUp(w)

Spec == Init /\ [][Next]_vars

Alive(A) == phase # "terminated" /\ A

\* Threads are scheduled and tasks end.  Nothing makes anybody call enqueue
\* or destroy the pool, and nobody counts on a spurious wake-up.
FairSpec ==
  /\ Spec
  /\ WF_vars(Alive(Own))
  /\ \A t \in Caller : WF_vars(Alive(NotifyOne(t)))
  /\ \A w \in Worker : WF_vars(Alive(Step(w)))

-----------------------------------------------------------------------------
(* Properties *)

\* As long as a worker sleeps, every queued task has a worker of its own that
\* is about to look at the queue, or a notification on its way.  notify_one
\* comes after the unlock (thread_pool.cpp:40), and a worker that is awake may
\* be quicker than the one it wakes.
WakeUpPerTask ==
  At("waiting") # {} => Len(tasks) <= Cardinality(At("ready")) + Cardinality(notifying)

\* The pool implements the queue of tasks its callers count on: tasks start in
\* order, each once, and the destructor returns when all have ended, those that
\* a task submitted after it was called included.
Queue == INSTANCE TaskQueue
  WITH queue <- tasks, running <- {task[w] : w \in At("running")},
       closed <- (phase = "joined")
ImplementsQueue == Queue!Spec

\* Every task that was enqueued returns, unless the program ends before.
EveryTaskRuns == \A t \in Task : made >= t ~> t \in finished \/ phase = "terminated"

\* The destructor returns: every worker notices, whatever it was doing.
DestructorReturns == phase = "stopping" ~> phase \in {"joined", "terminated"}
=============================================================================
