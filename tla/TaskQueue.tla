----------------------------- MODULE TaskQueue ------------------------------
(***************************************************************************)
(* What the callers of ThreadPool (core/thread_pool.cpp) count on: tasks   *)
(* start in the order they were submitted in, each of them once, and the   *)
(* pool is closed only when all of them have ended.  No threads, no lock   *)
(* and no wake-ups.                                                        *)
(***************************************************************************)
EXTENDS Sequences

CONSTANT Task

VARIABLES
  queue,     \* submitted tasks that have not started
  running,   \* tasks that have started and not ended
  finished,  \* tasks that have ended
  closed     \* the destructor has returned

vars == <<queue, running, finished, closed>>

Queued == {queue[i] : i \in DOMAIN queue}

Init == queue = <<>> /\ running = {} /\ finished = {} /\ closed = FALSE

Submit ==
  /\ ~closed
  /\ \E t \in Task \ (Queued \cup running \cup finished) : queue' = Append(queue, t)
  /\ UNCHANGED <<running, finished, closed>>

StartTask ==
  /\ queue # <<>>
  /\ queue' = Tail(queue)
  /\ running' = running \cup {Head(queue)}
  /\ UNCHANGED <<finished, closed>>

EndTask ==
  /\ \E t \in running : running' = running \ {t} /\ finished' = finished \cup {t}
  /\ UNCHANGED <<queue, closed>>

Close ==
  /\ queue = <<>> /\ running = {}
  /\ closed' = TRUE
  /\ UNCHANGED <<queue, running, finished>>

Next == Submit \/ StartTask \/ EndTask \/ Close

Spec == Init /\ [][Next]_vars
=============================================================================
