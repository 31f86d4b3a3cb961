----------------------------- MODULE ProcManager -----------------------------
(***************************************************************************)
(* UnixProcessManager (core/proc_unix.h): a map from names to process ids, *)
(* one thread that starts and stops processes through it, and the table of *)
(* processes of the machine, in which others start and end processes too.  *)
(*                                                                         *)
(* The manager never waits for a child, so a child that ended stays in the *)
(* table and its id is not given to anybody else.                          *)
(***************************************************************************)
EXTENDS Naturals

CONSTANTS
  Name, Pid,
  NIL     \* no process

ASSUME ManagerAssumption == NIL \notin Pid

VARIABLES
  processes,  \* _processes
  table,      \* what has each id: nobody, a child of the manager, a child
              \* that ended, a process of somebody else
  signalled,  \* ids stop_proc sent SIGTERM to
  stopping,   \* inside stop_all
  latest,     \* history: the last process started under each name
  startedAs   \* history: the name each process was started under

managerVars == <<processes, table, signalled, stopping, latest, startedAs>>

ManagerTypeOK ==
  /\ processes \in [Name -> Pid \cup {NIL}]
  /\ table \in [Pid -> {"free", "child", "zombie", "stranger"}]
  /\ signalled \subseteq Pid
  /\ stopping \in BOOLEAN
  /\ latest \in [Name -> Pid \cup {NIL}]
  /\ startedAs \in [Pid -> Name \cup {NIL}]

ManagerInit ==
  /\ processes = [n \in Name |-> NIL] /\ table = [p \in Pid |-> "free"]
  /\ signalled = {} /\ stopping = FALSE
  /\ latest = [n \in Name |-> NIL] /\ startedAs = [p \in Pid |-> NIL]

-----------------------------------------------------------------------------

\* Mutant of Recorded: a name keeps its first process.
RecordedOnce(n, p) ==
  processes' = [processes EXCEPT ![n] = IF @ = NIL THEN p ELSE @]

Recorded(n, p) == processes' = [processes EXCEPT ![n] = p]

\* fork gives the child any id that is free.
StartProc(n) ==
  /\ ~stopping
  /\ \E p \in Pid :
       /\ table[p] = "free"
       /\ table' = [table EXCEPT ![p] = "child"]
       /\ Recorded(n, p)
       /\ latest' = [latest EXCEPT ![n] = p]
       /\ startedAs' = [startedAs EXCEPT ![p] = n]
  /\ UNCHANGED <<signalled, stopping>>

\* Mutant of Killed: stop_all forgets the processes it does not stop.
KilledUnlessAll(n) ==
  signalled' = IF stopping THEN signalled ELSE signalled \cup {processes[n]}

\* The signal is sent whether the process runs or not.
Killed(n) == signalled' = signalled \cup {processes[n]}

\* Mutant of Unrecorded: the record of a process that was stopped stays.
UnrecordedNot(n) == UNCHANGED processes

Unrecorded(n) == processes' = [processes EXCEPT ![n] = NIL]

Recalled(n) == processes[n] # NIL

Stopped(n) == Recalled(n) /\ Killed(n) /\ Unrecorded(n)

StopProc(n) ==
  /\ ~stopping /\ Stopped(n)
  /\ UNCHANGED <<table, stopping, latest, startedAs>>

\* stop_all takes the first record until there is none; processes start and
\* end between two rounds.
StopAll ==
  /\ ~stopping /\ stopping' = TRUE
  /\ UNCHANGED <<processes, table, signalled, latest, startedAs>>

StopNext ==
  /\ stopping /\ \E n \in Name : Stopped(n)
  /\ UNCHANGED <<table, stopping, latest, startedAs>>

AllStopped ==
  /\ stopping /\ \A n \in Name : processes[n] = NIL
  /\ stopping' = FALSE
  /\ UNCHANGED <<processes, table, signalled, latest, startedAs>>

\* Mutant of WhenEnded: the children are waited for.
WhenEndedReaped == "free"

\* What the table keeps of a child that ended.
WhenEnded == "zombie"

\* A child ends, of the signal or of itself; a failed exec ends it at once.
End(p) ==
  /\ table[p] = "child"
  /\ table' = [table EXCEPT ![p] = WhenEnded]
  /\ UNCHANGED <<processes, signalled, stopping, latest, startedAs>>

\* Processes of others come and go.
OtherProcess(p) ==
  /\ \/ table[p] = "free" /\ table' = [table EXCEPT ![p] = "stranger"]
     \/ table[p] = "stranger" /\ table' = [table EXCEPT ![p] = "free"]
  /\ UNCHANGED <<processes, signalled, stopping, latest, startedAs>>

ManagerNext ==
  \/ \E n \in Name : StartProc(n) \/ StopProc(n)
  \/ StopAll \/ StopNext \/ AllStopped
  \/ \E p \in Pid : End(p) \/ OtherProcess(p)

ManagerSpec == ManagerInit /\ [][ManagerNext]_managerVars

\* A stop_all that was called goes on; nothing is assumed of anybody else.
FairManagerSpec == ManagerSpec /\ WF_managerVars(StopNext \/ AllStopped)

-----------------------------------------------------------------------------
(* Properties *)

\* The map may name a process that ended long ago, and stop_proc signals what
\* the map names without looking (proc_unix.h:34).  It is never the process
\* of somebody else, and never one that was signalled before or is named twice.
OnlyOwnSignalled ==
  \A n \in Name : processes[n] # NIL =>
    /\ table[processes[n]] \in {"child", "zombie"}
    /\ processes[n] \notin signalled
    /\ \A m \in Name \ {n} : processes[m] # processes[n]

\* A child that runs can be stopped or was told to stop, unless another one
\* was started under its name (proc_unix.h:24), whose record took the place of its own.
OutOfReach(p) == p \notin signalled /\ \A n \in Name : processes[n] # p
RunningAreKnown ==
  \A p \in Pid : table[p] = "child" /\ OutOfReach(p) => latest[startedAs[p]] # p

\* When stop_all returns, every child that was not replaced under its name
\* has had its signal (proc_unix.h:42).
StopAllReaches ==
  [][stopping /\ ~stopping'
       => \A p \in Pid : table[p] = "child" /\ latest[startedAs[p]] = p
                           => p \in signalled]_managerVars

\* stop_all returns, although it starts again at the first record in every
\* round (proc_unix.h:45) and its children may end meanwhile.
StopAllEnds == stopping ~> ~stopping
=============================================================================
