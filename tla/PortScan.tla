------------------------------- MODULE PortScan -------------------------------
(***************************************************************************)
(* is_port_available (core/net_helpers.cpp): processes of one machine that *)
(* look for a free port by binding one after the other, while others take  *)
(* ports and give them back.                                               *)
(***************************************************************************)
EXTENDS Integers

CONSTANTS
  Process, OTHERS,  \* who scans; somebody else
  NONE,
  MaxPort,         \* the ports are 1 .. MaxPort
  Limit,           \* the last port a scan goes on to (7110)
  MaxFiles         \* descriptors a process may have open for its sockets

ASSUME ScanAssumption ==
  /\ OTHERS \notin Process /\ NONE \notin Process \cup {OTHERS} \cup Nat
  /\ MaxPort \in Nat /\ Limit \in 1 .. MaxPort /\ MaxFiles \in Nat \ {0}

Port == 1 .. MaxPort

VARIABLES
  holder,    \* whose socket each port is bound to
  scan,      \* _port of the scan of a process, NONE outside
  returned,  \* what its last call returned, NONE before the first
  files,     \* sockets a process has open
  failed     \* history: calls that opened a socket and found no port

scanVars == <<holder, scan, returned, files, failed>>

Bound(c) == scan[c] \in Port /\ holder[scan[c]] = c

ScanTypeOK ==
  /\ holder \in [Port -> Process \cup {OTHERS, NONE}]
  /\ scan \in [Process -> Port \cup {NONE}]
  /\ returned \in [Process -> Port \cup {-1, NONE}]
  /\ files \in [Process -> 0 .. MaxFiles]
  /\ failed \in [Process -> Nat]

ScanInit ==
  /\ holder = [p \in Port |-> NONE]
  /\ scan = [c \in Process |-> NONE] /\ returned = [c \in Process |-> NONE]
  /\ files = [c \in Process |-> 0] /\ failed = [c \in Process |-> 0]

-----------------------------------------------------------------------------

\* The callers pass a port, so htons keeps it.
Open(c, p) ==
  /\ scan[c] = NONE /\ files[c] < MaxFiles
  /\ scan' = [scan EXCEPT ![c] = p]
  /\ files' = [files EXCEPT ![c] = @ + 1]
  /\ returned' = [returned EXCEPT ![c] = NONE]
  /\ UNCHANGED <<holder, failed>>

OpenFails(c) ==
  /\ scan[c] = NONE
  /\ returned' = [returned EXCEPT ![c] = -1]
  /\ UNCHANGED <<holder, scan, files, failed>>

Bind(c) ==
  /\ scan[c] # NONE /\ holder[scan[c]] = NONE
  /\ holder' = [holder EXCEPT ![scan[c]] = c]
  /\ UNCHANGED <<scan, returned, files, failed>>

\* Mutant of Following: the same port again.
FollowingSame(p) == p

Following(p) == p + 1

GoesOn(p) == Following(p) <= Limit

\* bind may fail for a port that is free too, one the process may not have.
BindFails(c) ==
  /\ scan[c] # NONE /\ ~Bound(c) /\ GoesOn(scan[c])
  /\ scan' = [scan EXCEPT ![c] = Following(@)]
  /\ UNCHANGED <<holder, returned, files, failed>>

\* The return in the loop leaves the socket open.
NoPort(c) ==
  /\ scan[c] # NONE /\ ~Bound(c) /\ ~GoesOn(scan[c])
  /\ scan' = [scan EXCEPT ![c] = NONE]
  /\ returned' = [returned EXCEPT ![c] = -1]
  /\ failed' = [failed EXCEPT ![c] = @ + 1]
  /\ UNCHANGED <<holder, files>>

\* Mutant of Closed: the socket of a port that was found stays open.
ClosedNot(c) == UNCHANGED <<holder, files>>

Closed(c) ==
  /\ holder' = [holder EXCEPT ![scan[c]] = NONE]
  /\ files' = [files EXCEPT ![c] = @ - 1]

\* The socket is closed before the port is returned: it is free again.
Close(c) ==
  /\ Bound(c) /\ Closed(c)
  /\ scan' = [scan EXCEPT ![c] = NONE]
  /\ returned' = [returned EXCEPT ![c] = scan[c]]
  /\ UNCHANGED failed

\* Others bind ports, those that were just returned too, and release them.
OtherPort(p) ==
  /\ \/ holder[p] = NONE /\ holder' = [holder EXCEPT ![p] = OTHERS]
     \/ holder[p] = OTHERS /\ holder' = [holder EXCEPT ![p] = NONE]
  /\ UNCHANGED <<scan, returned, files, failed>>

Step(c) == Bind(c) \/ BindFails(c) \/ NoPort(c) \/ Close(c)

ScanNext ==
  \/ \E c \in Process : Step(c) \/ OpenFails(c) \/ \E p \in Port : Open(c, p)
  \/ \E p \in Port : OtherPort(p)

ScanSpec == ScanInit /\ [][ScanNext]_scanVars

\* Every process is scheduled; nothing is assumed of calls and of others.
FairScanSpec == ScanSpec /\ \A c \in Process : WF_scanVars(Step(c))

-----------------------------------------------------------------------------
(* Properties *)

\* A scan that finds a port leaves no socket behind, one that finds none
\* leaves one (net_helpers.cpp:136): the descriptors of a process are exactly
\* its failed scans and the one that runs, and at the limit it only gets -1.
SocketsAreFailures ==
  \A c \in Process :
    /\ files[c] = failed[c] + (IF scan[c] = NONE THEN 0 ELSE 1)
    /\ failed[c] = MaxFiles => returned[c] = -1

\* Every call returns, although others may take each port just before it is
\* tried: the ports run out.
ScanEnds == \A c \in Process : scan[c] # NONE ~> scan[c] = NONE
=============================================================================
