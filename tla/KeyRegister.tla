----------------------------- MODULE KeyRegister -----------------------------
(***************************************************************************)
(* What the calls of core/keys_db.cpp promise to the processes that share  *)
(* the file: every key is a register that is set once, changed while it is *)
(* alive and dead for ever when it was removed.  A call may fail without   *)
(* an effect; else it acts at one moment between its start and its end.    *)
(***************************************************************************)
EXTENDS Naturals

CONSTANTS Proc, Name, Value, NONE, DEAD, OK, ERROR

VARIABLES
  reg,    \* for each name NONE, a value or DEAD
  call,   \* the call each process is in, or NONE
  answer  \* what its last call returned

vars == <<reg, call, answer>>

Op == {"store", "update", "get", "remove"}
Call == [op : Op, name : Name, value : Value]

Init ==
  /\ reg = [n \in Name |-> NONE]
  /\ call = [p \in Proc |-> NONE] /\ answer = [p \in Proc |-> NONE]

Begin(p, c) ==
  /\ call[p] = NONE
  /\ call' = [call EXCEPT ![p] = c]
  /\ UNCHANGED <<reg, answer>>

Alive(n) == reg[n] \in Value

\* What a register makes of a call, and what the caller is told.
After(c) ==
  CASE c.op = "store" /\ reg[c.name] = NONE -> c.value
    [] c.op = "update" /\ Alive(c.name) -> c.value
    [] c.op = "remove" /\ Alive(c.name) -> DEAD
    [] OTHER -> reg[c.name]

Told(c) ==
  CASE c.op = "store" -> IF reg[c.name] = NONE THEN OK ELSE ERROR
    [] c.op = "get" -> IF Alive(c.name) THEN reg[c.name] ELSE ERROR
    [] OTHER -> OK

Succeed(p) ==
  /\ call[p] # NONE
  /\ reg' = [reg EXCEPT ![call[p].name] = After(call[p])]
  /\ answer' = [answer EXCEPT ![p] = Told(call[p])]
  /\ call' = [call EXCEPT ![p] = NONE]

Fail(p) ==
  /\ answer' = [answer EXCEPT ![p] = ERROR]
  /\ call' = [call EXCEPT ![p] = NONE]
  /\ UNCHANGED reg

\* A process ends and forgets.
Forget(p) ==
  /\ answer' = [answer EXCEPT ![p] = NONE]
  /\ call' = [call EXCEPT ![p] = NONE]
  /\ UNCHANGED reg

Next ==
  \E p \in Proc : (\E c \in Call : Begin(p, c)) \/ Succeed(p) \/ Fail(p) \/ Forget(p)

Spec == Init /\ [][Next]_vars
=============================================================================
