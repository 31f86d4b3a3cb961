------------------------------- MODULE KeyTable -------------------------------
(***************************************************************************)
(* The table of keys (core/keys_db.cpp) and the statements behind it       *)
(* (core/5thdsql.cpp), for processes that share one file, outside of the   *)
(* transaction of the module start, which is in KeyStore.                  *)
(*                                                                         *)
(* A call prepares a statement, binds its parameters, and steps it; other  *)
(* processes work on the table in between, and each of the three may fail. *)
(* What SQLite does in a step is atomic.  The columns a row is looked up   *)
(* by (module, type, name) are one Name.                                   *)
(***************************************************************************)
EXTENDS Naturals

CONSTANTS
  Proc, Name, Value,
  NONE, DEAD, OK, ERROR,
  MaxStatements  \* bound: statements of one connection

Op == {"store", "update", "get", "remove"}
Call == [op : Op, name : Name, value : Value]

ASSUME TableAssumption ==
  /\ NONE \notin Call
  /\ NONE \notin Value /\ DEAD \notin Value /\ OK \notin Value /\ ERROR \notin Value
  /\ DEAD # NONE /\ OK # NONE /\ ERROR # NONE /\ OK # ERROR
  /\ MaxStatements \in Nat \ {0}

VARIABLES
  value,   \* key_value of each row, NONE if there is no such row
  active,  \* its is_active
  live,    \* the process has a DatabaseAccess
  conn,    \* its _db is not null
  stmts,   \* statements of the connection that are not finalized
  call, answer,
  won,     \* history: how many stores of each name returned Ok
  left     \* history: how many calls of a connection ended without execute

table == <<value, active>>
vars == <<table, live, conn, stmts, call, answer, won, left>>

TypeOK ==
  /\ value \in [Name -> Value \cup {NONE}] /\ active \in [Name -> BOOLEAN]
  /\ live \in [Proc -> BOOLEAN] /\ conn \in [Proc -> BOOLEAN]
  /\ stmts \in [Proc -> 0 .. MaxStatements]
  /\ call \in [Proc -> Call \cup {NONE}]
  /\ answer \in [Proc -> Value \cup {NONE, OK, ERROR}]
  /\ won \in [Name -> Nat] /\ left \in [Proc -> Nat]
  /\ \A p \in Proc : call[p] # NONE => stmts[p] > 0

Init ==
  /\ value = [n \in Name |-> NONE] /\ active = [n \in Name |-> TRUE]
  /\ live = [p \in Proc |-> FALSE] /\ conn = [p \in Proc |-> FALSE]
  /\ stmts = [p \in Proc |-> 0]
  /\ call = [p \in Proc |-> NONE] /\ answer = [p \in Proc |-> NONE]
  /\ won = [n \in Name |-> 0] /\ left = [p \in Proc |-> 0]

-----------------------------------------------------------------------------

\* The constructor goes on without a connection when open fails.
Construct(p) ==
  /\ ~live[p]
  /\ live' = [live EXCEPT ![p] = TRUE]
  /\ conn' \in { conn, [conn EXCEPT ![p] = TRUE] }
  /\ UNCHANGED <<table, stmts, call, answer, won, left>>

Return(p, r) ==
  /\ answer' = [answer EXCEPT ![p] = r]
  /\ call' = [call EXCEPT ![p] = NONE]

\* Each call begins with prepare.
Prepare(p) ==
  /\ live[p] /\ call[p] = NONE
  /\ conn[p] /\ stmts[p] < MaxStatements
  /\ \E c \in Call : call' = [call EXCEPT ![p] = c]
  /\ stmts' = [stmts EXCEPT ![p] = @ + 1]
  /\ UNCHANGED <<table, live, conn, answer, won, left>>

PrepareFails(p) ==
  /\ live[p] /\ call[p] = NONE
  /\ Return(p, ERROR)
  /\ UNCHANGED <<table, live, conn, stmts, won, left>>

\* A call that ends without execute leaves its statement behind.
LeaveBehind(p) == left' = [left EXCEPT ![p] = @ + 1] /\ UNCHANGED stmts

\* Every call returns at once from a bind or a query that fails.
BindFails(p) ==
  /\ call[p] # NONE
  /\ LeaveBehind(p)
  /\ Return(p, ERROR)
  /\ UNCHANGED <<table, live, conn, won>>

\* Mutant of Finalize: execute returns its error before it finalizes.
FinalizeDone(p, rc) ==
  /\ stmts' = [stmts EXCEPT ![p] = IF rc = OK THEN @ - 1 ELSE @]
  /\ UNCHANGED left

\* execute finalizes whatever the step returned.
Finalize(p, rc) == stmts' = [stmts EXCEPT ![p] = @ - 1] /\ UNCHANGED left

ExecuteFails(p) ==
  /\ call[p] # NONE /\ call[p].op # "get"
  /\ Finalize(p, ERROR)
  /\ Return(p, ERROR)
  /\ UNCHANGED <<table, live, conn, won>>

HasRow(n) == value[n] # NONE

\* The UNIQUE constraint counts removed keys too.
StoreKey(p) ==
  LET c == call[p] IN
  /\ c # NONE /\ c.op = "store" /\ ~HasRow(c.name)
  /\ value' = [value EXCEPT ![c.name] = c.value]
  /\ active' = [active EXCEPT ![c.name] = TRUE]
  /\ won' = [won EXCEPT ![c.name] = @ + 1]
  /\ Finalize(p, OK)
  /\ Return(p, OK)
  /\ UNCHANGED <<live, conn>>

Renewed(n) == UNCHANGED active

\* Both updates change the row if there is one, and are Ok if there is none.
UpdateKey(p) ==
  LET c == call[p] IN
  /\ c # NONE /\ c.op = "update"
  /\ value' = [value EXCEPT ![c.name] = IF @ = NONE THEN NONE ELSE c.value]
  /\ Renewed(c.name)
  /\ Finalize(p, OK)
  /\ Return(p, OK)
  /\ UNCHANGED <<live, conn, won>>

RemoveKey(p) ==
  LET c == call[p] IN
  /\ c # NONE /\ c.op = "remove"
  /\ active' = [active EXCEPT ![c.name] = ~HasRow(c.name)]
  /\ Finalize(p, OK)
  /\ Return(p, OK)
  /\ UNCHANGED <<value, live, conn, won>>

\* Mutant of Found: the query does not ask for is_active.
FoundAny(n) == value[n] # NONE

Found(n) == value[n] # NONE /\ active[n]

\* query does not finalize.
GetKey(p) ==
  LET c == call[p] IN
  /\ c # NONE /\ c.op = "get"
  /\ LeaveBehind(p)
  /\ Return(p, IF Found(c.name) THEN value[c.name] ELSE ERROR)
  /\ UNCHANGED <<table, live, conn, won>>

\* The connection is gone, and its statements with it.
Disconnect(p) ==
  /\ live' = [live EXCEPT ![p] = FALSE] /\ conn' = [conn EXCEPT ![p] = FALSE]
  /\ stmts' = [stmts EXCEPT ![p] = 0] /\ left' = [left EXCEPT ![p] = 0]

\* The destructor: close finalizes every statement that is left, so that
\* sqlite3_close has nothing to refuse.
Destroy(p) ==
  /\ live[p] /\ call[p] = NONE
  /\ Disconnect(p)
  /\ UNCHANGED <<table, call, answer, won>>

\* The process is killed.
Die(p) ==
  /\ Disconnect(p)
  /\ Return(p, NONE)
  /\ UNCHANGED <<table, won>>

Next ==
  \E p \in Proc :
    \/ Construct(p) \/ Prepare(p) \/ PrepareFails(p) \/ BindFails(p) \/ ExecuteFails(p)
    \/ StoreKey(p) \/ UpdateKey(p) \/ RemoveKey(p) \/ GetKey(p)
    \/ Destroy(p) \/ Die(p)

Spec == Init /\ [][Next]_vars

-----------------------------------------------------------------------------
(* Properties *)

\* Whoever stores under one name, in whatever order, with removals and
\* failures in between: at most one of them is ever told Ok
\* (keys_db.cpp:144).  The module start relies on it.
OneStoreWins == \A n \in Name : won[n] <= 1

\* A key that was removed (keys_db.cpp:231) is never found or stored again,
\* also when an update of it, prepared before, returns Ok.
Removed(n) == value[n] # NONE /\ ~active[n]
RemovedIsFinal == [][\A n \in Name : Removed(n) => Removed(n)']_vars

\* The statements of a connection are those that its gets and failed binds
\* left behind (5thdsql.cpp:226), and the one of the call in progress: a step
\* that fails leaves none (5thdsql.cpp:130), no call frees that of another.
StatementsAreLeft ==
  \A p \in Proc : stmts[p] = left[p] + (IF call[p] = NONE THEN 0 ELSE 1)

\* The calls act as on registers that are set once and die when removed.
Register == INSTANCE KeyRegister WITH
  reg <- [n \in Name |-> IF Removed(n) THEN DEAD ELSE value[n]]

ImplementsRegister == Register!Spec
=============================================================================
