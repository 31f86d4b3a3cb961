---------------------------- MODULE KeyTableProofs ----------------------------
(***************************************************************************)
(* Proofs about KeyTable, for any processes, names, values and number of   *)
(* statements.  The history of won stores follows the rows: a row is there *)
(* exactly when one store won, because no step takes a row away.  The      *)
(* count of statements is inductive by itself.                             *)
(***************************************************************************)
EXTENDS KeyTable, TLAPS

RowsWon == \A n \in Name : won[n] = IF value[n] = NONE THEN 0 ELSE 1

IInv == TypeOK /\ RowsWon /\ StatementsAreLeft

-----------------------------------------------------------------------------

\* An empty table.
LEMMA InitIInv == Init => IInv
  BY TableAssumption DEF Init, IInv, TypeOK, RowsWon, StatementsAreLeft

\* The steps that leave the rows alone.
LEMMA CallInv ==
  ASSUME IInv, NEW p \in Proc,
         \/ Construct(p) \/ Prepare(p) \/ PrepareFails(p) \/ BindFails(p) \/ ExecuteFails(p)
         \/ GetKey(p) \/ Destroy(p) \/ Die(p)
  PROVE  IInv'
<1> USE TableAssumption DEF IInv, TypeOK, RowsWon, StatementsAreLeft, table, Return, LeaveBehind, Disconnect
<1>1. CASE Construct(p)
  BY <1>1 DEF Construct
<1>2. CASE Prepare(p)
  <2>1. PICK c \in Call : call' = [call EXCEPT ![p] = c]
    BY <1>2 DEF Prepare
  <2>2. stmts' \in [Proc -> 0 .. MaxStatements] /\ stmts'[p] > 0
    BY <1>2 DEF Prepare
  <2>3. StatementsAreLeft'
    <3>1. c # NONE
      BY <2>1
    <3> QED  BY <1>2, <2>1, <3>1 DEF Prepare
  <2>4. TypeOK'
    BY <1>2, <2>1, <2>2 DEF Prepare
  <2> QED  BY <1>2, <2>3, <2>4 DEF Prepare
<1>3. CASE PrepareFails(p)
  BY <1>3 DEF PrepareFails
<1>4. CASE BindFails(p)
  BY <1>4 DEF BindFails
<1>5. CASE ExecuteFails(p)
  BY <1>5 DEF ExecuteFails, Finalize
<1>6. CASE GetKey(p)
  <2>1. call[p] \in Call /\ call[p].name \in Name
    BY <1>6 DEF GetKey, Call
  <2>2. answer' \in [Proc -> Value \cup {NONE, OK, ERROR}]
    BY <1>6, <2>1 DEF GetKey, Found
  <2> QED  BY <1>6, <2>2 DEF GetKey
<1>7. CASE Destroy(p)
  BY <1>7 DEF Destroy
<1>8. CASE Die(p)
  BY <1>8 DEF Die
<1> QED  BY <1>1, <1>2, <1>3, <1>4, <1>5, <1>6, <1>7, <1>8

\* The steps that change a row.
LEMMA WriteInv ==
  ASSUME IInv, NEW p \in Proc, StoreKey(p) \/ UpdateKey(p) \/ RemoveKey(p)
  PROVE  IInv'
<1> DEFINE c == call[p]
<1> USE TableAssumption DEF IInv
<1>1. c \in Call /\ c.name \in Name /\ c.value \in Value
  BY DEF StoreKey, UpdateKey, RemoveKey, TypeOK, Call
<1>2. /\ stmts' \in [Proc -> 0 .. MaxStatements] /\ call' = [call EXCEPT ![p] = NONE]
      /\ answer' = [answer EXCEPT ![p] = OK] /\ UNCHANGED <<live, conn>>
      /\ stmts' = [stmts EXCEPT ![p] = @ - 1] /\ UNCHANGED left
  <2>1. stmts[p] > 0 /\ stmts' = [stmts EXCEPT ![p] = @ - 1] /\ UNCHANGED left
    BY <1>1 DEF StoreKey, UpdateKey, RemoveKey, Finalize, TypeOK
  <2>2. stmts' \in [Proc -> 0 .. MaxStatements]
    BY <2>1 DEF TypeOK
  <2> QED  BY <2>1, <2>2 DEF StoreKey, UpdateKey, RemoveKey, Return
<1>3. /\ call' \in [Proc -> Call \cup {NONE}] /\ answer' \in [Proc -> Value \cup {NONE, OK, ERROR}]
      /\ \A q \in Proc : call'[q] # NONE => stmts'[q] > 0
  BY <1>2 DEF TypeOK
<1>4. /\ value' \in [Name -> Value \cup {NONE}] /\ active' \in [Name -> BOOLEAN]
      /\ won' \in [Name -> Nat] /\ RowsWon'
  <2>1. CASE StoreKey(p)
    BY <1>1, <2>1 DEF StoreKey, HasRow, TypeOK, RowsWon
  <2>2. CASE UpdateKey(p)
    BY <1>1, <2>2 DEF UpdateKey, Renewed, TypeOK, RowsWon
  <2>3. CASE RemoveKey(p)
    BY <1>1, <2>3 DEF RemoveKey, HasRow, TypeOK, RowsWon
  <2> QED  BY <2>1, <2>2, <2>3
<1>5. StatementsAreLeft'
  <2>1. c # NONE
    BY DEF StoreKey, UpdateKey, RemoveKey
  <2>2. SUFFICES ASSUME NEW q \in Proc
                 PROVE  stmts'[q] = left'[q] + (IF call'[q] = NONE THEN 0 ELSE 1)
    BY DEF StatementsAreLeft
  <2>3. stmts[q] = left[q] + (IF call[q] = NONE THEN 0 ELSE 1)
    BY DEF StatementsAreLeft
  <2> QED  BY <1>2, <2>1, <2>3 DEF TypeOK
<1>6. TypeOK'
  BY <1>2, <1>3, <1>4 DEF TypeOK
<1> QED  BY <1>4, <1>5, <1>6

\* The invariant is inductive.
LEMMA NextIInv == IInv /\ [Next]_vars => IInv'
<1> SUFFICES ASSUME IInv, [Next]_vars PROVE IInv'
  OBVIOUS
<1>1. CASE UNCHANGED vars
  BY <1>1 DEF vars, table, IInv, TypeOK, RowsWon, StatementsAreLeft
<1> QED  BY <1>1, CallInv, WriteInv DEF Next

\* The invariant holds always.
LEMMA Invariance == Spec => []IInv
  BY InitIInv, NextIInv, PTL DEF Spec

\* Types; a call in progress has its statement, so finalizing one never hits
\* the statement of another call (5thdsql.cpp:130).
THEOREM TableTypes == Spec => []TypeOK
  BY Invariance, PTL DEF IInv

\* Of all stores of a name at most one is told Ok (keys_db.cpp:144).
THEOREM OneStoreAlwaysWins == Spec => []OneStoreWins
<1>1. IInv => OneStoreWins
  BY DEF IInv, RowsWon, OneStoreWins
<1> QED  BY <1>1, Invariance, PTL

\* What a step does to the row of a name.
LEMMA RemovedStays ==
  ASSUME IInv, [Next]_vars, NEW n \in Name, Removed(n)
  PROVE  Removed(n)'
<1> USE DEF Removed
<1>1. CASE UNCHANGED table
  BY <1>1 DEF table
<1>2. ASSUME NEW p \in Proc, StoreKey(p) \/ UpdateKey(p) \/ RemoveKey(p)
      PROVE  value'[n] # NONE /\ ~active'[n]
  <2>1. call[p].name \in Name /\ call[p].value \in Value
    BY <1>2 DEF StoreKey, UpdateKey, RemoveKey, IInv, TypeOK, Call
  <2>2. CASE StoreKey(p)
    BY <2>1, <2>2 DEF StoreKey, HasRow, IInv, TypeOK
  <2>3. CASE UpdateKey(p)
    BY <2>1, <2>3, TableAssumption DEF UpdateKey, Renewed, IInv, TypeOK
  <2>4. CASE RemoveKey(p)
    BY <2>1, <2>4 DEF RemoveKey, HasRow, IInv, TypeOK
  <2> QED  BY <1>2, <2>2, <2>3, <2>4
<1>3. CASE UNCHANGED vars
  BY <1>1, <1>3 DEF vars
<1>4. ASSUME NEW p \in Proc,
             \/ Construct(p) \/ Prepare(p) \/ PrepareFails(p) \/ BindFails(p)
             \/ ExecuteFails(p) \/ GetKey(p) \/ Destroy(p) \/ Die(p)
      PROVE  UNCHANGED table
  BY <1>4 DEF Construct, Prepare, PrepareFails, BindFails, ExecuteFails, GetKey, Destroy, Die
<1> QED  BY <1>1, <1>2, <1>3, <1>4 DEF Next

\* A removed key stays removed (keys_db.cpp:231).
THEOREM RemovedIsAlwaysFinal == Spec => RemovedIsFinal
<1>1. IInv /\ [Next]_vars => [\A n \in Name : Removed(n) => Removed(n)']_vars
  BY RemovedStays
<1> QED  BY <1>1, Invariance, PTL DEF Spec, RemovedIsFinal

\* A connection holds the statements its gets and failed binds left, and no
\* others (5thdsql.cpp:226).
THEOREM StatementsAreAlwaysLeft == Spec => []StatementsAreLeft
  BY Invariance, PTL DEF IInv

-----------------------------------------------------------------------------
(* KeyTable implements KeyRegister *)

Reg == [n \in Name |-> IF Removed(n) THEN DEAD ELSE value[n]]

\* The registers change with the rows only.
LEMMA SameTable == UNCHANGED table => Reg' = Reg
  BY DEF table, Reg, Removed

\* A call in progress has a name and a value.
LEMMA CallFacts ==
  ASSUME IInv, NEW p \in Proc, call[p] # NONE
  PROVE  call[p] \in Call /\ call[p].name \in Name /\ call[p].value \in Value
  BY DEF IInv, TypeOK, Call

\* What a register is, in terms of the row.
LEMMA RegFacts ==
  ASSUME IInv, NEW n \in Name
  PROVE  /\ Reg[n] = NONE <=> value[n] = NONE
         /\ Reg[n] \in Value <=> (value[n] # NONE /\ active[n])
         /\ Reg[n] \in Value => Reg[n] = value[n]
  BY TableAssumption DEF IInv, TypeOK, Reg, Removed

\* store_key sets a register that was never set (keys_db.cpp:144).
LEMMA StoreRefines ==
  ASSUME IInv, NEW p \in Proc, StoreKey(p)
  PROVE  Register!Succeed(p)
<1> DEFINE c == call[p]
<1>1. c # NONE /\ c.op = "store" /\ value[c.name] = NONE
  BY DEF StoreKey, HasRow
<1>2. c.name \in Name /\ c.value \in Value
  BY <1>1, CallFacts
<1>3. Reg[c.name] = NONE
  BY <1>1, <1>2, RegFacts
<1>4. Reg' = [Reg EXCEPT ![c.name] = c.value]
  BY <1>1, <1>2, TableAssumption DEF StoreKey, IInv, TypeOK, Reg, Removed
<1>5. Register!After(c) = c.value /\ Register!Told(c) = OK
  BY <1>1, <1>3 DEF Register!After, Register!Told, Register!Alive, Reg
<1> QED  BY <1>1, <1>4, <1>5 DEF StoreKey, Return, Register!Succeed, Reg

\* update_key changes a living register, and a dead one not at all.
LEMMA UpdateRefines ==
  ASSUME IInv, NEW p \in Proc, UpdateKey(p)
  PROVE  Register!Succeed(p)
<1> DEFINE c == call[p]
<1>1. c # NONE /\ c.op = "update"
  BY DEF UpdateKey
<1>2. c.name \in Name /\ c.value \in Value
  BY <1>1, CallFacts
<1>3. CASE Reg[c.name] \in Value
  <2>1. Reg' = [Reg EXCEPT ![c.name] = c.value]
    BY <1>1, <1>2, <1>3, RegFacts, TableAssumption
       DEF UpdateKey, Renewed, IInv, TypeOK, Reg, Removed
  <2>2. Register!After(c) = c.value /\ Register!Told(c) = OK
    BY <1>1, <1>3 DEF Register!After, Register!Told, Register!Alive, Reg
  <2> QED  BY <1>1, <2>1, <2>2 DEF UpdateKey, Return, Register!Succeed, Reg
<1>4. CASE Reg[c.name] \notin Value
  <2>1. Reg' = Reg
    BY <1>1, <1>2, <1>4, RegFacts, TableAssumption
       DEF UpdateKey, Renewed, IInv, TypeOK, Reg, Removed
  <2>2. Register!After(c) = Reg[c.name] /\ Register!Told(c) = OK
    BY <1>1, <1>4 DEF Register!After, Register!Told, Register!Alive, Reg
  <2>3. Reg = [Reg EXCEPT ![c.name] = Reg[c.name]]
    BY <1>2 DEF Reg
  <2> QED  BY <1>1, <2>1, <2>2, <2>3 DEF UpdateKey, Return, Register!Succeed, Reg
<1> QED  BY <1>3, <1>4

\* remove_key lets a living register die (keys_db.cpp:228).
LEMMA RemoveRefines ==
  ASSUME IInv, NEW p \in Proc, RemoveKey(p)
  PROVE  Register!Succeed(p)
<1> DEFINE c == call[p]
<1>1. c # NONE /\ c.op = "remove"
  BY DEF RemoveKey
<1>2. c.name \in Name
  BY <1>1, CallFacts
<1>3. CASE Reg[c.name] \in Value
  <2>1. Reg' = [Reg EXCEPT ![c.name] = DEAD]
    BY <1>1, <1>2, <1>3, RegFacts, TableAssumption
       DEF RemoveKey, HasRow, IInv, TypeOK, Reg, Removed
  <2>2. Register!After(c) = DEAD /\ Register!Told(c) = OK
    BY <1>1, <1>3 DEF Register!After, Register!Told, Register!Alive, Reg
  <2> QED  BY <1>1, <2>1, <2>2 DEF RemoveKey, Return, Register!Succeed, Reg
<1>4. CASE Reg[c.name] \notin Value
  <2>1. Reg' = Reg
    BY <1>1, <1>2, <1>4, RegFacts, TableAssumption
       DEF RemoveKey, HasRow, IInv, TypeOK, Reg, Removed
  <2>2. Register!After(c) = Reg[c.name] /\ Register!Told(c) = OK
    BY <1>1, <1>4 DEF Register!After, Register!Told, Register!Alive, Reg
  <2>3. Reg = [Reg EXCEPT ![c.name] = Reg[c.name]]
    BY <1>2 DEF Reg
  <2> QED  BY <1>1, <2>1, <2>2, <2>3 DEF RemoveKey, Return, Register!Succeed, Reg
<1> QED  BY <1>3, <1>4

\* get_key answers with what is in the register.
LEMMA GetRefines ==
  ASSUME IInv, NEW p \in Proc, GetKey(p)
  PROVE  Register!Succeed(p)
<1> DEFINE c == call[p]
<1>1. c # NONE /\ c.op = "get" /\ UNCHANGED table
  BY DEF GetKey
<1>2. c.name \in Name
  BY <1>1, CallFacts
<1>3. Found(c.name) <=> Reg[c.name] \in Value
  BY <1>2, RegFacts DEF Found
<1>4. Register!After(c) = Reg[c.name]
  BY <1>1 DEF Register!After, Register!Alive, Reg
<1>5. Register!Told(c) = IF Found(c.name) THEN value[c.name] ELSE ERROR
  BY <1>1, <1>2, <1>3, RegFacts DEF Register!Told, Register!Alive, Reg
<1>6. Reg' = [Reg EXCEPT ![c.name] = Reg[c.name]]
  BY <1>1, <1>2, SameTable DEF Reg
<1> QED  BY <1>1, <1>4, <1>5, <1>6 DEF GetKey, Return, Register!Succeed, Reg

\* Every call acts on its register at one moment or fails without effect
\* (keys_db.cpp:105-254).
THEOREM TableImplementsRegister == Spec => ImplementsRegister
<1>1. Init => Register!Init
  BY DEF Init, Register!Init, Removed
<1>2. IInv /\ [Next]_vars => [Register!Next]_Register!vars
  <2> SUFFICES ASSUME IInv, [Next]_vars PROVE [Register!Next]_Register!vars
    OBVIOUS
  <2>1. CASE UNCHANGED vars
    BY <2>1, SameTable DEF vars, Reg, Register!vars
  <2>2. ASSUME NEW p \in Proc, Construct(p) \/ Destroy(p)
        PROVE  UNCHANGED Register!vars
    BY <2>2, SameTable DEF Construct, Destroy, Reg, Register!vars
  <2>3. ASSUME NEW p \in Proc, Prepare(p) PROVE Register!Next
    <3>1. PICK c \in Call : call' = [call EXCEPT ![p] = c]
      BY <2>3 DEF Prepare
    <3>2. Register!Begin(p, c) /\ c \in Register!Call
      BY <2>3, <3>1, SameTable
         DEF Prepare, Reg, Register!Begin, Call, Op, Register!Call, Register!Op
    <3> QED  BY <3>2 DEF Register!Next
  <2>4. ASSUME NEW p \in Proc, PrepareFails(p) \/ BindFails(p) \/ ExecuteFails(p)
        PROVE  Register!Next
    <3>1. Register!Fail(p)
      BY <2>4, SameTable
         DEF PrepareFails, BindFails, ExecuteFails, Return, Reg, Register!Fail
    <3> QED  BY <3>1 DEF Register!Next
  <2>5. ASSUME NEW p \in Proc, StoreKey(p) \/ UpdateKey(p) \/ RemoveKey(p) \/ GetKey(p)
        PROVE  Register!Next
    BY <2>5, StoreRefines, UpdateRefines, RemoveRefines, GetRefines DEF Register!Next
  <2>6. ASSUME NEW p \in Proc, Die(p) PROVE Register!Next
    <3>1. Register!Forget(p)
      BY <2>6, SameTable DEF Die, Return, Reg, Register!Forget
    <3> QED  BY <3>1 DEF Register!Next
  <2> QED  BY <2>1, <2>2, <2>3, <2>4, <2>5, <2>6 DEF Next
<1> QED  BY <1>1, <1>2, Invariance, PTL DEF Spec, ImplementsRegister, Register!Spec
=============================================================================
