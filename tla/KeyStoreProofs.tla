--------------------------- MODULE KeyStoreProofs ---------------------------
(***************************************************************************)
(* What TLAPS proves of KeyStore, for any number of processes and starts.  *)
(*                                                                         *)
(* The promises about stored keys are not inductive: that a COMMIT         *)
(* replaces nothing follows from what was true when the rows were staged   *)
(* and from the write lock held ever since.  IInv adds what a transaction  *)
(* in progress knows (Drafts), what a ready process may rely on (Saved)    *)
(* and what a peer has read (LookedUp).                                    *)
(***************************************************************************)
EXTENDS KeyStore, TLAPS

\* A staged row is the process's own key, its place is free, and its process
\* holds the write lock; what is committed holds a private key.
Drafted(p) ==
  /\ pc[p] \in {"begin", "pub", "prv", "commit"} =>
       mem[p].prv # NONE /\ mem[p].pub = mem[p].prv
  /\ \A h \in Half : staged[p][h] # NONE =>
       writer = p /\ staged[p][h] = mem[p][h] /\ rows[ModuleOf(p)][h] = NONE
  /\ staged[p].pub # NONE => pc[p] \in {"prv", "commit"}
  /\ staged[p].prv # NONE <=> pc[p] = "commit"
Drafts == \A p \in Proc : Drafted(p)

\* A ready process is past _handle_keys, with the stored private key.
SavedBy(p) ==
  ready[p] =>
    /\ mem[p].prv # NONE
    /\ rows[ModuleOf(p)].prv = mem[p].prv
    /\ \/ pc[p] = "run"
       \/ want[p] = "server" /\ pc[p] \in {"check", "open", "schema", "readServer"}
Saved == \A p \in Proc : SavedBy(p)

\* What a peer found is still stored.
LookedUp == \A p \in Proc : server[p] # NONE => rows["ipcrout"].pub = server[p]

IInv == TypeOK /\ Drafts /\ PublicHasPrivate /\ Saved /\ OneReady /\ LookedUp

-----------------------------------------------------------------------------

\* Processes that are off and an empty file satisfy the invariant.
LEMMA InitIInv == Init => IInv
<1> SUFFICES ASSUME Init PROVE IInv
  OBVIOUS
<1> USE DEF Init
<1>1. NoPair \in Pair /\ \A h \in Half : NoPair[h] = NONE
  BY DEF Pair, NoPair
<1>2. TypeOK
  <2>1. pc \in [Proc -> PC] /\ want \in [Proc -> {"keys", "server"}]
    BY DEF PC
  <2>2. mem \in [Proc -> Pair] /\ staged \in [Proc -> Pair] /\ rows \in [Module -> Pair]
    BY <1>1
  <2>3. starts \in 0 .. MaxStarts /\ schema \in 0 .. SchemaSize
    BY KeyStoreAssumption DEF SchemaSize
  <2>4. step \in [Proc -> 0 .. SchemaSize] /\ server \in [Proc -> Key \cup {NONE}]
    BY DEF SchemaSize
  <2> QED
    BY <2>1, <2>2, <2>3, <2>4 DEF TypeOK
<1>3. Drafts
  BY <1>1 DEF Drafts, Drafted, Half
<1>4. PublicHasPrivate
  BY <1>1 DEF PublicHasPrivate, Half
<1>5. Saved /\ OneReady /\ LookedUp
  BY DEF Saved, SavedBy, OneReady, LookedUp
<1> QED
  BY <1>2, <1>3, <1>4, <1>5 DEF IInv

\* No step but a COMMIT touches the rows, and such a step keeps IInv if it
\* keeps what it says of its own process.
LEMMA OwnStep ==
  ASSUME IInv, TypeOK', UNCHANGED rows, NEW p \in Proc,
         Drafted(p)', SavedBy(p)',
         server'[p] \in {server[p], NONE, rows["ipcrout"].pub},
         ready'[p] => ready[p],
         writer # p => writer' = writer \/ writer = NONE,
         \A q \in Proc \ {p} :
           /\ pc'[q] = pc[q] /\ want'[q] = want[q] /\ mem'[q] = mem[q]
           /\ ready'[q] = ready[q] /\ server'[q] = server[q] /\ staged'[q] = staged[q]
  PROVE  IInv'
<1>1. Drafts'
  BY KeyStoreAssumption DEF IInv, TypeOK, Drafts, Drafted, Proc, Half
<1>2. PublicHasPrivate'
  BY DEF IInv, PublicHasPrivate
<1>3. Saved'
  BY DEF IInv, Saved, SavedBy
<1>4. OneReady'
  BY DEF IInv, OneReady
<1>5. LookedUp'
  BY DEF IInv, LookedUp
<1> QED
  BY <1>1, <1>2, <1>3, <1>4, <1>5 DEF IInv

-----------------------------------------------------------------------------
(* Types *)

\* The two ends a start can come to, shared by several steps.
LEMMA ExitTypes ==
  ASSUME TypeOK, NEW p \in Proc, Exit(p), file' \in BOOLEAN
  PROVE  TypeOK'
<1>1. NoPair \in Pair
  BY DEF Pair, NoPair
<1> QED
  BY <1>1, KeyStoreAssumption DEF TypeOK, PC, SchemaSize, Exit, Unlocked, Goto

\* A start that gives up its keys keeps the types.
LEMMA GiveUpTypes ==
  ASSUME TypeOK, NEW p \in Proc, GiveUp(p)
  PROVE  TypeOK'
<1>1. NoPair \in Pair
  BY DEF Pair, NoPair
<1> QED
  BY <1>1 DEF TypeOK, disk, PC, GiveUp, Leave, AfterKeys, ReadyAfter, Unlocked, Goto

\* Every step keeps the types of the state.
LEMMA TypeStep == TypeOK /\ [Next]_vars => TypeOK'
<1> SUFFICES ASSUME TypeOK, [Next]_vars PROVE TypeOK'
  OBVIOUS
<1>p. NoPair \in Pair
  BY DEF Pair, NoPair
<1>1. ASSUME NEW p \in Proc, CheckFile(p) PROVE TypeOK'
  BY <1>p, <1>1, KeyStoreAssumption
     DEF TypeOK, disk, PC, Pair, Half, Module, Key, SchemaSize, CheckFile, FileMissing, Goto
<1>2. ASSUME NEW p \in Proc, OpenFile(p) PROVE TypeOK'
  BY <1>p, <1>2, KeyStoreAssumption
     DEF TypeOK, disk, PC, Pair, Half, Module, Key, SchemaSize, OpenFile, Opened, Goto
<1>3. ASSUME NEW p \in Proc, OpenFails(p) PROVE TypeOK'
  <2>1. CASE fresh[p]
    BY <1>3, <2>1, ExitTypes DEF OpenFails, TypeOK
  <2>2. CASE ~fresh[p]
    BY <1>3, <2>2 DEF TypeOK, PC, OpenFails, Opened, Goto
  <2> QED
    BY <2>1, <2>2
<1>4. ASSUME NEW p \in Proc, RunStatement(p) PROVE TypeOK'
  BY <1>p, <1>4, KeyStoreAssumption
     DEF TypeOK, disk, PC, Pair, Half, Module, Key, SchemaSize, RunStatement, ScriptDone
<1>5. ASSUME NEW p \in Proc, EndScript(p) PROVE TypeOK'
  BY <1>p, <1>5, KeyStoreAssumption
     DEF TypeOK, disk, PC, Pair, Half, Module, Key, SchemaSize, EndScript, Opened, Goto
<1>6. ASSUME NEW p \in Proc, AbortScript(p) PROVE TypeOK'
  BY <1>6, ExitTypes DEF AbortScript, TypeOK
<1>7. ASSUME NEW p \in Proc, AllocKeys(p) PROVE TypeOK'
  BY <1>p, <1>7, KeyStoreAssumption
     DEF TypeOK, disk, PC, Pair, Half, Module, Key, SchemaSize, AllocKeys, Goto
<1>8. ASSUME NEW p \in Proc, ReadPub(p) PROVE TypeOK'
  BY <1>p, <1>8, KeyStoreAssumption
     DEF TypeOK, disk, PC, Pair, Half, Module, Key, SchemaSize, ReadPub, Found, ModuleOf, Goto
<1>9. ASSUME NEW p \in Proc, ReadPrv(p) PROVE TypeOK'
  <2>1. Found(p, ModuleOf(p), "prv") \in Key \cup {NONE}
    BY DEF TypeOK, Found, ModuleOf, Module, Pair, Half
  <2>2. [mem EXCEPT ![p].prv = Found(p, ModuleOf(p), "prv")] \in [Proc -> Pair]
    BY <2>1 DEF TypeOK, Pair, Half
  <2>3. mem' \in [Proc -> Pair]
    BY <1>p, <1>9, <2>2 DEF ReadPrv, TypeOK
  <2>4. pc' \in [Proc -> PC] /\ want' \in [Proc -> {"keys", "server"}]
        /\ conn' \in [Proc -> BOOLEAN] /\ ready' \in [Proc -> BOOLEAN]
    BY <1>9 DEF ReadPrv, TypeOK, PC, Leave, AfterKeys, ReadyAfter, Goto
  <2> QED
    BY <1>9, <2>3, <2>4 DEF ReadPrv, TypeOK, disk
<1>10. ASSUME NEW p \in Proc, Generate(p) PROVE TypeOK'
  <2>1. [pub |-> made + 1, prv |-> made + 1] \in Pair
    BY DEF TypeOK, Pair, Half, Key
  <2>2. made' \in Nat /\ mem' \in [Proc -> Pair] /\ pc' \in [Proc -> PC]
    BY <1>10, <2>1 DEF Generate, TypeOK, PC, Goto
  <2> QED
    BY <1>10, <2>2 DEF Generate, TypeOK, disk
<1>11. ASSUME NEW p \in Proc, Begin(p) PROVE TypeOK'
  <2>1. CASE conn[p]
    BY <1>11, <2>1 DEF Begin, TypeOK, disk, PC, Goto
  <2>2. CASE ~conn[p]
    BY <1>11, <2>2, GiveUpTypes DEF Begin
  <2> QED
    BY <2>1, <2>2
<1>12. ASSUME NEW p \in Proc, StorePub(p) PROVE TypeOK'
  <2>1. mem[p].pub \in Key \cup {NONE}
    BY DEF TypeOK, Pair, Half
  <2>2. [staged EXCEPT ![p].pub = mem[p].pub] \in [Proc -> Pair]
    BY <2>1 DEF TypeOK, Pair, Half
  <2>3. staged' \in [Proc -> Pair] /\ writer' \in Proc \cup {NONE}
    BY <1>12, <2>2 DEF StorePub, Insert, TypeOK
  <2>4. pc' \in [Proc -> PC]
    BY <1>12 DEF StorePub, TypeOK, PC, Goto
  <2> QED
    BY <1>12, <2>3, <2>4 DEF StorePub, TypeOK, disk
<1>13. ASSUME NEW p \in Proc, StorePrv(p) PROVE TypeOK'
  <2>1. CASE Insert(p, "prv")
    <3>1. mem[p].prv \in Key \cup {NONE}
      BY DEF TypeOK, Pair, Half
    <3>2. [staged EXCEPT ![p]["prv"] = mem[p]["prv"]] \in [Proc -> Pair]
      BY <3>1 DEF TypeOK, Pair, Half
    <3> QED
      BY <1>13, <2>1, <3>2 DEF StorePrv, InsertFails, Insert, TypeOK, disk, PC, Goto
  <2>2. CASE InsertFails(p, "prv")
    BY <1>13, <2>2, GiveUpTypes DEF StorePrv, InsertFails, Insert, Stored
  <2> QED
    BY <1>13, <2>1, <2>2 DEF StorePrv
<1>14. ASSUME NEW p \in Proc, Commit(p) PROVE TypeOK'
  BY <1>p, <1>14, KeyStoreAssumption
     DEF TypeOK, disk, PC, Pair, Half, Module, Key, SchemaSize, Commit, Merged, ModuleOf, Leave, AfterKeys, ReadyAfter, Goto
<1>15. ASSUME NEW p \in Proc, CommitFails(p) PROVE TypeOK'
  BY <1>15, GiveUpTypes DEF CommitFails
<1>16. ASSUME NEW p \in Proc, ReadServer(p) PROVE TypeOK'
  <2>1. Found(p, "ipcrout", "pub") \in Key \cup {NONE}
    BY DEF TypeOK, Found, Module, Pair, Half
  <2>2. CASE Found(p, "ipcrout", "pub") = NONE
    BY <1>16, <2>2, ExitTypes DEF ReadServer, TypeOK
  <2>3. CASE Found(p, "ipcrout", "pub") # NONE
    BY <1>16, <2>1, <2>3 DEF ReadServer, TypeOK, disk, PC, Goto
  <2> QED
    BY <2>2, <2>3
<1>17. ASSUME NEW p \in Proc, Start(p) PROVE TypeOK'
  BY <1>p, <1>17, KeyStoreAssumption
     DEF TypeOK, disk, PC, Pair, Half, Module, Key, SchemaSize, Start, Goto
<1>18. ASSUME NEW p \in Proc, Stop(p) PROVE TypeOK'
  BY <1>18, ExitTypes DEF Stop, TypeOK
<1>19. CASE UNCHANGED vars
  BY <1>19 DEF TypeOK, vars, disk
<1> QED
  BY <1>1, <1>2, <1>3, <1>4, <1>5, <1>6, <1>7, <1>8, <1>9, <1>10, <1>11, <1>12, <1>13, <1>14, <1>15, <1>16, <1>17, <1>18, <1>19 DEF Next, Work

-----------------------------------------------------------------------------
(* The inductive invariant *)

\* A process that ends takes nothing with it but its transaction.
LEMMA ExitIInv ==
  ASSUME IInv, TypeOK', NEW p \in Proc, Exit(p)
  PROVE  IInv'
<1>1. Drafted(p)' /\ SavedBy(p)'
  BY DEF IInv, TypeOK, Exit, Goto, NoPair, Half, Drafted, SavedBy
<1>2. /\ UNCHANGED rows /\ server'[p] = NONE /\ ~ready'[p]
      /\ writer # p => writer' = writer
  BY DEF IInv, TypeOK, Exit, Unlocked
<1>3. ASSUME NEW q \in Proc \ {p}
      PROVE  /\ pc'[q] = pc[q] /\ want'[q] = want[q] /\ mem'[q] = mem[q]
             /\ ready'[q] = ready[q] /\ server'[q] = server[q] /\ staged'[q] = staged[q]
  BY <1>3 DEF IInv, TypeOK, Exit, Goto
<1> QED
  BY <1>1, <1>2, <1>3, OwnStep

\* Nor does one that gives up storing its keys.
LEMMA GiveUpIInv ==
  ASSUME IInv, TypeOK', NEW p \in Proc, GiveUp(p)
  PROVE  IInv'
<1>1. Drafted(p)' /\ SavedBy(p)'
  BY DEF IInv, TypeOK, GiveUp, Leave, AfterKeys, ReadyAfter, Goto, NoPair, Half, Drafted,
         SavedBy
<1> QED
  BY <1>1, OwnStep DEF IInv, TypeOK, disk, GiveUp, Leave, ReadyAfter, Goto, Unlocked

\* A COMMIT of p: what p staged goes where nothing was, together with p's
\* private key, and nobody else has staged anything.
LEMMA CommitIInv ==
  ASSUME IInv, TypeOK', NEW p \in Proc, Commit(p)
  PROVE  IInv'
<1>1. pc[p] = "commit" /\ staged[p].prv # NONE /\ writer = p
  BY DEF Commit, IInv, Drafts, Drafted, Half
<1>2. rows[ModuleOf(p)].prv = NONE /\ rows[ModuleOf(p)].pub = NONE
  BY <1>1 DEF IInv, Drafts, Drafted, PublicHasPrivate, Half, ModuleOf, Module
<1>3. ModuleOf(p) \in Module /\ Half = {"pub", "prv"}
  BY DEF ModuleOf, Module, Half
<1>4. rows'[ModuleOf(p)].prv = mem[p].prv /\ mem[p].prv # NONE
  BY <1>1, <1>3 DEF Commit, Merged, IInv, Drafts, Drafted
<1>5. rows'[ModuleOf(p)].pub \in {NONE, mem[p].prv}
  BY <1>1, <1>2, <1>3 DEF Commit, Merged, IInv, Drafts, Drafted
<1>6. \A m \in Module \ {ModuleOf(p)} : rows'[m].pub = rows[m].pub /\ rows'[m].prv = rows[m].prv
  BY <1>3 DEF Commit, Merged
<1>7. \A q \in Proc \ {p}, h \in Half : staged[q][h] = NONE
  BY <1>1 DEF IInv, Drafts, Drafted
<1>8. Drafts'
  <2>1. Drafted(p)'
    BY <1>1 DEF Commit, Leave, AfterKeys, Goto, IInv, TypeOK, NoPair, Half, Drafted
  <2>2. ASSUME NEW q \in Proc, q # p PROVE Drafted(q)'
    BY <1>1, <1>7, <2>2 DEF Commit, Leave, Goto, IInv, TypeOK, Half, Drafts, Drafted
  <2> QED
    BY <2>1, <2>2 DEF Drafts
<1>9. PublicHasPrivate'
  BY <1>3, <1>4, <1>5, <1>6 DEF IInv, PublicHasPrivate
<1>10. Saved'
  <2>1. SavedBy(p)'
    BY <1>1, <1>4 DEF Commit, Leave, AfterKeys, Goto, IInv, TypeOK, SavedBy, ModuleOf
  <2>2. ASSUME NEW q \in Proc, q # p PROVE SavedBy(q)'
    <3>1. ready'[q] = ready[q] /\ pc'[q] = pc[q] /\ want'[q] = want[q] /\ mem'[q] = mem[q]
      BY <2>2 DEF Commit, Leave, Goto, IInv, TypeOK
    <3>2. ready[q] => ModuleOf(q) # ModuleOf(p) /\ ModuleOf(q) \in Module
      BY <1>2 DEF IInv, Saved, SavedBy, ModuleOf, Module
    <3> QED
      BY <1>6, <3>1, <3>2 DEF IInv, Saved, SavedBy, ModuleOf
  <2> QED
    BY <2>1, <2>2 DEF Saved
<1>11. OneReady'
  <2>1. \A q \in Proc \ {p} : ready'[q] = ready[q]
    BY DEF Commit, IInv, TypeOK
  <2>2. \A q \in Proc : ready[q] => ModuleOf(q) # ModuleOf(p)
    BY <1>2 DEF IInv, Saved, SavedBy
  <2> QED
    BY <2>1, <2>2 DEF IInv, OneReady, ModuleOf
<1>12. LookedUp'
  BY <1>2, <1>3, <1>6 DEF Commit, IInv, LookedUp, Module
<1> QED
  BY <1>8, <1>9, <1>10, <1>11, <1>12 DEF IInv

\* Every step keeps the invariant.
LEMMA NextIInv == IInv /\ [Next]_vars => IInv'
<1> SUFFICES ASSUME IInv, [Next]_vars PROVE IInv'
  OBVIOUS
<1>t. TypeOK'
  BY TypeStep DEF IInv
<1> USE <1>t
<1>1. ASSUME NEW p \in Proc, CheckFile(p) PROVE IInv'
  <2>1. Drafted(p)' /\ SavedBy(p)'
    BY <1>1, KeyStoreAssumption
       DEF CheckFile, Goto, disk, IInv, TypeOK, Pair, Half, Drafts, Drafted, Saved, SavedBy
  <2> QED
    BY <1>1, <2>1, OwnStep DEF CheckFile, Goto, disk, IInv, TypeOK
<1>2. ASSUME NEW p \in Proc, OpenFile(p) PROVE IInv'
  <2>1. Drafted(p)' /\ SavedBy(p)'
    BY <1>2, KeyStoreAssumption
       DEF OpenFile, Opened, Goto, disk, IInv, TypeOK, Pair, Half, Drafts, Drafted, Saved, SavedBy
  <2> QED
    BY <1>2, <2>1, OwnStep DEF OpenFile, Opened, Goto, disk, IInv, TypeOK
<1>3. ASSUME NEW p \in Proc, OpenFails(p) PROVE IInv'
  <2>1. CASE fresh[p]
    BY <1>3, <2>1, ExitIInv DEF OpenFails
  <2>2. CASE ~fresh[p]
    <3>1. Drafted(p)' /\ SavedBy(p)'
      BY <1>3, <2>2
         DEF OpenFails, Opened, Goto, IInv, TypeOK, Half, Drafts, Drafted, Saved, SavedBy
    <3> QED
      BY <1>3, <2>2, <3>1, OwnStep DEF OpenFails, Goto, IInv, TypeOK
  <2> QED
    BY <2>1, <2>2
<1>4. ASSUME NEW p \in Proc, RunStatement(p) PROVE IInv'
  <2>1. Drafted(p)' /\ SavedBy(p)'
    BY <1>4, KeyStoreAssumption
       DEF RunStatement, disk, IInv, TypeOK, Pair, Half, Drafts, Drafted, Saved, SavedBy
  <2> QED
    BY <1>4, <2>1, OwnStep DEF RunStatement, disk, IInv, TypeOK
<1>5. ASSUME NEW p \in Proc, EndScript(p) PROVE IInv'
  <2>1. Drafted(p)' /\ SavedBy(p)'
    BY <1>5, KeyStoreAssumption
       DEF EndScript, Opened, Goto, disk, IInv, TypeOK, Pair, Half, Drafts, Drafted, Saved, SavedBy
  <2> QED
    BY <1>5, <2>1, OwnStep DEF EndScript, Opened, Goto, disk, IInv, TypeOK
<1>6. ASSUME NEW p \in Proc, AbortScript(p) PROVE IInv'
  BY <1>6, ExitIInv DEF AbortScript
<1>7. ASSUME NEW p \in Proc, AllocKeys(p) PROVE IInv'
  <2>1. /\ pc[p] = "alloc" /\ \E l \in {"readPub", "undefined"} : pc' = [pc EXCEPT ![p] = l]
        /\ UNCHANGED <<want, mem, ready, server, staged, rows, writer>>
    BY <1>7 DEF AllocKeys, Goto, disk
  <2>2. pc \in [Proc -> PC] /\ Drafted(p) /\ SavedBy(p)
    BY DEF IInv, TypeOK, Drafts, Saved
  <2>3. Drafted(p)' /\ SavedBy(p)'
    BY <2>1, <2>2 DEF Half, Drafted, SavedBy
  <2> QED
    BY <2>1, <2>2, <2>3, OwnStep
<1>8. ASSUME NEW p \in Proc, ReadPub(p) PROVE IInv'
  <2>1. /\ pc[p] = "readPub" /\ pc' = [pc EXCEPT ![p] = "readPrv"]
        /\ mem' = [mem EXCEPT ![p] = mem'[p]]
        /\ UNCHANGED <<want, ready, server, staged, rows, writer>>
    BY <1>8 DEF ReadPub, Goto, disk, IInv, TypeOK
  <2>2. pc \in [Proc -> PC] /\ mem \in [Proc -> Pair] /\ Drafted(p) /\ SavedBy(p)
    BY DEF IInv, TypeOK, Drafts, Saved
  <2>3. ~ready[p]
    BY <2>1, <2>2 DEF SavedBy
  <2>4. staged[p].pub = NONE /\ staged[p].prv = NONE
    BY <2>1, <2>2 DEF Drafted
  <2>5. Drafted(p)' /\ SavedBy(p)'
    BY <2>1, <2>2, <2>3, <2>4 DEF Half, Drafted, SavedBy
  <2> QED
    BY <2>1, <2>2, <2>5, OwnStep
<1>9. ASSUME NEW p \in Proc, ReadPrv(p) PROVE IInv'
  <2>1. Drafted(p)' /\ SavedBy(p)'
    BY <1>9, KeyStoreAssumption
       DEF ReadPrv, Leave, AfterKeys, ReadyAfter, Goto, disk, IInv, TypeOK, Pair, Half, Drafts, Drafted, Saved, SavedBy
  <2> QED
    BY <1>9, <2>1, OwnStep DEF ReadPrv, Leave, AfterKeys, ReadyAfter, Goto, disk, IInv, TypeOK
<1>10. ASSUME NEW p \in Proc, Generate(p) PROVE IInv'
  <2>1. made + 1 # NONE
    BY KeyStoreAssumption DEF IInv, TypeOK, Key
  <2>2. pc'[p] \in {"begin", "undefined"} /\ (pc'[p] = "begin" => mem'[p].pub = mem'[p].prv
        /\ mem'[p].prv = made + 1)
    BY <1>10 DEF Generate, Goto, IInv, TypeOK
  <2>3. Drafted(p)' /\ SavedBy(p)'
    BY <1>10, <2>1, <2>2
       DEF Generate, disk, IInv, Half, Drafts, Drafted, Saved, SavedBy
  <2> QED
    BY <1>10, <2>3, OwnStep DEF Generate, Goto, disk, IInv, TypeOK
<1>11. ASSUME NEW p \in Proc, Begin(p) PROVE IInv'
  <2>1. CASE conn[p]
    <3>1. Drafted(p)' /\ SavedBy(p)'
      BY <1>11, <2>1
         DEF Begin, Goto, disk, IInv, TypeOK, Half, Drafts, Drafted, Saved, SavedBy
    <3> QED
      BY <1>11, <2>1, <3>1, OwnStep DEF Begin, Goto, disk, IInv, TypeOK
  <2>2. CASE ~conn[p]
    BY <1>11, <2>2, GiveUpIInv DEF Begin
  <2> QED
    BY <2>1, <2>2
<1>12. ASSUME NEW p \in Proc, StorePub(p) PROVE IInv'
  <2>1. /\ pc[p] = "pub" /\ pc' = [pc EXCEPT ![p] = "prv"]
        /\ UNCHANGED <<want, mem, ready, server, rows>>
    BY <1>12 DEF StorePub, Goto, disk
  <2>2. /\ pc \in [Proc -> PC] /\ staged \in [Proc -> Pair]
        /\ Drafted(p) /\ SavedBy(p)
    BY DEF IInv, TypeOK, Drafts, Saved
  <2>3. CASE Insert(p, "pub")
    <3>1. /\ rows[ModuleOf(p)].pub = NONE /\ writer' = p
          /\ staged' = [staged EXCEPT ![p].pub = mem[p].pub]
      BY <2>3 DEF Insert, Taken
    <3>2. staged'[p].pub = mem[p].pub /\ staged'[p].prv = staged[p].prv
          /\ \A q \in Proc \ {p} : staged'[q] = staged[q]
      BY <2>2, <3>1 DEF Pair, Half
    <3>3. Drafted(p)' /\ SavedBy(p)'
      BY <2>1, <2>2, <3>1, <3>2 DEF Half, Drafted, SavedBy
    <3>4. writer # p => writer' = writer \/ writer = NONE
      BY <2>3 DEF Insert, Waits
    <3> QED
      BY <2>1, <2>2, <3>2, <3>3, <3>4, OwnStep
  <2>4. CASE staged' = staged
    <3>1. writer # p => writer' = writer \/ writer = NONE
      BY <1>12 DEF StorePub, Insert, InsertFails, Waits
    <3>2. Drafted(p)' /\ SavedBy(p)'
      <4>1. writer = p => writer' = p
        BY <1>12 DEF StorePub, Insert, InsertFails, Waits
      <4> QED
        BY <2>1, <2>2, <2>4, <4>1 DEF Half, Drafted, SavedBy
    <3> QED
      BY <2>1, <2>2, <2>4, <3>1, <3>2, OwnStep
  <2> QED
    BY <1>12, <2>3, <2>4 DEF StorePub
<1>13. ASSUME NEW p \in Proc, StorePrv(p) PROVE IInv'
  <2>1. CASE Insert(p, "prv")
    <3>1. pc[p] = "prv" /\ pc' = [pc EXCEPT ![p] = "commit"]
          /\ UNCHANGED <<want, mem, ready, server, rows>>
      BY <1>13, <2>1 DEF StorePrv, Insert, InsertFails, disk, Goto
    <3>2. Drafted(p)' /\ SavedBy(p)'
      BY <2>1, <3>1 DEF Insert, Taken, IInv, TypeOK, Pair, Half, Drafts, Drafted, Saved, SavedBy
    <3> QED
      BY <2>1, <3>1, <3>2, OwnStep DEF Insert, Waits, IInv, TypeOK
  <2>2. CASE InsertFails(p, "prv")
    BY <1>13, <2>2, GiveUpIInv DEF StorePrv, InsertFails, Insert, Stored
  <2> QED
    BY <1>13, <2>1, <2>2 DEF StorePrv
<1>14. ASSUME NEW p \in Proc, Commit(p) PROVE IInv'
  BY <1>14, CommitIInv
<1>15. ASSUME NEW p \in Proc, CommitFails(p) PROVE IInv'
  BY <1>15, GiveUpIInv DEF CommitFails
<1>16. ASSUME NEW p \in Proc, ReadServer(p) PROVE IInv'
  <2>1. CASE Found(p, "ipcrout", "pub") = NONE
    BY <1>16, <2>1, ExitIInv DEF ReadServer
  <2>2. CASE Found(p, "ipcrout", "pub") # NONE
    <3>1. Drafted(p)' /\ SavedBy(p)'
      BY <1>16, <2>2
         DEF ReadServer, Goto, disk, IInv, TypeOK, Half, Drafts, Drafted, Saved, SavedBy
    <3>2. server'[p] = rows["ipcrout"].pub
      BY <1>16, <2>2 DEF ReadServer, Found, IInv, TypeOK
    <3> QED
      BY <1>16, <2>2, <3>1, <3>2, OwnStep DEF ReadServer, Goto, disk, IInv, TypeOK
  <2> QED
    BY <2>1, <2>2
<1>17. ASSUME NEW p \in Proc, Start(p) PROVE IInv'
  <2>1. Drafted(p)' /\ SavedBy(p)'
    BY <1>17, KeyStoreAssumption
       DEF Start, Goto, disk, IInv, TypeOK, Pair, Half, Drafts, Drafted, Saved, SavedBy
  <2> QED
    BY <1>17, <2>1, OwnStep DEF Start, Goto, disk, IInv, TypeOK
<1>18. ASSUME NEW p \in Proc, Stop(p) PROVE IInv'
  BY <1>18, ExitIInv DEF Stop
<1>19. CASE UNCHANGED vars
  BY <1>19 DEF vars, disk, IInv, Drafts, Drafted, PublicHasPrivate, Saved, SavedBy, OneReady,
                LookedUp, ModuleOf
<1> QED
  BY <1>1, <1>2, <1>3, <1>4, <1>5, <1>6, <1>7, <1>8, <1>9, <1>10, <1>11, <1>12, <1>13, <1>14, <1>15, <1>16, <1>17, <1>18, <1>19 DEF Next, Work

-----------------------------------------------------------------------------
(* Theorems *)

\* The invariant holds in every behaviour.
LEMMA AlwaysIInv == Spec => []IInv
  BY InitIInv, NextIInv, PTL DEF Spec

\* The types of the state of the processes and of the file.
THEOREM KeyStoreTypeOK == Spec => []TypeOK
<1>1. IInv => TypeOK
  BY DEF IInv
<1> QED
  BY <1>1, AlwaysIInv, PTL

\* A stored public key always has its own private key beside it, whatever
\* fails and whoever is killed (module.cpp:83-101).
THEOREM StoredPublicKeysMatch == Spec => []PublicHasPrivate
<1>1. IInv => PublicHasPrivate
  BY DEF IInv
<1> QED
  BY <1>1, AlwaysIInv, PTL

\* A ready process has the stored private key, and peers look up its own
\* public key or none (module.cpp:105-114).
THEOREM ReadyProcessesAreStored == Spec => []ReadyIsStored
<1>1. IInv => ReadyIsStored
  BY DEF IInv, Saved, SavedBy, LookedUp, PublicHasPrivate, ReadyIsStored, ModuleOf, Module, Proc
<1> QED
  BY <1>1, AlwaysIInv, PTL

\* Of the processes that generated keys for one module at once, at most one
\* believes it saved them (module.cpp:71).
THEOREM OneProcessIsReady == Spec => []OneReady
<1>1. IInv => OneReady
  BY DEF IInv
<1> QED
  BY <1>1, AlwaysIInv, PTL

\* Only a COMMIT touches the stored keys.
LEMMA RowsChangeByCommit ==
  ASSUME [Next]_vars, \A p \in Proc : ~Commit(p)
  PROVE  UNCHANGED rows
<1>1. ASSUME NEW p \in Proc, Work(p) \/ Start(p) \/ Stop(p) PROVE UNCHANGED rows
  BY <1>1 DEF Work, disk, CheckFile, OpenFile, OpenFails, RunStatement, EndScript,
       AbortScript, AllocKeys, ReadPub, ReadPrv, Generate, Begin, StorePub, StorePrv,
       CommitFails, ReadServer, Start, Stop, Exit, GiveUp
<1> QED
  BY <1>1 DEF Next, vars, disk

\* No start ever replaces a stored key (module.cpp:71).
THEOREM StoredKeysNeverChange == Spec => StoredKeysStay
<1> DEFINE Stay == \A m \in Module, h \in Half : rows[m][h] # NONE => rows'[m][h] = rows[m][h]
<1>1. IInv /\ [Next]_vars => Stay
  <2> SUFFICES ASSUME IInv, [Next]_vars PROVE Stay
    OBVIOUS
  <2>1. ASSUME NEW p \in Proc, Commit(p) PROVE Stay
    BY <2>1 DEF Commit, Merged, IInv, Drafts, Drafted
  <2> QED
    BY <2>1, RowsChangeByCommit
<1> QED
  BY <1>1, AlwaysIInv, PTL DEF Spec, StoredKeysStay

\* A private key that was stored alone stays alone: a later start stages its
\* public key, but not its private key, and gives up (module.cpp:92).
THEOREM HalfPairsAreFinal == Spec => HalfPairStays
<1> DEFINE Alone == \A m \in Module : rows[m].prv # NONE /\ rows[m].pub = NONE => rows'[m] = rows[m]
<1>1. IInv /\ [Next]_vars => Alone
  <2> SUFFICES ASSUME IInv, [Next]_vars PROVE Alone
    OBVIOUS
  <2>1. ASSUME NEW p \in Proc, Commit(p) PROVE Alone
    <3>1. rows[ModuleOf(p)].prv = NONE
      BY <2>1 DEF Commit, IInv, Drafts, Drafted, Half
    <3>2. \A m \in Module : m # ModuleOf(p) => rows'[m] = rows[m]
      BY <2>1 DEF Commit, Merged, IInv, TypeOK, Pair
    <3> QED
      BY <3>1, <3>2
  <2> QED
    BY <2>1, RowsChangeByCommit
<1> QED
  BY <1>1, AlwaysIInv, PTL DEF Spec, HalfPairStays

-----------------------------------------------------------------------------
(* The file is a vault *)

\* A process that has no pair yet has nothing in memory, and a public half it
\* has read is still the stored one.
LooksFor(p) ==
  /\ pc[p] \in {"alloc", "readPub", "generate"} => mem[p] = NoPair
  /\ want[p] = "keys" /\ pc[p] \in {"off", "check", "open", "schema"} => mem[p] = NoPair
  /\ pc[p] = "readPrv" /\ mem[p].pub # NONE => rows[ModuleOf(p)].pub = mem[p].pub
Looking == \A p \in Proc : LooksFor(p)

VInv == IInv /\ Looking

\* What a step of another process leaves alone.
Alone(q) ==
  /\ pc'[q] = pc[q] /\ want'[q] = want[q] /\ mem'[q] = mem[q]
  /\ ready'[q] = ready[q] /\ server'[q] = server[q]

\* The two ends of a start change the process's own state only.
LEMMA EndsAreOwn ==
  ASSUME TypeOK, NEW p \in Proc, Exit(p) \/ GiveUp(p), NEW q \in Proc \ {p}
  PROVE  Alone(q)
<1>1. CASE Exit(p)
  BY <1>1 DEF TypeOK, Exit, Goto, Alone
<1>2. CASE GiveUp(p)
  BY <1>2 DEF TypeOK, GiveUp, Leave, Goto, Alone
<1> QED
  BY <1>1, <1>2

\* So does every step.
LEMMA StepsAreOwn ==
  ASSUME TypeOK, NEW p \in Proc, Work(p) \/ Start(p) \/ Stop(p), NEW q \in Proc \ {p}
  PROVE  Alone(q)
<1> USE DEF Goto, Alone
<1>1. CASE CheckFile(p) \/ OpenFile(p) \/ EndScript(p) \/ AllocKeys(p) \/ Start(p)
  BY <1>1 DEF TypeOK, CheckFile, OpenFile, EndScript, AllocKeys, Start
<1>2. CASE RunStatement(p)
  BY <1>2 DEF RunStatement
<1>3. CASE OpenFails(p) \/ AbortScript(p) \/ Stop(p) \/ CommitFails(p)
  BY <1>3, EndsAreOwn DEF TypeOK, OpenFails, AbortScript, Stop, CommitFails
<1>4. CASE ReadPub(p)
  BY <1>4 DEF TypeOK, ReadPub
<1>5. CASE ReadPrv(p)
  <2>1. CASE mem[p].pub # NONE /\ Found(p, ModuleOf(p), "prv") # NONE
    BY <1>5, <2>1 DEF TypeOK, ReadPrv, Leave
  <2>2. CASE ~(mem[p].pub # NONE /\ Found(p, ModuleOf(p), "prv") # NONE)
    BY <1>5, <2>2 DEF TypeOK, ReadPrv
  <2> QED
    BY <2>1, <2>2
<1>6. CASE Generate(p)
  BY <1>6 DEF TypeOK, Generate
<1>7. CASE Begin(p)
  BY <1>7, EndsAreOwn DEF TypeOK, Begin
<1>8. CASE StorePub(p)
  BY <1>8 DEF TypeOK, StorePub
<1>9. CASE StorePrv(p)
  BY <1>9, EndsAreOwn DEF TypeOK, StorePrv
<1>10. CASE Commit(p)
  BY <1>10 DEF TypeOK, Commit, Leave
<1>11. CASE ReadServer(p)
  BY <1>11, EndsAreOwn DEF TypeOK, ReadServer
<1> QED
  BY <1>1, <1>2, <1>3, <1>4, <1>5, <1>6, <1>7, <1>8, <1>9, <1>10, <1>11 DEF Work

\* No step replaces a stored half.
LEMMA RowsStay ==
  ASSUME IInv, [Next]_vars, NEW m \in Module, NEW h \in Half, rows[m][h] # NONE
  PROVE  rows'[m][h] = rows[m][h]
<1>1. ASSUME NEW p \in Proc, Commit(p) PROVE rows'[m][h] = rows[m][h]
  BY <1>1 DEF Commit, Merged, IInv, Drafts, Drafted
<1> QED
  BY <1>1, RowsChangeByCommit

\* The process of a step still has nothing, or what it has read.
LEMMA LooksForStep ==
  ASSUME VInv, TypeOK', NEW p \in Proc, Work(p) \/ Start(p) \/ Stop(p)
  PROVE  LooksFor(p)'
<1>1. LooksFor(p) /\ TypeOK
  BY DEF VInv, IInv, Looking
<1> USE DEF Goto, LooksFor
<1>2. ASSUME Exit(p) PROVE LooksFor(p)'
  BY <1>1, <1>2 DEF TypeOK, Exit
<1>3. ASSUME GiveUp(p) PROVE LooksFor(p)'
  BY <1>1, <1>3 DEF TypeOK, GiveUp, Leave, AfterKeys
<1>4. CASE CheckFile(p) \/ OpenFile(p) \/ EndScript(p) \/ AllocKeys(p) \/ Start(p)
  BY <1>1, <1>4
     DEF TypeOK, disk, CheckFile, OpenFile, EndScript, AllocKeys, Start, Opened
<1>5. CASE RunStatement(p)
  BY <1>1, <1>5 DEF RunStatement
<1>6. CASE OpenFails(p)
  <2>1. CASE ~fresh[p]
    BY <1>1, <1>6, <2>1 DEF TypeOK, OpenFails, Opened
  <2> QED
    BY <1>2, <1>6, <2>1 DEF OpenFails
<1>7. CASE AbortScript(p) \/ Stop(p) \/ CommitFails(p)
  BY <1>2, <1>3, <1>7 DEF AbortScript, Stop, CommitFails
<1>8. CASE ReadPub(p)
  <2>1. pc'[p] = "readPrv" /\ mem'[p].pub = Found(p, ModuleOf(p), "pub") /\ rows' = rows
    BY <1>1, <1>8 DEF TypeOK, ReadPub, disk
  <2> QED
    BY <2>1 DEF Found, ModuleOf
<1>9. CASE ReadPrv(p)
  <2>1. CASE mem[p].pub # NONE /\ Found(p, ModuleOf(p), "prv") # NONE
    <3>1. pc'[p] \in {"run", "check"} /\ want'[p] = "server"
      BY <1>1, <1>9, <2>1 DEF TypeOK, ReadPrv, Leave, AfterKeys
    <3> QED
      BY <3>1
  <2>2. CASE ~(mem[p].pub # NONE /\ Found(p, ModuleOf(p), "prv") # NONE)
    <3>1. pc' = [pc EXCEPT ![p] = "generate"] /\ mem' = [mem EXCEPT ![p] = NoPair]
      BY <1>9, <2>2 DEF ReadPrv
    <3>2. pc'[p] = "generate" /\ mem'[p] = NoPair
      BY <1>1, <3>1 DEF TypeOK
    <3> QED
      BY <3>2 DEF NoPair
  <2> QED
    BY <2>1, <2>2
<1>10. CASE Generate(p)
  BY <1>1, <1>10 DEF TypeOK, Generate
<1>11. CASE Begin(p)
  BY <1>1, <1>3, <1>11 DEF TypeOK, Begin
<1>12. CASE StorePub(p)
  BY <1>1, <1>12 DEF TypeOK, StorePub
<1>13. CASE StorePrv(p)
  BY <1>1, <1>3, <1>13 DEF TypeOK, StorePrv
<1>14. CASE Commit(p)
  BY <1>1, <1>14 DEF TypeOK, Commit, Leave, AfterKeys
<1>15. CASE ReadServer(p)
  BY <1>1, <1>2, <1>15 DEF TypeOK, ReadServer
<1> QED
  BY <1>4, <1>5, <1>6, <1>7, <1>8, <1>9, <1>10, <1>11, <1>12, <1>13, <1>14, <1>15
     DEF Work

\* The invariant the refinement rests on.
LEMMA AlwaysVInv == Spec => []VInv
<1>1. Init => Looking
  BY DEF Init, Looking, LooksFor
<1>2. VInv /\ [Next]_vars => VInv'
  <2> SUFFICES ASSUME VInv, [Next]_vars PROVE VInv'
    OBVIOUS
  <2>1. IInv' /\ IInv /\ TypeOK /\ TypeOK'
    BY NextIInv DEF VInv, IInv
  <2>2. ASSUME NEW p \in Proc, Work(p) \/ Start(p) \/ Stop(p), NEW q \in Proc
        PROVE  LooksFor(q)'
    <3>1. CASE q = p
      BY <2>1, <2>2, <3>1, LooksForStep
    <3>2. CASE q # p
      <4>1. Alone(q)
        BY <2>1, <2>2, <3>2, StepsAreOwn
      <4>2. rows[ModuleOf(q)].pub # NONE
              => rows'[ModuleOf(q)].pub = rows[ModuleOf(q)].pub
        BY <2>1, RowsStay DEF ModuleOf, Module, Half
      <4>3. LooksFor(q)
        BY DEF VInv, Looking
      <4> QED
        BY <4>1, <4>2, <4>3 DEF Alone, LooksFor, ModuleOf
    <3> QED
      BY <3>1, <3>2
  <2>3. ASSUME UNCHANGED vars PROVE Looking'
    <3>1. UNCHANGED <<pc, want, mem, rows>> /\ Looking
      BY <2>3 DEF vars, disk, VInv
    <3> QED
      BY <3>1 DEF Looking, LooksFor
  <2>4. Looking'
    BY <2>2, <2>3 DEF Next, Looking, VInv
  <2> QED
    BY <2>1, <2>4 DEF VInv
<1> QED
  BY <1>1, <1>2, InitIInv, PTL DEF Spec, VInv

-----------------------------------------------------------------------------

\* The vault's pairs are the rows' pairs.
LEMMA PairsAgree ==
  /\ Vault!NoPair = NoPair
  /\ \A x \in Pair : x = Vault!Pairing(x.pub, x.prv)
  BY DEF Vault!NoPair, Vault!Pairing, NoPair, Pair, Half

\* The programs, modules and pairs of the vault are those of the file.
LEMMA NamesAgree ==
  /\ Vault!Proc = Proc /\ Vault!Module = Module
  /\ \A p \in Proc : Vault!ModuleOf(p) = ModuleOf(p) /\ ModuleOf(p) \in Module
  BY DEF Vault!Proc, Vault!Module, Vault!ModuleOf, Proc, Module, ModuleOf

\* What a step of p does to the pairs in use.
LEMMA UsingStep ==
  ASSUME NEW p \in Proc, \A q \in Proc \ {p} : Alone(q)
  PROVE  Using' = [Using EXCEPT ![p] = IF pc'[p] = "readPrv" THEN NoPair ELSE mem'[p]]
  BY DEF Using, Alone

\* The steps that neither give p a pair nor take it away.
LEMMA QuietStep ==
  ASSUME NEW p \in Proc, \A q \in Proc \ {p} : Alone(q),
         UNCHANGED <<rows, ready, server, made>>,
         (IF pc'[p] = "readPrv" THEN NoPair ELSE mem'[p])
           = (IF pc[p] = "readPrv" THEN NoPair ELSE mem[p])
  PROVE  UNCHANGED Vault!vars
<1>1. Using' = Using
  BY UsingStep DEF Using
<1> QED
  BY <1>1 DEF Vault!vars

\* Whoever ends leaves the vault as it is.
LEMMA ExitIsEnd ==
  ASSUME VInv, NEW p \in Proc, Exit(p)
  PROVE  Vault!End(p)
<1>1. TypeOK
  BY DEF VInv, IInv
<1>2. /\ pc'[p] = "off" /\ mem'[p] = NoPair
      /\ ready' = [ready EXCEPT ![p] = FALSE]
      /\ server' = [server EXCEPT ![p] = NONE] /\ UNCHANGED <<rows, made>>
  BY <1>1 DEF TypeOK, Exit, Goto
<1>3. Using' = [Using EXCEPT ![p] = NoPair]
  BY <1>1, <1>2, EndsAreOwn, UsingStep
<1>4. { q \in Proc : ready[q] }' = { q \in Proc : ready[q] } \ {p}
  BY <1>1, <1>2 DEF TypeOK
<1> QED
  BY <1>2, <1>3, <1>4, PairsAgree DEF Vault!End

\* Who gives up storing its pair uses it all the same.
LEMMA GiveUpIsQuiet ==
  ASSUME VInv, NEW p \in Proc, GiveUp(p), pc[p] \in {"begin", "prv", "commit"}
  PROVE  UNCHANGED Vault!vars
<1>1. TypeOK /\ SavedBy(p)
  BY DEF VInv, IInv, Saved
<1>2. pc'[p] # "readPrv" /\ UNCHANGED <<mem, rows, server, made>>
      /\ ready' = [ready EXCEPT ![p] = FALSE]
  BY <1>1 DEF TypeOK, GiveUp, Leave, AfterKeys, ReadyAfter, Goto, disk
<1>3. ready[p] = FALSE
  BY <1>1 DEF TypeOK, SavedBy
<1>4. ready' = ready
  BY <1>1, <1>2, <1>3 DEF TypeOK
<1> QED
  BY <1>1, <1>2, <1>4, EndsAreOwn, QuietStep

\* The two halves that were read are the pair that is stored.
LEMMA ReadIsFetch ==
  ASSUME VInv, NEW p \in Proc, ReadPrv(p)
  PROVE  Vault!Fetch(p) \/ UNCHANGED Vault!vars
<1>1. TypeOK /\ SavedBy(p) /\ LooksFor(p) /\ PublicHasPrivate
  BY DEF VInv, IInv, Saved, Looking
<1>2. \A q \in Proc \ {p} : Alone(q)
  BY <1>1, StepsAreOwn DEF Work
<1>3. pc[p] = "readPrv" /\ UNCHANGED <<server, rows, made>> /\ ready[p] = FALSE
  BY <1>1 DEF ReadPrv, disk, SavedBy, TypeOK
<1> DEFINE prv == Found(p, ModuleOf(p), "prv")
           pair == rows[ModuleOf(p)]
<1>4. CASE mem[p].pub # NONE /\ prv # NONE
  <2>1. /\ mem' = [mem EXCEPT ![p].prv = prv] /\ pc'[p] # "readPrv"
        /\ ready' = [ready EXCEPT ![p] = FALSE]
    BY <1>1, <1>4 DEF ReadPrv, Leave, AfterKeys, ReadyAfter, Goto, TypeOK
  <2>2. prv = pair.prv /\ mem[p].pub = pair.pub /\ pair.prv = pair.pub /\ pair.pub # NONE
    <3>1. prv = pair.prv
      BY <1>4 DEF Found
    <3>2. mem[p].pub = pair.pub
      BY <1>1, <1>3, <1>4 DEF LooksFor
    <3> QED
      BY <1>1, <1>4, <3>1, <3>2, NamesAgree DEF PublicHasPrivate
  <2>3. pair \in Pair /\ mem[p] \in Pair
    BY <1>1, NamesAgree DEF TypeOK
  <2>4. mem'[p] = pair
    <3>1. mem'[p] = [mem[p] EXCEPT !.prv = prv]
      BY <1>1, <2>1 DEF TypeOK
    <3> HIDE DEF pair, prv
    <3> QED
      BY <2>2, <2>3, <3>1 DEF Pair, Half
  <2>5. ready' = ready
    BY <1>1, <1>3, <2>1 DEF TypeOK
  <2>6. Using' = [Using EXCEPT ![p] = pair]
    BY <1>2, <2>1, <2>4, UsingStep
  <2>7. Using[p] = NoPair
    BY <1>3 DEF Using
  <2> QED
    BY <1>3, <2>2, <2>5, <2>6, <2>7, PairsAgree, NamesAgree DEF Vault!Fetch
<1>5. CASE ~(mem[p].pub # NONE /\ prv # NONE)
  <2>1. pc'[p] = "generate" /\ mem'[p] = NoPair /\ ready' = ready
    BY <1>1, <1>5 DEF ReadPrv, Goto, TypeOK
  <2> QED
    BY <1>2, <1>3, <2>1, QuietStep
<1> QED
  BY <1>4, <1>5

\* A generated pair is a new one.
LEMMA GenerateIsDraw ==
  ASSUME VInv, NEW p \in Proc, Generate(p)
  PROVE  Vault!Draw(p) \/ UNCHANGED Vault!vars
<1>1. TypeOK /\ LooksFor(p)
  BY DEF VInv, IInv, Looking
<1>2. \A q \in Proc \ {p} : Alone(q)
  BY <1>1, StepsAreOwn DEF Work
<1>3. /\ pc[p] = "generate" /\ mem[p] = NoPair /\ pc'[p] # "readPrv"
      /\ UNCHANGED <<rows, ready, server>>
  BY <1>1 DEF Generate, Goto, disk, LooksFor, TypeOK
<1>4. CASE made' = made + 1 /\ mem' = [mem EXCEPT ![p] = [pub |-> made + 1, prv |-> made + 1]]
  <2>1. mem'[p] = Vault!Pairing(made + 1, made + 1)
    BY <1>1, <1>4 DEF TypeOK, Vault!Pairing
  <2>2. Using' = [Using EXCEPT ![p] = Vault!Pairing(made + 1, made + 1)]
    BY <1>2, <1>3, <2>1, UsingStep
  <2>3. Using[p] = NoPair
    BY <1>3 DEF Using
  <2> QED
    BY <1>3, <1>4, <2>2, <2>3, PairsAgree DEF Vault!Draw
<1>5. CASE UNCHANGED <<made, mem>>
  BY <1>2, <1>3, <1>5, QuietStep
<1> QED
  BY <1>4, <1>5 DEF Generate

\* A COMMIT fills an empty place with the pair of its process.
LEMMA CommitIsKeep ==
  ASSUME VInv, NEW p \in Proc, Commit(p)
  PROVE  Vault!Keep(p)
<1> DEFINE m == ModuleOf(p)
           key == mem[p].prv
<1>1. TypeOK /\ Drafted(p) /\ PublicHasPrivate
  BY DEF VInv, IInv, Drafts
<1>2. \A q \in Proc \ {p} : Alone(q)
  BY <1>1, StepsAreOwn DEF Work
<1>3. /\ pc[p] = "commit" /\ pc'[p] # "readPrv" /\ UNCHANGED <<mem, server, made>>
      /\ ready' = [ready EXCEPT ![p] = TRUE]
      /\ rows' = [n \in Module |-> Merged(n, p)]
  BY <1>1 DEF Commit, Leave, AfterKeys, ReadyAfter, Goto, TypeOK
<1>4. m \in Module /\ rows[m] \in Pair
  BY <1>1, NamesAgree DEF TypeOK
<1>5. key # NONE /\ staged[p].prv = key /\ staged[p].pub \in {key, NONE}
  BY <1>1, <1>3 DEF Drafted, Half
<1>6. rows[m].prv = NONE /\ rows[m].pub = NONE
  BY <1>1, <1>4, <1>5 DEF Drafted, PublicHasPrivate, Half
<1>7. rows[m] = NoPair
  BY <1>4, <1>6 DEF Pair, NoPair, Half
<1>8. rows' = [rows EXCEPT ![m] = Vault!Pairing(staged[p].pub, key)]
  <2>1. Merged(m, p) = Vault!Pairing(staged[p].pub, key)
    BY <1>5, <1>6 DEF Merged, Vault!Pairing, Half
  <2>2. \A n \in Module \ {m} : Merged(n, p) = rows[n]
    BY <1>1 DEF Merged, TypeOK, Pair
  <2> HIDE DEF m
  <2> QED
    BY <1>1, <1>3, <1>4, <2>1, <2>2 DEF TypeOK
<1>9. Using[p].prv = key /\ Using' = Using
  <2>1. Using[p] = mem[p] /\ Using' = [Using EXCEPT ![p] = mem[p]]
    BY <1>2, <1>3, UsingStep DEF Using
  <2> QED
    BY <2>1 DEF Using
<1>10. { q \in Proc : ready[q] }' = { q \in Proc : ready[q] } \cup {p}
  BY <1>1, <1>3 DEF TypeOK
<1> QED
  BY <1>3, <1>5, <1>7, <1>8, <1>9, <1>10, PairsAgree, NamesAgree DEF Vault!Keep

\* The peer looks up what the vault keeps for the bus.
LEMMA ReadServerIsLookUp ==
  ASSUME VInv, NEW p \in Proc, ReadServer(p)
  PROVE  Vault!LookUp(p) \/ Vault!End(p)
<1>1. TypeOK
  BY DEF VInv, IInv
<1>2. CASE Found(p, "ipcrout", "pub") = NONE
  BY <1>2, ExitIsEnd DEF ReadServer
<1>3. CASE Found(p, "ipcrout", "pub") # NONE
  <2>1. Found(p, "ipcrout", "pub") = rows["ipcrout"].pub
    BY <1>3 DEF Found
  <2>2. /\ server' = [server EXCEPT ![p] = rows["ipcrout"].pub]
        /\ pc[p] = "readServer" /\ pc'[p] = "run" /\ UNCHANGED <<mem, ready, rows, made>>
    BY <1>1, <1>3, <2>1 DEF ReadServer, Goto, disk, TypeOK
  <2>3. Using' = Using
    BY <1>1, <2>2 DEF Using, ReadServer, Goto, TypeOK, Exit
  <2> QED
    BY <1>3, <2>1, <2>2, <2>3 DEF Vault!LookUp
<1> QED
  BY <1>2, <1>3

\* All other steps the vault does not see.
LEMMA OtherStepsAreQuiet ==
  ASSUME VInv, NEW p \in Proc,
         \/ CheckFile(p) \/ OpenFile(p) \/ RunStatement(p) \/ EndScript(p)
         \/ AllocKeys(p) \/ ReadPub(p) \/ StorePub(p) \/ Start(p)
  PROVE  UNCHANGED Vault!vars
<1>1. TypeOK /\ LooksFor(p)
  BY DEF VInv, IInv, Looking
<1>2. \A q \in Proc \ {p} : Alone(q)
  BY <1>1, StepsAreOwn DEF Work
<1>3. CASE ReadPub(p)
  <2>1. /\ pc[p] = "readPub" /\ pc'[p] = "readPrv"
        /\ UNCHANGED <<rows, ready, server, made>>
    BY <1>1, <1>3 DEF ReadPub, Goto, disk, TypeOK
  <2> QED
    BY <1>1, <1>2, <2>1, QuietStep DEF LooksFor
<1>4. CASE RunStatement(p)
  BY <1>2, <1>4, QuietStep DEF RunStatement
<1>5. CASE CheckFile(p) \/ OpenFile(p) \/ EndScript(p) \/ AllocKeys(p) \/ StorePub(p) \/ Start(p)
  <2>1. /\ UNCHANGED <<mem, rows, ready, server, made>>
        /\ pc[p] # "readPrv" /\ pc'[p] # "readPrv"
    BY <1>1, <1>5
       DEF CheckFile, OpenFile, EndScript, AllocKeys, StorePub, Start, Opened, Goto, disk, TypeOK
  <2> QED
    BY <1>2, <2>1, QuietStep
<1> QED
  BY <1>3, <1>4, <1>5

\* The two steps that end a start or go on.
LEMMA EitherEndOrQuiet ==
  ASSUME VInv, NEW p \in Proc, OpenFails(p) \/ Begin(p) \/ StorePrv(p)
  PROVE  Vault!End(p) \/ UNCHANGED Vault!vars
<1>1. TypeOK
  BY DEF VInv, IInv
<1>2. \A q \in Proc \ {p} : Alone(q)
  BY <1>1, StepsAreOwn DEF Work
<1>3. CASE Exit(p)
  BY <1>3, ExitIsEnd
<1>4. CASE GiveUp(p) /\ pc[p] \in {"begin", "prv", "commit"}
  BY <1>4, GiveUpIsQuiet
<1>5. CASE /\ UNCHANGED <<mem, rows, ready, server, made>>
           /\ pc[p] # "readPrv" /\ pc'[p] # "readPrv"
  BY <1>2, <1>5, QuietStep
<1>6. \/ Exit(p)
      \/ GiveUp(p) /\ pc[p] \in {"begin", "prv", "commit"}
      \/ /\ UNCHANGED <<mem, rows, ready, server, made>>
         /\ pc[p] # "readPrv" /\ pc'[p] # "readPrv"
  BY <1>1 DEF OpenFails, Begin, StorePrv, Insert, InsertFails, Opened, Goto, disk, TypeOK
<1> QED
  BY <1>3, <1>4, <1>5, <1>6

\* The file starts as an empty vault.
LEMMA VaultInit == Init => Vault!Init
  BY PairsAgree, NamesAgree DEF Init, Vault!Init, Using

\* Every step of a process is a step of the vault, or none.
LEMMA VaultNext == VInv /\ [Next]_vars => [Vault!Next]_(Vault!vars)
<1> SUFFICES ASSUME VInv, [Next]_vars PROVE [Vault!Next]_(Vault!vars)
  OBVIOUS
<1>1. ASSUME NEW p \in Proc, Work(p) \/ Start(p) \/ Stop(p)
      PROVE  \/ UNCHANGED Vault!vars
             \/ \E q \in Vault!Proc :
                  Vault!Draw(q) \/ Vault!Fetch(q) \/ Vault!Keep(q) \/ Vault!LookUp(q) \/ Vault!End(q)
  <2>1. p \in Vault!Proc
    BY NamesAgree
  <2>2. CASE AbortScript(p) \/ Stop(p)
    BY <2>1, <2>2, ExitIsEnd DEF AbortScript, Stop
  <2>3. CASE CommitFails(p)
    BY <2>3, GiveUpIsQuiet DEF CommitFails
  <2> QED
    BY <1>1, <2>1, <2>2, <2>3, ReadIsFetch, GenerateIsDraw, CommitIsKeep,
       ReadServerIsLookUp, OtherStepsAreQuiet, EitherEndOrQuiet DEF Work
<1>2. CASE UNCHANGED vars
  BY <1>2 DEF vars, disk, Using, Vault!vars
<1> QED
  BY <1>1, <1>2 DEF Next, Vault!Next

\* For any number of processes and starts the file is a vault
\* (module.cpp:66-115): whatever is killed between two steps, a process uses
\* the stored pair or one nobody else has, and what is stored is the first
\* pair whose COMMIT went through.
THEOREM StoreImplementsVault == Spec => ImplementsVault
  BY AlwaysVInv, VaultInit, VaultNext, PTL DEF Spec, ImplementsVault, Vault!Spec
=============================================================================
