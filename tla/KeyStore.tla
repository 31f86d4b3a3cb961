------------------------------ MODULE KeyStore ------------------------------
(***************************************************************************)
(* Programs of 5thD starting on one node: module_init with _handle_keys    *)
(* (core/module.cpp), the key queries (core/keys_db.cpp), the database     *)
(* file behind them (core/5thdsql.cpp, db_scripts/table_keys.sql) and the  *)
(* peer's lookup of the router's key (5thD_Peer/peer_module.cpp).          *)
(*                                                                         *)
(* Every process opens the same file.  What SQLite makes atomic is one     *)
(* step: a statement outside a transaction, and a COMMIT.  The file is in  *)
(* WAL mode, so reads never wait; one process at a time writes, from its   *)
(* first INSERT to the end of its transaction, and another one's INSERT    *)
(* waits for it, or fails after the busy timeout of 5 seconds.  A process  *)
(* may be killed between any two steps; what it had not committed is gone. *)
(*                                                                         *)
(* A key pair is a number: its two halves match when they are equal.       *)
(***************************************************************************)
EXTENDS Naturals

CONSTANTS
  RouterProc, PeerProc,  \* processes of the bus and of the peer
  NONE,                  \* no value, nobody
  MaxStarts              \* bound: process starts

Proc == RouterProc \cup PeerProc

\* A pair is generated at most once per start, so the bound holds for them too.
Key == Nat \ {0}

ASSUME KeyStoreAssumption ==
  /\ RouterProc \cap PeerProc = {}
  /\ NONE \notin Proc /\ NONE \notin Key
  /\ MaxStarts \in Nat

VARIABLES
  pc,      \* where each process is
  want,    \* what it opens the file for: its "keys" or the "server" key
  fresh,   \* is_new_db of the access in progress
  conn,    \* _db is not null
  step,    \* statements of the script it has run
  mem,     \* config->keys_info: the pair in memory, later the one given to ZeroMQ
  ready,   \* config->keys_info.is_ready
  server,  \* the router's public key as the peer read it
  staged,  \* its uncommitted rows
  file,    \* the database file exists
  schema,  \* statements of the script whose effect is in the file
  rows,    \* module_keys: the stored halves of each module's pair
  writer,  \* who holds the write lock
  starts, made   \* starts so far, pairs generated so far

disk == <<file, schema, rows>>
vars == <<pc, want, fresh, conn, step, mem, ready, server, staged, disk, writer, starts, made>>

Module == {"ipcrout", "peerxxx"}
ModuleOf(p) == IF p \in RouterProc THEN "ipcrout" ELSE "peerxxx"

Half == {"pub", "prv"}
Pair == [Half -> Key \cup {NONE}]
NoPair == [h \in Half |-> NONE]

\* Creating key_types, filling it, creating module_keys; the indexes after
\* them change nothing here.
SchemaSize == 3

PC == {"off", "check", "open", "schema", "alloc", "readPub", "readPrv", "generate",
       "begin", "pub", "prv", "commit", "readServer", "run", "undefined"}

TypeOK ==
  /\ pc \in [Proc -> PC] /\ want \in [Proc -> {"keys", "server"}]
  /\ fresh \in [Proc -> BOOLEAN] /\ conn \in [Proc -> BOOLEAN]
  /\ step \in [Proc -> 0 .. SchemaSize]
  /\ mem \in [Proc -> Pair] /\ ready \in [Proc -> BOOLEAN]
  /\ server \in [Proc -> Key \cup {NONE}] /\ staged \in [Proc -> Pair]
  /\ file \in BOOLEAN /\ schema \in 0 .. SchemaSize /\ rows \in [Module -> Pair]
  /\ writer \in Proc \cup {NONE}
  /\ starts \in 0 .. MaxStarts /\ made \in Nat

Init ==
  /\ pc = [p \in Proc |-> "off"] /\ want = [p \in Proc |-> "keys"]
  /\ fresh = [p \in Proc |-> FALSE] /\ conn = [p \in Proc |-> FALSE]
  /\ step = [p \in Proc |-> 0]
  /\ mem = [p \in Proc |-> NoPair] /\ ready = [p \in Proc |-> FALSE]
  /\ server = [p \in Proc |-> NONE] /\ staged = [p \in Proc |-> NoPair]
  /\ file = FALSE /\ schema = 0 /\ rows = [m \in Module |-> NoPair]
  /\ writer = NONE /\ starts = 0 /\ made = 0

Goto(p, l) == pc' = [pc EXCEPT ![p] = l]

\* The end of a process, its abort or its kill: memory is gone, and SQLite
\* drops what was not committed.
Unlocked(p) == IF writer = p THEN NONE ELSE writer
Exit(p) ==
  /\ Goto(p, "off")
  /\ want' = [want EXCEPT ![p] = "keys"]
  /\ fresh' = [fresh EXCEPT ![p] = FALSE] /\ conn' = [conn EXCEPT ![p] = FALSE]
  /\ step' = [step EXCEPT ![p] = 0]
  /\ mem' = [mem EXCEPT ![p] = NoPair] /\ ready' = [ready EXCEPT ![p] = FALSE]
  /\ server' = [server EXCEPT ![p] = NONE] /\ staged' = [staged EXCEPT ![p] = NoPair]
  /\ writer' = Unlocked(p)
  /\ UNCHANGED <<schema, rows, starts, made>>

-----------------------------------------------------------------------------
(* DatabaseAccess::_init *)

FileMissing == ~file

CheckFile(p) ==
  /\ pc[p] = "check"
  /\ fresh' = [fresh EXCEPT ![p] = FileMissing]
  /\ Goto(p, "open")
  /\ UNCHANGED <<want, conn, step, mem, ready, server, staged, disk, writer, starts, made>>

\* Where _init's caller goes on.
Opened(p) == IF want[p] = "keys" THEN "alloc" ELSE "readServer"

\* sqlite3_open creates the file.
OpenFile(p) ==
  /\ pc[p] = "open"
  /\ file' = TRUE
  /\ conn' = [conn EXCEPT ![p] = TRUE]
  /\ Goto(p, IF fresh[p] THEN "schema" ELSE Opened(p))
  /\ UNCHANGED <<want, fresh, step, mem, ready, server, staged, schema, rows, writer,
                 starts, made>>

\* _new_db aborts when open fails, _init ignores it.  The file may be there
\* all the same, if only the decryption failed.
OpenFails(p) ==
  /\ pc[p] = "open"
  /\ file' \in {file, TRUE}
  /\ IF fresh[p]
     THEN Exit(p)
     ELSE /\ Goto(p, Opened(p))
          /\ UNCHANGED <<want, fresh, conn, step, mem, ready, server, staged, schema, rows,
                         writer, starts, made>>

ScriptDone(p) == step[p] >= SchemaSize

\* The INSERT needs the write lock even if it has nothing to insert.
Blocked(p) == step[p] = 1 /\ writer # NONE

\* One statement of the script.  CREATE ... IF NOT EXISTS and INSERT OR
\* IGNORE do nothing the second time.
RunStatement(p) ==
  /\ pc[p] = "schema" /\ ~ScriptDone(p) /\ ~Blocked(p)
  /\ schema' = IF schema = step[p] THEN schema + 1 ELSE schema
  /\ step' = [step EXCEPT ![p] = step[p] + 1]
  /\ UNCHANGED <<pc, want, fresh, conn, mem, ready, server, staged, file, rows, writer,
                 starts, made>>

\* verify_tables finds no table that has two names at once and logs that;
\* nobody looks at its result.
EndScript(p) ==
  /\ pc[p] = "schema" /\ ScriptDone(p)
  /\ step' = [step EXCEPT ![p] = 0]
  /\ Goto(p, Opened(p))
  /\ UNCHANGED <<want, fresh, conn, mem, ready, server, staged, disk, writer, starts, made>>

\* The file of the script is missing, or its INSERT ran into the timeout.
AbortScript(p) ==
  /\ pc[p] = "schema"
  /\ step[p] = 0 \/ Blocked(p)
  /\ Exit(p)
  /\ UNCHANGED file

-----------------------------------------------------------------------------
(* _handle_keys *)

\* After _handle_keys, whose connection is closed: the bus runs, the peer
\* looks for the router's key.
AfterKeys(p) == IF p \in RouterProc THEN "run" ELSE "check"

Leave(p) ==
  /\ Goto(p, AfterKeys(p))
  /\ conn' = [conn EXCEPT ![p] = FALSE]
  /\ want' = [want EXCEPT ![p] = "server"]

\* Mutant of ReadyAfter: the flag is set whatever happened.
ReadyAlways(ret) == TRUE

ReadyAfter(ret) == ret

\* The transaction, if there is one, ends without a COMMIT.
GiveUp(p) ==
  /\ writer' = Unlocked(p)
  /\ staged' = [staged EXCEPT ![p] = NoPair]
  /\ ready' = [ready EXCEPT ![p] = ReadyAfter(FALSE)]
  /\ Leave(p)
  /\ UNCHANGED <<fresh, step, mem, server, disk, starts, made>>

\* sodium_mlock or sodium_malloc may fail; the pair is then written to freed
\* memory or to a null pointer.
AllocKeys(p) ==
  /\ pc[p] = "alloc"
  /\ \E next \in {"readPub", "undefined"} : Goto(p, next)
  /\ UNCHANGED <<want, fresh, conn, step, mem, ready, server, staged, disk, writer, starts, made>>

\* Mutant of Found: the query does not look at the module.
FoundOfBus(p, m, h) == IF conn[p] /\ schema = SchemaSize THEN rows["ipcrout"][h] ELSE NONE

\* What get_key answers: without a connection or without the tables the query
\* cannot be prepared.
Prepares(p) == conn[p] /\ schema = SchemaSize
Found(p, m, h) == IF Prepares(p) THEN rows[m][h] ELSE NONE

\* The two halves are read one after the other, outside a transaction.
ReadPub(p) ==
  /\ pc[p] = "readPub"
  /\ mem' = [mem EXCEPT ![p] = [pub |-> Found(p, ModuleOf(p), "pub"), prv |-> NONE]]
  /\ Goto(p, "readPrv")
  /\ UNCHANGED <<want, fresh, conn, step, ready, server, staged, disk, writer,
                 starts, made>>

\* Keys that were found are used, and is_ready stays false.
ReadPrv(p) ==
  LET prv == Found(p, ModuleOf(p), "prv")
  IN /\ pc[p] = "readPrv"
     /\ IF mem[p].pub # NONE /\ prv # NONE
        THEN /\ mem' = [mem EXCEPT ![p].prv = prv]
             /\ ready' = [ready EXCEPT ![p] = ReadyAfter(FALSE)]
             /\ Leave(p)
        ELSE /\ mem' = [mem EXCEPT ![p] = NoPair]
             /\ Goto(p, "generate")
             /\ UNCHANGED <<want, conn, ready>>
     /\ UNCHANGED <<fresh, step, server, staged, disk, writer, starts, made>>

\* If no pair can be generated the memory is freed and main uses it anyway.
Generate(p) ==
  /\ pc[p] = "generate"
  /\ \/ /\ made' = made + 1
        /\ mem' = [mem EXCEPT ![p] = [pub |-> made + 1, prv |-> made + 1]]
        /\ Goto(p, "begin")
     \/ /\ Goto(p, "undefined")
        /\ UNCHANGED <<made, mem>>
  /\ UNCHANGED <<want, fresh, conn, step, ready, server, staged, disk, writer, starts>>

\* A deferred BEGIN takes no lock: it fails only without a connection.
Begin(p) ==
  /\ pc[p] = "begin"
  /\ IF conn[p]
     THEN /\ Goto(p, "pub")
          /\ UNCHANGED <<want, fresh, conn, step, mem, ready, server, staged, disk,
                         writer, starts, made>>
     ELSE GiveUp(p)

\* Mutant of Taken: the UNIQUE constraint is missing.
TakenNever(p, h) == FALSE

Taken(p, h) == rows[ModuleOf(p)][h] # NONE

Waits(p) == writer \notin {NONE, p}

\* store_key.  A violated constraint undoes the statement but keeps the lock.
Insert(p, h) ==
  /\ Prepares(p) /\ ~Waits(p) /\ ~Taken(p, h)
  /\ staged' = [staged EXCEPT ![p][h] = mem[p][h]]
  /\ writer' = p

InsertFails(p, h) == ~Prepares(p) \/ Waits(p) \/ Taken(p, h)

\* Mutant of Stored: one of the two inserts is enough.
StoredEither(pub, prv) == pub \/ prv

\* The condition behind the two inserts (module.cpp:92) names the second one
\* twice.
Stored(pub, prv) == prv

StorePub(p) ==
  /\ pc[p] = "pub"
  /\ \/ Insert(p, "pub")
     \/ /\ InsertFails(p, "pub")
        /\ writer' = IF Prepares(p) /\ ~Waits(p) THEN p ELSE writer
        /\ UNCHANGED staged
  /\ Goto(p, "prv")
  /\ UNCHANGED <<want, fresh, conn, step, mem, ready, server, disk, starts, made>>

StorePrv(p) ==
  /\ pc[p] = "prv"
  /\ \/ /\ Insert(p, "prv")
        /\ Goto(p, "commit")
        /\ UNCHANGED <<want, fresh, conn, step, mem, ready, server, disk, starts, made>>
     \/ /\ InsertFails(p, "prv")
        /\ IF Stored(staged[p].pub # NONE, FALSE)
           THEN /\ Goto(p, "commit")
                /\ UNCHANGED <<want, fresh, conn, step, mem, ready, server, staged, disk,
                               writer, starts, made>>
           ELSE GiveUp(p)

Merged(m, p) ==
  [h \in Half |-> IF m = ModuleOf(p) /\ staged[p][h] # NONE THEN staged[p][h] ELSE rows[m][h]]

Commit(p) ==
  /\ pc[p] = "commit"
  /\ rows' = [m \in Module |-> Merged(m, p)]
  /\ writer' = NONE
  /\ staged' = [staged EXCEPT ![p] = NoPair]
  /\ ready' = [ready EXCEPT ![p] = ReadyAfter(TRUE)]
  /\ Leave(p)
  /\ UNCHANGED <<fresh, step, mem, server, file, schema, starts, made>>

\* The destructor of the connection rolls the transaction back.
CommitFails(p) == pc[p] = "commit" /\ GiveUp(p)

-----------------------------------------------------------------------------
(* The programs *)

Start(p) ==
  /\ pc[p] = "off" /\ starts < MaxStarts
  /\ starts' = starts + 1
  /\ Goto(p, "check")
  /\ UNCHANGED <<want, fresh, conn, step, mem, ready, server, staged, disk, writer, made>>

\* The peer aborts without the router's public key.
ReadServer(p) ==
  LET key == Found(p, "ipcrout", "pub")
  IN /\ pc[p] = "readServer"
     /\ IF key = NONE
        THEN Exit(p) /\ UNCHANGED file
        ELSE /\ server' = [server EXCEPT ![p] = key]
             /\ Goto(p, "run")
             /\ UNCHANGED <<want, fresh, conn, step, mem, ready, staged, disk, writer,
                            starts, made>>

\* Ended or killed, at any time.
Stop(p) == pc[p] # "off" /\ Exit(p) /\ UNCHANGED file

Work(p) ==
  \/ CheckFile(p) \/ OpenFile(p) \/ OpenFails(p)
  \/ RunStatement(p) \/ EndScript(p) \/ AbortScript(p)
  \/ AllocKeys(p) \/ ReadPub(p) \/ ReadPrv(p) \/ Generate(p)
  \/ Begin(p) \/ StorePub(p) \/ StorePrv(p) \/ Commit(p) \/ CommitFails(p)
  \/ ReadServer(p)

Next == \E p \in Proc : Work(p) \/ Start(p) \/ Stop(p)

Spec == Init /\ [][Next]_vars

-----------------------------------------------------------------------------
(* Properties *)

\* A stored public key has its own private key beside it, although nobody
\* looks at the result of storing the public one and every process may be
\* killed at any time (module.cpp:83-101).
PublicHasPrivate ==
  \A m \in Module : rows[m].pub # NONE => rows[m].prv = rows[m].pub

\* What was stored is never replaced: neither by a process that read before
\* the rows were there nor by one that could not read them (module.cpp:71).
StoredKeysStay ==
  [][\A m \in Module, h \in Half :
       rows[m][h] # NONE => rows'[m][h] = rows[m][h]]_vars

\* A private key that was stored alone stays alone: no later start of the
\* module completes or repairs the pair.
HalfPairStays ==
  [][\A m \in Module :
       rows[m].prv # NONE /\ rows[m].pub = NONE => rows'[m] = rows[m]]_vars

\* Of all processes of a module at most one believes it has saved its keys,
\* although several may have found none and generated their own.
OneReady ==
  \A p, q \in Proc :
    ready[p] /\ ready[q] /\ ModuleOf(p) = ModuleOf(q) => p = q

\* A process that is ready runs with the private key others will load, and a
\* peer that found a key of the router can talk to a router that is ready.
ReadyIsStored ==
  \A p \in Proc : ready[p] =>
    /\ rows[ModuleOf(p)].prv = mem[p].prv
    /\ p \in RouterProc => \A q \in Proc : server[q] \in {NONE, mem[p].prv}

\* To the processes the file is a vault for one pair per module
\* (module.cpp:66-115): the two halves are found as if read at once, only a
\* place that is empty is filled, and one process at most is told it did so.
Using == [p \in Proc |-> IF pc[p] = "readPrv" THEN NoPair ELSE mem[p]]
Vault == INSTANCE KeyVault WITH
  kept <- rows, using <- Using, assured <- { p \in Proc : ready[p] },
  known <- server, drawn <- made
ImplementsVault == Vault!Spec

\* A pair is stored whole or not at all: a node survives the restart of a
\* process (docs/architecture.md:171).
PairsAreWhole ==
  \A m \in Module : rows[m].prv # NONE => rows[m].pub # NONE

\* A start that opened the file has its tables, unless another one is just
\* creating them: a node survives the restart of a process
\* (docs/architecture.md:171), also one that ended between the creation of
\* the file and the end of the script (5thdsql.cpp:315-323).
Creating(p) == pc[p] = "schema" \/ (pc[p] = "open" /\ fresh[p])
TablesAreThere ==
  \A p \in Proc : pc[p] = "alloc" /\ conn[p] /\ (\A q \in Proc : ~Creating(q))
                   => schema = SchemaSize
=============================================================================
