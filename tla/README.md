# 5thD: a verification project

TLA+ models of the parts of 5thD that carry its own logic, checked with TLC and
proved with TLAPS. Paths are relative to `src/`; `PROJECT.json` maps every
definition to the lines it stands for.

## The system

5thD is at present two programs over a shared core. The *software bus*
(`5thD_Software_Bus`) is a process with one thread that owns a ZeroMQ ROUTER
socket on a local endpoint and forwards fixed-size messages between clients.
The *peer* (`5thD_Peer`) is a client: a DEALER socket that announces itself
every 200 ms. Both start through `module_init`, which loads or generates a key
pair in an encrypted SQLite file they share. There is no other shared state:
processes interact through the socket and through the file.

| component | state | operations | what makes it correct |
|---|---|---|---|
| `ManagedBuffer<T, Size>` (`core/common/5thdbuffer.h`) | slots with `in_use`, `next`, a guard word; `current_free`, `used_count`; a mutex | `get_slot`, `release_slot`, `check_integrity` | one owner per slot, every free slot reachable, a damaged slot never taken back, `nullptr` exactly when full |
| `ZMQBus` (`5thD_Software_Bus/core`) | `_clients`, `_msg_buffer`, the flag `_poll` | `run`, `_handle_msg`, `_send_message`, `signal_handler` | messages reach only their addressee, the bus always has a slot to receive in, it reads every message, it ends on a signal |
| `ZMQWReceiver` (`core/receiver.cpp`) | endpoint, socket | `listen`, `worker` | the loop sees the flag after each message or timeout |
| `ZMQWTransmitter`, `IpcClient` (`core/transmitter.cpp`, `core/5thdipc_client.cpp`) | identity, a buffer of slots, the unfinished multipart message | `connect`, `send` | a failed send leaves nothing behind that a later one is mixed with |
| module start (`core/module.cpp`, `core/keys_db.cpp`) | key pair in memory, `is_ready`, rows of `module_keys` | `module_init`, `store_key`, `update_key`, `get_key`, `remove_key` | pairs are stored whole, never replaced, and are the ones in use; a removed key is gone |
| `DatabaseAccess` (`core/5thdsql.cpp`) | the file, its schema, a transaction, statements | `_init`, `_new_db`, `open`, `prepare`, `execute`, `query`, `exec`, `close` | a file that exists has a schema; a statement is finalized once, by its call or by `close` |
| peer main (`5thD_Peer`) | the router's public key, the connection | start, send loop, signal | it talks to the router that runs |
| `ThreadPool` (`core/thread_pool.cpp`) | queue, `stop`, mutex, condition | `enqueue`, workers, destructor | every task runs once, shutdown drains the queue and returns |
| `LRU_Cache` (`core/5thdlru_cache.h`) | list and map | `push`, `get` | list and map agree, the oldest entry goes first |
| process manager (`core/proc_unix.h`) | map from names to pids | `start_proc`, `stop_proc`, `stop_all` | every child started can be stopped |
| port scan (`core/net_helpers.cpp`) | an open descriptor | `is_port_available` | the scan ends, nothing leaks |

What is hard in it: slots that leak on error paths; frames whose size depends
on what was done with the slot before; a multipart message that breaks off;
clients that come and go; a signal between any two steps; processes that start,
crash and restart against one file. `PROJECT.json` lists these hazards at their
lines, with the properties that cover them.

## Modules

| module | models |
|---|---|
| `SlotList` | the free list of a buffer as operators on a record: `FreshPool`, `IsExhausted`, `Acquired`, `Released`, and `FreeListExact`, what it means for the list to be right |
| `SlotPool` | abstract: a pool of slots with owners and no list |
| `ManagedBuffer` | the buffer and its callers; one action per call, atomic because each call holds `_mutex` |
| `Relay` | abstract: messages taken in order and given to whom they name, with a number of spares |
| `SoftwareBus` | the bus process over a ROUTER socket: receiver loop, message handler, signal, clients |
| `KeyVault` | abstract: one key pair per module, the first one put there |
| `KeyStore` | processes of bus and peer that start against one database file: the file, its schema, the keys |
| `TaskQueue` | abstract: tasks that start in order, each once, and a pool that closes when all have ended |
| `ThreadPool` | the workers of the pool, its callers, its destructor |
| `Mailbox` | abstract: calls that put a whole message into a box or nothing |
| `Transmitter` | a client: the send loop of the peer, `IpcClient`, `ZMQWTransmitter`, its DEALER socket |
| `IpcLink` | `Transmitter` composed with the receiving half of the bus |
| `RecencyCache` | abstract: a cache that knows which key was used after which |
| `LruCache` | the cache as list, nodes and map |
| `KeyRegister` | abstract: keys that are set once, change while they live and die |
| `KeyTable` | processes that store, update, get and remove keys in one table |
| `ProcManager` | the map from names to process ids, and the process table of the machine |
| `PortScan` | processes that look for a free port |
| `SlotListProofs`, `ManagedBufferProofs`, `SoftwareBusProofs`, `KeyStoreProofs`, `ThreadPoolProofs`, `IpcLinkProofs`, `KeyTableProofs`, `UtilityProofs` | the proofs; `UtilityProofs` has those of `LruCache`, `ProcManager` and `PortScan`, utilities that use nothing of each other |
| `MC...` | constants and symmetry for TLC |

**ManagedBuffer.** `pool` is the metadata of the slots with the two counters,
`canary` the guard words, `handle[h]` the pointer variable of a caller. A caller
may also drop its pointer (`Forget`: the early returns of `_send_message`) and
write past its slot (`Overrun`: its `memcpy`). An empty frame keeps its 64
bytes up to the guard word, so a copy of 302 bytes takes that word, all of the next slot
with its guard word, and `in_use` of the slot after it (`Overwritten`). From then on
(`~Intact`) metadata are bytes of a message: what a call reads of them may be
anything, and the process may not survive it (`Collapse`). The invariants about the
list therefore speak of a buffer whose guard words are all there, which is what
`check_integrity` looks for; a free slot whose guard word is gone can be handed out, since
`get_slot` does not look at it. A damaged slot aborts the process
in `release_slot` and `check_integrity`, because the recovery action for
`MANAGE_BUFF_OVERFLOW` always answers false. `is_empty`, `is_full`, `size` and
`capacity` change nothing and have no action.

**SoftwareBus.** `pc` follows the one thread: `listen`, then `check` (the
flag), `poll`, `handle` in a loop, until `done`. `_handle_msg` is one action
with a disjunct per path, because nothing else touches the state it works on;
the signal handler, the clients and the socket move between its calls. `inbox`
is the queue of complete messages, `outbox` what the socket gave to each
client. `frames[s]` says whether the frames of a slot are as `init_allmsg` sized
them, closed after a receive, or empty after a send. `_send_message` is part of
the handler: it takes a second slot, and
either all three frames go (`SendMessage`), or one send fails and the slot is
lost (`FailSend`), or the frames of the slot have been sent before and the copy
runs past them (`Misfill`). After that copy the behaviour of the process is
undefined and the model stops (`pc = "undefined"`).

Outside the code, modelled from how it is used: the ROUTER socket (`Route`: to
the connection with the identity of the first frame; frames for an unknown
identity are discarded; frames of an unfinished multipart message follow the
first one) and the clients. A client's id and the identity of its connection
are one value, as `ZMQWTransmitter::_init` sets them; clients send complete
messages with their own id, as `IpcClient::send` does. Any send may return -1,
as its contract says; polling and receiving fail only when the signal interrupts
them.

To its clients the bus is a `Relay`. Slots, frames and the free list come down to
one bit and one count there: whether the present spare is used up (`Spent`: the
slot behind slot 0 was sent through) and how many forwards broke off, which is
how many slots leaked. A relay goes on from a break-off with its next spare,
breaks down on a second forward through the same one, and forwards nothing once
all are gone.

**KeyStore.** `pc` follows each process through `_init` of the database
(`check`, `open`, `schema`), `_handle_keys` (`alloc`, the two reads, `generate`,
`begin`, the two inserts, `commit`) and, for the peer, a second `_init` and the
lookup of the router's key; `want` says which of the two the file is opened
for. One action is one call that touches the file or one decision of the code.
`file`, `schema` (how many statements of `table_keys.sql` took effect) and `rows`
are on disk and survive `Stop`; `staged` and `writer` are an open transaction
and SQLite's write lock; everything else is memory of a process. A key pair is a
number, so halves match when they are equal. Every failure the code tests for
is an outcome of its action, and a process may end or be killed between any two
steps (`Stop`). When `sodium_malloc`, `sodium_mlock` or the generation of a pair
fails, the code goes on with null or freed memory: the model stops that process
there (`pc = "undefined"`).

To the processes the file is a `KeyVault`. The two halves are read one after the
other and outside a transaction, the rows are written under a lock that the
reader does not take, and any process may be killed in between; still a process
fetches a pair as if at one point, or draws a new one, and only an empty place
is ever filled. The pair a process uses is `mem`, except between the two reads.

Assumed of SQLite, as the code uses it: a statement outside a transaction and a
COMMIT are atomic; the file is in WAL mode, so reads do not wait; a deferred
BEGIN takes no lock and the first INSERT does; an INSERT that violates a
constraint undoes itself and leaves the transaction open; an INSERT that waits
for the lock ends with SQLITE_BUSY after the timeout. Reads fail only
without a connection or without their table. At the start nobody calls
`update_key` or `remove_key`, so `is_active` is 1 here; `KeyTable` has them. The
recovery actions of the database
all answer false, so an error given to `handle_error` aborts.

**ThreadPool.** What is done under `queueMutex` is one action: evaluating the
predicate and going to sleep (`Wait`), leaving, taking a task, `Push`, `Stop`.
`notify_one` and `notify_all` come after the unlock and are actions of their own;
`notifying` holds the callers in between. A caller is a client thread or a worker
whose task submits tasks. The constructor spawns thread by thread, and a thread
works as soon as it is there. The destructor starts when no client is inside
`enqueue`, which the lifetime of the object demands. An exception, of a task or
of the creation of a thread, is caught by nobody and ends the program
(`Terminate`). No program of the repository uses the pool yet.

**Transmitter, IpcLink.** `pc` follows the one thread of a client: `connect`, the
loop (`check`, `send`) and inside `_send` the frame that is next (`identity`,
`empty`, `data`), then `linger`, the wait of `zmq_ctx_destroy`. One
`zmq_msg_send` is one action. `open` holds the frames the socket accepted of a
message that is not finished, `queue` the finished ones; `SendFails` leaves both
as they are and gives the slot back. `named` are the slots whose identity frame
still has its bytes. The free list is the one of `SlotList`. A call sends one
chunk, because `IpcClient::send` always passes one `ipc_msg_t`, which is
the chunk size. `Connect` ignores its result as `IpcClient::_init` does: a
client may go on unconnected, and then `ZMQ_SNDTIMEO` makes its first frames fail.
`IpcLink` adds the connection (`Transfer`) and the part of `_handle_msg` that reads
the frames (`Contents`: the last frame of 302 bytes, or what was on the stack). Both
processes may be killed and started again at any time. What the bus does with
several clients, its slots and its forwards is in `SoftwareBus`; connections do not
influence each other. Outside of the code: the sockets deliver complete messages
in order up to their high-water mark, and an identity is a frame of 7 bytes.

**LruCache.** A list of nodes, what each node holds, and the map from keys to
nodes. `push_front` may take any node that is not in the list, the one just
erased too, as an allocator does. `push` and `get` hold `_mutex` throughout and are
one action each. `last` and `newer` are history: what was pushed last under each
key and which key was used after which. No program uses the cache yet.

**KeyTable.** A call is `Prepare`, then the step that does its work
(`StoreKey`, ...) or a failure; other processes come in between. `stmts` counts the
statements of a connection: `execute` finalizes its own, `query` and the
failing paths leave theirs for `close` (`left` counts them). A statement that was left has been
stepped to its end and holds no lock, only memory. `close` finalizes whatever it finds in
one loop, which is one step here. Module, type and name of a key
are one `Name`. What SQLite does in a step is atomic, as in `KeyStore`.

**ProcManager.** `processes` is the map, `table` says who has each process id.
A child that ends stays in the table as a zombie, because no code waits for it;
ids that are free may be given to others. `stop_all` is a loop, one round per
action. A failed `fork` throws and changes nothing; a failed `exec` is a child that
ends at once.

**PortScan.** One call is `Open`, then one action per `bind`, then `Close` or
`NoPort`. Others bind and release ports at any time. A `bind` may fail on a free
port as well. The callers pass a port of 16 bits, so `htons` changes nothing.

## Runs

| run | bounds | shows |
|---|---|---|
| `buffer` | 4 slots, 3 callers | while the guard words are intact the list stays exact and slots have one owner; the buffer implements `SlotPool`, overruns included |
| `bus` | 3 slots, 2 clients, 4 messages, 2 failing sends, 1 disconnection | leaks, addressing and forwards, in every order; the loss of the last spare slot is permanent; the bus implements `Relay`; every message is read, the signal ends the loop |
| `bus_guard` | 3 messages, no failure | *violated*: the second forward overwrites a guard word |
| `keys` | 2 processes of the bus, 1 peer, 3 starts | stored keys match and stay, ready processes are the stored ones, half pairs stay as they are; the store implements `KeyVault` |
| `keys_half` | the same | *violated*: half a pair is stored |
| `keys_tables` | 1 peer, 2 starts | *violated*: a start finds a file without tables |
| `pool` | 3 threads, 2 clients, 4 tasks | no task is left to sleeping workers; the pool implements `TaskQueue`; every task runs, the destructor returns |
| `link` | 3 slots, 2 payloads, queues of 1, 3 failing sends | messages on the wire, in every order of failures, kills and restarts; the pair implements `Mailbox`; the peer is registered again, the signal ends it |
| `lru` | 4 keys, 2 values, size 3, 4 nodes | list and map agree; the cache implements `RecencyCache` |
| `table` | 2 processes, 2 names, 2 values, 2 statements | statements pile up as the code says and no faster; the table implements `KeyRegister` |
| `procs` | 2 names, 4 process ids | no stranger is signalled, `stop_all` reaches what it can and returns |
| `ports` | 2 processes, 4 ports, limit 3, 2 descriptors | each failed scan costs a descriptor, a scan ends |

Four slots are enough for a list whose order differs from the order of the
slots at both ends and in the middle, with one slot left to be taken; three
callers give a forgotten slot and two that compete. In the bus only two slots
are in use at a time besides the leaked ones, so three slots have all cases:
none leaked, one leaked, and no slot left for the sender. Four messages are
enough to register, to lose both spare slots and to drop what follows. The counters `sends`, `failures` and `drops` are
bounded only to keep the state space finite; the theorems hold for every bound.
Callers and clients are interchangeable, so the runs without liveness use
symmetry where it pays (`buffer`, `lru`, `table`); runs with liveness
never do. Two processes of one module race for the rows of that module, or the
second finds what the first left behind; the third start is one that comes after
both, or the peer that looks the key up. The theorems hold for any number of
starts. Pairs are counted by `made`, which `MaxStarts` bounds
too. Three threads and four tasks have every mixture of sleeping, woken and
working threads with more tasks than either.

The link needs two failures (one leaves frames behind, one comes while they are
there) and has a third for the send after that; two payloads tell whose data a
message ends with; three slots would show a slot taken out of order. Queues of
one on either side hold two messages, so one of a killed client is still on its
way while the next client sends. The cache
evicts after three of four keys, so a key can be in front, in the middle, last or
gone, with one spare node. Two processes are a store and what it races with; two
statements are one left behind and one in use. Four process ids are
two children of one name, one of another, and one of a stranger; names beyond that
repeat. Port 4 lies behind the limit, where a scan tries its first port only.

Some invariants are left to their theorems and not checked again by a run:
the type invariants, `OrphansStay` (by
`ImplementsPool`), `ReceiveSlotNeverSent` (the lemma behind
`ForwardsNeedFreshSlots`), `OneReady` (by `ReadyIsStored`), `OneStoreWins` and
`RemovedIsFinal` (by `ImplementsRegister`).

Deadlock is checked in the runs from `link` on, where somebody can always go on.
In the others it is not: the buffer's process aborts, the bus ends after its
signal, the starts of the key store may be used up, and a pool ends with its
destructor or with the program.

**Fairness.** `FairSpec` assumes that the worker thread keeps being scheduled
(weak fairness of `Worker`). Nothing is assumed of clients, of the signal or of
failures. The poll returns within 500 ms (`receiver.cpp:26`), so no step of the
thread waits for ever. In `ThreadPool`
threads are scheduled and tasks end; spurious wake-ups may happen and are never
counted on. In `IpcLink` the client's thread, the bus and the connection take the
steps they can take; nobody has to start, end, or fail, and the bus must stay for
either property to promise anything, which is why both have it as their
premise. In `PortScan` the processes that scan are scheduled (`FairScanSpec`), in `ProcManager`
a `stop_all` that was called goes on (`FairManagerSpec`). No property of the key store
needs fairness.

## What the runs found

* `software_bus.cpp:58`: the frames of a slot are sized once and `zmq_msg_send`
  empties them. The free list is last in, first out, so the second forward is
  given the slot of the first one, and the copy of 302 bytes runs over the guard
  word, the next slot and its guard word, a free slot or one in use. `ForwardsNeedFreshSlots` states the
  consequence that holds instead: a bus completes at most one forward more than
  it has lost slots.
* The early returns of `_send_message` lose their slot. The bus keeps receiving
  all the same (`ReceiveSlotReserved`), because the slot a message is received
  in is taken first and always given back, but once the others are lost
  it drops every message and reports Ok (`LossIsPermanent`).
* `module.cpp:92`: the condition behind the two inserts tests `write_prv` twice.
  A process that finds the file while another one is creating its tables fails
  to store its public key, then stores its private key and commits
  (`keys_half`). What holds instead: a public key is never stored without its
  private key, and a half pair stays one for ever (`HalfPairStays`).
* `transmitter.cpp:128`: frames of a failed send stay in the socket and are
  continued by the next one. It does no harm, for three reasons that must hold
  together: the failed call never gets as far as data, the bus takes the last
  frame of 302 bytes, and the identity frame of the one slot in use is empty after
  its first send (`MessagesEndInData`, `NamesLead`).
* `izmq.cpp:59`: a client told to end waits until a bus has taken its
  messages, for ever if there is none (`SignalEndsClient` needs a bus).
* `keys_db.cpp:228`: a removed key keeps its row, so its name can never be
  stored again, and `update_key` of it answers Ok without an effect anybody can see.
* `net_helpers.cpp:136`: a scan that finds no port leaves its socket open
  (`SocketsAreFailures`); the port another scan returns may be taken by the time it
  is used (`net_helpers.cpp:141`), which nothing in the repository excludes and no
  property here either.
* `proc_unix.h:24`: a second process under a name takes the record of the
  first, which nothing stops any more (`RunningAreKnown`).
* `5thdsql.cpp:315`: only a process that found no file runs the script. If that
  process dies on the way, no later start completes the tables (`keys_tables`),
  and each of them generates keys it cannot store. A peer that can be restarted
  "without corrupting node state" (`docs/architecture.md:171`) would not have this.

## Proofs

`SlotListProofs` proves about the list, for every `Size`: a fresh list is
exact; an exact list is exhausted exactly when every slot is in use; taking and
returning keep it exact; `used_count` is the number of slots in use. The witness
is carried through explicitly: the sequence that enumerates the free slots loses
its head or gains one.

`ManagedBufferProofs` proves the invariants of the buffer (types, exact list and
exclusive owners as long as the guard words are intact) from an inductive invariant that is their
conjunction:
exclusiveness alone is not inductive, since `get_slot` hands out whatever
`current_free` says. From it follow `OrphansNeverReturn` and
`BufferImplementsPool`, the refinement of `SlotPool`, one step per action: before an
overrun by the list, after it by the guard words alone.

`SoftwareBusProofs` proves the invariants of the bus from one inductive
invariant. Its heart: between two messages the list is exact with slot 0 at its
head, and a slot whose frames were sent is in use for ever or the one right
behind slot 0. So the handler receives in slot 0 each time, and a sender that
gets as far as copying finds either fresh frames or the slot just emptied.
Counting those slots gives `BusNeedsFreshSlots`; with one slot left the
handler's own makes the list exhausted, which gives `BusLossIsPermanent`.

`BusImplementsRelay` goes path by path through `_handle_msg`: each is one step of
the relay (`DropIsIgnore`, `SendIsForward`, `FailIsBreakOff`, `MisfillIsBreakDown`)
or none. The step that needs the list is the failing send: the relay goes on with
a fresh spare, so the slot behind the lost one must not have been sent through.
It is the next one on the list (`NextSpare`), hence free, and `FrameUse` says that
a free slot that was sent through was the lost one.

`KeyStoreProofs` proves every safety and action property of the key store for
any number of processes and starts, except `PairsAreWhole` and `TablesAreThere`,
which do not hold.
That a COMMIT replaces nothing is not visible at the COMMIT: it follows from what
was true when a row was staged and from the write lock held since. So `IInv`
adds what a transaction in progress knows (`Drafts`: staged rows are the
process's own keys, their places are free, the process is the writer, and what
reaches the COMMIT holds a private key), where a ready process can be and what it
relies on (`Saved`), and that what a peer read is still there (`LookedUp`). Most
steps change one process and no row; `OwnStep` reduces them to what they do to
`Drafts` and `Saved` of that process.

`StoreImplementsVault` adds what a process knows before it has a pair (`Looking`):
nothing is in its memory until the first read, and a public half it has read is
still the stored one when it reads the other, because stored halves never change.
So the second read is where the vault is asked (`ReadIsFetch`), a COMMIT is where
it is filled (`CommitIsKeep`), and every other step is quiet or an end.

`ThreadPoolProofs` proves `WakeUpPerTask`, which is inductive given the types
(each step moves one worker, one notification or one task, and the lemmas count
them), and that the pool implements `TaskQueue`. For the latter `IInv` adds that
the queue holds the last tasks that were enqueued, in order (`InOrder`), and that
workers leave one after the other but never the last one with a task in the
queue (`Departures`). What a caller counts on when it destroys a pool follows
without fairness: nobody sleeps after `notify_all` (`NobodySleepsOn`, the
invariant `Awoken`), and once the destructor has returned all tasks that were
accepted have ended (`DestructorDrains`, from `Accounted`: what has left the queue
runs or has ended). That it does return is `DestructorReturns`, which TLC checks.

`IpcLinkProofs` shows first that between two calls the pool is the fresh one
again, down to the order of its list, so every call works with slot 0. On that
`IInv` rests: the unfinished message holds no data and its identity, if any, leads
(`Unfinished`), and slot 0 has lost its name once the socket holds a frame; so every
finished message is complete. The map to `Mailbox` sends the frames of a message
to its data; each send that fails, and each frame but the last, is a
step the mailbox does not see or the failure of its call.

`UtilityProofs` proves of the cache that list and map agree and that the cache implements
`RecencyCache`. `IInv` adds that the list is in the order of the uses, that keys
that were evicted are older than all keys in it (`Ranked`), and that a cache
that evicted anything is full. The order of the nodes is proved for the two steps
there are: a node put in front, and the others after one is taken out.

`KeyTableProofs` proves all properties of the table for any number of
processes and keys; the invariant counts the stores that were told Ok against the
row there is (`RowsWon`), and the statements of a connection against the calls that left one
(`StatementsAreLeft`, which is inductive by itself).

Of the process manager it is not enough that records name processes of its own:
ids are handed out by the machine. The invariant says that a record names a child
started under that name and not signalled (`RecordsFit`), and that ids of children,
also of those that ended, are nobody else's (`OwnStayOwn`). Hence two names never
share an id, and `RunningAreKnown` is kept when a record is replaced: the one
child that loses it is no longer the latest under its name. `StopAllAlwaysReaches` is
that invariant at the moment the map is empty. The port scan needs
`SocketsAreFailures` to know that a descriptor is open when one is closed, and
proves in addition that no port is held between two calls (`NoPortIsKept`).

Assumed: `Size` and `NumThreads` are positive numbers (a pool of no threads drops
its tasks), `NULL` is no slot, `NULL` and `LOST` are no clients, `NONE` is neither
a process, a key nor a task, processes of the bus and of the peer differ, the
callers of a pool are finitely many and not its own threads, `NULL` and `MISS` are
neither nodes nor values, the size of a cache is positive (of size 0 its first push
is undefined behaviour) and its keys are finitely many, the results of the table
and its values differ and no call is `NONE`, the bounds are natural numbers. `NIL` is no
process id, `OTHERS` is no process that scans, the last port of a scan is a port and
a process may open at least one descriptor.

Only model-checked: liveness, that is the properties of the runs whose
specification states fairness that say something must happen; fairness is out of
the prover's reach. Every other property of a passing run is a theorem.

## Not modelled

* `core/common/entt.hpp`: a vendored library of 89907 lines, nearly all of the lines of the
  repository, included by nothing that is built.
* `main.cpp` and `main_srv.cpp`: the first is one comment, the second an echo
  demo. The GUI and the gateway of the documents are not in the source.
* `ZMQWTransmitter::worker`, `ZMQBus::_recv_message`, `_setup_drp` and
  `_handle_msg_buff` of the transmitter: no callers, so no state they can be in.
* Chunks: `_send` splits data longer than an `ipc_msg_t`; its only caller never
  passes any.
* CURVE and socket options, generation of keys, secure memory, logging and
  printing: calls passed on to libraries, without state of the program. Their
  failures are outcomes where the code looks at them.
* `net_helpers.cpp` but for the port scan: public and local addresses and
  interfaces are asked of the system and returned.
* `proc_win.h`: the Windows build, which keeps handles, so ids play no part.
* Exceptions inside `LRU_Cache::push`, and `expires_at` of a key, which is stored
  and never read.
