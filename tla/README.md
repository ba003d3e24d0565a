# Verification of mtasa-blue

TLA+ models, TLC runs and TLAPS proofs about the parts of Multi Theft Auto whose
correctness depends on order and interleaving rather than on formulas. Paths are
relative to the repository; `L/` stands for `src/Server/mods/deathmatch/logic/`
and `X/` for `src/Shared/mods/deathmatch/logic/`.

## 1. The system

MTA is a server (`src/Server`), a client (`src/Client`) and code that both
compile (`src/Shared`). The server is one main loop: each pulse it handles the
packets that arrived, runs Lua scripts, timers and events, and pulses its
managers. Around that loop run service threads, which get commands through
queues: one for the databases, one for the network, workers for tasks, the HTTP
threads. Scripts are called from almost everywhere (events, callbacks, even a
warning that is logged) and may call back into almost everything. The two
sources of trouble are therefore *threads sharing a queue* and *re-entrancy of
the main thread*; between server and client there is, in addition, *a network
that reorders nothing on a reliable channel but may cut it at any time*.

### Inventory

| Component | State it keeps | Operations | Interaction, and what is hard | What makes it correct |
|---|---|---|---|---|
| Asynchronous database queue: `L/CDatabaseJobQueue.cpp` | command queue, result queue, finished list, handles of connections, flush list, jobs with stage, result and callback | AddCommand, PollCommand, FreeCommand, DoPulse, StopThread; ThreadProc with connect, disconnect, query, flush, log level | two threads and one mutex; the thread uses the front job without it; callbacks and log messages run scripts in the middle of a sweep or a wait | every job in exactly one list; the thread's job stays where it is; a result is collected or thrown away, never both; callbacks once and in order; changes get flushed; queries precede their disconnect |
| Database and queue managers, Lua functions: `L/CDatabaseManager.cpp`, `L/CDatabaseJobQueueManager.cpp`, `L/luadefs/CLuaDatabaseDefs.cpp` | which handles exist and of which type | Connect, Disconnect, Exec, QueryStart, QueryWithCallback, QueryWithResult, dbPoll, dbFree | several steps of the queue with other callers between them | a disconnected handle leaves no result behind; a freed or collected query is not used again |
| Database connections: `L/CDatabaseTypeSqlite.cpp`, `L/CDatabaseConnectionSqlite.cpp` | reference counts of shared connections, open automatic transaction | connect, release, query, flush | handles share a connection, the flush list does not know it | no transaction stays open with nothing to flush it |
| Latent transfers: `X/CLatentSendQueue.cpp`, `X/CLatentReceiver.cpp`, `X/CLatentTransferManager.cpp` | per remote a send queue with rate and carry, and a receiver with a half-received packet | AddSend, CancelSend, OnLuaMainDestroy, DoPulse, OnReceive, RemoveRemote | parts in flight while the sender cancels, a VM stops or the remote leaves; the handler may kick its own sender; a receive error is fatal | packets arrive whole, once, in order; no legal sender causes a receive error; rate follows the queue; transfers end |
| Net buffer: `L/net/CNetBuffer.cpp`, `L/net/CSimControl.cpp` | queues of network commands, results and input; cached statistics; who has the packet handler | SendPacket and others as commands, blocking calls, GetNetworkStatistics, DoPulse, ProcessPacket, switching the sync thread on and off | the main thread and the sync thread, one mutex; packets are under way during a switch; caches filled by late callbacks | commands and packets in order, once; a job in one list; blocking calls return; nothing queued is lost at a switch |
| Network watchdog: `L/net/CNetBufferWatchDog.cpp` | status of each queue, a history of sizes | pulse once a second | thresholds over time | suspended sync is resumed |
| Lightweight sync: `L/net/CSimPlayerManager.cpp` | copies of players for the sync thread | add, remove and update of players, relay of packets | removal on one thread, relay on the other | no relay to or from a removed player |
| Resource life cycle: `L/CResource.cpp`, `L/CResourceManager.cpp` | state of each resource, its includes, temporary includes and dependents, what the manager keeps of running ones, the queue | Start, Stop, Reload, restart in two halves, StopAll, delete | start and stop events run scripts that start, stop and delete; a start fails half-way or is cancelled | a running resource's includes have it as dependent; what the manager keeps is of running resources; no pointer to a deleted one; the queue is worked off |
| Element tree, events, deletion: `L/CElement.cpp`, `L/CElementDeleter.cpp`, `L/CElementGroup.cpp`, `L/CMapEventManager.cpp` | parents and children, groups, deletion list, handlers and their trash | destroyElement, quitting, DeleteTree, DoDeleteAll; call, add and remove handlers; CleanUpForVM | the destroy event runs handlers before the element is marked; handlers remove handlers while they are called | the tree holds exactly the live elements; an element is deleted once and freed; no freed handler is called; a stopped resource leaves nothing |
| Syncer assignment: `L/CUnoccupiedVehicleSync.cpp`, `L/CPedSync.cpp` | syncer of each element, one persistence flag each | Update, Find/Start/Stop/OverrideSyncer, pushes, entering and leaving, ~CPlayer | events between the stop of the old and the start of the new syncer | the syncer was told and exists; a vehicle with a player close to it gets one |
| Object sync: `L/CObjectSync.cpp` | | | not compiled (WITH_OBJECT_SYNC) | |
| Element ids: `X/CIdArray.cpp` | stack of unused ids | PopUniqueId, PushUniqueId | ids are reused while old packets are about | an id names one element |
| Asynchronous tasks: `src/Shared/sdk/SharedUtil.ThreadPool.h`, `SharedUtil.AsyncTaskScheduler.hpp` | queued tasks, results, exit flag | enqueue, worker loop, shutdown, CollectResults | workers and main thread at shutdown; callbacks under a lock | every task runs or is visibly dropped; results are delivered once |
| Timers: `L/lua/CLuaTimerManager.cpp` | timers | add, remove, pulse | timers remove timers while they run | memory in use is not freed |
| Players, accounts, bans, registry, remote calls, HTTP, client, vendored libraries | see PROJECT.json | | input, output, data | not modelled |

The hazards found in them, each at its line and with the properties that cover
it, are in PROJECT.json.

## 2. Modules

| Module | Role |
|---|---|
| `DatabaseJobQueue` | both threads of the database service, with the manager calls and Lua functions that use it |
| `QueryService` | abstract: what a client of the database service is promised |
| `DatabaseJobQueueProofs` | theorems about the structure of `DatabaseJobQueue`: its lists and the thread's job |
| `DatabaseClientProofs` | theorems about its clients: calls in progress, callbacks, queries, flushes, and the refinement of `QueryService` |
| `LatentTransfer`, `LatentTransferProofs` | one direction of latent transfers between a sender and one remote; its theorems |
| `TransferService` | abstract: what a sender is promised |
| `NetBuffer`, `NetBufferProofs` | the main thread and the sync thread around the net module, and the switch between them; its theorems |
| `ResourceLifecycle`, `ResourceLifecycleProofs` | resources, their includes and dependents, and the manager's queue; its theorems |
| `ElementDeletion`, `ElementDeletionProofs` | the element tree, event handlers, deletion, and the stop of one resource; its theorems |
| `SyncerAssignment`, `SyncerAssignmentProofs` | which player syncs an unoccupied vehicle or a ped; its theorems |
| `Subsequences` | erasing from the middle of a list, said without recursion |
| `SequenceLemmas` | what the proofs need of sequences, counting and subsequences |
| `MC...` | an instance of each for TLC; the instances' bounds are in the .cfg files |

### DatabaseJobQueue

`stack` is the main thread's call stack, innermost call first. A frame is a
script or log handler that is running, a PollCommand with its job and timeout, a
caller about to collect what PollCommand found, a caller about to free a job, or
DoPulse with its place in the loop. Whatever may run a script pushes a frame, and
whatever a script may call is enabled while such a frame is on top: this is how
re-entrancy is modelled, to any depth the jobs allow. A step that runs under the
mutex from lock to unlock is one action; only the sweep of DoPulse, which is long
and calls back in the middle, is a step per result, with `mutex` held.

The service thread takes the front command (`ThreadTake`), executes it without
the lock (`Process...`, one action per command type), and makes it a result
(`ThreadStore`). A job's record of the code becomes the functions `stage`,
`command`, `status`, `callback` and the sets `ignored` and `held`. `dirty` holds
the connections with an open automatic transaction.

Abstracted: SQL text and results (a query succeeds or fails), the condition
variable (all waits have timeouts, so a lost signal delays but cannot block), log
levels, statistics. Jobs are reused after DoPulse deletes them, as memory is.
`Room` bounds live jobs by what the constant `Jobs` allows, keeping one for each
flush that is due.

`QueryService` has one queue of accepted queries that are executed in order, each
once; then the result is taken or, when given up, thrown away. The refinement maps
its queue to the command queue and a query's outcome to the job's stage.

### LatentTransfer

A transfer is split in HEAD, further and TAIL packets over a reliable ordered
channel. The module has the sender's queue (`txQueue`, rate, carried bytes, the
smoothed time between pulses), the packets in flight (`net`) and the receiver
(`activeRx` and the flags of a receiver whose handler is running). A packet carries
bytes that know which transfer and which place they come from, so that whether a
packet was put together correctly can be seen (`fate`). The arguments of each
AddSend are constants. A persistent transfer is one no VM owns: it is sent with
resource id 0xFFFF and not cancelled when its resource stops.

Sizes and rates are constants with the code's names; the instance divides them by
about 250. The number of packets in a pulse is computed in closed form where the
code loops. Both directions use the same code: `ReceiverIsServer` and
`LatePackets` say where it differs (a server queues input that outlives its
player, can kick inside a handler, and refuses 0xFFFF). The estimate of
getLatentEventStatus only reads and is left out; CancelAllSends is never called.

`TransferService` has one FIFO of pending transfers: the oldest arrives, any may
be cancelled, all are lost when the remote leaves. The refinement maps it to the
tails in flight followed by the queued items whose tail was not sent.

### NetBuffer

CNetServerBuffer stands between the game and the net module: calls of the game become
commands in `cmds`, which the sync thread executes; packets the net module hands over
go into `incoming`, which the game takes a batch of at every pulse. `thread` and `main`
say where the two threads are; an action is what a thread does between two points
where it gives the mutex up, so the command at the front is executed (`ProcessCommand`)
with the main thread free to append. The functions of the net module that differ only
in their arguments are one kind each: `Send` for those that go through
AddCommandAndFree, `Query` for those that block, `GetNetworkStatistics`, which blocks for
the first answer and then returns the cached one and sends a command with a callback.
`SetCallback` is an action of its own because it runs without the mutex. The main thread
waits in PollCommand as the code does: it looks, then sleeps, and `StoreResult` wakes it.

CSimControl changes `enabled` in the steps of the code: `Enable` creates the buffer and
registers its packet handler; `Disable`, `RestoreHandler`, `Restored`, `StopThread` and
`Stopped` take it out, the last one with whatever the queues still hold. Packets are
numbered by arrival and sends by issue; `handled`, `dropped` and `wire` record what
reached the game and the net module, and exist only to state the properties.

### ResourceLifecycle

The module is the C++ call stack of Start, Stop, Reload, startResource and ProcessQueue.
A frame's `pc` is the event or loop the call is in; with a frame of `EventPcs` on top, a
handler is running, and `ScriptCall` lets any resource that has a VM call startResource
(persistent or not), stopResource, restartResource, deleteResource, and a function that is
deferred until clients are synced. `res[r]` holds the fields of a CResource: `state`,
the linked includes (`links`, `linked`), the temporary includes (`temps`), the dependents
(`deps`), persistence, how it was started, the VM, and whether its files have changed.
`Call` replaces a frame by the call it makes and what is left of it, which is how
AddDependent and RemoveDependent start or stop another resource in the middle of a loop
over includes. Where the code would follow a null pointer or a deleted resource, it has
no successor; `Crashed` names these states.

### ElementDeletion

Again the stack is a variable. One resource owns a tree: its root, its dynamic root, the
root of its map with an item and a sub-item, and an element its script may create;
another resource's script has a handler too. An event is called as in the code: the
handlers of the element and of its ancestors, the parent read after each
(`CallParentEvent`), then those below it from snapshots of the lists of children
(`CallChildEvent`); a manager's Call iterates over a copy of its handlers, skips those
being destroyed, and the outermost one takes out the trash. DestroyElement recurses over
the children with the code's iterator; an iterator that became invalid sets `crashed`,
from where nothing goes on. Stop deletes the two groups, closes the VM (deleting its
handlers in the tree and in the deletion list), and deletes the dynamic and the resource
root with DeleteTree, which collects, calls and marks, and unlinks in three passes.

### SyncerAssignment

`syncer`, the managers' flags `persistent`, and `told`, what each client was last told by
start and stop packets (these are reliable and ordered). A function that fires
onElementStartSync or onElementStopSync leaves a script frame above what it does next;
the script may set the syncer of the same element, destroy it, or kick a player.
`UpdateNext` walks Update's list of vehicles or peds with such scripts in between. The
occupied-seat packets appear as StartEnter, Enter and Exit, the push packet as Push, and
positions as one of four places per player and element (close enough to become a syncer,
near enough to remain one, far, in another dimension).

## 3. Runs

| Run | Checks | Shows |
|---|---|---|
| `queue_reentrant` | TypeOK, JobPlacement, ThreadHoldsFront, NoDanglingJob, FlushScheduled | the structure survives scripts that call the database from callbacks and log handlers at any point (3 jobs, 1 handle, 225 000 states) |
| `queue_clients` | QueriesPrecedeDisconnect, ShutdownLosesNoQuery, FreedNotCollected, PollsUncollected, CallbacksInOrder, ImplementsQueryService | what clients rely on, with two handles that share a connection (3 jobs, 715 000 states) |
| `queue_live` | PollReturns, CallbackHappens, ChangesFlushed | under fairness waits end, callbacks come, changes are flushed (2 jobs) |
| `latent_to_server` | TypeOK, HandlerKeepsReceiver, ImplementsTransferService | whole, once, in order or not at all, also with kicks in the handler and late input (3 transfers, 75 000 states) |
| `latent_to_client` | NoReceiveError, CurrentRateIsHighest, TransferCompletes | no send sequence is fatal; rate and progress |
| `net_buffer` | TypeOK, JobPlacement, SendsInOrder, PacketsInOrder, StopLosesNothing, WaitReturns, CallbackHappens | two threads, blocking and called-back commands, and the sync thread switched on and off (296 000 states) |
| `resources` | TypeOK, Settled, PointersLive, IncludersAreDependents, StateIsOneFrames, QueueDrains | three resources through any nesting of handlers (658 000 states) |
| `elements` | TypeOK, TreeIntact, HandlersLive, StopLeavesNothing, DeletedIsFreed | deletion with handlers that delete, move, create and remove handlers (81 000 states) |
| `syncers` | TypeOK, SyncerTold | whom the server takes sync packets from (221 000 states) |
| `disconnect_ignores`, `net_disable`, `syncer_stuck` | one property each, violated | section 5 |

Bounds. Three jobs are enough for a query being polled, another one ahead of it or
freed by a handler, and the flush or disconnect between them; runs by hand with four
(two million states) found nothing more. Two handles are enough to share a
connection and lose one of them. Three transfers give a one-packet, a two-packet and
a many-packet transfer at a low, a middle and a high rate, two of one VM and a
persistent one, a cancelled front with a successor, ids that wrap (two of them), and
a reconnect with something left to send.

Four jobs, two sends, two packets and a queue of two let the main thread append while
the thread executes, a callback be pending across a switch, and the setting be switched
on and off again; one player, since which player the statistics are of matters to
StatisticsOfPlayer only (section 5). Of the resources, b includes a and c, and a includes
c, so that c has two dependents and b a chain; three calls of scripts or of the console
and one change of files are what the deepest traces of section 5 take. The tree of
`elements` has one element of every role; with three calls instead of two its invariants
hold as well (a million states, by hand). Two players give a syncer and a successor; the
vehicle and the ped differ in code, and each has its manager's flag.

Each property has a mutant of the model, a plausible bug named in the module next
to the definition it replaces, that violates it.

Handlers. PollsUncollected, FreedNotCollected, QueriesPrecedeDisconnect and the
refinement are checked for handlers of onDebugMessage that do not use the database
(`ReentrantHandler = FALSE`). With handlers that do, a disconnect by a handler
overtakes a query its interrupted caller has not yet accounted for, and a poll can lose
its result (section 5). Callbacks of queries may use the
database freely in all runs.

## 4. Fairness

Database: weak fairness of the main thread's steps inside a call (it is running);
strong fairness of the service thread (it needs the mutex again and again, and the
main loop leaves it free between pulses); strong fairness of a script's return (MTA
aborts scripts that run too long) and of the start of a pulse (the main loop pulses
every frame). No fairness of clients, of StopThread or of the choice between success
and failure. PollReturns holds although the server may shut down, because StopThread
runs only after every connection was closed, with no call in progress; a mutant that
drops this breaks it.

Latent transfers: weak fairness of the sender's pulse, of delivery by the reliable
channel while connected, and of a handler's return. `latent_to_client` assumes pulses
at least two ticks apart, where the lowest rate is worth a byte per pulse
(2 ms in the code, as MIN_SEND_RATE is 500 bytes per second); section 5 says why.

Net buffer: weak fairness of the sync thread and of what the main thread goes on with by
itself (both are running threads; the mutex is not a variable, as no step holds it across
another), and of DoPulse, which the main loop calls every frame. No fairness of the
game's calls, of packets or of the setting.

Resources: weak fairness of the code's own steps (a call goes on, a handler returns) and of
ProcessQueue, once a pulse. QueueDrains excuses the states in `Crashed`, from which the
server does not go on; handlers call finitely often because of MaxCalls.

Elements: weak fairness of the code's own steps, and strong fairness of DoDeleteAll, which
ends every pulse (`L/CGame.cpp:567`) whatever else ran in it. Syncers: the same for
the code's steps, strong fairness of both Updates and of the destructors.

## 5. Where the code disagrees with what it says

Three runs show a disagreement and are listed with their quotes in PROJECT.json:

* `disconnect_ignores`: Disconnect ignores the results of its connection after the
  queue has forgotten it, and so ignores none.
* `net_disable`: switching the sync thread off drains the incoming queue after the packet
  handler was cleared, and so deletes every packet in it.
* `syncer_stuck`: the persistence of a vehicle's syncer is one flag for all vehicles, and a
  persistent syncer who quits leaves it set; no vehicle gets a syncer by distance from
  then on. With Persist = {FALSE} and MaxMoves = 1 SyncerFound holds (125 000 states).

Other properties are stated in the modules and do not hold; each is reproduced by putting
it into the named configuration in place of its properties.

* `PollsUncollected`, with ReentrantHandler = TRUE in MCDatabaseJobQueue.cfg: a handler of
  the 60 s warning of PollCommand takes the very result that is waited for.
* `FlushScheduled`, with Jobs and `Shared` of MCDatabaseJobQueue.cfg: the flush list knows
  handles, transactions belong to connections; disconnecting one of two sharing handles
  leaves a transaction open.
* `TransferCompletes`, with Deltas = {1} and FairSpec in MCLatentToClient.cfg: the minimum
  rate is nothing at 1 ms per pulse.
* `PersistentNotRefused`, in MCLatentToServer.cfg: the server drops persistent transfers of
  clients. `LeftRemoteForgotten`, in the same: a queued part creates a receiver for a
  player who has left.
* `NoReceiveError`, in the same (LatePackets = TRUE; ten states): that receiver holds half an item
  when the next player with the id joins, whose first HEAD is then an error, fatal for the
  connection. MCLatentToClient.cfg, where nothing comes late, checks the property.
* `StatisticsOfPlayer`, with Players = {p1, p2}, MaxJobs = 5 and MaxSwitches = 1 in
  MCNetBuffer.cfg (about 40 states): the callback stores one player's statistics after the cache
  was switched to another (`L/net/CNetBuffer.cpp:330`; the comment at 320-321 says
  what the cache is for).
* `DependentsLive`, in MCResources.cfg (28 states): a restart resolves its dependents' names
  before the start's events, one of which deletes a dependent; the comment of ~CResource
  (`L/CResource.cpp:438`) says that the list is kept clean.
* `NotCrashed`, in MCResources.cfg: a handler of onResourceStart cancels the start of a
  resource that an inner call has already stopped (`L/CResource.cpp:1327`, 1340); Stop is
  called again from its first event, before the state has changed (1390, 1400); a VM is
  closed while a script of it is in a call; a resource is deleted in the event of its own
  reload (`L/CResourceManager.cpp:748`).
* `DeferredFresh`, in MCResources.cfg: what was deferred in a start that failed is run by
  the next one. `LinkedIsLinked`: m_bLinked stays set when an include is deleted.
* `IteratorsValid` of ElementDeletion, in MCElementDeletion.cfg: DestroyElement goes on from
  a child that a handler has moved out of the list
  (`L/CStaticFunctionDefinitions.cpp:323`). The other properties are checked up to there.
* `IteratorsValid` of SyncerAssignment, in MCSyncers.cfg: UpdateAllSyncer iterates over the
  list of peds while handlers destroy them (`L/CPedSync.cpp:88`).
* `OneClientSyncs`, in MCSyncers.cfg: a player who becomes the syncer inside the event of a
  change keeps believing it after the outer change has assigned another.

Read off the code without a run: the condition at `L/CGame.cpp:3995` tests
IsSyncerPersistent the other way round than its counterpart at 3642;
FindPlayerCloseToPed, unlike FindPlayerCloseToVehicle, does not ask whether the player is
being deleted; the watchdog's history holds 30 sizes
(`L/net/CNetBufferWatchDog.h:37`), so that the lowest since 30, 60 or 90 seconds is
always 0 and STOP_THREAD_NET is never reached.

## 6. Proofs

Each theorem holds for every value of the constants that their ASSUMEs allow: any finite
sets, any bounds, any nesting of calls. The properties are those of the runs, by name.

| Module | Theorems |
|---|---|
| `DatabaseJobQueueProofs` | TypeOK, JobPlacement, ThreadHoldsFront |
| `DatabaseClientProofs` | NoDanglingJob, CallbacksInOrder, FreedNotCollected*, PollsUncollected*, QueriesPrecedeDisconnect*, ShutdownLosesNoQuery*, FlushScheduled+, ImplementsQueryService |
| `NetBufferProofs` | TypeOK, JobPlacement, SendsInOrder, PacketsInOrder, StopLosesNothing |
| `ResourceLifecycleProofs` | TypeOK, Settled, PointersLive, IncludersAreDependents, StateIsOneFrames |
| `ElementDeletionProofs` | TypeOK, TreeIntact, HandlersLive, StopLeavesNothing |
| `SyncerAssignmentProofs` | TypeOK, SyncerTold |
| `LatentTransferProofs` | TypeOK, HandlerKeepsReceiver, CurrentRateIsHighest, NoReceiveError-, ImplementsTransferService |

`*` assumes `ReentrantHandler = FALSE`, `+` that no two handles share a connection and `-`
that `LatePackets = FALSE`. None is an assumption of convenience: without it the property is
false of the code, and section 5 says how. All others are without hypotheses; in particular
both refinements are proved step by step: the queue implements `QueryService` also with handlers
that use the database, and transfers implement `TransferService` also with late packets.

### Database

`Structure` is the invariant of the first module: its three properties with
`IdleThreadHasNoJob`. None of them is inductive alone. The type of what the thread does
next depends on `current` being a job, which ThreadHoldsFront gives; that the front stays
needs that nobody else removes commands and that a queued job is not queued again, which
JobPlacement gives; ThreadStore keeps JobPlacement because the job it moves is the front and
appears once.

The second module adds what ties the call stack to the lists:

* `Calls`: a call that polls, collects or frees a job names a live one, which is finished if it
  is being collected; DoPulse is the outermost call, so what it deletes no other call
  names; a finished job has no callback left; while DoPulse sweeps the results, none before
  its place has one (`SweptClean`), which is CallbacksInOrder read off a state.
* `Solo`: with handlers that keep off the database, at most one call on a job is in
  progress, a script that may use the database runs only when there is none
  (`ScriptIsQuiet`), and the job of that call is neither ignored nor collected.
* `Ordered`: whoever disconnects waits, without a timeout, as long as its command is queued; hence
  no query of the handle can come behind it, and the thread is told to terminate when no
  query is left.
* `DirtyWillFlush`, `QueriesWillFlush`: each open transaction has a flush or a disconnect queued
  or a handle in the flush list, and each queued query a flush behind it. They differ from
  FlushScheduled in the query that was executed and is still the front: the thread may be
  cancelled there, and the flush must already be known.

The refinement maps a step of either thread to one of `QueryService` or to a stutter;
`Outcome` of a job is what its stage, status and `ignored` say.

### Net buffer

`IInv` has six parts: `Types`; `Control`, which says where each thread can be (what the main
thread goes back to, that nothing is queued without the buffer, that the last command has been
executed once the buffer is being taken out, that a batch is held only while it is worked
on, and that the queue has room for what the thread still counts on); `JobPlacement`;
`Pending`, which callbacks are still to come and that the command a call waits for is the
last one; `Sends` and `Packets`. The order of sends is kept because what is unsent in the queue, in
order, continues the wire; that of packets because handled, batch and incoming are three
increasing runs one below the other that together are what arrived and was not dropped.
StopLosesNothing is `Control` again: a direct send of the game is possible only when the queue
is empty.

### Resources

`Good` relates the resources and the stack: `ResOK` (deleted resources are out of use,
links and temporaries of live ones are live, a running resource has its VM and holds its includes),
`StackOK` and `MapsOK`. The heart is `Locks` and `Layered`: a resource is starting or stopping
exactly when a frame in that part of Start or Stop is on the stack, and no other Start or Stop
of it is above that frame, because both return early while m_eState says so. From it follow
StateIsOneFrames and, with an empty stack, Settled. `FrameOK` says of a frame in the
middle of its loop over includes which of them already have it as a dependent; `MapsOK` says
which lists may lag behind for which frame (`Lags`). These are operators of a state rather than of the variables,
since most steps end in a Call: a change of one resource, and then a frame pushed
on what is left of the stack; the lemmas treat the two apart. `Waiting` keeps ProcessQueue at
the bottom of the stack, and `WaitedOK` says that the resource it waited for is loaded when it goes on.
The theorem says nothing of what follows a state in `Crashed`, as there is no such
state; that these exist is section 5's finding.

### Elements

TreeIntact says what a walk over parents finds, TreeOK what holds the tree together: no element
has two parents, and whatever is alive or has a parent or children is in every set that
holds the root and the children of its members (`Reached`), a definition by which moving and
taking out can be reasoned about without induction. `MovedTree` needs that the new parent is
not below what moves, which setElementParent asks and the root and the new element's parent
satisfy; `TakenOutTree` that an element's children go to its parent. Between marking and
unlinking a DeleteTree has deleted elements in the tree: `BeingUnlinked`, whose frames only
rest on frames of their own kind (`Rests`). `FrameLive` says what each call in progress may
assume of the elements it was given, in particular that a collected one is alive or marked,
and not the root. `LineEquation` justifies the recursive function `Line`.

The other two properties are about calls in progress, and most steps begin or end only
calls that they do not mention (`Calm`), so the lemmas treat those steps at once.
`HandlersOK` adds to HandlersLive that a handler is on one element only, and that what a Call
still has to call is on the element it calls at: what its manager frees is then in no
other call's copy, and in its own only once that is over.

For StopLeavesNothing, what the resource creates must be met by a stop whose handlers still
create. `GroupsOK`: what is alive of a group is in its list, and during the stop the
loop over the group has not passed it, unless its deletion has started (`InGroup`);
the default group, where creations go meanwhile, is deleted last (`DefaultIsLast`) and the
loop reads its length anew. So nothing of either group is alive when the VM closes.
`RootsOK`: from then on a DeleteTree in progress comes to each of the resource's two roots
(`Doomed`), so that none is alive when no call is left.

### Syncers

`SyncerTold` needs that a frame that is going to make a player the syncer does not name a
freed one (`StackOK`): a player is freed by the outermost call only (the destructor runs from
DoDeleteAll), so no other frame is below it, and Update's frames only hold elements. `DriversLive` is what the
occupied-seat packets add.

### Latent transfers

`IInv` adds to TypeOK and HandlerKeepsReceiver what ties the two sides together:

* `QueueOK`: only the item at the front has been started, and no transfer is queued twice.
* `RateOK`: CurrentRateIsHighest, also of an empty queue, as AddSend takes a maximum with it.
* `PendingOK`: a transfer is being sent exactly when its tail is on its way or it is an item whose
  tail was not sent, never both; and nothing is when no remote is connected.
* `ChannelOK`: the packets in flight form a chain (`Chained`). A stage is a place in a transfer,
  or `Idle`; each packet goes on from one stage (`Follows`) to the next (`After`), the first from the
  stage the receiver is at (`Receiving`), the last to the one the sender's front is at
  (`Sending`). A HEAD follows Idle only, a TAIL the end of its transfer, a CANCEL any other
  stage of it. So each packet is what its receiver accepts, and a TAIL completes the bytes.
  The one exception is `Stale`: what late packets of a remote that has left began is still there
  when the next one's first HEAD comes. It needs LatePackets, whence the hypothesis of NoReceiveError,
  and it drops the new remote with all its transfers, which `TransferService` allows.

That a pulse keeps the chain rests on the closed form of its packets: `PosAfterRises` (each
moves the place on by at least a byte until the end) and `LastPacket` (the one after that is the
tail). `IInv` does not say that transfers arrive in order. For the refinement
each pending transfer has a place (`Places`: its tail's in `net`, or after all of `net` its item's),
only one (`Placed`), and what `TransferService` calls pending is the only list of them in
the order of their places (`ListedOnce`). Then each action has to be looked at for what it does to
the places: AddSend adds the last, a tail that is received takes the first, a pulse moves the
front's from the queue to the end of `net` and thereby keeps the order, erasing takes some out.

### Sequences

`SequenceLemmas` states what appending, concatenating, taking the head and removing a place
do to order, entries and distinctness. `Subsequences` defines erasing by the positions
that stay, so that a proof about it needs no recursion: `SubsequenceProperties` says that the
result has the elements of those positions in their order, by way of `LeastNumber` (a
set of naturals has a least element), which is how the proofs do induction.

### Only model-checked

Liveness (PollReturns, CallbackHappens, ChangesFlushed, TransferCompletes, WaitReturns, QueueDrains,
DeletedIsFreed): fairness is out of the prover's reach.

## 7. Not modelled, and the plan

Left out of modelled components: Refresh, finding, loading, renaming and copying of
resources and their start options; the arguments of network commands and the relaying of
sync packets (with the watchdog's suspension) inside ProcessPacket; event priorities,
per-player entities, element data and the destructors of element types; trailers and time
contexts of syncers; several database queues. These either only read, only compute, or do
not call back.

Components not modelled: the MySQL driver, object sync (not compiled), element ids and
lightweight sync (wrong only together with what packets of clients carry, or kept under
one lock), Lua timers (a copy of the list, as for event handlers), and those that are
input and output, data or rendering: accounts, bans, registry, remote calls, HTTP, the
client's game code, vendored code. They make up nearly all of the repository's lines:
tables of vehicle handling, models and game memory addresses, argument parsing and fan-out
of packets, none of which has state whose order matters.

What the plan has left, in order:

1. `TaskScheduler`: workers, queue, shutdown; each task once, none lost silently; it and
   `DatabaseJobQueue` refine the same kind of service.
2. The watchdog with abstract queue sizes, once its history is long enough to matter.
3. Lightweight sync, with NetBuffer's threads; ids together with late packets.

Composition: `NetBuffer` supplies the late input that `LatentTransfer` takes as
`LatePackets`.

Proofs: every invariant and both refinements that the runs check are proved. What is left to
prove are invariants of new modules, and the safety part of the liveness properties that
are only model-checked: that what their fairness needs stays enabled.
