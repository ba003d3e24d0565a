------------------------- MODULE DatabaseJobQueue -------------------------
(***************************************************************************)
(* The asynchronous database service of the server: CDatabaseManager on    *)
(* top of one CDatabaseJobQueueImpl.  Two threads share the queue:         *)
(*                                                                         *)
(*   - the main thread runs scripts and the game loop.  It adds commands,  *)
(*     polls and frees them, pulses the queue once a frame, and so calls   *)
(*     back into scripts, which may call the queue again: `stack` is the   *)
(*     main thread's call stack, its head is the innermost call;           *)
(*   - the service thread (ThreadProc) takes the command at the front,     *)
(*     executes it without the lock, then moves it to the result queue.    *)
(*                                                                         *)
(* A critical section of shared.m_Mutex is one step, except the sweep of   *)
(* DoPulse, which is a step per result and holds `mutex` in between.  The  *)
(* condition variable is not modelled: every wait has a timeout (100 ms in *)
(* ThreadProc, at most 1 s in PollCommand), so a signal only saves time.   *)
(***************************************************************************)
EXTENDS Naturals, Sequences, FiniteSets, SequencesExt

CONSTANTS
    Jobs,               \* job objects that may be alive at once (the bound on them)
    Conns,              \* connection handles
    NoJob, NoConn,
    ConnectionOf,       \* the CDatabaseConnection a handle gets: handles that connect
                        \* to the same file with share=1 share one
    ReentrantHandler    \* may an onDebugMessage handler use the database?

ASSUME JobsFinite == IsFiniteSet(Jobs) /\ NoJob \notin Jobs
ASSUME ConnsFinite == IsFiniteSet(Conns) /\ NoConn \notin Conns
ASSUME SharingType == ConnectionOf \in [Conns -> Conns]
ASSUME HandlerType == ReentrantHandler \in BOOLEAN

VARIABLES
    stage,          \* CDbJobData::stage; "NONE" when the object does not exist
    command,        \* CDbJobData::command: its type and connection handle
    status,         \* CDbJobData::result.status
    callback,       \* CDbJobData::callback: unset, pending (which function), or done
    ignored,        \* the jobs whose result.bIgnoreResult is set
    held,           \* the query handles given to scripts
    commandQueue, resultQueue,   \* shared.m_CommandQueue, shared.m_ResultQueue
    finishedList,   \* m_FinishedList
    pendingFlush,   \* m_PendingFlushMap
    handleMap,      \* the keys of shared.m_HandleConnectionMap
    dirty,          \* the connections with changes that were not flushed
    typeMap,        \* the keys of CDatabaseManagerImpl::m_ConnectionTypeMap
    stack,          \* main thread: the calls in progress, the innermost first
    mutex,          \* "main" while DoPulse sweeps the results, else "free"
    thread,         \* service thread: where it is
    current,        \* service thread: its local pJobData
    shutdown        \* StopThread: not called, waiting, or returned

jobVars == <<stage, command, status, callback, ignored, held>>
queueVars == <<commandQueue, resultQueue, finishedList>>
connVars == <<pendingFlush, handleMap, dirty, typeMap>>
mainVars == <<stack, mutex>>
threadVars == <<thread, current>>
vars == <<jobVars, queueVars, connVars, mainVars, threadVars, shutdown>>

-----------------------------------------------------------------------------
EJobStage == {"NONE", "COMMAND_QUEUE", "PROCCESSING", "RESULT", "FINISHED"}
EJobCommand == {"NONE", "CONNECT", "DISCONNECT", "QUERY", "FLUSH", "SETLOGLEVEL"}
EJobResult == {"NONE", "SUCCESS", "FAIL"}

\* "script" is DbQueryCallback, which acts at stage RESULT only; "log" is
\* DbExecCallback or DbFreeCallback, which report a failure at any stage.
Callbacks == {"none", "script", "log", "done"}
Timeouts == {"zero", "finite", "infinite"}

\* Only a command on a connection names one.
Command == [type : EJobCommand \ {"NONE", "SETLOGLEVEL"}, conn : Conns]
           \cup [type : {"NONE", "SETLOGLEVEL"}, conn : {NoConn}]
NoCommand == [type |-> "NONE", conn |-> NoConn]

\* The calls the main thread can be in.
ScriptFrame == [op : {"script"}, handler : BOOLEAN]
PollFrame == [op : {"poll"}, job : Jobs, timeout : Timeouts, waiting : BOOLEAN]
JobFrame == [op : {"collect", "free"}, job : Jobs]
PulseFrame == [op : {"pulse"}, at : {"flush", "again", "scan"}, pos : Nat \ {0}]
Frame == ScriptFrame \cup PollFrame \cup JobFrame \cup PulseFrame

Script(h) == [op |-> "script", handler |-> h]
PollOf(j, t) == [op |-> "poll", job |-> j, timeout |-> t, waiting |-> FALSE]
CollectOf(j) == [op |-> "collect", job |-> j]
FreeOf(j) == [op |-> "free", job |-> j]
PulseAt(at, pos) == [op |-> "pulse", at |-> at, pos |-> pos]

Push(f, s) == <<f>> \o s

-----------------------------------------------------------------------------
\* m_ActiveJobHandles
Active == {j \in Jobs : stage[j] # "NONE"}

QueuedJobs == {commandQueue[i] : i \in DOMAIN commandQueue}
ResultJobs == {resultQueue[i] : i \in DOMAIN resultQueue}
InQueues(j) == j \in QueuedJobs \cup ResultJobs
OnConn(c) == {j \in QueuedJobs \cup ResultJobs : command[j].conn = c}

HasCallback(j) == callback[j] \in {"script", "log"}

m_bTerminateThread == shutdown # "running"

Top == Head(stack)
In(op) == stack # <<>> /\ Top.op = op
ReplaceTop(f) == Push(f, Tail(stack))

\* Scripts and game code run between the calls of the main loop, in a callback,
\* or in an onDebugMessage handler, and only while the server is up.
ScriptRunning ==
    /\ ~m_bTerminateThread
    /\ \/ stack = <<>>
       \/ In("script") /\ (Top.handler => ReentrantHandler)

\* m_bTriggeringMessageEvent: a message logged by a handler triggers no handler.
TriggeringMessage ==
    \E i \in DOMAIN stack : stack[i].op = "script" /\ stack[i].handler

\* The bound on live jobs: clients leave an object for every flush still to come.
Room(flushes) == Cardinality(Jobs \ Active) > Cardinality(flushes)

-----------------------------------------------------------------------------
Init ==
    /\ stage = [j \in Jobs |-> "NONE"]
    /\ command = [j \in Jobs |-> NoCommand]
    /\ status = [j \in Jobs |-> "NONE"]
    /\ callback = [j \in Jobs |-> "none"]
    /\ ignored = {} /\ held = {}
    /\ commandQueue = <<>> /\ resultQueue = <<>>
    /\ finishedList = {} /\ pendingFlush = {}
    /\ handleMap = {} /\ dirty = {} /\ typeMap = {}
    /\ stack = <<>> /\ mutex = "free"
    /\ thread = "loop" /\ current = NoJob
    /\ shutdown = "running"

\* Mutant: urgent commands overtake the others.
PushFront(q, j) == <<j>> \o q

PushBack(q, j) == Append(q, j)

\* CDatabaseJobQueueImpl::AddCommand: a new job object behind the command queue.
\* cb is the callback its caller sets next (the service thread never looks at it).
AddCommand(j, type, c, cb) ==
    /\ mutex = "free"
    /\ stage[j] = "NONE"
    /\ stage' = [stage EXCEPT ![j] = "COMMAND_QUEUE"]
    /\ command' = [command EXCEPT ![j] = [type |-> type, conn |-> c]]
    /\ callback' = [callback EXCEPT ![j] = cb]
    /\ commandQueue' = PushBack(commandQueue, j)
    /\ UNCHANGED <<status, ignored, resultQueue, finishedList>>

\* A query is accepted on a connection both maps know.
AddQuery(j, c, cb) ==
    /\ ScriptRunning
    /\ c \in typeMap /\ c \in handleMap
    /\ Room(pendingFlush \cup {c})
    /\ pendingFlush' = pendingFlush \cup {c}
    /\ AddCommand(j, "QUERY", c, cb)
    /\ UNCHANGED <<handleMap, dirty, typeMap, mutex, threadVars, shutdown>>

\* CDatabaseManagerImpl::QueryStart and QueryWithCallback: the caller goes on.
QueryStart(c) ==
    \E j \in Jobs, cb \in {"none", "script"} :
        /\ AddQuery(j, c, cb)
        /\ held' = held \cup {j}
        /\ UNCHANGED stack

\* CDatabaseManagerImpl::Exec: the caller frees the job next.
Exec(c) ==
    \E j \in Jobs, cb \in {"none", "log"} :
        /\ AddQuery(j, c, cb)
        /\ stack' = Push(FreeOf(j), stack)
        /\ UNCHANGED held

\* CDatabaseManagerImpl::QueryWithResultf: the caller waits for the result.
QueryWithResult(c) ==
    \E j \in Jobs :
        /\ AddQuery(j, c, "none")
        /\ stack' = Push(PollOf(j, "infinite"), stack)
        /\ UNCHANGED held

\* CDatabaseManagerImpl::Connect.  GetNextConnectionHandle skips the handles in
\* use; its counter has passed those of the connects in flight.
Connect(c) ==
    /\ ScriptRunning
    /\ c \notin handleMap
    /\ \A j \in QueuedJobs : command[j] # [type |-> "CONNECT", conn |-> c]
    /\ Room(pendingFlush)
    /\ \E j \in Jobs :
        /\ AddCommand(j, "CONNECT", c, "none")
        /\ stack' = Push(PollOf(j, "infinite"), stack)
    /\ UNCHANGED <<held, connVars, mutex, threadVars, shutdown>>

\* CDatabaseManagerImpl::Disconnect, on a handle FindQueueFromConnection knows.
Disconnect(c) ==
    /\ ScriptRunning
    /\ c \in typeMap /\ c \in handleMap
    /\ Room(pendingFlush)
    /\ \E j \in Jobs :
        /\ AddCommand(j, "DISCONNECT", c, "none")
        /\ stack' = Push(PollOf(j, "infinite"), stack)
    /\ UNCHANGED <<held, connVars, mutex, threadVars, shutdown>>

\* CDatabaseManagerImpl::Disconnect, when AddCommand returns no job.
DisconnectUnknown(c) ==
    /\ ScriptRunning /\ mutex = "free"
    /\ c \in typeMap /\ c \notin handleMap
    /\ typeMap' = typeMap \ {c}
    /\ UNCHANGED <<jobVars, queueVars, pendingFlush, handleMap, dirty, mainVars,
                   threadVars, shutdown>>

\* CDatabaseJobQueueManager::SetLogLevel: a command whose result is freed at once.
SetLogLevel ==
    /\ ScriptRunning
    /\ Room(pendingFlush)
    /\ \E j \in Jobs :
        /\ AddCommand(j, "SETLOGLEVEL", NoConn, "none")
        /\ stack' = Push(FreeOf(j), stack)
    /\ UNCHANGED <<held, connVars, mutex, threadVars, shutdown>>

\* Mutants: a freed handle, or one whose result was taken, can still be polled.
UsableWhenFreed(j) == j \in held /\ stage[j] \notin {"NONE", "FINISHED"}
UsableWhenFinished(j) == j \in held \ ignored /\ stage[j] # "NONE"

\* A script's query handle is refused once freed and once its result was taken.
Usable(j) == j \in held \ ignored /\ stage[j] \notin {"NONE", "FINISHED"}

\* CLuaDatabaseDefs::DbPoll
DbPoll(j) ==
    /\ ScriptRunning /\ Usable(j)
    /\ \E t \in Timeouts : stack' = Push(PollOf(j, t), stack)
    /\ UNCHANGED <<jobVars, queueVars, connVars, mutex, threadVars, shutdown>>

\* CLuaDatabaseDefs::DbFree: sets a logging callback if there is none, then frees.
DbFree(j) ==
    /\ ScriptRunning /\ Usable(j)
    /\ callback' = [callback EXCEPT ![j] = IF @ = "none" THEN "log" ELSE @]
    /\ stack' = Push(FreeOf(j), stack)
    /\ UNCHANGED <<stage, command, status, ignored, held, queueVars, connVars, mutex,
                   threadVars, shutdown>>

\* The script or the handler the main thread called returns.
ScriptReturn ==
    /\ In("script")
    /\ stack' = Tail(stack)
    /\ UNCHANGED <<jobVars, queueVars, connVars, mutex, threadVars, shutdown>>
-----------------------------------------------------------------------------
\* CDatabaseJobQueueImpl::FreeCommand
FreeCommand ==
    /\ In("free") /\ mutex = "free"
    /\ ignored' = IF InQueues(Top.job) THEN ignored \cup {Top.job} ELSE ignored
    /\ stack' = Tail(stack)
    /\ UNCHANGED <<stage, command, status, callback, held, queueVars, connVars, mutex,
                   threadVars, shutdown>>

\* CDbJobData::ProcessCallback: what the callback of job j, now at stage st, pushes
\* on the stack.  DbQueryCallback calls its script, or frees the job when the
\* script's VM is gone; a logged failure may call the onDebugMessage handler.
CallbackPushes(j, st) ==
    CASE callback[j] = "script" ->
            IF st = "RESULT" THEN {<<Script(FALSE)>>, <<FreeOf(j)>>} ELSE {<<>>}
      [] callback[j] = "log" ->
            IF status[j] = "FAIL" /\ ~TriggeringMessage
            THEN {<<>>, <<Script(TRUE)>>} ELSE {<<>>}
      [] OTHER -> {<<>>}

\* Pending callbacks are called with the lock released, and once.
ProcessCallback(j, st, below) ==
    /\ callback' = [callback EXCEPT ![j] = IF HasCallback(j) THEN "done" ELSE @]
    /\ \E frames \in CallbackPushes(j, st) : stack' = frames \o below

\* Mutant: the result stays in the result queue.
FinishInPlace(i) ==
    /\ UNCHANGED resultQueue
    /\ stage' = [stage EXCEPT ![resultQueue[i]] = "FINISHED"]
    /\ finishedList' = finishedList \cup {resultQueue[i]}

\* Take the result at position i out of the result queue; it is deleted next pulse.
Finish(i) ==
    /\ resultQueue' = RemoveAt(resultQueue, i)
    /\ stage' = [stage EXCEPT ![resultQueue[i]] = "FINISHED"]
    /\ finishedList' = finishedList \cup {resultQueue[i]}

\* PollCommand: the result is there.
PollFound ==
    /\ In("poll") /\ ~Top.waiting /\ mutex = "free"
    /\ \E i \in DOMAIN resultQueue :
        /\ resultQueue[i] = Top.job
        /\ Finish(i)
        /\ ProcessCallback(Top.job, "FINISHED", ReplaceTop(CollectOf(Top.job)))
    /\ UNCHANGED <<command, status, ignored, held, commandQueue, connVars, mutex,
                   threadVars, shutdown>>

\* PollCommand: not there, and no time left.
PollTimeout ==
    /\ In("poll") /\ ~Top.waiting /\ mutex = "free"
    /\ Top.job \notin ResultJobs
    /\ Top.timeout = "zero"
    /\ stack' = Tail(stack)
    /\ UNCHANGED <<jobVars, queueVars, connVars, mutex, threadVars, shutdown>>

\* PollCommand: not there, so wait on the condition variable, lock released.
PollWait ==
    /\ In("poll") /\ ~Top.waiting /\ mutex = "free"
    /\ Top.job \notin ResultJobs
    /\ Top.timeout # "zero"
    /\ stack' = ReplaceTop([Top EXCEPT !.waiting = TRUE])
    /\ UNCHANGED <<jobVars, queueVars, connVars, mutex, threadVars, shutdown>>

\* PollCommand: the wait ends.  A finite timeout may have run out; after a minute
\* the wait is reported, which may call the onDebugMessage handler.
PollWake ==
    /\ In("poll") /\ Top.waiting /\ mutex = "free"
    /\ \E t \in IF Top.timeout = "finite" THEN {"zero", "finite"} ELSE {Top.timeout} :
        LET awake == ReplaceTop([Top EXCEPT !.waiting = FALSE, !.timeout = t])
        IN  \/ stack' = awake
            \/ ~TriggeringMessage /\ stack' = Push(Script(TRUE), awake)
    /\ UNCHANGED <<jobVars, queueVars, connVars, mutex, threadVars, shutdown>>

\* CDatabaseJobQueueManager::IgnoreConnectionResults: only when a queue still
\* knows the handle.
IgnoreConnectionResults(c) ==
    ignored' = IF c \in handleMap THEN ignored \cup OnConn(c) ELSE ignored

\* What Connect, Disconnect and QueryWithResultf do with the job PollCommand found.
CollectConnect ==
    /\ In("collect") /\ command[Top.job].type = "CONNECT"
    /\ typeMap' = IF status[Top.job] = "FAIL" THEN typeMap
                  ELSE typeMap \cup {command[Top.job].conn}
    /\ stack' = Tail(stack)
    /\ UNCHANGED <<jobVars, queueVars, pendingFlush, handleMap, dirty, mutex,
                   threadVars, shutdown>>

CollectDisconnect ==
    /\ In("collect") /\ command[Top.job].type = "DISCONNECT" /\ mutex = "free"
    /\ IF status[Top.job] = "FAIL"
       THEN UNCHANGED <<typeMap, ignored>>
       ELSE /\ typeMap' = typeMap \ {command[Top.job].conn}
            /\ IgnoreConnectionResults(command[Top.job].conn)
    /\ stack' = Tail(stack)
    /\ UNCHANGED <<stage, command, status, callback, held, queueVars, pendingFlush,
                   handleMap, dirty, mutex, threadVars, shutdown>>

CollectQuery ==
    /\ In("collect") /\ command[Top.job].type = "QUERY"
    /\ stack' = Tail(stack)
    /\ UNCHANGED <<jobVars, queueVars, connVars, mutex, threadVars, shutdown>>
-----------------------------------------------------------------------------
\* Mutant: a script can pulse the queue.
PulseStartAnywhere ==
    /\ ScriptRunning
    /\ stack' = Push(PulseAt("flush", 1), stack)
    /\ UNCHANGED <<jobVars, queueVars, connVars, mutex, threadVars, shutdown>>

\* The main loop calls DoPulse between scripts, never from inside one.
PulseStart ==
    /\ stack = <<>> /\ ~m_bTerminateThread
    /\ stack' = <<PulseAt("flush", 1)>>
    /\ UNCHANGED <<jobVars, queueVars, connVars, mutex, threadVars, shutdown>>

\* DoPulse: a flush command for each connection that was queried, result ignored.
PulseFlush ==
    /\ In("pulse") /\ Top.at = "flush"
    /\ \E c \in pendingFlush, j \in Jobs :
        /\ pendingFlush' = pendingFlush \ {c}
        /\ AddCommand(j, "FLUSH", c, "none")
        /\ stack' = Push(FreeOf(j), stack)
    /\ UNCHANGED <<held, handleMap, dirty, typeMap, mutex, threadVars, shutdown>>

\* Mutant: one flush a pulse, then the list is cleared.
PulseFlushedOnce ==
    /\ In("pulse") /\ Top.at = "flush"
    /\ pendingFlush' = {}
    /\ stack' = ReplaceTop(PulseAt("again", 1))
    /\ UNCHANGED <<jobVars, queueVars, handleMap, dirty, typeMap, mutex, threadVars, shutdown>>

PulseFlushed ==
    /\ In("pulse") /\ Top.at = "flush" /\ pendingFlush = {}
    /\ stack' = ReplaceTop(PulseAt("again", 1))
    /\ UNCHANGED <<jobVars, queueVars, connVars, mutex, threadVars, shutdown>>

\* Mutant: the newest result first.
ScanFromEnd == PulseAt("scan", IF resultQueue = <<>> THEN 1 ELSE Len(resultQueue))
ScanStart == PulseAt("scan", 1)

\* DoPulse, label again: take the lock and delete the finished jobs.
PulseAgain ==
    /\ In("pulse") /\ Top.at = "again" /\ mutex = "free"
    /\ stage' = [j \in Jobs |-> IF j \in finishedList THEN "NONE" ELSE stage[j]]
    /\ command' = [j \in Jobs |-> IF j \in finishedList THEN NoCommand ELSE command[j]]
    /\ status' = [j \in Jobs |-> IF j \in finishedList THEN "NONE" ELSE status[j]]
    /\ callback' = [j \in Jobs |-> IF j \in finishedList THEN "none" ELSE callback[j]]
    /\ ignored' = ignored \ finishedList
    /\ held' = held \ finishedList
    /\ finishedList' = {}
    /\ mutex' = "main"
    /\ stack' = ReplaceTop(ScanStart)
    /\ UNCHANGED <<commandQueue, resultQueue, connVars, threadVars, shutdown>>

\* Mutant: an ignored result needs no callback.
CallbackDueIfWanted(j) == HasCallback(j) /\ j \notin ignored
CallbackDue(j) == HasCallback(j)

\* DoPulse, one turn of the loop over the results: an ignored result is finished
\* here; a pending callback is called with the lock released, then all is redone.
PulseScan ==
    /\ In("pulse") /\ Top.at = "scan" /\ Top.pos <= Len(resultQueue)
    /\ LET j == resultQueue[Top.pos]
           drop == j \in ignored
       IN  /\ IF drop THEN Finish(Top.pos)
                      ELSE UNCHANGED <<resultQueue, stage, finishedList>>
           /\ IF CallbackDue(j)
              THEN /\ mutex' = "free"
                   /\ ProcessCallback(j, IF drop THEN "FINISHED" ELSE "RESULT",
                                      ReplaceTop(PulseAt("again", 1)))
              ELSE /\ stack' = ReplaceTop(PulseAt("scan", IF drop THEN Top.pos
                                                                  ELSE Top.pos + 1))
                   /\ UNCHANGED <<mutex, callback>>
    /\ UNCHANGED <<command, status, ignored, held, commandQueue, connVars, threadVars,
                   shutdown>>

PulseEnd ==
    /\ In("pulse") /\ Top.at = "scan" /\ Top.pos > Len(resultQueue)
    /\ mutex' = "free"
    /\ stack' = Tail(stack)
    /\ UNCHANGED <<jobVars, queueVars, connVars, threadVars, shutdown>>

\* Mutant: the queue is stopped with connections open and calls in progress.
StopThreadAnywhere ==
    /\ shutdown = "running" /\ mutex = "free"
    /\ shutdown' = "stopping"
    /\ UNCHANGED <<jobVars, queueVars, connVars, mainVars, threadVars>>

\* StopThread, from ~CDatabaseManagerImpl, which disconnects every connection first.
StopThread ==
    /\ stack = <<>> /\ shutdown = "running" /\ typeMap = {} /\ mutex = "free"
    /\ shutdown' = "stopping"
    /\ UNCHANGED <<jobVars, queueVars, connVars, mainVars, threadVars>>

StopReturn ==
    /\ shutdown = "stopping" /\ thread = "terminated"
    /\ shutdown' = "stopped"
    /\ UNCHANGED <<jobVars, queueVars, connVars, mainVars, threadVars>>

\* Five seconds are over: the thread is cancelled wherever it is.
StopCancel ==
    /\ shutdown = "stopping" /\ thread # "terminated"
    /\ shutdown' = "stopped"
    /\ thread' = "cancelled"
    /\ UNCHANGED <<jobVars, queueVars, connVars, mainVars, current>>

\* The server has shut down.
Stopped == shutdown = "stopped" /\ UNCHANGED vars
-----------------------------------------------------------------------------
\* Mutant: the command leaves the queue when it is taken.
ThreadTakeOut ==
    /\ thread = "loop" /\ ~m_bTerminateThread /\ mutex = "free"
    /\ commandQueue # <<>>
    /\ current' = Head(commandQueue)
    /\ stage' = [stage EXCEPT ![Head(commandQueue)] = "PROCCESSING"]
    /\ commandQueue' = Tail(commandQueue)
    /\ thread' = "process"
    /\ UNCHANGED <<command, status, callback, ignored, held, resultQueue, finishedList,
                   connVars, mainVars, shutdown>>

\* ThreadProc: the front of the queue stays there while it is processed.
ThreadTake ==
    /\ thread = "loop" /\ ~m_bTerminateThread /\ mutex = "free"
    /\ commandQueue # <<>>
    /\ current' = Head(commandQueue)
    /\ stage' = [stage EXCEPT ![Head(commandQueue)] = "PROCCESSING"]
    /\ thread' = "process"
    /\ UNCHANGED <<command, status, callback, ignored, held, queueVars, connVars, mainVars,
                   shutdown>>

Processing(type) ==
    /\ thread = "process" /\ command[current].type = type
    /\ thread' = "store"
    /\ UNCHANGED <<stage, command, callback, ignored, held, queueVars, pendingFlush,
                   typeMap, mainVars, current, shutdown>>

SetStatus(s) == status' = [status EXCEPT ![current] = s]

currentConn == command[current].conn

\* CDatabaseTypeSqlite::Connect and Release count the handles of a connection.
SharedBy(handles) == {ConnectionOf[c] : c \in handles}

\* Any of the four ways to fail leaves the map alone.
ProcessConnect ==
    /\ Processing("CONNECT")
    /\ \/ SetStatus("FAIL") /\ UNCHANGED <<handleMap, dirty>>
       \/ /\ mutex = "free"
          /\ handleMap' = handleMap \cup {currentConn}
          /\ SetStatus("SUCCESS") /\ UNCHANGED dirty

\* Mutant: closed without a flush.
ReleaseUnflushed(c) == handleMap' = handleMap \ {c} /\ UNCHANGED dirty

\* Releasing the last handle of a connection flushes and closes it.
Release(c) ==
    /\ handleMap' = handleMap \ {c}
    /\ dirty' = dirty \cap SharedBy(handleMap \ {c})

ProcessDisconnect ==
    /\ Processing("DISCONNECT") /\ mutex = "free"
    /\ IF currentConn \in handleMap
       THEN Release(currentConn) /\ SetStatus("SUCCESS")
       ELSE SetStatus("FAIL") /\ UNCHANGED <<handleMap, dirty>>

\* A query opens an automatic transaction, whether it then succeeds or fails.
ProcessQuery ==
    /\ Processing("QUERY") /\ mutex = "free"
    /\ UNCHANGED handleMap
    /\ IF currentConn \in handleMap
       THEN /\ dirty' = dirty \cup {ConnectionOf[currentConn]}
            /\ \E s \in {"SUCCESS", "FAIL"} : SetStatus(s)
       ELSE SetStatus("FAIL") /\ UNCHANGED dirty

ProcessFlush ==
    /\ Processing("FLUSH") /\ mutex = "free"
    /\ UNCHANGED handleMap
    /\ IF currentConn \in handleMap
       THEN dirty' = dirty \ {ConnectionOf[currentConn]} /\ SetStatus("SUCCESS")
       ELSE SetStatus("FAIL") /\ UNCHANGED dirty

ProcessSetLogLevel ==
    /\ Processing("SETLOGLEVEL")
    /\ SetStatus("SUCCESS") /\ UNCHANGED <<handleMap, dirty>>

\* ThreadProc: the command, if it is still at the front, becomes a result.
ThreadStore ==
    /\ thread = "store" /\ mutex = "free"
    /\ IF commandQueue # <<>> /\ Head(commandQueue) = current
       THEN /\ commandQueue' = Tail(commandQueue)
            /\ resultQueue' = Append(resultQueue, current)
            /\ stage' = [stage EXCEPT ![current] = "RESULT"]
       ELSE UNCHANGED <<commandQueue, resultQueue, stage>>
    /\ thread' = "loop" /\ current' = NoJob
    /\ UNCHANGED <<command, status, callback, ignored, held, finishedList, connVars, mainVars,
                   shutdown>>

ThreadExit ==
    /\ thread = "loop" /\ m_bTerminateThread /\ mutex = "free"
    /\ thread' = "terminated"
    /\ UNCHANGED <<jobVars, queueVars, connVars, mainVars, current, shutdown>>
-----------------------------------------------------------------------------
ClientOp ==
    \/ \E c \in Conns : \/ QueryStart(c) \/ Exec(c) \/ QueryWithResult(c)
                        \/ Connect(c) \/ Disconnect(c) \/ DisconnectUnknown(c)
    \/ \E j \in Jobs : DbPoll(j) \/ DbFree(j)
    \/ SetLogLevel

\* The steps that carry a call of the main thread on.
MainStep ==
    \/ FreeCommand
    \/ PollFound \/ PollTimeout \/ PollWait \/ PollWake
    \/ CollectConnect \/ CollectDisconnect \/ CollectQuery
    \/ PulseFlush \/ PulseFlushed \/ PulseAgain \/ PulseScan \/ PulseEnd
    \/ StopReturn \/ StopCancel

ThreadStep ==
    \/ ThreadTake
    \/ ProcessConnect \/ ProcessDisconnect \/ ProcessQuery \/ ProcessFlush
    \/ ProcessSetLogLevel
    \/ ThreadStore \/ ThreadExit

Next ==
    \/ ClientOp \/ ScriptReturn
    \/ MainStep \/ PulseStart \/ StopThread \/ Stopped
    \/ ThreadStep

\* Both threads are scheduled (the service thread gets the lock in the end, the main
\* loop sleeping between pulses), a database call returns, a script comes to an end
\* (MTA aborts one that does not), and the main loop pulses again and again.
Fairness ==
    /\ WF_vars(MainStep) /\ SF_vars(ThreadStep)
    /\ SF_vars(ScriptReturn) /\ SF_vars(PulseStart)

Spec == Init /\ [][Next]_vars
FairSpec == Spec /\ Fairness
-----------------------------------------------------------------------------
TypeOK ==
    /\ stage \in [Jobs -> EJobStage]
    /\ command \in [Jobs -> Command]
    /\ status \in [Jobs -> EJobResult]
    /\ callback \in [Jobs -> Callbacks]
    /\ ignored \subseteq Jobs /\ held \subseteq Jobs
    /\ commandQueue \in Seq(Jobs) /\ resultQueue \in Seq(Jobs)
    /\ finishedList \subseteq Jobs
    /\ pendingFlush \subseteq Conns /\ handleMap \subseteq Conns
    /\ dirty \subseteq SharedBy(handleMap) /\ typeMap \subseteq Conns
    /\ stack \in Seq(Frame)
    /\ mutex \in {"free", "main"}
    /\ thread \in {"loop", "process", "store", "terminated", "cancelled"}
    /\ current \in Jobs \cup {NoJob}
    /\ shutdown \in {"running", "stopping", "stopped"}

\* "All active jobhandles will either be in m_CommandQueue or m_ResultQueue or
\* m_FinishedList": each is in exactly one of them, once, and its stage says which.
JobPlacement ==
    /\ \A i, k \in DOMAIN commandQueue : commandQueue[i] = commandQueue[k] => i = k
    /\ \A i, k \in DOMAIN resultQueue : resultQueue[i] = resultQueue[k] => i = k
    /\ \A j \in Jobs :
        /\ stage[j] \in {"COMMAND_QUEUE", "PROCCESSING"} <=> j \in QueuedJobs
        /\ stage[j] = "RESULT" <=> j \in ResultJobs
        /\ stage[j] = "FINISHED" <=> j \in finishedList

\* While the service thread works on a command without the lock, the main thread
\* neither takes it off the queue nor deletes it ("this should not be possible").
ThreadHoldsFront ==
    /\ thread \in {"process", "store"} =>
        commandQueue # <<>> /\ Head(commandQueue) = current
    /\ \A j \in Jobs : stage[j] = "PROCCESSING" => j = current

\* No call in progress on the main thread, however deep, uses a deleted job (so
\* FreeCommand meets none of its "serious problems"), and no job is deleted with
\* its callback still to be called.
NoDanglingJob ==
    /\ \A i \in DOMAIN stack :
        stack[i].op \in {"poll", "collect", "free"} => stack[i].job \in Active
    /\ \A j \in finishedList : ~HasCallback(j)

\* Has the command at position i of the queue been executed?
Executed(i) == i = 1 /\ thread = "store"

Queued(i, type, c) ==
    ~Executed(i) /\ command[commandQueue[i]] = [type |-> type, conn |-> c]

\* "Check if any connection needs a flush": changes never stay in an open transaction
\* with nothing scheduled to flush them.  A connection with unflushed changes has an
\* open handle that is on the flush list, or whose flush or disconnect is in the
\* queue; a query still to run has its handle on the list or a flush behind it.
FlushScheduled ==
    /\ \A d \in dirty : \E c \in handleMap :
        /\ ConnectionOf[c] = d
        /\ \/ c \in pendingFlush
           \/ \E k \in DOMAIN commandQueue : Queued(k, "FLUSH", c) \/ Queued(k, "DISCONNECT", c)
    /\ \A c \in Conns \ pendingFlush : \A i \in DOMAIN commandQueue :
        Queued(i, "QUERY", c) => \E k \in DOMAIN commandQueue : k > i /\ Queued(k, "FLUSH", c)

\* A query runs on the connection it was accepted for: until it runs the handle stays
\* open, and no disconnect of the handle is ahead of it in the queue.
QueriesPrecedeDisconnect ==
    \A c \in Conns : \A i \in DOMAIN commandQueue : Queued(i, "QUERY", c) =>
        /\ c \in handleMap
        /\ \A k \in 1 .. i - 1 : ~Queued(k, "DISCONNECT", c)

\* Shutting down discards no accepted query, and cancels none that is running.
ShutdownLosesNoQuery ==
    m_bTerminateThread => \A j \in QueuedJobs : command[j].type # "QUERY"

\* "Should not be called for ignored results": no caller collects a result that was
\* thrown away, be it by dbFree, by the callback of a dead VM or by a disconnect.
FreedNotCollected ==
    \A i \in DOMAIN stack : stack[i].op \in {"poll", "collect"} => stack[i].job \notin ignored

\* "Should not be called for collected results": no call of PollCommand waits for a
\* result that was already taken.
PollsUncollected ==
    \A i \in DOMAIN stack : stack[i].op = "poll" => stack[i].job \notin finishedList

\* "Throw away results for all jobs using this connection": when no call is in
\* progress, every job left on a disconnected handle has its result ignored.
DisconnectIgnoresResults ==
    stack = <<>> => \A c \in Conns \ typeMap : OnConn(c) \subseteq ignored

\* DoPulse calls callbacks in the order of the results: when it calls one, no result
\* before it has a callback pending, whatever the earlier callbacks did.
CallbacksInOrder ==
    [][\A i \in DOMAIN resultQueue :
        (In("pulse") /\ HasCallback(resultQueue[i]) /\ callback'[resultQueue[i]] = "done")
        => \A k \in 1 .. i - 1 : ~HasCallback(resultQueue[k])]_vars

\* How far a job is, in the terms of QueryService: the result of a job is its stage.
Outcome(j) == IF stage[j] = "NONE" THEN "none"
              ELSE IF stage[j] = "RESULT" THEN "ready"
              ELSE IF stage[j] = "FINISHED" THEN "taken" ELSE "accepted"

\* What clients are promised: see QueryService.
Service == INSTANCE QueryService WITH
    accepted <- commandQueue,
    abandoned <- ignored,
    outcome <- [j \in Jobs |-> Outcome(j)]

\* The job queue implements that service: commands run once each, in the order they
\* were accepted, and a result is either collected or, if given up, thrown away.
ImplementsQueryService == Service!Spec

\* Every call of PollCommand returns.
Polling(j) == \E i \in DOMAIN stack : stack[i].op = "poll" /\ stack[i].job = j
PollReturns == \A j \in Jobs : Polling(j) ~> ~Polling(j)

\* Every callback set on a job is called, unless the server shuts down first.
CallbackHappens ==
    \A j \in Jobs : HasCallback(j) ~> (callback[j] = "done" \/ m_bTerminateThread)

\* Every change made through a connection is flushed or committed by its release.
ChangesFlushed == \A d \in Conns : (d \in dirty) ~> (d \notin dirty \/ m_bTerminateThread)
=============================================================================
