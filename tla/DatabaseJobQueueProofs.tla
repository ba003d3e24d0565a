---------------------- MODULE DatabaseJobQueueProofs ----------------------
(***************************************************************************)
(* Theorems about DatabaseJobQueue, for every finite set of job objects    *)
(* and of connection handles, with connections shared or not, and whether  *)
(* or not onDebugMessage handlers use the database.                        *)
(***************************************************************************)
EXTENDS DatabaseJobQueue, SequenceLemmas

-----------------------------------------------------------------------------
\* The frames the actions push are frames.
LEMMA FrameTypes ==
    /\ \A h \in BOOLEAN : Script(h) \in Frame
    /\ \A j \in Jobs : CollectOf(j) \in Frame /\ FreeOf(j) \in Frame
    /\ \A j \in Jobs, t \in Timeouts : PollOf(j, t) \in Frame
    /\ \A at \in {"flush", "again", "scan"}, pos \in Nat \ {0} : PulseAt(at, pos) \in Frame
BY DEF Script, CollectOf, FreeOf, PollOf, PulseAt, Frame, ScriptFrame, PollFrame,
       JobFrame, PulseFrame

\* What the kind of a frame says of its fields.
LEMMA FrameFields ==
    ASSUME NEW f \in Frame
    PROVE  /\ f.op = "poll" => f \in PollFrame
           /\ f.op \in {"collect", "free"} => f.job \in Jobs
           /\ f.op = "pulse" => f.at \in {"flush", "again", "scan"} /\ f.pos \in Nat \ {0}
BY DEF Frame, ScriptFrame, PollFrame, JobFrame, PulseFrame

\* Pushing a frame, popping one and replacing the innermost give stacks.
LEMMA StackTypes ==
    ASSUME stack \in Seq(Frame)
    PROVE  /\ \A f \in Frame : \A s \in Seq(Frame) : Push(f, s) \in Seq(Frame)
           /\ stack # <<>> => /\ Top \in Frame
                              /\ Tail(stack) \in Seq(Frame)
                              /\ \A f \in Frame : ReplaceTop(f) \in Seq(Frame)
<1>1. \A f \in Frame : \A s \in Seq(Frame) : Push(f, s) \in Seq(Frame)
  BY DEF Push
<1>2. stack # <<>> => Top \in Frame /\ Tail(stack) \in Seq(Frame)
  BY HeadTailProperties DEF Top
<1> QED
  BY <1>1, <1>2 DEF ReplaceTop

-----------------------------------------------------------------------------
\* AddCommand: what it changes keeps its type.
LEMMA AddCommandTypes ==
    ASSUME TypeOK, NEW j \in Jobs, NEW type, NEW c, NEW cb \in Callbacks,
           [type |-> type, conn |-> c] \in Command, AddCommand(j, type, c, cb)
    PROVE  /\ stage' \in [Jobs -> EJobStage] /\ command' \in [Jobs -> Command]
           /\ callback' \in [Jobs -> Callbacks] /\ commandQueue' \in Seq(Jobs)
           /\ UNCHANGED <<status, ignored, resultQueue, finishedList>>
<1>1. commandQueue' \in Seq(Jobs)
  BY AppendProperties DEF AddCommand, PushBack, TypeOK
<1> QED
  BY <1>1 DEF AddCommand, TypeOK, EJobStage

\* Finish: the result leaves its queue for the finished list.
LEMMA FinishTypes ==
    ASSUME TypeOK, NEW i \in 1 .. Len(resultQueue), Finish(i)
    PROVE  /\ resultQueue' \in Seq(Jobs) /\ stage' \in [Jobs -> EJobStage]
           /\ finishedList' \subseteq Jobs
<1>1. resultQueue[i] \in Jobs
  BY ElementOfSeq DEF TypeOK
<1>2. resultQueue' \in Seq(Jobs)
  BY RemoveAtProperties DEF Finish, TypeOK
<1> QED
  BY <1>1, <1>2 DEF Finish, TypeOK, EJobStage

\* ProcessCallback: it pushes at most one frame.
LEMMA ProcessCallbackTypes ==
    ASSUME TypeOK, NEW j \in Jobs, NEW st, NEW below \in Seq(Frame),
           ProcessCallback(j, st, below)
    PROVE  callback' \in [Jobs -> Callbacks] /\ stack' \in Seq(Frame)
<1>1. callback' \in [Jobs -> Callbacks]
  BY DEF ProcessCallback, TypeOK, Callbacks
<1>2. \A frames \in CallbackPushes(j, st) : frames \in Seq(Frame)
  <2>1. Script(FALSE) \in Frame /\ Script(TRUE) \in Frame /\ FreeOf(j) \in Frame
    BY FrameTypes
  <2>2. CallbackPushes(j, st) \subseteq
            {<<>>, <<Script(FALSE)>>, <<Script(TRUE)>>, <<FreeOf(j)>>}
    BY Zenon DEF CallbackPushes
  <2>3. \A f \in Frame : <<f>> \in Seq(Frame)
    OBVIOUS
  <2>4. <<>> \in Seq(Frame)
    OBVIOUS
  <2> QED
    BY <2>1, <2>2, <2>3, <2>4
<1>3. \A frames \in Seq(Frame) : frames \o below \in Seq(Frame)
  BY ConcatProperties
<1> QED
  BY <1>1, <1>2, <1>3 DEF ProcessCallback

\* Each operation of the main thread that adds a command keeps the types.
LEMMA ClientOpTypes ==
    ASSUME TypeOK, ClientOp
    PROVE  TypeOK'
<1> USE DEF jobVars, queueVars, connVars, mainVars, threadVars
<1>0. \A c \in Conns : [type |-> "QUERY", conn |-> c] \in Command
  BY DEF Command, EJobCommand
<1>1. ASSUME NEW c \in Conns, QueryStart(c)
      PROVE  TypeOK'
  <2>1. PICK j \in Jobs, cb \in {"none", "script"} :
            AddQuery(j, c, cb) /\ held' = held \cup {j} /\ UNCHANGED stack
    BY <1>1 DEF QueryStart
  <2>2. AddCommand(j, "QUERY", c, cb) /\ cb \in Callbacks
    BY <2>1 DEF AddQuery, Callbacks
  <2> QED
    BY <1>0, <2>1, <2>2, AddCommandTypes DEF AddQuery, TypeOK
<1>2. ASSUME NEW c \in Conns, Exec(c)
      PROVE  TypeOK'
  <2>1. PICK j \in Jobs, cb \in {"none", "log"} :
            AddQuery(j, c, cb) /\ stack' = Push(FreeOf(j), stack) /\ UNCHANGED held
    BY <1>2 DEF Exec
  <2>2. AddCommand(j, "QUERY", c, cb) /\ cb \in Callbacks
    BY <2>1 DEF AddQuery, Callbacks
  <2>3. stack' \in Seq(Frame)
    BY <2>1, FrameTypes, StackTypes DEF TypeOK
  <2> QED
    BY <1>0, <2>1, <2>2, <2>3, AddCommandTypes DEF AddQuery, TypeOK
<1>3. ASSUME NEW c \in Conns, QueryWithResult(c)
      PROVE  TypeOK'
  <2>1. PICK j \in Jobs :
            AddQuery(j, c, "none") /\ stack' = Push(PollOf(j, "infinite"), stack) /\ UNCHANGED held
    BY <1>3 DEF QueryWithResult
  <2>2. AddCommand(j, "QUERY", c, "none") /\ "none" \in Callbacks
    BY <2>1 DEF AddQuery, Callbacks
  <2>3. stack' \in Seq(Frame)
    BY <2>1, FrameTypes, StackTypes DEF TypeOK, Timeouts
  <2> QED
    BY <1>0, <2>1, <2>2, <2>3, AddCommandTypes DEF AddQuery, TypeOK
<1>4. ASSUME NEW c \in Conns, Connect(c) \/ Disconnect(c)
      PROVE  TypeOK'
  <2>1. PICK j \in Jobs, type \in {"CONNECT", "DISCONNECT"} :
            AddCommand(j, type, c, "none") /\ stack' = Push(PollOf(j, "infinite"), stack)
    BY <1>4 DEF Connect, Disconnect
  <2>2. "none" \in Callbacks /\ [type |-> type, conn |-> c] \in Command
    BY DEF Callbacks, Command, EJobCommand
  <2>3. stack' \in Seq(Frame)
    BY <2>1, FrameTypes, StackTypes DEF TypeOK, Timeouts
  <2> QED
    BY <1>4, <2>1, <2>2, <2>3, AddCommandTypes DEF Connect, Disconnect, TypeOK
<1>5. ASSUME NEW c \in Conns, DisconnectUnknown(c)
      PROVE  TypeOK'
  BY <1>5 DEF DisconnectUnknown, TypeOK
<1>6. ASSUME SetLogLevel
      PROVE  TypeOK'
  <2>1. PICK j \in Jobs :
            AddCommand(j, "SETLOGLEVEL", NoConn, "none") /\ stack' = Push(FreeOf(j), stack)
    BY <1>6 DEF SetLogLevel
  <2>2. "none" \in Callbacks /\ [type |-> "SETLOGLEVEL", conn |-> NoConn] \in Command
    BY DEF Callbacks, Command
  <2>3. stack' \in Seq(Frame)
    BY <2>1, FrameTypes, StackTypes DEF TypeOK
  <2> QED
    BY <1>6, <2>1, <2>2, <2>3, AddCommandTypes DEF SetLogLevel, TypeOK
<1>7. ASSUME NEW j \in Jobs, DbPoll(j)
      PROVE  TypeOK'
  <2>1. stack' \in Seq(Frame)
    BY <1>7, FrameTypes, StackTypes DEF DbPoll, TypeOK
  <2> QED
    BY <1>7, <2>1 DEF DbPoll, TypeOK
<1>8. ASSUME NEW j \in Jobs, DbFree(j)
      PROVE  TypeOK'
  <2>1. stack' \in Seq(Frame)
    BY <1>8, FrameTypes, StackTypes DEF DbFree, TypeOK
  <2>2. callback' \in [Jobs -> Callbacks]
    BY <1>8 DEF DbFree, TypeOK, Callbacks
  <2> QED
    BY <1>8, <2>1, <2>2 DEF DbFree, TypeOK
<1> QED
  BY <1>1, <1>2, <1>3, <1>4, <1>5, <1>6, <1>7, <1>8 DEF ClientOp

\* Each step that carries a call of the main thread on keeps the types.
LEMMA MainStepTypes ==
    ASSUME TypeOK, MainStep \/ ScriptReturn \/ PulseStart \/ StopThread \/ Stopped
    PROVE  TypeOK'
<1> USE DEF jobVars, queueVars, connVars, mainVars, threadVars
<1> DEFINE Popped == stack # <<>> /\ stack' = Tail(stack)
<1>0. Popped => stack' \in Seq(Frame)
  BY StackTypes DEF TypeOK
<1>1. CASE FreeCommand
  <2>1. Top.job \in Jobs
    BY <1>1, StackTypes, FrameFields DEF FreeCommand, In, TypeOK
  <2> QED
    BY <1>0, <1>1, <2>1 DEF FreeCommand, In, TypeOK
<1>2. CASE PollFound
  <2>1. PICK i \in DOMAIN resultQueue :
            /\ resultQueue[i] = Top.job /\ Finish(i)
            /\ ProcessCallback(Top.job, "FINISHED", ReplaceTop(CollectOf(Top.job)))
    BY <1>2 DEF PollFound
  <2>2. i \in 1 .. Len(resultQueue) /\ Top.job \in Jobs
    BY <2>1, ElementOfSeq, LenProperties DEF TypeOK
  <2>3. ReplaceTop(CollectOf(Top.job)) \in Seq(Frame)
    BY <1>2, <2>2, FrameTypes, StackTypes DEF PollFound, In, TypeOK
  <2> QED
    BY <1>2, <2>1, <2>2, <2>3, FinishTypes, ProcessCallbackTypes DEF PollFound, TypeOK
<1>3. CASE PollTimeout
  BY <1>0, <1>3 DEF PollTimeout, In, TypeOK
<1>4. CASE PollWait \/ PollWake
  <2>1. stack # <<>> /\ Top \in PollFrame
    BY <1>4, StackTypes, FrameFields DEF PollWait, PollWake, In, TypeOK
  <2>2. \A t \in Timeouts, w \in BOOLEAN :
            ReplaceTop([Top EXCEPT !.waiting = w, !.timeout = t]) \in Seq(Frame)
    BY <2>1, StackTypes DEF PollFrame, Frame, TypeOK
  <2>3. \A w \in BOOLEAN : ReplaceTop([Top EXCEPT !.waiting = w]) \in Seq(Frame)
    BY <2>1, StackTypes DEF PollFrame, Frame, TypeOK
  <2>4. \A s \in Seq(Frame) : Push(Script(TRUE), s) \in Seq(Frame)
    BY FrameTypes, StackTypes DEF TypeOK
  <2>5. CASE PollWait
    BY <2>3, <2>5 DEF PollWait, TypeOK
  <2>6. CASE PollWake
    <3>1. PICK t \in Timeouts :
            LET awake == ReplaceTop([Top EXCEPT !.waiting = FALSE, !.timeout = t])
            IN  stack' = awake \/ stack' = Push(Script(TRUE), awake)
      BY <2>1, <2>6 DEF PollWake, Timeouts, PollFrame
    <3>2. stack' \in Seq(Frame)
      BY <2>2, <2>4, <3>1
    <3> QED
      BY <2>6, <3>2 DEF PollWake, TypeOK
  <2> QED
    BY <1>4, <2>5, <2>6
<1>5. CASE CollectConnect \/ CollectDisconnect
  <2>1. Top.job \in Jobs /\ stack' \in Seq(Frame)
    BY <1>0, <1>5, StackTypes, FrameFields DEF CollectConnect, CollectDisconnect, In, TypeOK
  <2>2. CASE CollectConnect
    <3>1. command[Top.job].conn \in Conns
      BY <2>1, <2>2 DEF CollectConnect, TypeOK, Command
    <3> QED
      BY <2>1, <2>2, <3>1 DEF CollectConnect, TypeOK
  <2>3. CASE CollectDisconnect
    <3>1. OnConn(command[Top.job].conn) \subseteq Jobs
      BY LenProperties DEF OnConn, QueuedJobs, ResultJobs, TypeOK
    <3> QED
      BY <2>1, <2>3, <3>1 DEF CollectDisconnect, IgnoreConnectionResults, TypeOK
  <2> QED
    BY <1>5, <2>2, <2>3
<1>6. CASE CollectQuery \/ ScriptReturn
  BY <1>0, <1>6 DEF CollectQuery, ScriptReturn, In, TypeOK
<1>7. CASE PulseStart \/ PulseFlushed
  <2>1. PulseAt("flush", 1) \in Frame /\ PulseAt("again", 1) \in Frame
    BY FrameTypes
  <2>2. stack' \in Seq(Frame)
    <3>1. \A f \in Frame : <<f>> \in Seq(Frame)
      OBVIOUS
    <3>2. CASE PulseStart
      BY <2>1, <3>1, <3>2 DEF PulseStart
    <3>3. CASE PulseFlushed
      BY <2>1, <3>3, StackTypes DEF PulseFlushed, In, TypeOK
    <3> QED
      BY <1>7, <3>2, <3>3
  <2> QED
    BY <1>7, <2>2 DEF PulseStart, PulseFlushed, TypeOK
<1>8. CASE PulseFlush
  <2>1. PICK c \in pendingFlush, j \in Jobs :
            /\ pendingFlush' = pendingFlush \ {c}
            /\ AddCommand(j, "FLUSH", c, "none")
            /\ stack' = Push(FreeOf(j), stack)
    BY <1>8 DEF PulseFlush
  <2>2. "none" \in Callbacks /\ [type |-> "FLUSH", conn |-> c] \in Command
    BY DEF Callbacks, Command, EJobCommand, TypeOK
  <2>3. stack' \in Seq(Frame)
    BY <2>1, FrameTypes, StackTypes DEF TypeOK
  <2> QED
    BY <1>8, <2>1, <2>2, <2>3, AddCommandTypes DEF PulseFlush, TypeOK
<1>9. CASE PulseAgain
  <2>1. stack' \in Seq(Frame)
    BY <1>9, FrameTypes, StackTypes DEF PulseAgain, ScanStart, In, TypeOK
  <2>2. /\ stage' \in [Jobs -> EJobStage] /\ command' \in [Jobs -> Command]
        /\ status' \in [Jobs -> EJobResult] /\ callback' \in [Jobs -> Callbacks]
    BY <1>9 DEF PulseAgain, TypeOK, EJobStage, EJobResult, Callbacks, Command, NoCommand
  <2> QED
    BY <1>9, <2>1, <2>2 DEF PulseAgain, TypeOK
<1>10. CASE PulseScan
  <2> DEFINE j == resultQueue[Top.pos]
             drop == j \in ignored
  <2>1. Top.pos \in 1 .. Len(resultQueue) /\ In("pulse") /\ stack # <<>> /\ j \in Jobs
    <3>1. In("pulse") /\ stack # <<>> /\ Top.pos \in Nat \ {0} /\ Top.pos <= Len(resultQueue)
      BY <1>10, StackTypes, FrameFields DEF PulseScan, In, TypeOK
    <3>2. Len(resultQueue) \in Nat
      BY LenProperties DEF TypeOK
    <3>3. Top.pos \in 1 .. Len(resultQueue)
      BY <3>1, <3>2
    <3> QED
      BY <3>1, <3>3, ElementOfSeq DEF TypeOK
  <2>2. /\ resultQueue' \in Seq(Jobs) /\ stage' \in [Jobs -> EJobStage]
        /\ finishedList' \subseteq Jobs
    BY <1>10, <2>1, FinishTypes DEF PulseScan, TypeOK
  <2>3. \A pos \in Nat \ {0}, at \in {"again", "scan"} : ReplaceTop(PulseAt(at, pos)) \in Seq(Frame)
    BY <2>1, FrameTypes, StackTypes DEF TypeOK
  <2>4. CASE CallbackDue(j)
    <3>1. PICK st \in {"FINISHED", "RESULT"} :
            mutex' = "free" /\ ProcessCallback(j, st, ReplaceTop(PulseAt("again", 1)))
      BY <1>10, <2>4 DEF PulseScan
    <3>2. callback' \in [Jobs -> Callbacks] /\ stack' \in Seq(Frame)
      BY <2>1, <2>3, <3>1, ProcessCallbackTypes
    <3> QED
      BY <1>10, <2>2, <3>1, <3>2 DEF PulseScan, TypeOK
  <2>5. CASE ~CallbackDue(j)
    <3>1. PICK pos \in {Top.pos, Top.pos + 1} :
            stack' = ReplaceTop(PulseAt("scan", pos)) /\ UNCHANGED <<mutex, callback>>
      BY <1>10, <2>5 DEF PulseScan
    <3>2. pos \in Nat \ {0}
      BY <2>1
    <3>3. stack' \in Seq(Frame)
      BY <2>3, <3>1, <3>2
    <3> QED
      BY <1>10, <2>2, <3>1, <3>3 DEF PulseScan, TypeOK
  <2> QED
    BY <2>4, <2>5
<1>11. CASE PulseEnd
  BY <1>0, <1>11 DEF PulseEnd, In, TypeOK
<1>12. CASE StopReturn \/ StopCancel \/ StopThread \/ Stopped
  BY <1>12 DEF StopReturn, StopCancel, StopThread, Stopped, vars, TypeOK
<1> QED
  BY <1>1, <1>2, <1>3, <1>4, <1>5, <1>6, <1>7, <1>8, <1>9, <1>10, <1>11, <1>12 DEF MainStep

\* The service thread, working on the job at the front of the queue, keeps the types.
LEMMA ThreadStepTypes ==
    ASSUME TypeOK, ThreadHoldsFront, ThreadStep
    PROVE  TypeOK'
<1> USE DEF jobVars, queueVars, connVars, mainVars, threadVars
<1>1. thread \in {"process", "store"} => current \in Jobs
  BY HeadTailProperties DEF ThreadHoldsFront, TypeOK
<1>2. commandQueue # <<>> => Head(commandQueue) \in Jobs /\ Tail(commandQueue) \in Seq(Jobs)
  BY HeadTailProperties DEF TypeOK
<1>3. CASE ThreadTake
  BY <1>2, <1>3 DEF ThreadTake, TypeOK, EJobStage
<1>4. CASE ProcessConnect
  <2>1. current \in Jobs /\ currentConn \in Conns
    BY <1>1, <1>4 DEF ProcessConnect, Processing, currentConn, TypeOK, Command
  <2>2. status' \in [Jobs -> EJobResult]
    BY <1>4, <2>1 DEF ProcessConnect, SetStatus, EJobResult, TypeOK
  <2>3. handleMap' \subseteq Conns /\ handleMap \subseteq handleMap' /\ dirty' = dirty
    BY <1>4, <2>1 DEF ProcessConnect, TypeOK
  <2>4. dirty' \subseteq SharedBy(handleMap')
    BY <2>3 DEF TypeOK, SharedBy
  <2> QED
    BY <1>4, <2>2, <2>3, <2>4 DEF ProcessConnect, Processing, TypeOK
<1>5. CASE ProcessDisconnect \/ ProcessFlush \/ ProcessQuery
  <2>1. current \in Jobs
    BY <1>1, <1>5 DEF ProcessDisconnect, ProcessFlush, ProcessQuery, Processing
  <2>2. status' \in [Jobs -> EJobResult]
    BY <1>5, <2>1 DEF ProcessDisconnect, ProcessFlush, ProcessQuery, SetStatus, EJobResult, TypeOK
  <2>3. handleMap' \subseteq Conns /\ dirty' \subseteq SharedBy(handleMap')
    BY <1>5 DEF ProcessDisconnect, ProcessFlush, ProcessQuery, Release, SharedBy, TypeOK
  <2> QED
    BY <1>5, <2>2, <2>3 DEF ProcessDisconnect, ProcessFlush, ProcessQuery, Processing, TypeOK
<1>6. CASE ProcessSetLogLevel
  BY <1>1, <1>6 DEF ProcessSetLogLevel, Processing, SetStatus, EJobResult, TypeOK
<1>7. CASE ThreadStore
  <2>1. current \in Jobs
    BY <1>1, <1>7 DEF ThreadStore
  <2>2. Append(resultQueue, current) \in Seq(Jobs)
    BY <2>1, AppendProperties DEF TypeOK
  <2> QED
    BY <1>2, <1>7, <2>1, <2>2 DEF ThreadStore, TypeOK, EJobStage
<1>8. CASE ThreadExit
  BY <1>8 DEF ThreadExit, TypeOK
<1> QED
  BY <1>3, <1>4, <1>5, <1>6, <1>7, <1>8 DEF ThreadStep

-----------------------------------------------------------------------------
\* JobPlacement and ThreadHoldsFront are inductive with the types and the fact that
\* the idle service thread has no job in hand.
IdleThreadHasNoJob == thread = "loop" => current = NoJob
Structure == TypeOK /\ JobPlacement /\ ThreadHoldsFront /\ IdleThreadHasNoJob

\* Placement and the thread's hold, in the terms of the lemmas on queues.
Placed ==
    /\ IsInjective(commandQueue) /\ IsInjective(resultQueue)
    /\ \A j \in Jobs :
        /\ stage[j] \in {"COMMAND_QUEUE", "PROCCESSING"} <=> j \in ToSet(commandQueue)
        /\ stage[j] = "RESULT" <=> j \in ToSet(resultQueue)
        /\ stage[j] = "FINISHED" <=> j \in finishedList
Held == Placed /\ ThreadHoldsFront /\ IdleThreadHasNoJob

\* Both say where the jobs are.
LEMMA PlacedIsJobPlacement == Placed <=> JobPlacement
BY DEF Placed, JobPlacement, IsInjective, ToSet, QueuedJobs, ResultJobs

placementVars == <<stage, commandQueue, resultQueue, finishedList, thread, current>>

\* Most steps of the main thread leave the lists and the thread alone.
LEMMA HeldUnchanged ==
    ASSUME Held, UNCHANGED placementVars
    PROVE  Held'
BY DEF Held, Placed, IsInjective, ToSet, ThreadHoldsFront, IdleThreadHasNoJob, placementVars

\* A new job goes behind the queue: not to the front of one the thread works on.
LEMMA AddCommandHeld ==
    ASSUME TypeOK, Held, NEW j \in Jobs, NEW type, NEW c, NEW cb,
           AddCommand(j, type, c, cb), UNCHANGED threadVars
    PROVE  Held'
<1>1. /\ commandQueue' = Append(commandQueue, j) /\ stage[j] = "NONE"
      /\ stage' = [stage EXCEPT ![j] = "COMMAND_QUEUE"]
      /\ UNCHANGED <<resultQueue, finishedList, thread, current>>
  BY DEF AddCommand, PushBack, threadVars
<1>2. j \notin ToSet(commandQueue) /\ j \notin ToSet(resultQueue) /\ j \notin finishedList
  BY <1>1 DEF Held, Placed
<1>3. /\ IsInjective(commandQueue') /\ ToSet(commandQueue') = ToSet(commandQueue) \cup {j}
      /\ commandQueue' # <<>>
      /\ commandQueue # <<>> => Head(commandQueue') = Head(commandQueue)
  BY <1>1, <1>2, AppendDistinct, AppendProperties DEF Held, Placed, TypeOK
<1>4. \A k \in Jobs : stage'[k] = IF k = j THEN "COMMAND_QUEUE" ELSE stage[k]
  BY <1>1 DEF TypeOK
<1>5. ToSet(resultQueue') = ToSet(resultQueue) /\ IsInjective(resultQueue')
  BY <1>1 DEF Held, Placed
<1>6. Placed'
  BY <1>1, <1>2, <1>3, <1>4, <1>5 DEF Held, Placed
<1>7. ThreadHoldsFront' /\ IdleThreadHasNoJob'
  BY <1>1, <1>3, <1>4 DEF Held, ThreadHoldsFront, IdleThreadHasNoJob
<1> QED
  BY <1>6, <1>7 DEF Held

\* Finishing a result moves it from the result queue to the finished list.
LEMMA FinishHeld ==
    ASSUME TypeOK, Held, NEW i \in 1 .. Len(resultQueue), Finish(i),
           UNCHANGED <<commandQueue, threadVars>>
    PROVE  Held'
<1> DEFINE j == resultQueue[i]
<1>1. j \in Jobs /\ j \in ToSet(resultQueue)
  BY ElementOfSeq, LenProperties DEF ToSet, TypeOK
<1>2. stage[j] = "RESULT" /\ j \notin ToSet(commandQueue)
  BY <1>1 DEF Held, Placed
<1>3. IsInjective(resultQueue') /\ ToSet(resultQueue') = ToSet(resultQueue) \ {j}
  BY RemoveDistinct DEF Finish, Held, Placed, TypeOK
<1> HIDE DEF j
<1>4. \A k \in Jobs : stage'[k] = IF k = j THEN "FINISHED" ELSE stage[k]
  BY <1>1 DEF Finish, TypeOK, j
<1>5. finishedList' = finishedList \cup {j}
  BY DEF Finish, j
<1>6. ToSet(commandQueue') = ToSet(commandQueue) /\ IsInjective(commandQueue')
  BY DEF Held, Placed
<1>7. Placed'
  BY <1>1, <1>2, <1>3, <1>4, <1>5, <1>6 DEF Held, Placed
<1>8. ThreadHoldsFront' /\ IdleThreadHasNoJob'
  BY <1>2, <1>4 DEF Held, ThreadHoldsFront, IdleThreadHasNoJob, threadVars
<1> QED
  BY <1>7, <1>8 DEF Held

\* The operations of scripts only add jobs.
LEMMA ClientOpHeld ==
    ASSUME TypeOK, Held, ClientOp
    PROVE  Held'
<1>1. ASSUME NEW c \in Conns, QueryStart(c) \/ Exec(c) \/ QueryWithResult(c)
      PROVE  Held'
  <2>1. PICK j \in Jobs, cb \in {"none", "script", "log"} : AddQuery(j, c, cb)
    BY <1>1 DEF QueryStart, Exec, QueryWithResult
  <2> QED
    BY <2>1, AddCommandHeld DEF AddQuery
<1>2. ASSUME NEW c \in Conns, Connect(c) \/ Disconnect(c)
      PROVE  Held'
  <2>1. PICK j \in Jobs, type \in {"CONNECT", "DISCONNECT"} :
            AddCommand(j, type, c, "none") /\ UNCHANGED threadVars
    BY <1>2 DEF Connect, Disconnect
  <2> QED
    BY <2>1, AddCommandHeld
<1>3. CASE SetLogLevel
  <2>1. PICK j \in Jobs :
            AddCommand(j, "SETLOGLEVEL", NoConn, "none") /\ UNCHANGED threadVars
    BY <1>3 DEF SetLogLevel
  <2> QED
    BY <2>1, AddCommandHeld
<1>4. ASSUME \/ \E c \in Conns : DisconnectUnknown(c)
             \/ \E j \in Jobs : DbPoll(j) \/ DbFree(j)
      PROVE  UNCHANGED placementVars
  BY <1>4 DEF DisconnectUnknown, DbPoll, DbFree, jobVars, queueVars, threadVars, placementVars
<1> QED
  BY <1>1, <1>2, <1>3, <1>4, HeldUnchanged DEF ClientOp

\* The main thread's calls add flushes, and finish and delete results.
LEMMA MainStepHeld ==
    ASSUME TypeOK, Held, MainStep \/ ScriptReturn \/ PulseStart \/ StopThread \/ Stopped
    PROVE  Held'
<1>1. CASE PollFound
  <2>1. PICK i \in DOMAIN resultQueue : Finish(i)
    BY <1>1 DEF PollFound
  <2>2. i \in 1 .. Len(resultQueue)
    BY <2>1, LenProperties DEF TypeOK
  <2> QED
    BY <1>1, <2>1, <2>2, FinishHeld DEF PollFound
<1>2. CASE PulseFlush
  <2>1. PICK c \in pendingFlush, j \in Jobs : AddCommand(j, "FLUSH", c, "none")
    BY <1>2 DEF PulseFlush
  <2> QED
    BY <1>2, <2>1, AddCommandHeld DEF PulseFlush
<1>3. CASE PulseAgain
  <2>1. /\ \A j \in Jobs : stage'[j] = IF j \in finishedList THEN "NONE" ELSE stage[j]
        /\ finishedList' = {}
        /\ UNCHANGED <<commandQueue, resultQueue, thread, current>>
    BY <1>3 DEF PulseAgain, threadVars
  <2>2. \A j \in Jobs : j \in finishedList => stage[j] = "FINISHED"
    BY DEF Held, Placed
  <2>3. Placed'
    BY <2>1, <2>2 DEF Held, Placed, ToSet, IsInjective
  <2>4. ThreadHoldsFront' /\ IdleThreadHasNoJob'
    BY <2>1, <2>2 DEF Held, ThreadHoldsFront, IdleThreadHasNoJob
  <2> QED
    BY <2>3, <2>4 DEF Held
<1>4. CASE PulseScan
  <2>1. CASE UNCHANGED <<resultQueue, stage, finishedList>>
    BY <1>4, <2>1, HeldUnchanged DEF PulseScan, placementVars, threadVars
  <2>2. CASE Finish(Top.pos)
    <3>1. stack # <<>> /\ Top.pos \in Nat \ {0} /\ Top.pos <= Len(resultQueue)
      BY <1>4, StackTypes, FrameFields DEF PulseScan, In, TypeOK
    <3>2. Len(resultQueue) \in Nat
      BY LenProperties DEF TypeOK
    <3>3. Top.pos \in 1 .. Len(resultQueue)
      BY <3>1, <3>2
    <3> QED
      BY <1>4, <2>2, <3>3, FinishHeld DEF PulseScan
  <2> QED
    BY <1>4, <2>1, <2>2 DEF PulseScan
<1>5. CASE StopCancel
  <2>1. /\ UNCHANGED <<stage, commandQueue, resultQueue, finishedList, current>>
        /\ thread' = "cancelled"
    BY <1>5 DEF StopCancel, jobVars, queueVars
  <2> QED
    BY <2>1 DEF Held, Placed, ToSet, IsInjective, ThreadHoldsFront, IdleThreadHasNoJob
<1>6. CASE \/ FreeCommand \/ PollTimeout \/ PollWait \/ PollWake
           \/ CollectConnect \/ CollectDisconnect \/ CollectQuery
           \/ PulseFlushed \/ PulseEnd \/ StopReturn
           \/ ScriptReturn \/ PulseStart \/ StopThread \/ Stopped
  <2>1. UNCHANGED placementVars
    BY <1>6 DEF FreeCommand, PollTimeout, PollWait, PollWake, CollectConnect,
         CollectDisconnect, CollectQuery, PulseFlushed, PulseEnd, StopReturn, ScriptReturn,
         PulseStart, StopThread, Stopped, placementVars, jobVars, queueVars, threadVars, vars
  <2> QED
    BY <2>1, HeldUnchanged
<1> QED
  BY <1>1, <1>2, <1>3, <1>4, <1>5, <1>6 DEF MainStep

\* The thread takes the front, keeps it while it works, and only then moves it on.
LEMMA ThreadStepHeld ==
    ASSUME TypeOK, Held, ThreadStep
    PROVE  Held'
<1>1. CASE ThreadTake
  <2> DEFINE j == Head(commandQueue)
  <2>1. commandQueue # <<>> /\ j \in Jobs /\ j \in ToSet(commandQueue)
    BY <1>1, HeadTailProperties, LenProperties, EmptySeq DEF ThreadTake, TypeOK, ToSet
  <2> HIDE DEF j
  <2>2. /\ \A k \in Jobs : stage'[k] = IF k = j THEN "PROCCESSING" ELSE stage[k]
        /\ current' = j /\ thread' = "process"
        /\ UNCHANGED <<commandQueue, resultQueue, finishedList>>
    BY <1>1, <2>1 DEF ThreadTake, TypeOK, queueVars, j
  <2>3. stage[j] \in {"COMMAND_QUEUE", "PROCCESSING"}
    BY <2>1 DEF Held, Placed
  <2>4. Placed'
    BY <2>2, <2>3 DEF Held, Placed, ToSet, IsInjective
  <2>5. \A k \in Jobs : stage[k] # "PROCCESSING"
    BY <1>1, JobsFinite DEF ThreadTake, Held, ThreadHoldsFront, IdleThreadHasNoJob
  <2>6. ThreadHoldsFront' /\ IdleThreadHasNoJob'
    BY <2>1, <2>2, <2>5 DEF ThreadHoldsFront, IdleThreadHasNoJob, j
  <2> QED
    BY <2>4, <2>6 DEF Held
<1>2. CASE \/ ProcessConnect \/ ProcessDisconnect \/ ProcessQuery \/ ProcessFlush
           \/ ProcessSetLogLevel
  <2>1. PICK type : Processing(type)
    BY <1>2 DEF ProcessConnect, ProcessDisconnect, ProcessQuery, ProcessFlush,
         ProcessSetLogLevel
  <2>2. /\ UNCHANGED <<stage, commandQueue, resultQueue, finishedList, current>>
        /\ thread = "process" /\ thread' = "store"
    BY <2>1 DEF Processing, queueVars
  <2> QED
    BY <2>2 DEF Held, Placed, ToSet, IsInjective, ThreadHoldsFront, IdleThreadHasNoJob
<1>3. CASE ThreadStore
  <2>1. /\ commandQueue # <<>> /\ Head(commandQueue) = current
        /\ current \in Jobs /\ current \in ToSet(commandQueue)
    BY <1>3, HeadTailProperties, LenProperties, EmptySeq
       DEF ThreadStore, Held, ThreadHoldsFront, TypeOK, ToSet
  <2>2. /\ commandQueue' = Tail(commandQueue) /\ resultQueue' = Append(resultQueue, current)
        /\ \A k \in Jobs : stage'[k] = IF k = current THEN "RESULT" ELSE stage[k]
        /\ thread' = "loop" /\ current' = NoJob /\ finishedList' = finishedList
    BY <1>3, <2>1 DEF ThreadStore, TypeOK
  <2>3. current \notin ToSet(resultQueue) /\ current \notin finishedList
    BY <2>1 DEF Held, Placed
  <2>4. IsInjective(commandQueue') /\ ToSet(commandQueue') = ToSet(commandQueue) \ {current}
    BY <2>1, <2>2, TailDistinct DEF Held, Placed, TypeOK
  <2>5. IsInjective(resultQueue') /\ ToSet(resultQueue') = ToSet(resultQueue) \cup {current}
    BY <2>1, <2>2, <2>3, AppendDistinct DEF Held, Placed, TypeOK
  <2>6. Placed'
    BY <2>1, <2>2, <2>3, <2>4, <2>5 DEF Held, Placed
  <2>7. ThreadHoldsFront' /\ IdleThreadHasNoJob'
    BY <2>2 DEF Held, ThreadHoldsFront, IdleThreadHasNoJob
  <2> QED
    BY <2>6, <2>7 DEF Held
<1>4. CASE ThreadExit
  <2>1. /\ UNCHANGED <<stage, commandQueue, resultQueue, finishedList, current>>
        /\ thread' = "terminated"
    BY <1>4 DEF ThreadExit, jobVars, queueVars
  <2> QED
    BY <2>1 DEF Held, Placed, ToSet, IsInjective, ThreadHoldsFront, IdleThreadHasNoJob
<1> QED
  BY <1>1, <1>2, <1>3, <1>4 DEF ThreadStep

-----------------------------------------------------------------------------
\* The structure holds at first, and each step keeps it.
LEMMA StructureInit == Init => Structure
<1> SUFFICES ASSUME Init
             PROVE  Structure
  OBVIOUS
<1>1. TypeOK
  BY DEF Init, TypeOK, EJobStage, EJobResult, Callbacks, Command, NoCommand
<1>2. JobPlacement /\ ThreadHoldsFront /\ IdleThreadHasNoJob
  BY DEF Init, JobPlacement, QueuedJobs, ResultJobs, ThreadHoldsFront, IdleThreadHasNoJob
<1> QED
  BY <1>1, <1>2 DEF Structure

\* One step, of either thread.
LEMMA StructureStep == Structure /\ [Next]_vars => Structure'
<1> SUFFICES ASSUME TypeOK, Held, [Next]_vars
             PROVE  TypeOK' /\ Held'
  BY PlacedIsJobPlacement DEF Structure, Held, Placed, JobPlacement, IsInjective, ToSet,
     QueuedJobs, ResultJobs
<1>1. CASE ClientOp
  BY <1>1, ClientOpTypes, ClientOpHeld
<1>2. CASE MainStep \/ ScriptReturn \/ PulseStart \/ StopThread \/ Stopped
  BY <1>2, MainStepTypes, MainStepHeld
<1>3. CASE ThreadStep
  BY <1>3, ThreadStepTypes, ThreadStepHeld DEF Held
<1>4. CASE UNCHANGED vars
  <2>1. TypeOK'
    BY <1>4 DEF vars, jobVars, queueVars, connVars, mainVars, threadVars, TypeOK
  <2> QED
    BY <1>4, <2>1, HeldUnchanged DEF vars, jobVars, queueVars, threadVars, placementVars
<1> QED
  BY <1>1, <1>2, <1>3, <1>4 DEF Next

\* So it holds in every reachable state.
LEMMA StructureInvariant == Spec => []Structure
BY StructureInit, StructureStep, PTL DEF Spec

\* Every variable keeps its type: unflushed changes always belong to the connection of
\* an open handle, whatever the threads, scripts and handlers do.
THEOREM TypeCorrect == Spec => []TypeOK
<1>1. Structure => TypeOK
  BY DEF Structure
<1> QED
  BY <1>1, StructureInvariant, PTL

\* A job object is in exactly one of the command queue, the result queue and the
\* finished list, once, as its stage says (the comment above m_ActiveJobHandles).
THEOREM JobsPlacedOnce == Spec => []JobPlacement
<1>1. Structure => JobPlacement
  BY DEF Structure
<1> QED
  BY <1>1, StructureInvariant, PTL

\* The job that the service thread works on without the lock stays at the front of the
\* command queue until the thread itself moves it.
THEOREM ThreadKeepsFront == Spec => []ThreadHoldsFront
<1>1. Structure => ThreadHoldsFront
  BY DEF Structure
<1> QED
  BY <1>1, StructureInvariant, PTL
=============================================================================
