-------------------------- MODULE NetBufferProofs --------------------------
(***************************************************************************)
(* Theorems about NetBuffer, for any number of players, commands, packets  *)
(* and switches of the setting, and any bound on the queue.                *)
(***************************************************************************)
EXTENDS NetBuffer, SequenceLemmas

-----------------------------------------------------------------------------
(* The inductive invariant, in six parts.                                  *)

QueueTypes ==
    /\ cmds \in Seq(Command) /\ results \in Seq(Ids) /\ finished \subseteq Ids
    /\ job \in [Ids -> Job]

PacketNumbers == 1..MaxPackets
PacketTypes ==
    /\ incoming \in Seq(PacketNumbers) /\ batch \in Seq(PacketNumbers)
    /\ handled \in Seq(PacketNumbers)
    /\ dropped \subseteq PacketNumbers /\ arrived \in 0..MaxPackets

SendNumbers == 0..MaxSends
NetTypes ==
    /\ handler \in {"game", "buffer", "none"} /\ wire \in Seq(SendNumbers)
    /\ sends \in SendNumbers

ThreadType == thread \in [pc : ThreadPcs, todo : 0..MaxQueue + 1]

MainType == main \in [pc : MainPcs, job : Ids \cup {NoJob}, back : MainPcs, asleep : BOOLEAN]

Types == QueueTypes /\ PacketTypes /\ NetTypes /\ ThreadType /\ MainType

\* Where the main thread is, and where it goes back to.
Returns ==
    /\ main.back \in {"game", "handler", "enabling", "restore", "stop"}
    /\ main.back = "handler" => At("poll") \/ At("setCallback")
    /\ main.back \in {"enabling", "restore"} => At("poll")
    /\ main.back = "stop" => At("incoming") \/ At("packets") \/ At("callbacks") \/ At("callback")
    /\ At("poll") \/ At("setCallback") \/ At("callback") <=> main.job # NoJob

\* Without the buffer there is no thread, and nothing in a queue.
OffState ==
    ~enabled => /\ At("game") /\ ThreadAt("ended") /\ handler = "game"
                /\ cmds = <<>> /\ results = <<>> /\ finished = {} /\ incoming = <<>>

\* The buffer is being taken out, and its last command has been executed.
Draining == main.pc \in {"restore", "stop", "stopping"} \/ main.back = "stop"

DrainState ==
    /\ Draining \/ (At("poll") /\ main.back = "restore") => ~dmHandler
    /\ Draining \/ At("enabling") => cmds = <<>>
    /\ Draining /\ ~At("restore") => handler = "game"
    /\ Draining /\ ~At("restore") /\ ~At("incoming") => incoming = <<>>

BatchHeld ==
    batch # <<>> => \/ At("packets") \/ At("handler")
                    \/ (At("poll") \/ At("setCallback")) /\ main.back = "handler"

\* The command that registers a handler needs no room in the queue; the thread
\* does no more commands than there are.
Registering == At("poll") /\ main.back \in {"enabling", "restore"}
Room ==
    /\ Len(cmds) <= IF Registering THEN MaxQueue + 1 ELSE MaxQueue
    /\ ThreadAt("take") => thread.todo <= Len(cmds)
    /\ ThreadAt("process") \/ ThreadAt("store") => thread.todo < Len(cmds)

Control == Returns /\ OffState /\ DrainState /\ BatchHeld /\ Room

\* Which callbacks are still to come; and the command that is waited for is the last.
PendingJob(j) ==
    /\ job[j].stage = "none" => job[j].cb = "unset"
    /\ job[j].cb = "set" => job[j].stage \in {"queued", "processing", "result"}
    /\ At("stop") \/ At("stopping") => job[j].cb # "set"
PendingMain ==
    /\ At("poll") \/ At("setCallback") => job[main.job].cb = "unset"
    /\ At("callback") => job[main.job].cb = "done" /\ job[main.job].stage = "result"
    /\ At("poll") => \/ cmds = <<>> /\ job[main.job].stage = "result"
                     \/ cmds # <<>> /\ cmds[Len(cmds)].id = main.job
Pending == PendingMain /\ \A j \in Ids : PendingJob(j)

\* The net module has not executed more than it was asked for.
Sends == SendsInOrder /\ Len(wire) <= sends

Before(S, T) == \A x \in S, y \in T : x < y

\* PacketsInOrder, part by part.
Packets ==
    /\ Increasing(handled) /\ Increasing(batch) /\ Increasing(incoming)
    /\ Before(ToSet(handled), ToSet(batch)) /\ Before(ToSet(batch), ToSet(incoming))
    /\ Before(ToSet(handled), ToSet(incoming))
    /\ ToSet(handled) \cup ToSet(batch) \cup ToSet(incoming) = 1..arrived \ dropped
    /\ dropped \subseteq 1..arrived

IInv == Types /\ Control /\ JobPlacement /\ Pending /\ Sends /\ Packets

-----------------------------------------------------------------------------
(* Types.                                                                  *)

LEMMA Bounds ==
    /\ MaxJobs \in Nat /\ MaxSends \in Nat /\ MaxPackets \in Nat
    /\ MaxQueue \in Nat /\ MaxSwitches \in Nat
BY NetBufferType

\* AddCommand: the queue is longer by one command, its last.
LEMMA AddCommandQueue ==
    ASSUME cmds \in Seq(Command), NEW kind \in {"send", "pulse", "handler", "stats", "query"},
           NEW j \in Ids \cup {NoJob}, NEW arg \in 0..MaxSends, AddCommand(kind, j, arg)
    PROVE  /\ cmds' \in Seq(Command) /\ Len(cmds) \in Nat /\ Len(cmds') = Len(cmds) + 1
           /\ cmds' # <<>> /\ (cmds # <<>> => Head(cmds') = Head(cmds))
           /\ DOMAIN cmds = 1..Len(cmds) /\ DOMAIN cmds' = 1..Len(cmds) + 1
           /\ \A i \in 1..Len(cmds) : cmds'[i] = cmds[i]
           /\ cmds'[Len(cmds) + 1] = [kind |-> kind, id |-> j, arg |-> arg]
<1> DEFINE c == [kind |-> kind, id |-> j, arg |-> arg]
<1>1. c \in Command /\ cmds' = Append(cmds, c)
  BY DEF AddCommand, Command
<1> HIDE DEF c
<1>2. /\ cmds' \in Seq(Command) /\ Len(cmds) \in Nat /\ Len(cmds') = Len(cmds) + 1
      /\ \A i \in 1..Len(cmds) : cmds'[i] = cmds[i]
      /\ cmds'[Len(cmds) + 1] = c
  BY <1>1, AppendProperties, LenProperties
<1>3. cmds' # <<>> /\ (cmds # <<>> => Head(cmds') = Head(cmds))
  BY <1>1, HeadTailAppend
<1>4. DOMAIN cmds = 1..Len(cmds) /\ DOMAIN cmds' = 1..Len(cmds')
  BY <1>2, LenProperties
<1> QED
  BY <1>2, <1>3, <1>4 DEF c

\* AddCommandWithResult: so it is, and its job is new.
LEMMA AddCommandWithResultQueue ==
    ASSUME Types, NEW kind \in {"handler", "stats", "query"}, NEW p \in Players \cup {NoPlayer},
           NEW pc \in MainPcs, NEW back \in MainPcs,
           AddCommandWithResult(kind, p, pc, back)
    PROVE  \E j \in Ids :
             /\ job[j].stage = "none"
             /\ job' \in [Ids -> Job] /\ job' = [job EXCEPT ![j] = job'[j]]
             /\ job'[j].stage = "queued" /\ job'[j].cb = job[j].cb
             /\ main' \in [pc : MainPcs, job : Ids \cup {NoJob}, back : MainPcs, asleep : BOOLEAN]
             /\ main'.pc = pc /\ main'.job = j /\ main'.back = back
             /\ AddCommand(kind, j, 0)
             /\ UNCHANGED <<results, finished>>
<1>1. PICK j \in NewJobs :
         /\ job' = [job EXCEPT ![j].stage = "queued", ![j].player = p]
         /\ AddCommand(kind, j, 0)
         /\ main' = [main EXCEPT !.pc = pc, !.job = j, !.back = back]
  BY DEF AddCommandWithResult
<1>2. j \in Ids /\ job[j].stage = "none"
  BY DEF NewJobs
<1>3. /\ job' \in [Ids -> Job] /\ job' = [job EXCEPT ![j] = job'[j]]
      /\ job'[j].stage = "queued" /\ job'[j].cb = job[j].cb
  BY <1>1, <1>2 DEF Types, QueueTypes, Job
<1>4. /\ main' \in [pc : MainPcs, job : Ids \cup {NoJob}, back : MainPcs, asleep : BOOLEAN]
      /\ main'.pc = pc /\ main'.job = j /\ main'.back = back
  BY <1>1, <1>2 DEF Types, MainType
<1> QED
  BY <1>1, <1>2, <1>3, <1>4 DEF AddCommandWithResult

\* Which steps change the queues of commands, those of packets, what the net module
\* does, and where the threads are.
LEMMA QueueSteps ==
    ASSUME Next
    PROVE  \/ UNCHANGED queues
           \/ ThreadTake \/ StoreResult \/ Send \/ Query \/ (\E p \in Players : GetNetworkStatistics(p))
           \/ SetCallback \/ PollFound \/ DoPulse \/ DeleteFinished \/ Callback \/ CallbackSaves
           \/ Enable \/ RestoreHandler \/ Stopped
BY DEF Next, ThreadNext, MainNext, ThreadTop, ThreadPulsed, ProcessPacket, ThreadCommands,
       ProcessCommand, PollSleep, TakeIncoming, HandlePacket, HandlerReturns, CallbacksDone,
       Enabled, Restored, StopThread, PulseDirectly, Disable

LEMMA PacketSteps ==
    ASSUME Next
    PROVE  \/ UNCHANGED packets
           \/ ProcessPacket \/ PulseDirectly \/ TakeIncoming \/ HandlePacket \/ Stopped
BY DEF Next, ThreadNext, MainNext, ThreadTop, ThreadPulsed, ThreadCommands, ThreadTake,
       ProcessCommand, StoreResult, Send, Query, GetNetworkStatistics, SetCallback, PollSleep,
       PollFound, DoPulse, HandlerReturns, DeleteFinished, Callback, CallbackSaves,
       CallbacksDone, Enable, Enabled, Disable, RestoreHandler, Restored, StopThread

LEMMA NetSteps ==
    ASSUME Next
    PROVE  UNCHANGED <<net, sends>> \/ ProcessCommand \/ Send \/ Restored
BY DEF Next, ThreadNext, MainNext, ThreadTop, ThreadPulsed, ProcessPacket, ThreadCommands,
       ThreadTake, StoreResult, Query, GetNetworkStatistics, SetCallback, PollSleep, PollFound,
       PulseDirectly, DoPulse, TakeIncoming, HandlePacket, HandlerReturns, DeleteFinished,
       Callback, CallbackSaves, CallbacksDone, Enable, Enabled, Disable, RestoreHandler,
       StopThread, Stopped

LEMMA ThreadSteps ==
    ASSUME Next
    PROVE  \/ UNCHANGED thread
           \/ ThreadTop \/ ThreadPulsed \/ ThreadCommands \/ ThreadTake \/ ProcessCommand
           \/ StoreResult \/ Enable \/ Stopped
BY DEF Next, ThreadNext, MainNext, ProcessPacket, Send, Query, GetNetworkStatistics, SetCallback,
       PollSleep, PollFound, PulseDirectly, DoPulse, TakeIncoming, HandlePacket, HandlerReturns,
       DeleteFinished, Callback, CallbackSaves, CallbacksDone, Enabled, Disable, RestoreHandler,
       Restored, StopThread

LEMMA MainSteps ==
    ASSUME Next
    PROVE  \/ UNCHANGED main
           \/ StoreResult \/ Query \/ (\E p \in Players : GetNetworkStatistics(p)) \/ DoPulse
           \/ MainNext \/ Enable \/ Disable
BY DEF Next, ThreadNext, ThreadTop, ThreadPulsed, ThreadCommands, ThreadTake, ProcessCommand,
       ProcessPacket, Send, PulseDirectly

\* TakeResult: the result leaves its queue.
LEMMA TakeResultTypes ==
    ASSUME QueueTypes, NEW j, TakeResult(j)
    PROVE  j \in Ids /\ results' \in Seq(Ids) /\ finished' \subseteq Ids /\ job' \in [Ids -> Job]
<1>1. PICK i \in DOMAIN results : results[i] = j /\ results' = RemoveAt(results, i)
  BY DEF TakeResult
<1>2. i \in 1..Len(results) /\ j \in Ids
  BY <1>1 DEF QueueTypes
<1>3. results' \in Seq(Ids)
  BY <1>1, <1>2, RemoveAtProperties DEF QueueTypes
<1> QED
  BY <1>2, <1>3 DEF TakeResult, QueueTypes, Job

\* The front of the queue of commands, and the others.
LEMMA FrontCommand ==
    ASSUME cmds \in Seq(Command), cmds # <<>>
    PROVE  /\ Head(cmds) = cmds[1] /\ Head(cmds) \in Command
           /\ Head(cmds).id \in Ids \cup {NoJob} /\ Head(cmds).arg \in 0..MaxSends
           /\ Tail(cmds) \in Seq(Command)
           /\ Len(cmds) \in Nat \ {0} /\ Len(Tail(cmds)) = Len(cmds) - 1
           /\ DOMAIN cmds = 1..Len(cmds) /\ DOMAIN Tail(cmds) = 1..Len(cmds) - 1
           /\ \A i \in 1..Len(cmds) - 1 : Tail(cmds)[i] = cmds[i + 1]
<1>1. /\ Head(cmds) \in Command /\ Tail(cmds) \in Seq(Command)
      /\ Len(Tail(cmds)) = Len(cmds) - 1
      /\ \A i \in 1..Len(Tail(cmds)) : Tail(cmds)[i] = cmds[i + 1]
  BY HeadTailProperties
<1>2. Len(cmds) \in Nat \ {0} /\ DOMAIN cmds = 1..Len(cmds)
  BY EmptySeq, LenProperties
<1>3. DOMAIN Tail(cmds) = 1..Len(Tail(cmds))
  BY <1>1, LenProperties
<1>4. Head(cmds).id \in Ids \cup {NoJob} /\ Head(cmds).arg \in 0..MaxSends
  BY <1>1 DEF Command
<1>5. Head(cmds) = cmds[1]
  OBVIOUS
<1> QED
  BY <1>1, <1>2, <1>3, <1>4, <1>5

LEMMA QueueTypesStep ==
    ASSUME Types, Control, JobPlacement, Next
    PROVE  QueueTypes'
<1>0. QueueTypes /\ MainType
  BY DEF Types
<1>1. CASE ThreadTake
  <2>1. UNCHANGED <<cmds, results, finished>>
    BY <1>1 DEF ThreadTake
  <2>2. job' \in [Ids -> Job]
    <3>1. CASE thread.todo = 0 \/ terminate
      BY <1>0, <1>1, <3>1 DEF ThreadTake, QueueTypes
    <3>2. CASE ~(thread.todo = 0 \/ terminate)
      <4>1. cmds # <<>> /\ job' = SetStage(Head(cmds).id, "processing")
        <5>1. Len(cmds) # 0
          BY <1>1, <3>2 DEF ThreadTake, Control, Returns, OffState, Room, Types, ThreadType
        <5> QED
          BY <1>1, <3>2, <5>1 DEF ThreadTake
      <4>2. Head(cmds).id \in Ids \cup {NoJob}
        BY <1>0, <4>1, FrontCommand DEF QueueTypes
      <4> QED
        BY <1>0, <4>1, <4>2 DEF SetStage, QueueTypes, Job
    <3> QED
      BY <3>1, <3>2
  <2> QED
    BY <1>0, <2>1, <2>2 DEF QueueTypes
<1>2. CASE StoreResult
  <2>1. cmds # <<>>
    BY <1>2 DEF StoreResult, ThreadAt, JobPlacement
  <2>2. cmds' \in Seq(Command) /\ Head(cmds).id \in Ids \cup {NoJob}
    BY <1>0, <1>2, <2>1, FrontCommand DEF StoreResult, QueueTypes
  <2>3. results' \in Seq(Ids) /\ finished' \subseteq Ids
    BY <1>0, <1>2, <2>2 DEF StoreResult, QueueTypes
  <2>4. job' \in [Ids -> Job]
    BY <1>0, <1>2, <2>2 DEF StoreResult, SetStage, QueueTypes, Job
  <2> QED
    BY <2>2, <2>3, <2>4 DEF QueueTypes
<1>3. CASE Send
  <2>1. cmds' \in Seq(Command)
    <3>1. sends + 1 \in 0..MaxSends
      BY <1>3, Bounds DEF Send, Types, NetTypes, SendNumbers
    <3>2. UNCHANGED cmds \/ AddCommand("send", NoJob, sends + 1)
      BY <1>3 DEF Send
    <3> QED
      BY <1>0, <3>1, <3>2, AddCommandQueue DEF QueueTypes
  <2> QED
    BY <1>0, <1>3, <2>1 DEF Send, QueueTypes
<1>4. ASSUME NEW kind \in {"handler", "stats", "query"}, NEW p \in Players \cup {NoPlayer},
             NEW pc \in MainPcs, NEW back \in MainPcs,
             AddCommandWithResult(kind, p, pc, back)
      PROVE  QueueTypes'
  <2>1. 0 \in 0..MaxSends
    BY Bounds
  <2>2. PICK j \in Ids :
           /\ job' \in [Ids -> Job] /\ AddCommand(kind, j, 0) /\ UNCHANGED <<results, finished>>
    BY <1>4, AddCommandWithResultQueue
  <2>3. cmds' \in Seq(Command)
    BY <1>0, <2>1, <2>2, AddCommandQueue DEF QueueTypes
  <2> QED
    BY <1>0, <2>2, <2>3 DEF QueueTypes
<1>5. CASE Query \/ (\E p \in Players : GetNetworkStatistics(p)) \/ Enable \/ RestoreHandler
  <2>1. {"poll", "setCallback", "enabling", "restore", main.pc} \subseteq MainPcs
    BY <1>0 DEF MainType, MainPcs
  <2> QED
    BY <1>4, <1>5, <2>1 DEF Query, GetNetworkStatistics, Enable, RestoreHandler
<1>6. CASE DoPulse
  <2>1. 0 \in 0..MaxSends
    BY Bounds
  <2>2. cmds' \in Seq(Command)
    BY <1>0, <1>6, <2>1, AddCommandQueue DEF DoPulse, QueueTypes
  <2> QED
    BY <1>0, <1>6, <2>2 DEF DoPulse, QueueTypes
<1>7. CASE PollFound \/ CallbackSaves
  <2>1. TakeResult(main.job) /\ UNCHANGED cmds
    BY <1>7 DEF PollFound, CallbackSaves
  <2> QED
    BY <1>0, <2>1, TakeResultTypes DEF QueueTypes
<1>8. CASE SetCallback \/ Callback
  <2>1. UNCHANGED <<cmds, results, finished>>
    BY <1>8 DEF SetCallback, Callback
  <2>2. CASE SetCallback
    BY <1>0, <2>1, <2>2, ZenonT(60) DEF SetCallback, QueueTypes, Job
  <2>3. CASE Callback
    <3>1. PICK i \in Due : job' = [job EXCEPT ![results[i]].cb = "done"]
      BY <2>3 DEF Callback
    <3> QED
      BY <1>0, <2>1, <3>1 DEF QueueTypes, Job
  <2> QED
    BY <1>8, <2>2, <2>3
<1>9. CASE DeleteFinished
  BY <1>0, <1>9 DEF DeleteFinished, QueueTypes, Job
<1>10. CASE Stopped
  BY <1>0, <1>10 DEF Stopped, QueueTypes, Job
<1>11. CASE UNCHANGED queues
  BY <1>0, <1>11 DEF queues, QueueTypes
<1> QED
  BY <1>1, <1>2, <1>3, <1>5, <1>6, <1>7, <1>8, <1>9, <1>10, <1>11, QueueSteps

LEMMA PacketTypesStep ==
    ASSUME Types, Next
    PROVE  PacketTypes'
<1>0. PacketTypes
  BY DEF Types
<1>1. CASE ProcessPacket \/ PulseDirectly
  <2>1. UNCHANGED <<batch, dropped>>
    BY <1>1 DEF ProcessPacket, PulseDirectly
  <2>2. \/ UNCHANGED <<incoming, handled, arrived>>
        \/ /\ arrived < MaxPackets /\ arrived' = arrived + 1
           /\ incoming' = incoming \/ incoming' = Append(incoming, arrived + 1)
           /\ handled' = handled \/ handled' = Append(handled, arrived + 1)
    BY <1>1 DEF ProcessPacket, PulseDirectly
  <2>3. arrived < MaxPackets => arrived + 1 \in PacketNumbers /\ arrived + 1 \in 0..MaxPackets
    BY <1>0, Bounds DEF PacketTypes, PacketNumbers
  <2> QED
    <3>1. handled \in Seq(PacketNumbers) /\ incoming \in Seq(PacketNumbers)
      BY <1>0 DEF PacketTypes
    <3>2. arrived < MaxPackets => /\ Append(handled, arrived + 1) \in Seq(PacketNumbers)
                                  /\ Append(incoming, arrived + 1) \in Seq(PacketNumbers)
      BY <2>3, <3>1, AppendProperties
    <3>3. /\ handled' \in Seq(PacketNumbers) /\ incoming' \in Seq(PacketNumbers)
          /\ arrived' \in 0..MaxPackets
      BY <1>0, <2>2, <2>3, <3>1, <3>2 DEF PacketTypes
    <3> QED
      BY <1>0, <2>1, <3>3 DEF PacketTypes
<1>2. CASE TakeIncoming \/ Stopped
  <2>1. /\ UNCHANGED <<handled, dropped, arrived>> /\ incoming' = <<>>
        /\ batch' = incoming \/ batch' = batch
    BY <1>2 DEF TakeIncoming, Stopped
  <2> QED
    BY <1>0, <2>1, EmptySeq DEF PacketTypes
<1>3. CASE HandlePacket
  <2>1. Head(batch) \in PacketNumbers /\ batch' \in Seq(PacketNumbers)
    BY <1>0, <1>3, HeadTailProperties DEF HandlePacket, PacketTypes
  <2>2. \/ handled' = Append(handled, Head(batch)) /\ UNCHANGED dropped
        \/ dropped' = dropped \cup {Head(batch)} /\ UNCHANGED handled
    BY <1>3 DEF HandlePacket
  <2>3. UNCHANGED <<incoming, arrived>>
    BY <1>3 DEF HandlePacket
  <2>4. handled' \in Seq(PacketNumbers)
    <3>1. handled \in Seq(PacketNumbers)
      BY <1>0 DEF PacketTypes
    <3>2. Append(handled, Head(batch)) \in Seq(PacketNumbers)
      BY <2>1, <3>1, AppendProperties
    <3> QED
      BY <2>2, <3>1, <3>2
  <2>5. dropped' \subseteq PacketNumbers
    BY <1>0, <2>1, <2>2 DEF PacketTypes
  <2> QED
    BY <1>0, <2>1, <2>3, <2>4, <2>5 DEF PacketTypes
<1>4. CASE UNCHANGED packets
  BY <1>0, <1>4 DEF packets, PacketTypes
<1> QED
  BY <1>1, <1>2, <1>3, <1>4, PacketSteps

LEMMA NetTypesStep ==
    ASSUME Types, JobPlacement, Next
    PROVE  NetTypes'
<1>0. NetTypes
  BY DEF Types
<1>1. CASE ProcessCommand
  <2>1. Head(cmds).arg \in SendNumbers
    BY <1>1, FrontCommand DEF ProcessCommand, JobPlacement, ThreadAt, Types, QueueTypes, SendNumbers
  <2>2. wire' = wire \/ wire' = Append(wire, Head(cmds).arg)
    BY <1>1 DEF ProcessCommand
  <2>3. wire' \in Seq(SendNumbers)
    BY <1>0, <2>1, <2>2, AppendProperties DEF NetTypes
  <2>4. handler' \in {"game", "buffer", "none"} /\ UNCHANGED sends
    BY <1>0, <1>1 DEF ProcessCommand, NetTypes
  <2> QED
    BY <1>0, <2>3, <2>4 DEF NetTypes
<1>2. CASE Send
  <2>1. sends' = sends + 1 /\ sends + 1 \in SendNumbers /\ UNCHANGED handler
    BY <1>0, <1>2, Bounds DEF Send, NetTypes, SendNumbers
  <2>2. wire' = wire \/ wire' = Append(wire, sends + 1)
    BY <1>2 DEF Send
  <2> QED
    BY <1>0, <2>1, <2>2, AppendProperties DEF NetTypes
<1>3. CASE Restored
  BY <1>0, <1>3 DEF Restored, NetTypes
<1>4. CASE UNCHANGED <<net, sends>>
  BY <1>0, <1>4 DEF net, NetTypes
<1> QED
  BY <1>1, <1>2, <1>3, <1>4, NetSteps

LEMMA ThreadTypeStep ==
    ASSUME Types, Control, Next
    PROVE  ThreadType'
<1>0. ThreadType
  BY DEF Types
<1>1. 0 \in 0..MaxQueue + 1 /\ Len(cmds) \in 0..MaxQueue + 1
  <2>1. Len(cmds) \in Nat
    BY LenProperties DEF Types, QueueTypes
  <2> QED
    BY <2>1, Bounds DEF Control, Returns, OffState, Room
<1>2. CASE ThreadTake
  <2>1. thread.todo # 0 => thread.todo - 1 \in 0..MaxQueue + 1
    BY <1>0, Bounds DEF ThreadType
  <2> QED
    BY <1>1, <1>2, <2>1 DEF ThreadTake, ThreadType, ThreadPcs
<1>3. CASE \/ ThreadTop \/ ThreadPulsed \/ ThreadCommands \/ ProcessCommand \/ StoreResult
           \/ Enable \/ Stopped \/ UNCHANGED thread
  <2>1. \/ UNCHANGED thread \/ \E pc \in ThreadPcs : thread' = [thread EXCEPT !.pc = pc]
        \/ \E pc \in ThreadPcs, n \in {0, Len(cmds)} : thread' = [pc |-> pc, todo |-> n]
    BY <1>3 DEF ThreadTop, ThreadPulsed, ThreadCommands, ProcessCommand, StoreResult,
                Enable, Stopped, ThreadTo, ThreadPcs
  <2> QED
    BY <1>0, <1>1, <2>1 DEF ThreadType
<1> QED
  BY <1>2, <1>3, ThreadSteps

LEMMA MainTypeStep ==
    ASSUME Types, Next
    PROVE  MainType'
<1>0. MainType /\ QueueTypes
  BY DEF Types
<1>1. ASSUME NEW kind \in {"handler", "stats", "query"}, NEW p \in Players \cup {NoPlayer},
             NEW pc \in MainPcs, NEW back \in MainPcs,
             AddCommandWithResult(kind, p, pc, back)
      PROVE  MainType'
  BY <1>1, AddCommandWithResultQueue DEF MainType
<1>2. CASE Query \/ (\E p \in Players : GetNetworkStatistics(p)) \/ Enable \/ RestoreHandler
  <2>1. {"poll", "setCallback", "enabling", "restore", main.pc} \subseteq MainPcs
    BY <1>0 DEF MainType, MainPcs
  <2> QED
    BY <1>1, <1>2, <2>1 DEF Query, GetNetworkStatistics, Enable, RestoreHandler
<1>3. CASE \/ DoPulse \/ Restored \/ CallbackSaves
  BY <1>0, <1>3 DEF DoPulse, Restored, CallbackSaves, MainType, MainPcs
<1>4. CASE Callback
  <2>1. PICK i \in Due : main' = [main EXCEPT !.pc = "callback", !.job = results[i]]
    BY <1>4 DEF Callback
  <2>2. results[i] \in Ids
    BY <1>0, <2>1 DEF Due, QueueTypes
  <2> QED
    BY <1>0, <2>1, <2>2 DEF MainType, MainPcs
<1>5. CASE \/ TakeIncoming \/ HandlePacket \/ HandlerReturns \/ DeleteFinished \/ Enabled
           \/ Disable \/ StopThread \/ Stopped
  <2>1. UNCHANGED main \/ \E pc \in MainPcs : GoTo(pc)
    BY <1>5 DEF TakeIncoming, HandlePacket, HandlerReturns, DeleteFinished, Enabled, Disable,
                StopThread, Stopped, MainPcs
  <2> QED
    BY <1>0, <2>1 DEF GoTo, MainType
<1>6. CASE SetCallback \/ PollFound \/ CallbacksDone
  <2>1. Return
    BY <1>6 DEF SetCallback, PollFound, CallbacksDone
  <2> QED
    BY <1>0, <2>1 DEF Return, MainType, MainPcs
<1>7. CASE PollSleep \/ StoreResult \/ UNCHANGED main
  BY <1>0, <1>7 DEF PollSleep, StoreResult, Woken, MainType
<1> QED
  BY <1>2, <1>3, <1>4, <1>5, <1>6, <1>7, MainSteps DEF MainNext

LEMMA TypesStep ==
    ASSUME Types, Control, JobPlacement, Next
    PROVE  Types'
BY QueueTypesStep, PacketTypesStep, NetTypesStep, ThreadTypeStep, MainTypeStep DEF Types

-----------------------------------------------------------------------------
(* Where the jobs are.                                                     *)

Waits(j) == \E i \in DOMAIN cmds : cmds[i].id = j
Once == \A i, k \in DOMAIN cmds : cmds[i].id = cmds[k].id /\ cmds[i].id # NoJob => i = k
Busy == thread.pc \in {"process", "store"}

\* What JobPlacement says of a job,
PlacedJob(j) ==
    /\ Waits(j) <=> job[j].stage \in {"queued", "processing"}
    /\ j \in ToSet(results) <=> job[j].stage = "result"
    /\ j \in finished <=> job[j].stage = "finished"
    /\ job[j].stage = "processing" <=> Busy /\ Head(cmds).id = j

\* and of the rest.
PlacedRest ==
    /\ Once /\ IsInjective(results) /\ (Busy => cmds # <<>>)
    /\ main.job # NoJob => job[main.job].stage \notin {"none", "finished", "deleted"}

LEMMA PlacementParts == JobPlacement <=> PlacedRest /\ \A j \in Ids : PlacedJob(j)
BY DEF JobPlacement, PlacedRest, PlacedJob, Waits, Once, Busy

LEMMA PlacementNext ==
    ASSUME PlacedRest', \A j \in Ids : PlacedJob(j)'
    PROVE  JobPlacement'
BY DEF JobPlacement, PlacedRest, PlacedJob, Waits, Once, Busy

\* A command added at the end of the queue, of a new job or of none.
LEMMA AddCommandIds ==
    ASSUME cmds \in Seq(Command), NEW kind \in {"send", "pulse", "handler", "stats", "query"},
           NEW j \in Ids \cup {NoJob}, NEW arg \in 0..MaxSends, AddCommand(kind, j, arg),
           Once, j = NoJob \/ ~Waits(j)
    PROVE  /\ Once'
           /\ \A x \in Ids : Waits(x)' <=> Waits(x) \/ x = j
<1>1. /\ DOMAIN cmds = 1..Len(cmds) /\ DOMAIN cmds' = 1..Len(cmds) + 1 /\ Len(cmds) \in Nat
      /\ \A i \in 1..Len(cmds) : cmds'[i] = cmds[i]
      /\ cmds'[Len(cmds) + 1].id = j
  <2>1. cmds'[Len(cmds) + 1] = [kind |-> kind, id |-> j, arg |-> arg]
    BY AddCommandQueue
  <2>2. cmds'[Len(cmds) + 1].id = j
    BY <2>1
  <2> QED
    BY <2>2, AddCommandQueue
<1>2. \A i \in 1..Len(cmds) + 1 : i \in 1..Len(cmds) \/ i = Len(cmds) + 1
  BY <1>1
<1>3. 1..Len(cmds) \subseteq 1..Len(cmds) + 1 /\ Len(cmds) + 1 \in 1..Len(cmds) + 1
  BY <1>1
<1>4. \A x \in Ids : Waits(x)' <=> Waits(x) \/ x = j
  BY <1>1, <1>2, <1>3 DEF Waits
<1>5. Once'
  BY <1>1, <1>2 DEF Once, Waits
<1> QED
  BY <1>4, <1>5

\* The front of the queue taken out of it.
LEMMA FrontIds ==
    ASSUME cmds \in Seq(Command), cmds # <<>>, Once, cmds' = Tail(cmds)
    PROVE  /\ Once'
           /\ \A x \in Ids : Waits(x)' <=> Waits(x) /\ x # Head(cmds).id
<1> DEFINE n == Len(cmds)
<1>1. /\ DOMAIN cmds = 1..n /\ DOMAIN cmds' = 1..n - 1 /\ n \in Nat \ {0}
      /\ \A i \in 1..n - 1 : cmds'[i] = cmds[i + 1]
      /\ Head(cmds) = cmds[1]
  BY FrontCommand
<1> HIDE DEF n
<1>2. /\ \A i \in 1..n - 1 : i + 1 \in 1..n /\ i + 1 # 1
      /\ \A i \in 1..n : i # 1 => i - 1 \in 1..n - 1 /\ (i - 1) + 1 = i
      /\ \A i, k \in 1..n - 1 : i + 1 = k + 1 => i = k
      /\ 1 \in 1..n
  BY <1>1
<1>3. \A x \in Ids : Waits(x)' => Waits(x) /\ x # Head(cmds).id
  <2> SUFFICES ASSUME NEW x \in Ids, NEW i \in 1..n - 1, cmds'[i].id = x
               PROVE  Waits(x) /\ x # Head(cmds).id
    BY <1>1 DEF Waits
  <2>1. cmds[i + 1].id = x /\ i + 1 \in DOMAIN cmds /\ i + 1 # 1 /\ 1 \in DOMAIN cmds
    BY <1>1, <1>2
  <2>2. x # NoJob
    BY DEF Ids, NoJob
  <2> QED
    BY <1>1, <2>1, <2>2 DEF Waits, Once
<1>4. \A x \in Ids : Waits(x) /\ x # Head(cmds).id => Waits(x)'
  <2> SUFFICES ASSUME NEW x \in Ids, NEW i \in 1..n, cmds[i].id = x, x # Head(cmds).id
               PROVE  \E k \in 1..n - 1 : cmds'[k].id = x
    BY <1>1 DEF Waits
  <2>1. i # 1
    BY <1>1
  <2>2. i - 1 \in 1..n - 1 /\ cmds'[i - 1] = cmds[i]
    BY <1>1, <1>2, <2>1
  <2> QED
    BY <2>2
<1>5. Once'
  <2> SUFFICES ASSUME NEW i \in 1..n - 1, NEW k \in 1..n - 1,
                      cmds'[i].id = cmds'[k].id, cmds'[i].id # NoJob
               PROVE  i = k
    BY <1>1 DEF Once
  <2> QED
    BY <1>1, <1>2 DEF Once
<1> QED
  BY <1>3, <1>4, <1>5

\* A result taken out of the queue of results.
LEMMA TakeResultPlaced ==
    ASSUME QueueTypes, IsInjective(results), NEW j, TakeResult(j)
    PROVE  /\ IsInjective(results') /\ ToSet(results') = ToSet(results) \ {j} /\ j \in ToSet(results)
           /\ finished' = finished \cup {j}
           /\ \A x \in Ids : job'[x].stage = IF x = j THEN "finished" ELSE job[x].stage
           /\ \A x \in Ids : job'[x].cb = job[x].cb
<1>1. PICK i \in DOMAIN results : results[i] = j /\ results' = RemoveAt(results, i)
  BY DEF TakeResult
<1>2. i \in 1..Len(results) /\ results \in Seq(Ids)
  BY <1>1 DEF QueueTypes
<1>3. IsInjective(results') /\ ToSet(results') = ToSet(results) \ {j}
  BY <1>1, <1>2, RemoveDistinct
<1>4. j \in ToSet(results) /\ j \in Ids
  BY <1>1, <1>2 DEF ToSet
<1> QED
  BY <1>3, <1>4 DEF TakeResult, QueueTypes, Job

LEMMA PlacedByThread ==
    ASSUME Types, Control, JobPlacement, ThreadTake \/ ProcessCommand \/ StoreResult
    PROVE  JobPlacement'
<1>0. QueueTypes /\ MainType /\ PlacedRest /\ \A j \in Ids : PlacedJob(j)
  BY PlacementParts DEF Types
<1> DEFINE h == Head(cmds).id
<1>1. CASE ThreadTake
  <2>1. UNCHANGED <<cmds, results, finished, main>> /\ ~Busy
    BY <1>1 DEF ThreadTake, ThreadAt, Busy
  <2>2. CASE thread.todo = 0 \/ terminate
    <3>1. UNCHANGED job /\ ~Busy'
      BY <1>1, <2>2 DEF ThreadTake, Busy
    <3>2. PlacedRest' /\ \A j \in Ids : PlacedJob(j)'
      BY <1>0, <2>1, <3>1 DEF PlacedRest, PlacedJob, Waits, Once
    <3> QED
      BY <3>2, PlacementNext
  <2>3. CASE ~(thread.todo = 0 \/ terminate)
    <3>1. cmds # <<>> /\ job' = SetStage(h, "processing") /\ Busy'
      <4>1. Len(cmds) # 0
        BY <1>1, <2>3 DEF ThreadTake, Control, Returns, OffState, Room, Types, ThreadType
      <4> QED
        BY <1>1, <2>3, <4>1 DEF ThreadTake, Busy
    <3>2. h \in Ids \cup {NoJob} /\ (h \in Ids => Waits(h))
      BY <1>0, <3>1, FrontCommand DEF QueueTypes, Waits
    <3>3. /\ \A j \in Ids : job'[j].stage = IF j = h THEN "processing" ELSE job[j].stage
      BY <1>0, <3>1, <3>2 DEF SetStage, QueueTypes, Job, Ids, NoJob
    <3>4. h \in Ids => job[h].stage = "queued"
      BY <1>0, <2>1, <3>2 DEF PlacedJob
    <3>5. ASSUME NEW j \in Ids PROVE PlacedJob(j)'
      BY <1>0, <2>1, <3>1, <3>3, <3>4 DEF PlacedJob, Waits
    <3>6. PlacedRest'
      <4>1. main.job # NoJob => main.job \in Ids
        BY <1>0 DEF MainType
      <4> QED
        BY <1>0, <2>1, <3>1, <3>3, <4>1 DEF PlacedRest, Once
    <3> QED
      BY <3>5, <3>6, PlacementNext
  <2> QED
    BY <2>2, <2>3
<1>2. CASE ProcessCommand
  <2>1. UNCHANGED <<queues, main>> /\ Busy /\ Busy'
    BY <1>2, <1>0 DEF ProcessCommand, ThreadAt, ThreadTo, Busy, Types, ThreadType
  <2>2. PlacedRest' /\ \A j \in Ids : PlacedJob(j)'
    BY <1>0, <2>1 DEF PlacedRest, PlacedJob, Waits, Once, queues
  <2> QED
    BY <2>2, PlacementNext
<1>3. CASE StoreResult
  <2>1. /\ cmds # <<>> /\ cmds' = Tail(cmds) /\ UNCHANGED finished
        /\ results' = IF h = NoJob THEN results ELSE Append(results, h)
        /\ job' = SetStage(h, "result") /\ main' = Woken /\ Busy /\ ~Busy'
    BY <1>0, <1>3 DEF StoreResult, ThreadAt, ThreadTo, Busy, PlacedRest, Types, ThreadType
  <2>2. h \in Ids \cup {NoJob} /\ (h \in Ids => job[h].stage = "processing")
    BY <1>0, <2>1, FrontCommand DEF QueueTypes, PlacedJob
  <2>3. Once' /\ \A j \in Ids : Waits(j)' <=> Waits(j) /\ j # h
    BY <1>0, <2>1, FrontIds DEF QueueTypes, PlacedRest
  <2>4. \A j \in Ids : job'[j].stage = IF j = h THEN "result" ELSE job[j].stage
    BY <1>0, <2>1, <2>2 DEF SetStage, QueueTypes, Job, Ids, NoJob
  <2>5. IsInjective(results') /\ \A j \in Ids : j \in ToSet(results') <=> j \in ToSet(results) \/ j = h
    <3>1. CASE h = NoJob
      <4>1. \A j \in Ids : j # NoJob
        BY DEF Ids, NoJob
      <4> QED
        BY <1>0, <2>1, <3>1, <4>1 DEF PlacedRest
    <3>2. CASE h # NoJob
      <4>1. h \in Ids /\ h \notin ToSet(results)
        BY <1>0, <2>2, <3>2 DEF PlacedJob
      <4>2. results \in Seq(Ids) /\ IsInjective(results) /\ results' = Append(results, h)
        BY <1>0, <2>1, <3>2 DEF QueueTypes, PlacedRest
      <4>3. IsInjective(Append(results, h)) /\ ToSet(Append(results, h)) = ToSet(results) \cup {h}
        BY <4>1, <4>2, AppendDistinct
      <4> QED
        BY <4>2, <4>3
    <3> QED
      BY <3>1, <3>2
  <2>6. ASSUME NEW j \in Ids PROVE PlacedJob(j)'
    BY <1>0, <2>1, <2>2, <2>3, <2>4, <2>5 DEF PlacedJob
  <2>7. PlacedRest'
    <3>1. main'.job = main.job /\ (main.job # NoJob => main.job \in Ids)
      BY <1>0, <2>1 DEF Woken, MainType
    <3> QED
      BY <1>0, <2>1, <2>3, <2>4, <2>5, <3>1 DEF PlacedRest
  <2> QED
    BY <2>6, <2>7, PlacementNext
<1> QED
  BY <1>1, <1>2, <1>3

LEMMA PlacedByCommand ==
    ASSUME Types, JobPlacement, UNCHANGED <<results, finished, thread>>,
           NEW kind \in {"handler", "stats", "query"}, NEW p \in Players \cup {NoPlayer},
           NEW pc \in MainPcs, NEW back \in MainPcs,
           AddCommandWithResult(kind, p, pc, back)
    PROVE  JobPlacement'
<1>0. QueueTypes /\ MainType /\ PlacedRest /\ \A x \in Ids : PlacedJob(x)
  BY PlacementParts DEF Types
<1>1. PICK j \in Ids :
         /\ job[j].stage = "none"
         /\ job' \in [Ids -> Job] /\ job' = [job EXCEPT ![j] = job'[j]]
         /\ job'[j].stage = "queued" /\ main'.job = j /\ AddCommand(kind, j, 0)
  BY AddCommandWithResultQueue
<1>2. ~Waits(j) /\ 0 \in 0..MaxSends
  BY <1>0, <1>1, Bounds DEF PlacedJob
<1>3. Once' /\ \A x \in Ids : Waits(x)' <=> Waits(x) \/ x = j
  BY <1>0, <1>1, <1>2, AddCommandIds DEF QueueTypes, PlacedRest
<1>4. cmds' # <<>> /\ (cmds # <<>> => Head(cmds') = Head(cmds))
  <2>1. AddCommand(kind, j, 0) /\ cmds \in Seq(Command) /\ j \in Ids \cup {NoJob}
    BY <1>0, <1>1 DEF QueueTypes
  <2> HIDE <1>1
  <2> QED
    BY <1>2, <2>1, AddCommandQueue
<1>5. \A x \in Ids : job'[x].stage = IF x = j THEN "queued" ELSE job[x].stage
  BY <1>0, <1>1 DEF QueueTypes
<1>6. Busy' <=> Busy
  BY DEF Busy
<1>7. ASSUME NEW x \in Ids PROVE PlacedJob(x)'
  BY <1>0, <1>1, <1>3, <1>4, <1>5, <1>6 DEF PlacedJob, PlacedRest
<1>8. PlacedRest'
  BY <1>0, <1>1, <1>3, <1>4, <1>5, <1>6 DEF PlacedRest
<1> QED
  BY <1>7, <1>8, PlacementNext

\* The steps that add a command without a result.
LEMMA PlacedBySend ==
    ASSUME Types, JobPlacement, Send \/ DoPulse
    PROVE  JobPlacement'
<1>0. QueueTypes /\ MainType /\ PlacedRest /\ \A x \in Ids : PlacedJob(x)
  BY PlacementParts DEF Types
<1>1. /\ UNCHANGED <<results, finished, job, thread>> /\ main'.job = main.job
      /\ UNCHANGED cmds \/ \E kind \in {"send", "pulse"}, arg \in 0..MaxSends : AddCommand(kind, NoJob, arg)
  <2>1. CASE Send
    <3>1. sends + 1 \in 0..MaxSends
      BY <2>1, Bounds DEF Send, Types, NetTypes, SendNumbers
    <3> QED
      BY <2>1, <3>1 DEF Send
  <2>2. CASE DoPulse
    <3>1. 0 \in 0..MaxSends /\ main'.job = main.job
      BY <1>0, <2>2, Bounds DEF DoPulse, MainType
    <3> QED
      BY <2>2, <3>1 DEF DoPulse
  <2> QED
    BY <2>1, <2>2
<1>2. Once' /\ \A x \in Ids : Waits(x)' <=> Waits(x)
  <2>1. \A x \in Ids : x # NoJob
    BY DEF Ids, NoJob
  <2>2. CASE UNCHANGED cmds
    BY <1>0, <2>2 DEF PlacedRest, Once, Waits
  <2>3. CASE ~UNCHANGED cmds
    BY <1>0, <1>1, <2>1, <2>3, AddCommandIds DEF PlacedRest, QueueTypes
  <2> QED
    BY <2>2, <2>3
<1>3. Busy' <=> Busy
  BY <1>1 DEF Busy
<1>4. cmds # <<>> => cmds' # <<>> /\ Head(cmds') = Head(cmds)
  BY <1>0, <1>1, AddCommandQueue DEF QueueTypes
<1>5. ASSUME NEW x \in Ids PROVE PlacedJob(x)'
  BY <1>0, <1>1, <1>2, <1>3, <1>4 DEF PlacedJob, PlacedRest
<1>6. PlacedRest'
  BY <1>0, <1>1, <1>2, <1>3, <1>4 DEF PlacedRest
<1> QED
  BY <1>5, <1>6, PlacementNext

\* The steps that take results, call back and delete.
LEMMA PlacedByMain ==
    ASSUME Types, Control, JobPlacement,
           PollFound \/ CallbackSaves \/ SetCallback \/ Callback \/ DeleteFinished \/ Stopped
    PROVE  JobPlacement'
<1>0. QueueTypes /\ MainType /\ PlacedRest /\ \A x \in Ids : PlacedJob(x)
  BY PlacementParts DEF Types
<1>1. CASE PollFound \/ CallbackSaves
  <2>1. TakeResult(main.job) /\ UNCHANGED <<cmds, thread>> /\ main'.job = NoJob
    BY <1>0, <1>1 DEF PollFound, CallbackSaves, Return, MainType
  <2>2. /\ IsInjective(results') /\ ToSet(results') = ToSet(results) \ {main.job}
        /\ main.job \in ToSet(results) /\ finished' = finished \cup {main.job}
        /\ \A x \in Ids : job'[x].stage = IF x = main.job THEN "finished" ELSE job[x].stage
    BY <1>0, <2>1, TakeResultPlaced DEF PlacedRest
  <2>3. (Busy' <=> Busy) /\ \A x \in Ids : Waits(x)' <=> Waits(x)
    BY <2>1 DEF Busy, Waits
  <2>4. ASSUME NEW x \in Ids PROVE PlacedJob(x)'
    BY <1>0, <2>1, <2>2, <2>3 DEF PlacedJob
  <2>5. PlacedRest'
    BY <1>0, <2>1, <2>2, <2>3 DEF PlacedRest, Once
  <2> QED
    BY <2>4, <2>5, PlacementNext
<1>2. CASE SetCallback \/ Callback
  <2>1. /\ UNCHANGED <<cmds, results, finished, thread>>
        /\ \A x \in Ids : job'[x].stage = job[x].stage
        /\ main'.job # NoJob => main'.job \in Ids /\ job[main'.job].stage \notin {"none", "finished", "deleted"}
    <3>1. CASE SetCallback
      <4>1. UNCHANGED <<cmds, results, finished, thread>> /\ main'.job = NoJob
        BY <1>0, <3>1 DEF SetCallback, Return, MainType
      <4>2. \A x \in Ids : job'[x].stage = job[x].stage
        BY <1>0, <3>1 DEF SetCallback, QueueTypes, Job
      <4> QED
        BY <4>1, <4>2
    <3>2. CASE Callback
      <4>1. PICK i \in Due : /\ job' = [job EXCEPT ![results[i]].cb = "done"]
                             /\ main' = [main EXCEPT !.pc = "callback", !.job = results[i]]
        BY <3>2 DEF Callback
      <4>2. results[i] \in Ids /\ results[i] \in ToSet(results)
        BY <1>0, <4>1 DEF Due, QueueTypes, ToSet
      <4>3. main'.job = results[i] /\ job[results[i]].stage = "result"
        BY <1>0, <4>1, <4>2 DEF MainType, PlacedJob
      <4>4. \A x \in Ids : job'[x].stage = job[x].stage
        BY <1>0, <4>1, <4>2 DEF QueueTypes, Job
      <4> QED
        BY <3>2, <4>2, <4>3, <4>4 DEF Callback
    <3> QED
      BY <1>2, <3>1, <3>2
  <2>2. (Busy' <=> Busy) /\ \A x \in Ids : Waits(x)' <=> Waits(x)
    BY <2>1 DEF Busy, Waits
  <2>3. ASSUME NEW x \in Ids PROVE PlacedJob(x)'
    BY <1>0, <2>1, <2>2 DEF PlacedJob
  <2>4. PlacedRest'
    BY <1>0, <2>1, <2>2 DEF PlacedRest, Once
  <2> QED
    BY <2>3, <2>4, PlacementNext
<1>3. CASE DeleteFinished
  <2>1. /\ UNCHANGED <<cmds, results, thread>> /\ finished' = {} /\ main'.job = NoJob
        /\ \A x \in Ids : job'[x].stage = IF x \in finished THEN "deleted" ELSE job[x].stage
    <3>1. main.job = NoJob
      BY <1>3 DEF DeleteFinished, At, Control, Returns, OffState, Room
    <3>2. main'.job = NoJob
      BY <1>0, <1>3, <3>1 DEF DeleteFinished, GoTo, MainType
    <3> QED
      BY <1>0, <1>3, <3>2 DEF DeleteFinished, QueueTypes, Job
  <2>2. (Busy' <=> Busy) /\ \A x \in Ids : Waits(x)' <=> Waits(x)
    BY <2>1 DEF Busy, Waits
  <2>3. ASSUME NEW x \in Ids PROVE PlacedJob(x)'
    BY <1>0, <2>1, <2>2 DEF PlacedJob
  <2>4. PlacedRest'
    BY <1>0, <2>1, <2>2 DEF PlacedRest, Once
  <2> QED
    BY <2>3, <2>4, PlacementNext
<1>4. CASE Stopped
  <2>1. /\ cmds' = <<>> /\ results' = <<>> /\ finished' = {} /\ main'.job = NoJob /\ ~Busy'
        /\ \A x \in Ids : job'[x].stage \in {"none", "deleted"}
    <3>1. main.job = NoJob
      BY <1>4 DEF Stopped, At, Control, Returns, OffState, Room
    <3>2. main'.job = NoJob
      BY <1>0, <1>4, <3>1 DEF Stopped, GoTo, MainType
    <3> QED
      BY <1>0, <1>4, <3>2 DEF Stopped, QueueTypes, Job, Busy
  <2>2. DOMAIN cmds' = {} /\ DOMAIN results' = {}
    BY <2>1
  <2>3. ASSUME NEW x \in Ids PROVE PlacedJob(x)'
    BY <2>1, <2>2 DEF PlacedJob, Waits, ToSet
  <2>4. PlacedRest'
    BY <2>1, <2>2 DEF PlacedRest, Once, IsInjective
  <2> QED
    BY <2>3, <2>4, PlacementNext
<1> QED
  BY <1>1, <1>2, <1>3, <1>4

LEMMA PlacedStep ==
    ASSUME Types, Control, JobPlacement, Next
    PROVE  JobPlacement'
<1>0. QueueTypes /\ MainType /\ PlacedRest /\ \A x \in Ids : PlacedJob(x)
  BY PlacementParts DEF Types
<1>1. CASE Query \/ (\E p \in Players : GetNetworkStatistics(p)) \/ RestoreHandler
  <2>1. {"poll", "setCallback", "restore", main.pc} \subseteq MainPcs
    BY <1>0 DEF MainType, MainPcs
  <2>2. UNCHANGED thread
    BY <1>1 DEF Query, GetNetworkStatistics, RestoreHandler
  <2>3. \E kind \in {"handler", "stats", "query"}, p \in Players \cup {NoPlayer},
           pc \in MainPcs, back \in MainPcs : AddCommandWithResult(kind, p, pc, back)
    BY <1>1, <2>1 DEF Query, GetNetworkStatistics, RestoreHandler
  <2>4. UNCHANGED <<results, finished>>
    BY <2>3 DEF AddCommandWithResult
  <2> QED
    BY <2>2, <2>3, <2>4, PlacedByCommand
<1>2. CASE Enable
  <2>1. PICK j \in Ids :
           /\ job[j].stage = "none"
           /\ job' \in [Ids -> Job] /\ job' = [job EXCEPT ![j] = job'[j]]
           /\ job'[j].stage = "queued" /\ main'.job = j /\ AddCommand("handler", j, 0)
           /\ UNCHANGED <<results, finished>>
    <3>1. "poll" \in MainPcs /\ "enabling" \in MainPcs
      BY DEF MainPcs
    <3> QED
      BY <1>2, <3>1, AddCommandWithResultQueue DEF Enable
  <2>2. ~Waits(j) /\ 0 \in 0..MaxSends
    BY <1>0, <2>1, Bounds DEF PlacedJob
  <2>3. Once' /\ \A x \in Ids : Waits(x)' <=> Waits(x) \/ x = j
    BY <1>0, <2>1, <2>2, AddCommandIds DEF QueueTypes, PlacedRest
  <2>4. \A x \in Ids : job'[x].stage = IF x = j THEN "queued" ELSE job[x].stage
    BY <1>0, <2>1 DEF QueueTypes
  <2>5. ~Busy /\ ~Busy'
    BY <1>2 DEF Enable, Control, Returns, OffState, Room, ThreadAt, Busy
  <2>6. ASSUME NEW x \in Ids PROVE PlacedJob(x)'
    BY <1>0, <2>1, <2>3, <2>4, <2>5 DEF PlacedJob
  <2>7. PlacedRest'
    BY <1>0, <2>1, <2>3, <2>4, <2>5 DEF PlacedRest
  <2> QED
    BY <2>6, <2>7, PlacementNext
<1>3. CASE /\ UNCHANGED queues
           /\ ~(ThreadTake \/ ProcessCommand \/ StoreResult \/ Enable \/ Stopped)
           /\ ~(Query \/ (\E p \in Players : GetNetworkStatistics(p)) \/ RestoreHandler)
           /\ ~(DoPulse \/ PollFound \/ CallbackSaves \/ SetCallback \/ Callback \/ DeleteFinished)
  <2>1. Busy' <=> Busy
    <3>1. CASE UNCHANGED thread
      BY <3>1 DEF Busy
    <3>2. CASE ThreadTop \/ ThreadPulsed \/ ThreadCommands
      BY <3>2 DEF ThreadTop, ThreadPulsed, ThreadCommands, ThreadAt, ThreadTo, Busy, Types, ThreadType
    <3> QED
      BY <1>3, <3>1, <3>2, ThreadSteps
  <2>2. main'.job = main.job \/ main'.job = NoJob
    <3>1. CASE UNCHANGED main
      BY <3>1
    <3>2. CASE \/ PollSleep \/ TakeIncoming \/ HandlePacket \/ HandlerReturns \/ CallbacksDone
               \/ Enabled \/ Restored \/ StopThread \/ Disable
      BY <1>0, <3>2 DEF PollSleep, TakeIncoming, HandlePacket, HandlerReturns, CallbacksDone,
                        Enabled, Restored, StopThread, Disable, GoTo, Return, MainType
    <3> QED
      BY <1>3, <3>1, <3>2, MainSteps DEF MainNext
  <2>3. UNCHANGED <<cmds, results, finished, job>>
    BY <1>3 DEF queues
  <2>4. \A x \in Ids : Waits(x)' <=> Waits(x)
    BY <2>3 DEF Waits
  <2>5. ASSUME NEW x \in Ids PROVE PlacedJob(x)'
    BY <1>0, <2>1, <2>3, <2>4 DEF PlacedJob
  <2>6. PlacedRest'
    BY <1>0, <2>1, <2>2, <2>3 DEF PlacedRest, Once
  <2> QED
    BY <2>5, <2>6, PlacementNext
<1> QED
  BY <1>1, <1>2, <1>3, QueueSteps, PlacedByThread, PlacedBySend, PlacedByMain

-----------------------------------------------------------------------------
(* Where the main thread is.                                               *)

LEMMA ReturnsStep ==
    ASSUME Types, Control, Next
    PROVE  Returns'
<1>0. MainType /\ QueueTypes /\ Returns /\ DrainState /\ NoJob \notin Ids
  BY DEF Types, Control, Ids, NoJob
<1>1. ASSUME NEW kind \in {"handler", "stats", "query"}, NEW p \in Players \cup {NoPlayer},
             NEW pc \in {"poll", "setCallback"}, NEW back \in {"game", "handler", "enabling", "restore"},
             back \in {"enabling", "restore"} => pc = "poll",
             AddCommandWithResult(kind, p, pc, back)
      PROVE  Returns'
  <2>1. pc \in MainPcs /\ back \in MainPcs
    BY DEF MainPcs
  <2>2. PICK j \in Ids : main'.pc = pc /\ main'.job = j /\ main'.back = back
    BY <1>1, <2>1, AddCommandWithResultQueue
  <2> QED
    BY <1>0, <1>1, <2>2 DEF Returns, At
<1>2. CASE Query \/ (\E p \in Players : GetNetworkStatistics(p)) \/ Enable \/ RestoreHandler
  <2>1. InGame => main.pc \in {"game", "handler"}
    BY DEF InGame, At
  <2>2. \E kind \in {"handler", "stats", "query"}, p \in Players \cup {NoPlayer},
           pc \in {"poll", "setCallback"}, back \in {"game", "handler", "enabling", "restore"} :
              /\ back \in {"enabling", "restore"} => pc = "poll"
              /\ AddCommandWithResult(kind, p, pc, back)
    BY <1>2, <2>1 DEF Query, GetNetworkStatistics, Enable, RestoreHandler
  <2> QED
    BY <1>1, <2>2
<1>3. CASE \/ DoPulse \/ Restored \/ CallbackSaves
  BY <1>0, <1>3 DEF DoPulse, Restored, CallbackSaves, MainType, Returns, At
<1>4. CASE Callback
  <2>1. PICK i \in Due : main' = [main EXCEPT !.pc = "callback", !.job = results[i]]
    BY <1>4 DEF Callback
  <2>2. results[i] \in Ids
    BY <1>0, <2>1 DEF Due, QueueTypes
  <2> QED
    BY <1>0, <1>4, <2>1, <2>2 DEF Callback, MainType, Returns, At
<1>5. CASE \/ TakeIncoming \/ HandlerReturns \/ DeleteFinished \/ Enabled
           \/ Disable \/ StopThread \/ Stopped
  BY <1>0, <1>5 DEF TakeIncoming, HandlerReturns, DeleteFinished, Enabled, Disable,
                    StopThread, Stopped, GoTo, MainType, Returns, At
<1>6. CASE HandlePacket
  <2>1. UNCHANGED main \/ (main.back # "stop" /\ main' = [main EXCEPT !.pc = "handler"])
    BY <1>0, <1>6 DEF HandlePacket, GoTo, DrainState, Draining
  <2> QED
    BY <1>0, <1>6, <2>1 DEF HandlePacket, MainType, Returns, At
<1>7. CASE SetCallback \/ PollFound \/ CallbacksDone
  <2>1. Return
    BY <1>7 DEF SetCallback, PollFound, CallbacksDone
  <2> QED
    BY <1>0, <2>1 DEF Return, MainType, Returns, At
<1>8. CASE PollSleep \/ StoreResult \/ UNCHANGED main
  BY <1>0, <1>8 DEF PollSleep, StoreResult, Woken, MainType, Returns, At
<1> QED
  BY <1>2, <1>3, <1>4, <1>5, <1>6, <1>7, <1>8, MainSteps DEF MainNext

LEMMA OffStep ==
    ASSUME Types, Control, Next
    PROVE  OffState'
<1>0. MainType /\ QueueTypes /\ OffState /\ DrainState
  BY DEF Types, Control
<1>1. CASE ~enabled
  <2>1. At("game") /\ ThreadAt("ended")
    BY <1>0, <1>1 DEF OffState
  <2>2. Send \/ PulseDirectly \/ Enable
    BY <1>1, <2>1 DEF Next, ThreadNext, MainNext, ThreadTop, ThreadPulsed, ThreadCommands, ThreadTake,
       ProcessCommand, StoreResult, ProcessPacket, InPulse, ThreadAt, At, InGame,
       Query, GetNetworkStatistics, SetCallback, PollSleep, PollFound, DoPulse, TakeIncoming,
       HandlePacket, HandlerReturns, DeleteFinished, Callback, CallbackSaves, CallbacksDone,
       Enabled, Disable, RestoreHandler, Restored, StopThread, Stopped
  <2>3. CASE Enable
    BY <2>3 DEF Enable, OffState
  <2>4. CASE Send
    <3>1. UNCHANGED <<cmds, results, finished, incoming, handler, thread, main, enabled>>
      BY <1>1, <2>4 DEF Send, packets, control
    <3> QED
      BY <1>0, <3>1 DEF OffState, At, ThreadAt
  <2>5. CASE PulseDirectly
    <3>1. UNCHANGED <<cmds, results, finished, incoming, handler, thread, main, enabled>>
      BY <2>5 DEF PulseDirectly, queues, net, control
    <3> QED
      BY <1>0, <3>1 DEF OffState, At, ThreadAt
  <2> QED
    BY <2>2, <2>3, <2>4, <2>5
<1>2. CASE enabled
  <2>1. Stopped \/ enabled' = enabled \/ Enable
    BY DEF Next, ThreadNext, MainNext, ThreadTop, ThreadPulsed, ThreadCommands, ThreadTake,
       ProcessCommand, StoreResult, ProcessPacket, Send, Query, GetNetworkStatistics, SetCallback,
       PollSleep, PollFound, DoPulse, PulseDirectly, TakeIncoming, HandlePacket, HandlerReturns,
       DeleteFinished, Callback, CallbackSaves, CallbacksDone, Enabled, Disable, RestoreHandler,
       Restored, StopThread, control
  <2>2. CASE Stopped
    <3>1. handler = "game"
      BY <1>0, <2>2 DEF Stopped, DrainState, Draining, At
    <3> QED
      BY <1>0, <2>2, <3>1 DEF Stopped, OffState, GoTo, MainType, At, ThreadAt, net
  <2> QED
    BY <1>2, <2>1, <2>2 DEF Enable, OffState
<1> QED
  BY <1>1, <1>2

LEMMA BatchStep ==
    ASSUME Types, Control, Next
    PROVE  BatchHeld'
<1>0. MainType /\ Returns /\ BatchHeld
  BY DEF Types, Control
<1>1. CASE TakeIncoming
  BY <1>0, <1>1 DEF TakeIncoming, GoTo, MainType, BatchHeld, At
<1>2. CASE HandlePacket
  BY <1>0, <1>2 DEF HandlePacket, GoTo, MainType, BatchHeld, At
<1>3. CASE ~TakeIncoming /\ ~HandlePacket
  <2>1. UNCHANGED batch
    BY <1>3, PacketSteps DEF ProcessPacket, PulseDirectly, Stopped, packets
  <2>2. CASE batch = <<>>
    BY <2>1, <2>2 DEF BatchHeld
  <2>3. CASE /\ batch # <<>>
             /\ Query \/ (\E p \in Players : GetNetworkStatistics(p)) \/ Enable \/ RestoreHandler
    <3>1. PICK pc \in {"poll", "setCallback"} : main'.pc = pc /\ main'.back = "handler"
      <4>1. At("handler") /\ main.pc = "handler"
        BY <1>0, <2>3 DEF BatchHeld, At, InGame, Query, GetNetworkStatistics, Enable, RestoreHandler
      <4>2. {"poll", "setCallback", "handler"} \subseteq MainPcs
        BY DEF MainPcs
      <4>3. ASSUME NEW p \in Players, GetNetworkStatistics(p)
            PROVE  \E pc \in {"poll", "setCallback"} : main'.pc = pc /\ main'.back = "handler"
        BY <4>1, <4>2, <4>3, AddCommandWithResultQueue DEF GetNetworkStatistics
      <4>4. CASE Query
        BY <4>1, <4>2, <4>4, AddCommandWithResultQueue DEF Query
      <4> QED
        BY <2>3, <4>1, <4>3, <4>4 DEF Enable, RestoreHandler, At
    <3> QED
      BY <3>1 DEF BatchHeld, At
  <2>4. CASE /\ batch # <<>>
             /\ SetCallback \/ PollFound
    <3>1. Return /\ main.back = "handler"
      BY <1>0, <2>4 DEF SetCallback, PollFound, BatchHeld, At
    <3> QED
      BY <1>0, <3>1 DEF Return, MainType, BatchHeld, At
  <2>5. CASE /\ batch # <<>>
             /\ \/ DoPulse \/ Restored \/ CallbackSaves \/ Callback \/ HandlerReturns \/ DeleteFinished
                \/ CallbacksDone \/ Enabled \/ Disable \/ StopThread \/ Stopped
    BY <1>0, <2>5 DEF DoPulse, Restored, CallbackSaves, Callback, HandlerReturns, DeleteFinished,
                      CallbacksDone, Enabled, Disable, StopThread, Stopped, GoTo, MainType,
                      BatchHeld, At
  <2>6. CASE PollSleep \/ StoreResult \/ UNCHANGED main
    BY <1>0, <2>1, <2>6 DEF PollSleep, StoreResult, Woken, MainType, BatchHeld, At
  <2> QED
    BY <1>3, <2>2, <2>3, <2>4, <2>5, <2>6, MainSteps DEF MainNext
<1> QED
  BY <1>1, <1>2, <1>3

\* When the command that is waited for has its result, the queue is empty.
LEMMA PolledLast ==
    ASSUME Types, Control, JobPlacement, Pending, At("poll"), main.job \in ToSet(results)
    PROVE  cmds = <<>>
<1>1. main.job \in Ids /\ job[main.job].stage = "result" /\ ~Waits(main.job)
  <2>1. main.job \in Ids
    BY DEF Control, Returns, Types, MainType
  <2> QED
    BY <2>1, PlacementParts DEF PlacedJob
<1>2. cmds # <<>> => Len(cmds) \in DOMAIN cmds
  BY FrontCommand DEF Types, QueueTypes
<1> QED
  BY <1>1, <1>2 DEF Pending, PendingMain, Waits

LEMMA DrainStep ==
    ASSUME Types, Control, JobPlacement, Pending, Next
    PROVE  DrainState'
<1>0. MainType /\ Returns /\ DrainState
  BY DEF Types, Control
<1>1. CASE ThreadNext \/ ProcessPacket
  <2>1. main'.pc = main.pc /\ main'.back = main.back /\ UNCHANGED dmHandler
    BY <1>0, <1>1 DEF ThreadNext, ThreadTop, ThreadPulsed, ThreadCommands, ThreadTake,
                      ProcessCommand, StoreResult, ProcessPacket, Woken, MainType, control
  <2>2. cmds = <<>> => UNCHANGED cmds /\ ~ProcessCommand
    BY <1>1 DEF ThreadNext, ThreadTop, ThreadPulsed, ThreadCommands, ThreadTake,
                ProcessCommand, StoreResult, ProcessPacket, ThreadAt, JobPlacement, queues
  <2>3. ~ProcessCommand => UNCHANGED handler
    BY <1>1 DEF ThreadNext, ThreadTop, ThreadPulsed, ThreadCommands, ThreadTake,
                StoreResult, ProcessPacket, net
  <2>4. handler = "game" => UNCHANGED incoming
    BY <1>1 DEF ThreadNext, ThreadTop, ThreadPulsed, ThreadCommands, ThreadTake,
                ProcessCommand, StoreResult, ProcessPacket, packets
  <2> QED
    BY <1>0, <2>1, <2>2, <2>3, <2>4 DEF DrainState, Draining, At
<1>2. CASE Query \/ (\E p \in Players : GetNetworkStatistics(p)) \/ Enable \/ RestoreHandler
  <2>1. {"poll", "setCallback", "game", "handler", "enabling", "restore"} \subseteq MainPcs
    BY DEF MainPcs
  <2>2. InGame => main.pc \in {"game", "handler"}
    BY DEF InGame, At
  <2>3. /\ main'.pc \in {"poll", "setCallback"}
        /\ main'.back \in {"game", "handler", "enabling"} \/ (main'.back = "restore" /\ ~dmHandler')
    <3>1. CASE Query
      BY <2>1, <2>2, <3>1, AddCommandWithResultQueue DEF Query
    <3>2. ASSUME NEW p \in Players, GetNetworkStatistics(p)
          PROVE  main'.pc \in {"poll", "setCallback"} /\ main'.back \in {"game", "handler"}
      BY <2>1, <2>2, <3>2, AddCommandWithResultQueue DEF GetNetworkStatistics
    <3>3. CASE Enable
      BY <2>1, <3>3, AddCommandWithResultQueue DEF Enable
    <3>4. CASE RestoreHandler
      BY <2>1, <3>4, AddCommandWithResultQueue DEF RestoreHandler
    <3> QED
      BY <1>2, <3>1, <3>2, <3>3, <3>4
  <2> QED
    BY <2>3 DEF DrainState, Draining, At
<1>3. CASE Send \/ PulseDirectly
  <2>1. UNCHANGED main /\ main.pc \in {"game", "handler"}
    BY <1>3 DEF Send, PulseDirectly, InGame, At
  <2> QED
    BY <1>0, <2>1 DEF Returns, DrainState, Draining, At
<1>4. CASE PollFound
  <2>1. cmds = <<>>
    BY <1>4, PolledLast DEF PollFound
  <2> QED
    BY <1>0, <1>4, <2>1 DEF PollFound, Return, Returns, MainType, DrainState, Draining, At, control, TakeResult
<1>5. CASE SetCallback \/ CallbacksDone
  <2>1. Return /\ UNCHANGED <<cmds, dmHandler, handler, incoming>>
    BY <1>5 DEF SetCallback, CallbacksDone, control, net, packets, queues
  <2>2. main.back \in {"game", "handler"} \/ (main.back = "stop" /\ At("callbacks"))
    BY <1>0, <1>5 DEF SetCallback, CallbacksDone, Returns, At
  <2> QED
    BY <1>0, <2>1, <2>2 DEF Return, MainType, DrainState, Draining, At
<1>6. CASE TakeIncoming \/ HandlePacket
  <2>1. UNCHANGED <<cmds, dmHandler, handler>>
    BY <1>6 DEF TakeIncoming, HandlePacket, control, net, queues
  <2>2. CASE TakeIncoming
    BY <1>0, <2>1, <2>2 DEF TakeIncoming, GoTo, MainType, Returns, DrainState, Draining, At
  <2>3. CASE HandlePacket
    BY <1>0, <2>1, <2>3 DEF HandlePacket, GoTo, MainType, Returns, DrainState, Draining, At
  <2> QED
    BY <1>6, <2>2, <2>3
<1>7. CASE HandlerReturns \/ DeleteFinished \/ Callback \/ CallbackSaves
  <2>1. UNCHANGED <<cmds, dmHandler, handler, incoming>>
    BY <1>7 DEF HandlerReturns, DeleteFinished, Callback, CallbackSaves, control, net, packets, queues
  <2>2. /\ main'.back = main.back /\ main'.pc \in {"packets", "callbacks", "callback"}
        /\ main.pc \in {"handler", "packets", "callbacks", "callback"}
    BY <1>0, <1>7 DEF HandlerReturns, DeleteFinished, Callback, CallbackSaves, GoTo, MainType, At
  <2> QED
    BY <1>0, <2>1, <2>2 DEF Returns, DrainState, Draining, At
<1>8. CASE Enabled \/ Disable \/ DoPulse \/ Stopped
  <2>1. main'.pc \in {"game", "disabling", "incoming"} /\ main'.back = "game"
    <3>1. main.pc \in {"enabling", "game", "stopping"}
      BY <1>8 DEF Enabled, Disable, DoPulse, Stopped, At
    <3>2. main.back = "game"
      BY <1>0, <3>1 DEF Returns, At
    <3> QED
      BY <1>0, <1>8, <3>2 DEF Enabled, Disable, DoPulse, Stopped, GoTo, MainType
  <2> QED
    BY <2>1 DEF DrainState, Draining, At
<1>9. CASE Restored
  <2>1. main'.pc = "incoming" /\ main'.back = "stop" /\ handler' = "game" /\ Draining
    BY <1>0, <1>9 DEF Restored, MainType, Draining, At
  <2>2. UNCHANGED <<cmds, dmHandler>>
    BY <1>9 DEF Restored, control, queues
  <2> QED
    BY <1>0, <2>1, <2>2 DEF DrainState, Draining, At
<1>10. CASE StopThread
  <2>1. main'.pc = "stopping" /\ main.pc = "stop"
    BY <1>0, <1>10 DEF StopThread, GoTo, MainType, At
  <2>2. UNCHANGED <<cmds, dmHandler, handler, incoming>>
    BY <1>10 DEF StopThread, control, net, packets, queues
  <2> QED
    BY <1>0, <2>1, <2>2 DEF DrainState, Draining, At
<1>11. CASE PollSleep
  <2>1. main'.pc = main.pc /\ main'.back = main.back
    BY <1>0, <1>11 DEF PollSleep, MainType
  <2>2. UNCHANGED <<cmds, dmHandler, handler, incoming>>
    BY <1>11 DEF PollSleep, control, net, packets, queues
  <2> QED
    BY <1>0, <2>1, <2>2 DEF DrainState, Draining, At
<1> QED
  BY <1>1, <1>2, <1>3, <1>4, <1>5, <1>6, <1>7, <1>8, <1>9, <1>10, <1>11 DEF Next, MainNext

\* The queue of commands and what the thread is still to do of it.
LEMMA RoomStep ==
    ASSUME Types, Control, JobPlacement, Pending, Next
    PROVE  Room'
<1>0. /\ MainType /\ ThreadType /\ Returns /\ Room /\ cmds \in Seq(Command)
      /\ MaxQueue \in Nat /\ Len(cmds) \in Nat
  BY Bounds, LenProperties DEF Types, QueueTypes, Control
<1>1. CASE \/ ThreadTop \/ ThreadPulsed \/ ThreadCommands \/ ThreadTake \/ ProcessCommand
  <2>1. UNCHANGED <<cmds, main>>
    BY <1>1 DEF ThreadTop, ThreadPulsed, ThreadCommands, ThreadTake, ProcessCommand, queues
  <2>2. thread' \in [pc : {"top", "ended", "pulsing", "commands"}, todo : 0..MaxQueue + 1]
        \/ (thread'.pc = "take" /\ thread'.todo = Len(cmds))
        \/ (thread'.pc = "process" /\ thread'.todo = thread.todo - 1 /\ ThreadAt("take"))
        \/ (thread'.pc = "store" /\ thread'.todo = thread.todo /\ ThreadAt("process"))
    BY <1>0, <1>1 DEF ThreadTop, ThreadPulsed, ThreadCommands, ThreadTake, ProcessCommand,
                      ThreadTo, ThreadAt, ThreadType
  <2>3. thread.todo \in Nat
    BY <1>0 DEF ThreadType
  <2>4. ThreadAt("take")' => thread'.todo <= Len(cmds)
    BY <1>0, <2>2 DEF ThreadAt
  <2>5. ThreadAt("process")' \/ ThreadAt("store")' => thread'.todo < Len(cmds)
    BY <1>0, <2>2, <2>3 DEF ThreadAt, Room
  <2> QED
    BY <1>0, <2>1, <2>4, <2>5 DEF Room, Registering, At
<1>2. CASE StoreResult
  <2>1. cmds # <<>> /\ cmds' = Tail(cmds)
    BY <1>2 DEF StoreResult, ThreadAt, JobPlacement
  <2>2. Len(cmds') = Len(cmds) - 1
    BY <1>0, <2>1, FrontCommand
  <2>3. thread'.pc = "take" /\ thread'.todo = thread.todo /\ thread.todo \in Nat /\ thread.todo < Len(cmds)
    BY <1>0, <1>2 DEF StoreResult, ThreadTo, ThreadType, ThreadAt, Room
  <2>4. main'.pc = main.pc /\ main'.back = main.back
    BY <1>0, <1>2 DEF StoreResult, Woken, MainType
  <2> QED
    BY <1>0, <2>2, <2>3, <2>4 DEF Room, Registering, At, ThreadAt
<1>3. ASSUME UNCHANGED thread, ~Registering,
             NEW kind \in {"send", "pulse", "handler", "stats", "query"},
             NEW j \in Ids \cup {NoJob}, NEW arg \in 0..MaxSends, AddCommand(kind, j, arg),
             HasRoom \/ Registering'
      PROVE  Room'
  <2>1. Len(cmds') = Len(cmds) + 1 /\ thread.todo \in Nat
    <3>1. AddCommand(kind, j, arg) /\ cmds \in Seq(Command)
      BY <1>0, <1>3
    <3>2. Len(cmds') = Len(cmds) + 1
      BY <3>1, AddCommandQueue
    <3>3. thread.todo \in Nat
      BY <1>0 DEF ThreadType
    <3> QED
      BY <3>2, <3>3
  <2>2. Len(cmds') <= IF Registering' THEN MaxQueue + 1 ELSE MaxQueue
    BY <1>0, <1>3, <2>1 DEF HasRoom, Room
  <2> QED
    BY <1>0, <1>3, <2>1, <2>2 DEF Room, ThreadAt
<1>4. CASE Send
  <2>1. UNCHANGED <<thread, main>> /\ sends + 1 \in 0..MaxSends
    BY <1>4, Bounds DEF Send, Types, NetTypes, SendNumbers
  <2>2. ~Registering
    BY <1>4 DEF Send, InGame, At, Registering
  <2>3. CASE enabled
    <3>1. AddCommand("send", NoJob, sends + 1) /\ HasRoom
      BY <1>4, <2>3 DEF Send
    <3> QED
      BY <1>3, <2>1, <2>2, <3>1
  <2>4. CASE ~enabled
    <3>1. UNCHANGED cmds
      BY <1>4, <2>4 DEF Send
    <3> QED
      BY <1>0, <2>1, <3>1 DEF Room, Registering, At, ThreadAt
  <2> QED
    BY <2>3, <2>4
<1>5. CASE Query \/ (\E p \in Players : GetNetworkStatistics(p)) \/ Enable \/ RestoreHandler
  <2>0. {"poll", "setCallback", "game", "handler", "enabling", "restore"} \subseteq MainPcs
        /\ (InGame => main.pc \in {"game", "handler"}) /\ 0 \in 0..MaxSends
    BY Bounds DEF MainPcs, InGame, At
  <2>1. CASE RestoreHandler
    <3>1. /\ main'.pc = "poll" /\ main'.back = "restore"
          /\ \E j \in Ids : AddCommand("handler", j, 0)
      BY <2>0, <2>1, AddCommandWithResultQueue DEF RestoreHandler
    <3>2. Registering' /\ ~Registering /\ UNCHANGED thread
      BY <2>1, <3>1 DEF RestoreHandler, Registering, At
    <3> QED
      BY <1>3, <2>0, <3>1, <3>2
  <2>2. CASE Enable
    <3>1. /\ main'.pc = "poll" /\ main'.back = "enabling" /\ cmds = <<>>
          /\ \E j \in Ids : AddCommand("handler", j, 0)
      BY <2>0, <2>2, AddCommandWithResultQueue DEF Enable, Control, OffState
    <3>2. Len(cmds') = 1
      <4>1. Len(cmds') = Len(cmds) + 1 /\ Len(cmds) = 0
        BY <1>0, <2>0, <3>1, AddCommandQueue, EmptySeq
      <4> QED
        BY <4>1
    <3>3. Registering' /\ thread'.pc = "top"
      BY <2>2, <3>1 DEF Enable, Registering, At
    <3> QED
      BY <1>0, <3>2, <3>3 DEF Room, ThreadAt
  <2>3. CASE Query \/ \E p \in Players : GetNetworkStatistics(p)
    <3>1. \E j \in Ids, kind \in {"query", "stats"} : AddCommand(kind, j, 0)
      <4>1. CASE Query
        BY <2>0, <4>1, AddCommandWithResultQueue DEF Query
      <4>2. ASSUME NEW p \in Players, GetNetworkStatistics(p)
            PROVE  \E j \in Ids : AddCommand("stats", j, 0)
        BY <2>0, <4>2, AddCommandWithResultQueue DEF GetNetworkStatistics
      <4> QED
        BY <2>3, <4>1, <4>2
    <3>2. HasRoom /\ ~Registering /\ UNCHANGED thread
      BY <2>3 DEF Query, GetNetworkStatistics, InGame, At, Registering
    <3> QED
      BY <1>3, <2>0, <3>1, <3>2
  <2> QED
    BY <1>5, <2>1, <2>2, <2>3
<1>6. CASE DoPulse
  <2>1. UNCHANGED thread /\ ~Registering /\ HasRoom /\ AddCommand("pulse", NoJob, 0) /\ 0 \in 0..MaxSends
    BY <1>6, Bounds DEF DoPulse, At, Registering
  <2> QED
    BY <1>3, <2>1
<1>7. CASE PollFound
  <2>1. UNCHANGED <<cmds, thread>> /\ cmds = <<>>
    BY <1>7, PolledLast DEF PollFound
  <2>2. Len(cmds) = 0
    BY <2>1
  <2> QED
    BY <1>0, <2>1, <2>2 DEF Room, ThreadAt
<1>8. CASE Stopped
  BY <1>0, <1>8 DEF Stopped, Room, ThreadAt
<1>9. CASE UNCHANGED <<cmds, thread>> /\ ~Registering
  BY <1>0, <1>9 DEF Room, ThreadAt
<1>10. CASE MainNext /\ ~PollFound /\ ~Stopped /\ ~RestoreHandler
  <2>1. UNCHANGED <<cmds, thread>>
    BY <1>10 DEF MainNext, SetCallback, PollSleep, TakeIncoming, HandlePacket, HandlerReturns,
                 DeleteFinished, Callback, CallbackSaves, CallbacksDone, Enabled, Restored,
                 StopThread, queues
  <2>2. CASE ~Registering
    BY <1>9, <2>1, <2>2
  <2>3. CASE Registering
    <3>1. PollSleep
      BY <1>10, <2>3 DEF MainNext, SetCallback, TakeIncoming, HandlePacket, HandlerReturns,
                 DeleteFinished, Callback, CallbackSaves, CallbacksDone, Enabled, Restored,
                 StopThread, Registering, At
    <3>2. Registering'
      BY <1>0, <2>3, <3>1 DEF PollSleep, MainType, Registering, At
    <3> QED
      BY <1>0, <2>1, <2>3, <3>2 DEF Room, ThreadAt
  <2> QED
    BY <2>2, <2>3
<1>11. CASE ProcessPacket \/ PulseDirectly \/ Disable
  <2>1. UNCHANGED <<cmds, thread>> /\ (UNCHANGED main \/ ~Registering)
    BY <1>11 DEF ProcessPacket, PulseDirectly, Disable, queues, Registering, At
  <2>2. CASE UNCHANGED main
    BY <1>0, <2>1, <2>2 DEF Room, ThreadAt, Registering, At
  <2> QED
    BY <1>9, <2>1, <2>2
<1> QED
  BY <1>1, <1>2, <1>4, <1>5, <1>6, <1>7, <1>8, <1>10, <1>11 DEF Next, ThreadNext

-----------------------------------------------------------------------------
(* Which callbacks are to come.                                            *)

\* The thread moves the job at the front of the queue on.
LEMMA PendingByThread ==
    ASSUME Types, Control, JobPlacement, Pending, ThreadTake \/ StoreResult
    PROVE  Pending'
<1>0. /\ QueueTypes /\ MainType /\ PendingMain /\ Returns /\ PlacedRest
      /\ \A x \in Ids : PlacedJob(x) /\ PendingJob(x)
  BY PlacementParts DEF Types, Pending, Control
<1> DEFINE h == Head(cmds).id
<1>1. main'.pc = main.pc /\ main'.job = main.job
  BY <1>0 DEF ThreadTake, StoreResult, Woken, MainType
<1>2. At("poll") \/ At("setCallback") \/ At("callback") => main.job \in Ids
  BY <1>0 DEF Returns, MainType
<1>3. CASE ThreadTake /\ (thread.todo = 0 \/ terminate)
  <2>1. UNCHANGED <<cmds, job>>
    BY <1>3 DEF ThreadTake
  <2> QED
    BY <1>0, <1>1, <2>1 DEF Pending, PendingMain, PendingJob, At
<1>4. CASE ThreadTake /\ ~(thread.todo = 0 \/ terminate)
  <2>1. Len(cmds) # 0
    BY <1>4 DEF ThreadTake, Control, Returns, OffState, Room, Types, ThreadType
  <2>2. cmds # <<>> /\ UNCHANGED cmds /\ job' = SetStage(h, "processing")
    BY <1>4, <2>1 DEF ThreadTake
  <2>3. h \in Ids \cup {NoJob} /\ (h \in Ids => Waits(h))
    BY <1>0, <2>2, FrontCommand DEF QueueTypes, Waits
  <2>4. /\ \A j \in Ids : job'[j].stage = IF j = h THEN "processing" ELSE job[j].stage
        /\ \A j \in Ids : job'[j].cb = job[j].cb
    BY <1>0, <2>2, <2>3 DEF SetStage, QueueTypes, Job, Ids, NoJob
  <2>5. h \in Ids => job[h].stage \in {"queued", "processing"}
    BY <1>0, <2>3 DEF PlacedJob
  <2>6. ASSUME NEW j \in Ids PROVE PendingJob(j)'
    BY <1>0, <1>1, <2>4, <2>5 DEF PendingJob, At
  <2>7. PendingMain'
    BY <1>0, <1>1, <1>2, <2>2, <2>4, <2>5 DEF PendingMain, At
  <2> QED
    BY <2>6, <2>7 DEF Pending
<1>5. CASE StoreResult
  <2>1. cmds # <<>> /\ cmds' = Tail(cmds) /\ job' = SetStage(h, "result") /\ Busy
    BY <1>0, <1>5 DEF StoreResult, ThreadAt, Busy, PlacedRest
  <2>2. h \in Ids \cup {NoJob} /\ (h \in Ids => job[h].stage = "processing")
    BY <1>0, <2>1, FrontCommand DEF QueueTypes, PlacedJob
  <2>3. /\ \A j \in Ids : job'[j].stage = IF j = h THEN "result" ELSE job[j].stage
        /\ \A j \in Ids : job'[j].cb = job[j].cb
    BY <1>0, <2>1, <2>2 DEF SetStage, QueueTypes, Job, Ids, NoJob
  <2>4. ASSUME NEW j \in Ids PROVE PendingJob(j)'
    BY <1>0, <1>1, <2>2, <2>3 DEF PendingJob, At
  <2>5. \/ cmds' = <<>> /\ cmds[Len(cmds)].id = h
        \/ cmds' # <<>> /\ cmds'[Len(cmds')] = cmds[Len(cmds)]
    <3>1. /\ Len(cmds) \in Nat \ {0} /\ Len(cmds') = Len(cmds) - 1 /\ Head(cmds) = cmds[1]
          /\ cmds' \in Seq(Command)
          /\ \A i \in 1..Len(cmds) - 1 : cmds'[i] = cmds[i + 1]
      BY <1>0, <2>1, FrontCommand DEF QueueTypes
    <3>2. CASE Len(cmds) = 1
      <4>1. Len(cmds') = 0
        BY <3>1, <3>2
      <4>2. cmds' = <<>>
        BY <3>1, <4>1, EmptySeq
      <4>3. cmds[Len(cmds)] = Head(cmds)
        BY <3>1, <3>2
      <4>4. cmds[Len(cmds)].id = h
        BY <4>3
      <4> QED
        BY <4>2, <4>4
    <3>3. CASE Len(cmds) # 1
      <4>1. Len(cmds) - 1 \in 1..Len(cmds) - 1 /\ (Len(cmds) - 1) + 1 = Len(cmds) /\ Len(cmds') # 0
        BY <3>1, <3>3
      <4>2. cmds' # <<>>
        BY <4>1
      <4> QED
        BY <3>1, <4>1, <4>2
    <3> QED
      BY <3>2, <3>3
  <2>6. PendingMain'
    BY <1>0, <1>1, <1>2, <2>1, <2>2, <2>3, <2>5 DEF PendingMain, At
  <2> QED
    BY <2>4, <2>6 DEF Pending
<1> QED
  BY <1>3, <1>4, <1>5

\* A command with a result is added.
LEMMA PendingByCommand ==
    ASSUME Types, Control, JobPlacement, Pending,
           NEW kind \in {"handler", "stats", "query"}, NEW p \in Players \cup {NoPlayer},
           NEW pc \in {"poll", "setCallback"}, NEW back \in MainPcs,
           AddCommandWithResult(kind, p, pc, back)
    PROVE  Pending'
<1>0. QueueTypes /\ \A x \in Ids : PendingJob(x)
  BY DEF Types, Pending
<1>1. pc \in MainPcs
  BY DEF MainPcs
<1>2. PICK j \in Ids :
         /\ job[j].stage = "none"
         /\ job' \in [Ids -> Job] /\ job' = [job EXCEPT ![j] = job'[j]]
         /\ job'[j].stage = "queued" /\ job'[j].cb = job[j].cb
         /\ main'.pc = pc /\ main'.job = j /\ AddCommand(kind, j, 0)
  BY <1>1, AddCommandWithResultQueue
<1>3. job[j].cb = "unset"
  BY <1>0, <1>2 DEF PendingJob
<1>4. ASSUME NEW x \in Ids PROVE PendingJob(x)'
  BY <1>0, <1>2, <1>3 DEF PendingJob, At, QueueTypes
<1>5. cmds' # <<>> /\ cmds'[Len(cmds')].id = j
  <2>1. AddCommand(kind, j, 0) /\ cmds \in Seq(Command) /\ j \in Ids \cup {NoJob} /\ 0 \in 0..MaxSends
    BY <1>0, <1>2, Bounds DEF QueueTypes
  <2> HIDE <1>2
  <2>2. cmds' # <<>> /\ Len(cmds') = Len(cmds) + 1
        /\ cmds'[Len(cmds) + 1] = [kind |-> kind, id |-> j, arg |-> 0]
    BY <2>1, AddCommandQueue
  <2> QED
    BY <2>2
<1>6. PendingMain'
  BY <1>2, <1>3, <1>5 DEF PendingMain, At
<1> QED
  BY <1>4, <1>6 DEF Pending

\* The steps that take results, call back and delete.
LEMMA PendingByMain ==
    ASSUME Types, Control, JobPlacement, Pending,
           PollFound \/ CallbackSaves \/ SetCallback \/ Callback \/ DeleteFinished \/ Stopped
    PROVE  Pending'
<1>0. /\ QueueTypes /\ MainType /\ PendingMain /\ Returns /\ PlacedRest
      /\ \A x \in Ids : PlacedJob(x) /\ PendingJob(x)
  BY PlacementParts DEF Types, Pending, Control
<1>1. CASE PollFound \/ CallbackSaves
  <2>1. TakeResult(main.job) /\ UNCHANGED cmds /\ main'.pc \notin {"poll", "setCallback", "callback"}
    BY <1>0, <1>1 DEF PollFound, CallbackSaves, Return, MainType, Returns
  <2>2. /\ \A x \in Ids : job'[x].stage = IF x = main.job THEN "finished" ELSE job[x].stage
        /\ \A x \in Ids : job'[x].cb = job[x].cb
    BY <1>0, <2>1, TakeResultPlaced DEF PlacedRest
  <2>3. main.job \in Ids => job[main.job].cb # "set" /\ job[main.job].stage # "none"
    BY <1>0, <1>1 DEF PollFound, CallbackSaves, PendingMain, At, PlacedRest, Ids, NoJob
  <2>4. main'.pc \notin {"stop", "stopping"}
    BY <1>0, <1>1 DEF PollFound, CallbackSaves, Return, MainType, Returns, At
  <2>5. ASSUME NEW x \in Ids PROVE PendingJob(x)'
    BY <1>0, <2>2, <2>3, <2>4 DEF PendingJob, At
  <2> QED
    BY <2>1, <2>5 DEF Pending, PendingMain, At
<1>2. CASE SetCallback
  <2>1. main.job \in Ids /\ job[main.job].stage \notin {"none", "finished", "deleted"}
    BY <1>0, <1>2 DEF SetCallback, Returns, MainType, PlacedRest
  <2>2. job' = [job EXCEPT ![main.job].cb = "set"]
    BY <1>2, <2>1 DEF SetCallback
  <2>3. main'.pc \notin {"poll", "setCallback", "callback", "stop", "stopping"}
    BY <1>0, <1>2 DEF SetCallback, Return, MainType, Returns, At
  <2>4. \A x \in Ids : /\ job'[x].stage = job[x].stage
                       /\ job'[x].cb = IF x = main.job THEN "set" ELSE job[x].cb
                       /\ job[x].stage \in {"none", "queued", "processing", "result", "finished", "deleted"}
    BY <1>0, <2>1, <2>2 DEF QueueTypes, Job
  <2>5. ASSUME NEW x \in Ids PROVE PendingJob(x)'
    BY <1>0, <2>1, <2>3, <2>4 DEF PendingJob, At
  <2> QED
    BY <2>3, <2>5 DEF Pending, PendingMain, At
<1>3. CASE Callback
  <2>1. PICK i \in Due : /\ job' = [job EXCEPT ![results[i]].cb = "done"]
                         /\ main' = [main EXCEPT !.pc = "callback", !.job = results[i]]
    BY <1>3 DEF Callback
  <2>2. results[i] \in Ids /\ results[i] \in ToSet(results)
    BY <1>0, <2>1 DEF Due, QueueTypes, ToSet
  <2>3. main'.pc = "callback" /\ main'.job = results[i] /\ job[results[i]].stage = "result"
    BY <1>0, <2>1, <2>2 DEF MainType, PlacedJob
  <2>4. \A x \in Ids : /\ job'[x].stage = job[x].stage
                       /\ job'[x].cb = IF x = results[i] THEN "done" ELSE job[x].cb
    BY <1>0, <2>1, <2>2 DEF QueueTypes, Job
  <2>5. ASSUME NEW x \in Ids PROVE PendingJob(x)'
    BY <1>0, <2>3, <2>4 DEF PendingJob, At
  <2> QED
    BY <2>2, <2>3, <2>4, <2>5 DEF Pending, PendingMain, At
<1>4. CASE DeleteFinished
  <2>1. main'.pc = "callbacks"
    BY <1>0, <1>4 DEF DeleteFinished, GoTo, MainType
  <2>2. \A x \in Ids : /\ job'[x].stage = IF x \in finished THEN "deleted" ELSE job[x].stage
                       /\ job'[x].cb = job[x].cb
    BY <1>0, <1>4 DEF DeleteFinished, QueueTypes, Job
  <2>3. ASSUME NEW x \in Ids PROVE PendingJob(x)'
    BY <1>0, <2>1, <2>2 DEF PendingJob, PlacedJob, At
  <2> QED
    BY <2>1, <2>3 DEF Pending, PendingMain, At
<1>5. CASE Stopped
  <2>1. main'.pc = "game" /\ At("stopping")
    BY <1>0, <1>5 DEF Stopped, GoTo, MainType
  <2>2. \A x \in Ids : /\ job'[x].stage = IF job[x].stage = "none" THEN "none" ELSE "deleted"
                       /\ job'[x].cb = job[x].cb
    BY <1>0, <1>5 DEF Stopped, QueueTypes, Job
  <2>3. ASSUME NEW x \in Ids PROVE PendingJob(x)'
    BY <1>0, <2>1, <2>2 DEF PendingJob, At
  <2> QED
    BY <2>1, <2>3 DEF Pending, PendingMain, At
<1> QED
  BY <1>1, <1>2, <1>3, <1>4, <1>5

LEMMA PendingStep ==
    ASSUME Types, Control, JobPlacement, Pending, Next
    PROVE  Pending'
<1>0. /\ QueueTypes /\ MainType /\ PendingMain /\ Returns /\ DrainState
      /\ \A x \in Ids : PlacedJob(x) /\ PendingJob(x)
  BY PlacementParts DEF Types, Pending, Control
<1>1. CASE Query \/ (\E p \in Players : GetNetworkStatistics(p)) \/ Enable \/ RestoreHandler
  <2>1. {"game", "handler", "enabling", "restore", main.pc} \subseteq MainPcs
    BY <1>0 DEF MainPcs, MainType
  <2>2. \E kind \in {"handler", "stats", "query"}, p \in Players \cup {NoPlayer},
           pc \in {"poll", "setCallback"}, back \in MainPcs :
              AddCommandWithResult(kind, p, pc, back)
    BY <1>1, <2>1 DEF Query, GetNetworkStatistics, Enable, RestoreHandler
  <2> QED
    BY <2>2, PendingByCommand
<1>2. CASE Send \/ DoPulse
  <2>1. UNCHANGED job /\ main'.pc \in {"game", "handler", "incoming"}
    BY <1>0, <1>2 DEF Send, DoPulse, InGame, At, MainType
  <2>2. ASSUME NEW x \in Ids PROVE PendingJob(x)'
    BY <1>0, <2>1 DEF PendingJob, At
  <2> QED
    BY <2>1, <2>2 DEF Pending, PendingMain, At
<1>3. CASE UNCHANGED <<queues, main>>
  <2>1. UNCHANGED <<cmds, job>> /\ UNCHANGED main
    BY <1>3 DEF queues
  <2> QED
    BY <1>0, <2>1 DEF Pending, PendingMain, PendingJob, At
<1>4. CASE PollSleep
  <2>1. UNCHANGED <<cmds, job>> /\ main'.pc = main.pc /\ main'.job = main.job
    BY <1>0, <1>4 DEF PollSleep, queues, MainType
  <2> QED
    BY <1>0, <2>1 DEF Pending, PendingMain, PendingJob, At
<1>5. CASE \/ TakeIncoming \/ HandlePacket \/ HandlerReturns \/ Enabled \/ Restored \/ StopThread \/ Disable
  <2>1. UNCHANGED job
    BY <1>5 DEF TakeIncoming, HandlePacket, HandlerReturns, Enabled, Restored, StopThread, Disable, queues
  <2>2. main'.pc \notin {"poll", "setCallback", "callback"} /\ (main'.pc \in {"stop", "stopping"} => At("stop"))
    BY <1>0, <1>5 DEF TakeIncoming, HandlePacket, HandlerReturns, Enabled, Restored, StopThread,
                      Disable, GoTo, MainType, At
  <2>3. ASSUME NEW x \in Ids PROVE PendingJob(x)'
    BY <1>0, <2>1, <2>2 DEF PendingJob, At
  <2> QED
    BY <2>2, <2>3 DEF Pending, PendingMain, At
<1>6. CASE CallbacksDone
  <2>1. UNCHANGED job /\ main'.pc = main.back /\ At("callbacks") /\ Due = {}
    BY <1>0, <1>6 DEF CallbacksDone, queues, Return, MainType
  <2>2. main'.pc \notin {"poll", "setCallback", "callback", "stopping"}
    BY <1>0, <2>1 DEF Returns
  <2>3. ASSUME main.back = "stop", NEW x \in Ids, job[x].cb = "set"
        PROVE  FALSE
    <3>1. cmds = <<>>
      BY <1>0, <2>3 DEF DrainState, Draining
    <3>2. job[x].stage \notin {"queued", "processing"}
      BY <1>0, <3>1 DEF PlacedJob, Waits
    <3>3. job[x].stage = "result"
      BY <1>0, <2>3, <3>2 DEF PendingJob
    <3>4. \E i \in DOMAIN results : results[i] = x
      BY <1>0, <3>3 DEF PlacedJob, ToSet
    <3> QED
      BY <2>1, <2>3, <3>4 DEF Due
  <2>4. ASSUME NEW x \in Ids PROVE PendingJob(x)'
    BY <1>0, <2>1, <2>2, <2>3 DEF PendingJob, At
  <2> QED
    BY <2>2, <2>4 DEF Pending, PendingMain, At
<1>7. CASE UNCHANGED queues /\ ~StoreResult /\ ~RestoreHandler /\ ~Stopped /\ ~PollFound
  <2>1. \/ UNCHANGED main \/ Query \/ (\E p \in Players : GetNetworkStatistics(p)) \/ DoPulse \/ Enable
        \/ Disable \/ PollSleep \/ TakeIncoming \/ HandlePacket \/ HandlerReturns \/ CallbacksDone
        \/ Enabled \/ Restored \/ StopThread
        \/ SetCallback \/ Callback \/ CallbackSaves \/ DeleteFinished
    BY <1>7, MainSteps DEF MainNext
  <2> QED
    BY <1>1, <1>2, <1>3, <1>4, <1>5, <1>6, <1>7, <2>1, PendingByMain
<1> QED
  BY <1>1, <1>2, <1>7, QueueSteps, PendingByThread, PendingByMain

-----------------------------------------------------------------------------
(* The order in which the net module executes what it is asked for.        *)

Args == {cmds[i].arg : i \in Unsent}
InOrder == \A i, k \in Unsent : i < k => cmds[i].arg < cmds[k].arg
Numbered == Len(wire) \in Nat /\ \A i \in 1..Len(wire) : wire[i] = i

LEMMA SendsParts ==
    ASSUME wire \in Seq(SendNumbers)
    PROVE  Sends <=> Numbered /\ Args = Len(wire) + 1 .. sends /\ InOrder /\ Len(wire) <= sends
<1>1. Len(wire) \in Nat /\ DOMAIN wire = 1..Len(wire) /\ wire = [i \in 1..Len(wire) |-> wire[i]]
  BY LenProperties
<1>2. wire = UpTo(Len(wire)) <=> \A i \in 1..Len(wire) : wire[i] = i
  BY <1>1 DEF UpTo
<1> QED
  BY <1>1, <1>2 DEF Sends, SendsInOrder, Args, InOrder, Numbered

LEMMA SendsNext ==
    ASSUME (wire \in Seq(SendNumbers))', Numbered', Args' = Len(wire') + 1 .. sends',
           InOrder', Len(wire') <= sends'
    PROVE  Sends'
<1>1. Len(wire') \in Nat /\ DOMAIN wire' = 1..Len(wire') /\ wire' = [i \in 1..Len(wire') |-> wire'[i]]
  BY LenProperties
<1>2. wire' = UpTo(Len(wire')) <=> \A i \in 1..Len(wire') : wire'[i] = i
  BY <1>1 DEF UpTo
<1> QED
  BY <1>1, <1>2 DEF Sends, SendsInOrder, Args, InOrder, Numbered

\* The next send, executed by the net module.
LEMMA WireAppend ==
    ASSUME wire \in Seq(SendNumbers), Numbered, Len(wire) + 1 \in SendNumbers,
           wire' = Append(wire, Len(wire) + 1)
    PROVE  wire' \in Seq(SendNumbers) /\ Numbered' /\ Len(wire') = Len(wire) + 1
<1> DEFINE n == Len(wire)
<1>1. /\ wire' \in Seq(SendNumbers) /\ Len(wire') = n + 1
      /\ \A i \in 1..n : wire'[i] = wire[i]
      /\ wire'[n + 1] = n + 1
  BY AppendProperties
<1>2. n \in Nat
  BY DEF Numbered
<1> HIDE DEF n
<1>3. \A i \in 1..n + 1 : i \in 1..n \/ i = n + 1
  BY <1>2
<1> QED
  BY <1>1, <1>2, <1>3 DEF Numbered, n

\* A command added at the end of the queue: it is the last that waits, if it is a send.
LEMMA AddCommandUnsent ==
    ASSUME cmds \in Seq(Command), NEW kind \in {"send", "pulse", "handler", "stats", "query"},
           NEW j \in Ids \cup {NoJob}, NEW arg \in 0..MaxSends, AddCommand(kind, j, arg),
           ThreadAt("store") => cmds # <<>>, ThreadAt("store")' <=> ThreadAt("store"),
           InOrder, kind = "send" => \A i \in Unsent : cmds[i].arg < arg
    PROVE  InOrder' /\ Args' = IF kind = "send" THEN Args \cup {arg} ELSE Args
<1> DEFINE n == Len(cmds)
<1>1. /\ DOMAIN cmds = 1..n /\ DOMAIN cmds' = 1..n + 1 /\ n \in Nat
      /\ \A i \in 1..n : cmds'[i] = cmds[i]
      /\ cmds'[n + 1] = [kind |-> kind, id |-> j, arg |-> arg]
  BY AddCommandQueue
<1>2. cmds'[n + 1].kind = kind /\ cmds'[n + 1].arg = arg
  BY <1>1
<1>3. ThreadAt("store") => n + 1 > 1
  BY EmptySeq, <1>1
<1> HIDE DEF n
<1>4. Unsent' = IF kind = "send" THEN Unsent \cup {n + 1} ELSE Unsent
  <2>1. \A i \in 1..n + 1 : i \in 1..n \/ i = n + 1
    BY <1>1
  <2>2. n + 1 \in 1..n + 1 /\ 1..n \subseteq 1..n + 1
    BY <1>1
  <2> QED
    BY <1>1, <1>2, <1>3, <2>1, <2>2 DEF Unsent
<1>5. Unsent \subseteq 1..n /\ \A i \in Unsent : i < n + 1 /\ cmds'[i] = cmds[i]
  BY <1>1 DEF Unsent
<1>6. InOrder'
  BY <1>1, <1>2, <1>4, <1>5 DEF InOrder
<1>7. Args' = IF kind = "send" THEN Args \cup {arg} ELSE Args
  BY <1>2, <1>4, <1>5 DEF Args
<1> QED
  BY <1>6, <1>7

\* The thread executes the first command: a send is the next of all.
LEMMA ProcessSends ==
    ASSUME Types, Control, JobPlacement, Sends, ProcessCommand
    PROVE  Sends'
<1> DEFINE n == Len(wire)
<1>0. /\ wire \in Seq(SendNumbers) /\ cmds \in Seq(Command) /\ cmds # <<>> /\ UNCHANGED <<cmds, sends>>
      /\ ThreadAt("process") /\ ThreadAt("store")' /\ ~ThreadAt("store")
      /\ MaxSends \in Nat /\ sends \in 0..MaxSends
  BY Bounds DEF ProcessCommand, Types, NetTypes, SendNumbers, QueueTypes, JobPlacement, ThreadAt, ThreadTo,
         ThreadType, queues
<1>1. Numbered /\ Args = n + 1 .. sends /\ InOrder /\ n <= sends /\ n \in Nat
  BY <1>0, SendsParts DEF Numbered
<1>2. Head(cmds) = cmds[1] /\ DOMAIN cmds = 1..Len(cmds) /\ Len(cmds) \in Nat \ {0} /\ 1 \in 1..Len(cmds)
  BY <1>0, FrontCommand
<1>3. Unsent' = Unsent \ {1} /\ (1 \in Unsent <=> cmds[1].kind = "send")
  BY <1>0, <1>2 DEF Unsent
<1>4. Unsent \subseteq 1..Len(cmds) /\ \A i \in Unsent \ {1} : 1 < i
  BY <1>2 DEF Unsent
<1>5. InOrder'
  BY <1>0, <1>1, <1>3 DEF InOrder
<1>6. CASE cmds[1].kind = "send"
  <2>1. wire' = Append(wire, cmds[1].arg) /\ 1 \in Unsent
    BY <1>2, <1>3, <1>6 DEF ProcessCommand
  <2>2. Args' = Args \ {cmds[1].arg} /\ cmds[1].arg \in Args
    <3>1. \A i \in Unsent \ {1} : cmds[1].arg < cmds[i].arg /\ cmds[i].arg \in Args
      BY <1>1, <1>4, <2>1 DEF InOrder, Args
    <3>2. \A a, b \in Args : a < b => b # a
      BY <1>0, <1>1
    <3>3. cmds[1].arg \in Args
      BY <2>1 DEF Args
    <3>4. \A i \in Unsent \ {1} : cmds[i].arg # cmds[1].arg
      BY <3>1, <3>2, <3>3
    <3> QED
      BY <1>0, <1>3, <2>1, <3>4 DEF Args
  <2>3. \A a \in Args : a = cmds[1].arg \/ cmds[1].arg < a
    BY <1>1, <1>4, <2>1 DEF InOrder, Args
  <2>4. cmds[1].arg = n + 1 /\ n + 1 <= sends
    BY <1>0, <1>1, <2>2, <2>3
  <2>5. n + 1 \in SendNumbers
    BY <1>0, <1>1, <2>4 DEF SendNumbers
  <2>6. wire' \in Seq(SendNumbers) /\ Numbered' /\ Len(wire') = n + 1
    BY <1>0, <1>1, <2>1, <2>4, <2>5, WireAppend
  <2>7. Args' = Len(wire') + 1 .. sends'
    BY <1>0, <1>1, <2>2, <2>4, <2>6
  <2> QED
    BY <1>0, <1>5, <2>4, <2>6, <2>7, SendsNext
<1>7. CASE cmds[1].kind # "send"
  <2>1. UNCHANGED wire
    BY <1>2, <1>7 DEF ProcessCommand
  <2>2. Unsent' = Unsent
    BY <1>3, <1>7
  <2>3. Args' = Args /\ Numbered'
    BY <1>0, <1>1, <2>1, <2>2 DEF Args, Numbered
  <2> QED
    BY <1>0, <1>1, <1>5, <2>1, <2>3, SendsNext
<1> QED
  BY <1>6, <1>7

\* It leaves the queue.
LEMMA StoreSends ==
    ASSUME Types, Control, JobPlacement, Sends, StoreResult
    PROVE  Sends'
<1>0. /\ wire \in Seq(SendNumbers) /\ cmds \in Seq(Command) /\ cmds # <<>> /\ UNCHANGED <<wire, sends>>
      /\ cmds' = Tail(cmds) /\ ThreadAt("store") /\ ~ThreadAt("store")'
  BY DEF StoreResult, Types, NetTypes, QueueTypes, JobPlacement, ThreadAt, ThreadTo, ThreadType, net
<1>1. Numbered /\ Args = Len(wire) + 1 .. sends /\ InOrder /\ Len(wire) <= sends
  BY <1>0, SendsParts
<1> DEFINE n == Len(cmds)
<1>2. /\ DOMAIN cmds = 1..n /\ DOMAIN cmds' = 1..n - 1 /\ n \in Nat \ {0}
      /\ \A i \in 1..n - 1 : cmds'[i] = cmds[i + 1]
  BY <1>0, FrontCommand
<1> HIDE DEF n
<1>3. /\ \A i \in 1..n - 1 : i + 1 \in 1..n /\ i + 1 > 1
      /\ \A i \in 1..n : i > 1 => i - 1 \in 1..n - 1 /\ (i - 1) + 1 = i
  BY <1>2
<1>4. Unsent' = {i \in 1..n - 1 : i + 1 \in Unsent} /\ Unsent \subseteq 1..n
      /\ \A i \in Unsent : i > 1
  BY <1>0, <1>2, <1>3 DEF Unsent
<1>5. InOrder'
  BY <1>1, <1>2, <1>3, <1>4 DEF InOrder
<1>6. Args' = Args
  <2>1. \A i \in Unsent' : i + 1 \in Unsent /\ cmds'[i] = cmds[i + 1]
    BY <1>2, <1>4
  <2>2. \A i \in Unsent : i - 1 \in Unsent' /\ cmds'[i - 1] = cmds[i]
    BY <1>2, <1>3, <1>4
  <2> QED
    BY <2>1, <2>2 DEF Args
<1>7. Numbered'
  BY <1>0, <1>1 DEF Numbered
<1> QED
  BY <1>0, <1>1, <1>5, <1>6, <1>7, SendsNext

LEMMA SendsStep ==
    ASSUME Types, Control, JobPlacement, Pending, Sends, Next
    PROVE  Sends'
<1> DEFINE n == Len(wire)
<1>0. /\ wire \in Seq(SendNumbers) /\ (wire \in Seq(SendNumbers))' /\ cmds \in Seq(Command)
      /\ MaxSends \in Nat /\ sends \in 0..MaxSends /\ 0 \in 0..MaxSends
      /\ Busy => cmds # <<>>
      /\ MainType /\ ThreadType
  BY TypesStep, Bounds DEF Types, NetTypes, QueueTypes, JobPlacement, Busy, SendNumbers
<1>1. Numbered /\ Args = n + 1 .. sends /\ InOrder /\ n <= sends /\ n \in Nat
  BY <1>0, SendsParts DEF Numbered
<1>2. ASSUME NEW kind \in {"pulse", "handler", "stats", "query"}, NEW j \in Ids \cup {NoJob},
             AddCommand(kind, j, 0), UNCHANGED <<wire, sends>>,
             ThreadAt("store")' <=> ThreadAt("store")
      PROVE  Sends'
  <2>1. InOrder' /\ Args' = Args
    <3>1. AddCommand(kind, j, 0) /\ (ThreadAt("store") => cmds # <<>>)
      BY <1>0, <1>2 DEF ThreadAt, Busy
    <3>2. kind \in {"send", "pulse", "handler", "stats", "query"} /\ kind # "send"
      OBVIOUS
    <3>3. ThreadAt("store")' <=> ThreadAt("store")
      BY <1>2
    <3> HIDE <1>2
    <3>4. InOrder' /\ Args' = IF kind = "send" THEN Args \cup {0} ELSE Args
      BY <1>0, <1>1, <3>1, <3>2, <3>3, AddCommandUnsent
    <3> QED
      BY <3>2, <3>4
  <2>2. Numbered'
    BY <1>1, <1>2 DEF Numbered
  <2> QED
    BY <1>0, <1>1, <1>2, <2>1, <2>2, SendsNext
<1>3. CASE Query \/ (\E p \in Players : GetNetworkStatistics(p)) \/ Enable \/ RestoreHandler
  <2>1. \E kind \in {"handler", "stats", "query"}, j \in Ids : AddCommand(kind, j, 0)
    BY <1>3 DEF Query, GetNetworkStatistics, Enable, RestoreHandler, AddCommandWithResult, NewJobs
  <2>2. UNCHANGED <<wire, sends>>
    BY <1>3 DEF Query, GetNetworkStatistics, Enable, RestoreHandler, net
  <2>3. ThreadAt("store")' <=> ThreadAt("store")
    <3>1. CASE Enable
      <4>1. ThreadAt("ended")
        BY <3>1 DEF Enable, Control, OffState
      <4> QED
        BY <3>1, <4>1 DEF Enable, ThreadAt
    <3>2. CASE ~Enable
      BY <1>3, <3>2 DEF Query, GetNetworkStatistics, RestoreHandler, ThreadAt
    <3> QED
      BY <3>1, <3>2
  <2> QED
    BY <1>2, <2>1, <2>2, <2>3
<1>4. CASE DoPulse
  BY <1>2, <1>4 DEF DoPulse, net, ThreadAt
<1>5. CASE Send
  <2>1. sends' = sends + 1 /\ UNCHANGED thread /\ sends + 1 \in 0..MaxSends
    BY <1>0, <1>5 DEF Send
  <2>2. CASE enabled
    <3>1. AddCommand("send", NoJob, sends + 1) /\ UNCHANGED wire
      BY <1>5, <2>2 DEF Send
    <3>2. ThreadAt("store")' <=> ThreadAt("store")
      BY <2>1 DEF ThreadAt
    <3>3. \A i \in Unsent : cmds[i].arg \in Args
      BY DEF Args
    <3>4. \A i \in Unsent : cmds[i].arg < sends + 1
      BY <1>0, <1>1, <3>3
    <3>5. InOrder' /\ Args' = Args \cup {sends + 1}
      <4>1. ThreadAt("store") => cmds # <<>>
        BY <1>0 DEF ThreadAt, Busy
      <4> QED
        BY <1>0, <1>1, <2>1, <3>1, <3>2, <3>4, <4>1, AddCommandUnsent
    <3>6. Numbered' /\ n + 1 <= sends + 1
      BY <1>0, <1>1, <3>1 DEF Numbered
    <3>7. Args' = n + 1 .. sends + 1
      BY <1>0, <1>1, <3>5, <3>6
    <3> QED
      BY <1>0, <1>1, <2>1, <3>1, <3>5, <3>6, <3>7, SendsNext
  <2>3. CASE ~enabled
    <3>1. cmds = <<>> /\ UNCHANGED cmds /\ wire' = Append(wire, sends + 1)
      BY <1>5, <2>3 DEF Send, Control, OffState
    <3>2. Unsent = {} /\ Unsent' = {}
      BY <3>1 DEF Unsent
    <3>3. Args = {} /\ Args' = {}
      BY <3>2 DEF Args
    <3>4. n = sends
      <4>1. n < sends => n + 1 \in n + 1 .. sends
        BY <1>0, <1>1
      <4> QED
        BY <1>0, <1>1, <3>3, <4>1
    <3>5. wire' \in Seq(SendNumbers) /\ Numbered' /\ Len(wire') = n + 1
      BY <1>0, <1>1, <2>1, <3>1, <3>4, WireAppend DEF SendNumbers
    <3>6. Args' = Len(wire') + 1 .. sends' /\ Len(wire') <= sends'
      BY <1>0, <1>1, <2>1, <3>3, <3>4, <3>5
    <3>7. InOrder'
      BY <3>2 DEF InOrder
    <3> QED
      BY <3>5, <3>6, <3>7, SendsNext
  <2> QED
    BY <2>2, <2>3
<1>6. CASE UNCHANGED <<cmds, wire, sends>> /\ (ThreadAt("store")' <=> ThreadAt("store"))
  <2>1. Unsent' = Unsent
    BY <1>6 DEF Unsent
  <2>2. Args' = Args /\ InOrder' /\ Numbered'
    BY <1>1, <1>6, <2>1 DEF Args, InOrder, Numbered
  <2> QED
    BY <1>0, <1>1, <1>6, <2>2, SendsNext
<1>7. CASE Stopped
  <2>1. cmds = <<>> /\ UNCHANGED <<wire, sends>> /\ cmds' = <<>>
    BY <1>7 DEF Stopped, Control, DrainState, Draining, At, net
  <2>2. Unsent = {} /\ Unsent' = {}
    BY <2>1 DEF Unsent
  <2>3. Args' = Args /\ InOrder' /\ Numbered'
    BY <1>1, <2>1, <2>2 DEF Args, InOrder, Numbered
  <2> QED
    BY <1>0, <1>1, <2>1, <2>3, SendsNext
<1>8. CASE ThreadTop \/ ThreadPulsed \/ ThreadCommands \/ ThreadTake
  <2>1. UNCHANGED <<cmds, wire, sends>>
    BY <1>8 DEF ThreadTop, ThreadPulsed, ThreadCommands, ThreadTake, net, queues
  <2>2. ~ThreadAt("store") /\ ~ThreadAt("store")'
    BY <1>0, <1>8 DEF ThreadTop, ThreadPulsed, ThreadCommands, ThreadTake, ThreadAt, ThreadTo, ThreadType
  <2> QED
    BY <1>6, <2>1, <2>2
<1>9. CASE Next /\ ~ThreadNext /\ ~Stopped /\ ~Send /\ ~DoPulse
           /\ ~(Query \/ (\E p \in Players : GetNetworkStatistics(p)) \/ Enable \/ RestoreHandler)
  <2>1. UNCHANGED <<wire, sends, thread>>
    <3>1. UNCHANGED <<wire, sends>>
      BY <1>9, NetSteps DEF ThreadNext, Restored, net
    <3>2. UNCHANGED thread
      BY <1>9, ThreadSteps DEF ThreadNext
    <3> QED
      BY <3>1, <3>2
  <2>2. UNCHANGED cmds
    <3>1. UNCHANGED queues \/ SetCallback \/ PollFound \/ DeleteFinished \/ Callback \/ CallbackSaves
      BY <1>9, QueueSteps DEF ThreadNext
    <3> QED
      BY <3>1 DEF queues, SetCallback, PollFound, DeleteFinished, Callback, CallbackSaves
  <2> QED
    BY <1>6, <2>1, <2>2 DEF ThreadAt
<1> QED
  BY <1>3, <1>4, <1>5, <1>7, <1>8, <1>9, ProcessSends, StoreSends DEF ThreadNext

-----------------------------------------------------------------------------
(* The order in which the game gets the packets.                           *)

\* An increasing sequence, with a greater element appended;
LEMMA IncreasingAppend ==
    ASSUME NEW s \in Seq(PacketNumbers), Increasing(s), NEW x \in PacketNumbers,
           \A y \in ToSet(s) : y < x
    PROVE  Increasing(Append(s, x)) /\ ToSet(Append(s, x)) = ToSet(s) \cup {x}
<1> DEFINE r == Append(s, x)
           n == Len(s)
<1>1. /\ n \in Nat /\ DOMAIN s = 1..n /\ DOMAIN r = 1..n + 1 /\ r[n + 1] = x
      /\ \A i \in 1..n : r[i] = s[i]
  BY AppendProperties, LenProperties
<1> HIDE DEF r, n
<1>2. \A i \in 1..n + 1 : i \in 1..n \/ i = n + 1
  BY <1>1
<1>3. 1..n \subseteq 1..n + 1 /\ n + 1 \in 1..n + 1 /\ \A i \in 1..n : ~(n + 1 < i)
  BY <1>1
<1>4. ToSet(r) = ToSet(s) \cup {x}
  BY <1>1, <1>2, <1>3 DEF ToSet
<1>5. Increasing(r)
  <2> SUFFICES ASSUME NEW i \in 1..n + 1, NEW k \in 1..n + 1, i < k
               PROVE  r[i] < r[k]
    BY <1>1 DEF Increasing
  <2>1. CASE k = n + 1
    <3>1. i \in 1..n
      BY <1>1, <2>1
    <3> QED
      BY <1>1, <2>1, <3>1 DEF ToSet
  <2>2. CASE k \in 1..n
    <3>1. i \in 1..n
      BY <1>1, <2>2
    <3> QED
      BY <1>1, <2>2, <3>1 DEF Increasing
  <2> QED
    BY <1>2, <2>1, <2>2
<1> QED
  BY <1>4, <1>5 DEF r

\* with its first, least element taken;
LEMMA IncreasingTail ==
    ASSUME NEW s \in Seq(PacketNumbers), Increasing(s), s # <<>>
    PROVE  /\ Increasing(Tail(s)) /\ ToSet(Tail(s)) = ToSet(s) \ {Head(s)}
           /\ Head(s) \in ToSet(s) /\ \A y \in ToSet(Tail(s)) : Head(s) < y
<1> DEFINE r == Tail(s)
           n == Len(s)
<1>1. /\ n \in Nat \ {0} /\ DOMAIN s = 1..n /\ DOMAIN r = 1..n - 1
      /\ \A i \in 1..n - 1 : r[i] = s[i + 1]
  BY HeadTailProperties, LenProperties, EmptySeq
<1>2. Head(s) = s[1]
  OBVIOUS
<1>3. \A i \in 1..n : s[i] \in PacketNumbers
  BY <1>1, LenProperties
<1>4. \A y, z \in PacketNumbers : y < z => y # z
  BY Bounds DEF PacketNumbers
<1> HIDE DEF r, n
<1>5. /\ \A i \in 1..n - 1 : i + 1 \in 1..n /\ 1 < i + 1
      /\ \A i \in 1..n : i # 1 => i - 1 \in 1..n - 1 /\ (i - 1) + 1 = i /\ 1 < i
      /\ \A i, k \in 1..n - 1 : i < k => i + 1 < k + 1
      /\ 1 \in 1..n
  BY <1>1
<1>6. Increasing(r)
  <2> SUFFICES ASSUME NEW i \in 1..n - 1, NEW k \in 1..n - 1, i < k
               PROVE  r[i] < r[k]
    BY <1>1 DEF Increasing
  <2>1. i + 1 \in 1..n /\ k + 1 \in 1..n /\ i + 1 < k + 1
    BY <1>5
  <2>2. s[i + 1] < s[k + 1]
    BY <1>1, <2>1 DEF Increasing
  <2> QED
    BY <1>1, <2>2
<1>7. \A y \in ToSet(r) : s[1] < y /\ y \in ToSet(s)
  BY <1>1, <1>5 DEF Increasing, ToSet
<1>8. ASSUME NEW i \in 1..n, i # 1 PROVE s[i] \in ToSet(r)
  <2>1. i - 1 \in DOMAIN r /\ r[i - 1] = s[i]
    BY <1>1, <1>5, <1>8
  <2> QED
    BY <2>1 DEF ToSet
<1>9. ToSet(r) \subseteq ToSet(s) \ {s[1]}
  BY <1>1, <1>3, <1>4, <1>5, <1>7 DEF ToSet
<1>10. ToSet(s) \ {s[1]} \subseteq ToSet(r)
  BY <1>1, <1>8 DEF ToSet
<1>11. s[1] \in ToSet(s)
  BY <1>1, <1>5 DEF ToSet
<1> QED
  BY <1>2, <1>6, <1>7, <1>9, <1>10, <1>11 DEF r

\* and one after another of lesser elements.
LEMMA IncreasingConcat ==
    ASSUME NEW s \in Seq(PacketNumbers), NEW t \in Seq(PacketNumbers),
           Increasing(s), Increasing(t), Before(ToSet(s), ToSet(t))
    PROVE  /\ s \o t \in Seq(PacketNumbers)
           /\ Increasing(s \o t) /\ ToSet(s \o t) = ToSet(s) \cup ToSet(t)
<1> DEFINE r == s \o t
           m == Len(s)
           n == Len(t)
<1>1. /\ m \in Nat /\ n \in Nat /\ DOMAIN s = 1..m /\ DOMAIN t = 1..n /\ DOMAIN r = 1..m + n
      /\ r \in Seq(PacketNumbers)
      /\ \A i \in 1..m + n : r[i] = IF i <= m THEN s[i] ELSE t[i - m]
  BY ConcatProperties, LenProperties
<1> HIDE DEF r, m, n
<1>2. /\ \A i \in 1..m : i \in 1..m + n /\ r[i] = s[i]
      /\ \A i \in 1..n : m + i \in 1..m + n /\ r[m + i] = t[i]
      /\ \A i \in 1..m + n : i \in 1..m \/ (i - m \in 1..n /\ i = m + (i - m) /\ r[i] = t[i - m])
  <2>1. \A i \in 1..m : i \in 1..m + n /\ i <= m
    BY <1>1
  <2>2. \A i \in 1..n : m + i \in 1..m + n /\ ~(m + i <= m) /\ (m + i) - m = i
    BY <1>1
  <2>3. \A i \in 1..m + n : i \in 1..m \/ (~(i <= m) /\ i - m \in 1..n /\ i = m + (i - m))
    BY <1>1
  <2> QED
    BY <1>1, <2>1, <2>2, <2>3
<1>3. ToSet(r) = ToSet(s) \cup ToSet(t)
  <2>1. ToSet(r) \subseteq ToSet(s) \cup ToSet(t)
    BY <1>1, <1>2, SMTT(30) DEF ToSet
  <2>2. ToSet(s) \subseteq ToSet(r)
    BY <1>1, <1>2 DEF ToSet
  <2>3. ASSUME NEW i \in 1..n PROVE t[i] \in ToSet(r)
    <3>1. m + i \in DOMAIN r /\ r[m + i] = t[i]
      BY <1>1, <1>2
    <3> QED
      BY <3>1 DEF ToSet
  <2>4. ToSet(t) \subseteq ToSet(r)
    BY <1>1, <2>3 DEF ToSet
  <2> QED
    BY <2>1, <2>2, <2>4
<1>4. Increasing(r)
  <2> SUFFICES ASSUME NEW i \in 1..m + n, NEW k \in 1..m + n, i < k
               PROVE  r[i] < r[k]
    BY <1>1 DEF Increasing
  <2>1. CASE k \in 1..m
    <3>1. i \in 1..m
      BY <1>1, <2>1
    <3> QED
      BY <1>1, <1>2, <2>1, <3>1 DEF Increasing
  <2>2. CASE i \in 1..m /\ k \notin 1..m
    <3>1. r[i] = s[i] /\ r[k] = t[k - m] /\ k - m \in 1..n
      BY <1>2, <2>2
    <3>2. s[i] \in ToSet(s) /\ t[k - m] \in ToSet(t)
      BY <1>1, <2>2, <3>1 DEF ToSet
    <3> QED
      BY <3>1, <3>2 DEF Before
  <2>3. CASE i \notin 1..m /\ k \notin 1..m
    <3>1. r[i] = t[i - m] /\ r[k] = t[k - m] /\ k - m \in 1..n /\ i - m \in 1..n
      BY <1>2, <2>3
    <3>2. i - m < k - m
      BY <1>1
    <3> QED
      BY <1>1, <3>1, <3>2 DEF Increasing
  <2> QED
    BY <2>1, <2>2, <2>3
<1> QED
  BY <1>1, <1>3, <1>4 DEF r

LEMMA PacketsStep ==
    ASSUME Types, Control, Packets, Next
    PROVE  Packets'
<1> DEFINE H == ToSet(handled)
           B == ToSet(batch)
           I == ToSet(incoming)
<1>0. /\ incoming \in Seq(PacketNumbers) /\ batch \in Seq(PacketNumbers)
      /\ handled \in Seq(PacketNumbers) /\ MaxPackets \in Nat /\ arrived \in 0..MaxPackets
      /\ PacketNumbers \subseteq Nat
      /\ MainType /\ BatchHeld /\ OffState /\ DrainState
  BY Bounds DEF Types, PacketTypes, Control, PacketNumbers
<1>1. /\ Increasing(handled) /\ Increasing(batch) /\ Increasing(incoming)
      /\ Before(H, B) /\ Before(B, I) /\ Before(H, I)
      /\ H \cup B \cup I = 1..arrived \ dropped /\ dropped \subseteq 1..arrived
  BY DEF Packets
<1>2. arrived < MaxPackets => /\ arrived + 1 \in PacketNumbers
                              /\ \A x \in H \cup B \cup I : x < arrived + 1
                              /\ 1..arrived + 1 \ dropped = (1..arrived \ dropped) \cup {arrived + 1}
                              /\ dropped \subseteq 1..arrived + 1
  BY <1>0, <1>1 DEF PacketNumbers
<1>3. ToSet(<<>>) = {} /\ Increasing(<<>>)
  BY DEF ToSet, Increasing
<1>4. CASE ProcessPacket
  <2>1. /\ arrived < MaxPackets /\ arrived' = arrived + 1
        /\ incoming' = Append(incoming, arrived + 1) /\ UNCHANGED <<batch, handled, dropped>>
    BY <1>4 DEF ProcessPacket
  <2>2. Increasing(incoming') /\ ToSet(incoming') = I \cup {arrived + 1}
    BY <1>0, <1>1, <1>2, <2>1, IncreasingAppend
  <2>3. Before(B, I \cup {arrived + 1}) /\ Before(H, I \cup {arrived + 1})
    BY <1>1, <1>2, <2>1 DEF Before
  <2>4. H \cup B \cup (I \cup {arrived + 1}) = 1..arrived' \ dropped /\ dropped \subseteq 1..arrived'
    BY <1>1, <1>2, <2>1
  <2> HIDE DEF H, B, I
  <2> QED
    BY <1>1, <2>1, <2>2, <2>3, <2>4 DEF Packets, H, B, I
<1>5. CASE PulseDirectly
  <2>1. batch = <<>> /\ incoming = <<>>
    BY <1>0, <1>5 DEF PulseDirectly, BatchHeld, OffState, At
  <2>2. UNCHANGED <<batch, incoming, dropped>>
    BY <1>5 DEF PulseDirectly
  <2>3. CASE UNCHANGED <<arrived, handled>>
    BY <1>1, <2>2, <2>3 DEF Packets
  <2>4. CASE /\ arrived < MaxPackets /\ arrived' = arrived + 1
             /\ handled' = Append(handled, arrived + 1)
    <3>1. Increasing(handled') /\ ToSet(handled') = H \cup {arrived + 1}
      BY <1>0, <1>1, <1>2, <2>4, IncreasingAppend
    <3>2. B = {} /\ I = {}
      BY <1>3, <2>1
    <3>3. (H \cup {arrived + 1}) \cup B \cup I = 1..arrived' \ dropped /\ dropped \subseteq 1..arrived'
      BY <1>1, <1>2, <2>4
    <3>4. Before(H \cup {arrived + 1}, B) /\ Before(H \cup {arrived + 1}, I)
      BY <3>2 DEF Before
    <3> HIDE DEF H, B, I
    <3> QED
      BY <1>1, <2>2, <3>1, <3>3, <3>4 DEF Packets, H, B, I
  <2> QED
    BY <1>5, <2>3, <2>4 DEF PulseDirectly
<1>6. CASE TakeIncoming
  <2>1. batch = <<>> /\ batch' = incoming /\ incoming' = <<>> /\ UNCHANGED <<handled, dropped, arrived>>
    BY <1>0, <1>6 DEF TakeIncoming, BatchHeld, At
  <2>2. B = {} /\ ToSet(incoming') = {} /\ Increasing(incoming') /\ ToSet(batch') = I
    BY <1>3, <2>1
  <2>3. Before(I, {}) /\ Before(H, {})
    BY DEF Before
  <2>4. H \cup I \cup {} = 1..arrived \ dropped
    BY <1>1, <2>2
  <2> HIDE DEF H, B, I
  <2> QED
    BY <1>1, <2>1, <2>2, <2>3, <2>4 DEF Packets, H, B, I
<1>7. CASE HandlePacket
  <2> DEFINE h == Head(batch)
             T == ToSet(Tail(batch))
  <2>1. batch # <<>> /\ batch' = Tail(batch) /\ UNCHANGED <<incoming, arrived>>
    BY <1>7 DEF HandlePacket
  <2>2. Increasing(batch') /\ T = B \ {h} /\ h \in B /\ \A y \in T : h < y
    BY <1>0, <1>1, <2>1, IncreasingTail
  <2>3. h \in PacketNumbers /\ B \subseteq PacketNumbers /\ I \subseteq PacketNumbers /\ H \subseteq PacketNumbers
    BY <1>0, <2>1, LenProperties, HeadTailProperties DEF ToSet
  <2>4. \A x \in H : x < h
    BY <1>1, <2>2 DEF Before
  <2>5. \A x \in I : h < x
    BY <1>1, <2>2 DEF Before
  <2>6. Before(T, I) /\ Before(H, T)
    BY <1>1, <2>2 DEF Before
  <2>7. h \notin H /\ h \notin I /\ h \in 1..arrived
    BY <1>0, <1>1, <2>2, <2>3, <2>4, <2>5
  <2>8. ASSUME dmHandler PROVE Packets'
    <3>1. handled' = Append(handled, h) /\ UNCHANGED dropped
      BY <1>7, <2>8 DEF HandlePacket
    <3>2. Increasing(handled') /\ ToSet(handled') = H \cup {h}
      BY <1>0, <1>1, <2>3, <2>4, <3>1, IncreasingAppend
    <3>3. Before(H \cup {h}, T) /\ Before(H \cup {h}, I)
      BY <1>1, <2>2, <2>5, <2>6 DEF Before
    <3>4. (H \cup {h}) \cup T \cup I = 1..arrived \ dropped
      BY <1>1, <2>2
    <3> HIDE DEF H, B, I, T, h
    <3> QED
      BY <1>1, <2>1, <2>2, <2>6, <3>1, <3>2, <3>3, <3>4 DEF Packets, H, B, I, T
  <2>9. ASSUME ~dmHandler PROVE Packets'
    <3>1. dropped' = dropped \cup {h} /\ UNCHANGED handled
      BY <1>7, <2>9 DEF HandlePacket
    <3>2. H \cup T \cup I = 1..arrived \ (dropped \cup {h})
      BY <1>1, <2>2, <2>7
    <3>3. dropped \cup {h} \subseteq 1..arrived
      BY <1>1, <2>7
    <3> HIDE DEF H, B, I, T, h
    <3> QED
      BY <1>1, <2>1, <2>2, <2>6, <3>1, <3>2, <3>3 DEF Packets, H, B, I, T
  <2> QED
    BY <2>8, <2>9
<1>8. CASE Stopped
  <2>1. incoming = <<>>
    BY <1>0, <1>8 DEF Stopped, DrainState, Draining, At
  <2> QED
    BY <1>8, <2>1 DEF Stopped, Packets
<1>9. CASE UNCHANGED packets
  BY <1>9 DEF packets, Packets
<1> QED
  BY <1>4, <1>5, <1>6, <1>7, <1>8, <1>9, PacketSteps

-----------------------------------------------------------------------------
(* The invariant.                                                          *)

LEMMA InvInit == Init => IInv
<1> SUFFICES ASSUME Init PROVE IInv
  OBVIOUS
<1>1. Types
  <2>1. QueueTypes
    BY DEF Init, QueueTypes, Job
  <2>2. PacketTypes /\ NetTypes /\ ThreadType /\ MainType
    BY Bounds DEF Init, PacketTypes, NetTypes, SendNumbers, ThreadType, ThreadPcs, MainType, MainPcs
  <2> QED
    BY <2>1, <2>2 DEF Types
<1>2. Control
  BY Bounds DEF Init, Control, Returns, OffState, DrainState, Draining, BatchHeld, Room, Registering,
                At, ThreadAt
<1>3. JobPlacement
  <2>1. DOMAIN cmds = {} /\ ToSet(results) = {} /\ IsInjective(results)
    BY DEF Init, ToSet, IsInjective
  <2>2. thread.pc = "ended" /\ main.job = NoJob /\ finished = {} /\ \A j \in Ids : job[j].stage = "none"
    BY DEF Init
  <2> QED
    BY <2>1, <2>2 DEF JobPlacement
<1>4. Pending
  BY DEF Init, Pending, PendingMain, PendingJob, At
<1>5. Sends
  <2>1. wire \in Seq(SendNumbers) /\ Len(wire) = 0 /\ sends = 0 /\ Unsent = {}
    BY DEF Init, Unsent
  <2>2. Args = {} /\ InOrder /\ Numbered
    BY <2>1 DEF Args, InOrder, Numbered
  <2> QED
    BY <2>1, <2>2, SendsParts
<1>6. Packets
  BY DEF Init, Packets, Increasing, Before, ToSet
<1> QED
  BY <1>1, <1>2, <1>3, <1>4, <1>5, <1>6 DEF IInv

LEMMA InvNext == IInv /\ [Next]_vars => IInv'
<1>1. ASSUME IInv, Next PROVE IInv'
  <2>1. Types' /\ JobPlacement'
    BY <1>1, TypesStep, PlacedStep DEF IInv
  <2>2. Control'
    <3>1. Returns' /\ OffState' /\ DrainState' /\ BatchHeld' /\ Room'
      BY <1>1, ReturnsStep, OffStep, DrainStep, BatchStep, RoomStep DEF IInv
    <3> QED
      BY <3>1 DEF Control
  <2>3. Pending' /\ Sends' /\ Packets'
    BY <1>1, PendingStep, SendsStep, PacketsStep DEF IInv
  <2> QED
    BY <2>1, <2>2, <2>3 DEF IInv
<1>2. ASSUME IInv, UNCHANGED vars PROVE IInv'
  <2>1. UNCHANGED <<cmds, results, finished, incoming, job, thread, main, batch, dmHandler,
                    handler, enabled, wire, sends, handled, dropped, arrived>>
    BY <1>2 DEF vars, queues, packets, net, control
  <2>2. Types' /\ Control'
    BY <1>2, <2>1 DEF IInv, Types, QueueTypes, PacketTypes, NetTypes, ThreadType, MainType,
       Control, Returns, OffState, DrainState, Draining, BatchHeld, Room, Registering, At, ThreadAt
  <2>3. JobPlacement' /\ Pending'
    BY <1>2, <2>1 DEF IInv, JobPlacement, Pending, PendingMain, PendingJob, At
  <2>4. Sends' /\ Packets'
    BY <1>2, <2>1 DEF IInv, Sends, SendsInOrder, Unsent, ThreadAt, Packets
  <2> QED
    BY <2>2, <2>3, <2>4 DEF IInv
<1> QED
  BY <1>1, <1>2

LEMMA Invariance == Spec => []IInv
BY InvInit, InvNext, PTL DEF Spec

-----------------------------------------------------------------------------
(* The theorems.                                                           *)

\* The types of TypeOK hold.
THEOREM TypeCorrect == Spec => []TypeOK
<1>1. IInv => TypeOK
  BY DEF IInv, Types, QueueTypes, PacketTypes, PacketNumbers, NetTypes, ThreadType, MainType, TypeOK
<1> QED
  BY <1>1, Invariance, PTL

\* Whatever the order in which the two threads get the mutex, a job is in the one
\* list that its stage stands for, once; the thread processes the front of the
\* queue, and what the main thread waits for or calls back is never freed under it.
THEOREM JobsInOneList == Spec => []JobPlacement
<1>1. IInv => JobPlacement
  BY DEF IInv
<1> QED
  BY <1>1, Invariance, PTL

\* The net module executes the sends once each, in the order in which the game
\* made them, across any number of switches of the setting.
THEOREM SendsKeepOrder == Spec => []SendsInOrder
<1>1. IInv => SendsInOrder
  BY DEF IInv, Sends
<1> QED
  BY <1>1, Invariance, PTL

\* The packets that the game has handled, then those of the batch, then those
\* that wait are all that arrived and were not dropped, in their order.
THEOREM PacketsKeepOrder == Spec => []PacketsInOrder
<1>1. ASSUME IInv PROVE PacketsInOrder
  <2>1. /\ handled \in Seq(PacketNumbers) /\ batch \in Seq(PacketNumbers)
        /\ incoming \in Seq(PacketNumbers)
    BY <1>1 DEF IInv, Types, PacketTypes
  <2>2. /\ Increasing(handled) /\ Increasing(batch) /\ Increasing(incoming)
        /\ Before(ToSet(handled), ToSet(batch))
        /\ Before(ToSet(handled) \cup ToSet(batch), ToSet(incoming))
        /\ ToSet(handled) \cup ToSet(batch) \cup ToSet(incoming) = 1..arrived \ dropped
    BY <1>1 DEF IInv, Packets, Before
  <2>3. /\ handled \o batch \in Seq(PacketNumbers) /\ Increasing(handled \o batch)
        /\ ToSet(handled \o batch) = ToSet(handled) \cup ToSet(batch)
    BY <2>1, <2>2, IncreasingConcat
  <2> DEFINE taken == handled \o batch
  <2>4. taken \in Seq(PacketNumbers) /\ Increasing(taken) /\ Before(ToSet(taken), ToSet(incoming))
        /\ ToSet(taken) = ToSet(handled) \cup ToSet(batch)
    BY <2>2, <2>3
  <2>5. (handled \o batch) \o incoming = taken \o incoming
    OBVIOUS
  <2> HIDE DEF taken
  <2>6. Increasing(taken \o incoming) /\ ToSet(taken \o incoming) = ToSet(taken) \cup ToSet(incoming)
    BY <2>1, <2>2, <2>4, IncreasingConcat
  <2> QED
    BY <2>2, <2>4, <2>5, <2>6 DEF PacketsInOrder
<1> QED
  BY <1>1, Invariance, PTL

\* When the main thread tells the sync thread to end, which may mean that it is
\* cancelled wherever it is, there is nothing left to do, to deliver or to call back.
THEOREM StopLeavesNothing == Spec => []StopLosesNothing
<1>1. IInv => StopLosesNothing
  BY DEF IInv, Control, DrainState, Draining, Pending, PendingJob, StopLosesNothing, At
<1> QED
  BY <1>1, Invariance, PTL
=============================================================================
