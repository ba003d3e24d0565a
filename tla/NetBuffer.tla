----------------------------- MODULE NetBuffer -----------------------------
(***************************************************************************)
(* CNetServerBuffer: the net module of the server is run by a thread of    *)
(* its own (the sync thread), and the main thread talks to it through two  *)
(* queues under one mutex: commands out, packets in.  CSimControl puts the *)
(* buffer between the game and the net module, and takes it out, while the *)
(* server runs (the setting threadnet).                                    *)
(*                                                                         *)
(* An action of either thread is what it does between two points where it  *)
(* gives the mutex up.  The commands that differ only in the function of   *)
(* the net module they call are one: "send" for those nobody waits for,    *)
(* "query" for those that block, "stats" for GetNetworkStatistics, the one *)
(* that comes with a callback.  The net module is external: it pulses,     *)
(* hands packets to the handler it was given, and answers.                 *)
(***************************************************************************)
EXTENDS Integers, Sequences, FiniteSets, SequencesExt

CONSTANTS
    Players,
    NoPlayer,
    MaxJobs,        \* bound: commands with a result
    MaxSends,       \* bound: commands without
    MaxPackets,     \* bound: packets that arrive
    MaxQueue,       \* bound: commands in the queue
    MaxSwitches     \* bound: changes of the setting

ASSUME NetBufferType ==
    /\ Players # {} /\ IsFiniteSet(Players) /\ NoPlayer \notin Players
    /\ \A n \in {MaxJobs, MaxSends, MaxPackets, MaxQueue, MaxSwitches} : n \in Nat

Ids == 1..MaxJobs
UpTo(n) == [i \in 1..n |-> i]
NoJob == 0

VARIABLES
    cmds,           \* m_OutCommandQueue
    results,        \* m_OutResultQueue
    finished,       \* m_FinishedList
    incoming,       \* m_InResultQueue
    job,            \* the CNetJobData of each command with a result
    autoPulse, terminate,
    thread,         \* where ThreadProc is
    main,           \* where the main thread is
    batch,          \* ProcessIncoming's copy of m_InResultQueue
    dmHandler,      \* m_pfnDMPacketHandler is set
    handler,        \* the handler the net module was given
    enabled,        \* ms_bEnabled
    cache,          \* ms_NetStatisticsLast...
    answer,         \* what GetNetworkStatistics returned last
    wire, sends,    \* the commands the net module executed; how many were issued
    handled, dropped, arrived,  \* the packets the game got, and did not get
    switches

queues == <<cmds, results, finished, job>>
packets == <<incoming, batch, handled, dropped, arrived>>
flags == <<autoPulse, terminate>>
net == <<handler, wire>>
control == <<dmHandler, enabled, switches>>
stats == <<cache, answer>>
vars == <<queues, packets, flags, net, control, stats, thread, main, sends>>

Command == [kind : {"send", "pulse", "handler", "stats", "query"},
            id : Ids \cup {NoJob}, arg : 0..MaxSends]
Job == [stage : {"none", "queued", "processing", "result", "finished", "deleted"},
        cb : {"unset", "set", "done"}, player : Players \cup {NoPlayer}]

Init ==
    /\ cmds = <<>> /\ results = <<>> /\ finished = {} /\ incoming = <<>> /\ batch = <<>>
    /\ job = [j \in Ids |-> [stage |-> "none", cb |-> "unset", player |-> NoPlayer]]
    /\ autoPulse = FALSE /\ terminate = FALSE
    /\ thread = [pc |-> "ended", todo |-> 0]
    /\ main = [pc |-> "game", job |-> NoJob, back |-> "game", asleep |-> FALSE]
    /\ dmHandler = FALSE /\ handler = "game" /\ enabled = FALSE
    /\ cache = [valid |-> FALSE, for |-> NoPlayer, of |-> NoPlayer]
    /\ answer = [asked |-> NoPlayer, of |-> NoPlayer]
    /\ wire = <<>> /\ sends = 0 /\ handled = <<>> /\ dropped = {} /\ arrived = 0
    /\ switches = 0

-----------------------------------------------------------------------------
(* The sync thread: ThreadProc.                                            *)

ThreadAt(pc) == thread.pc = pc
ThreadTo(pc) == thread' = [thread EXCEPT !.pc = pc]

ThreadTop ==
    /\ ThreadAt("top")
    /\ ThreadTo(IF terminate THEN "ended" ELSE IF autoPulse THEN "pulsing" ELSE "commands")
    /\ UNCHANGED <<queues, packets, flags, net, control, stats, main, sends>>

\* m_pRealNetServer->DoPulse(), with the mutex given up; and a packet it
\* hands over: StaticProcessPacket, ProcessPacket.
ThreadPulsed ==
    /\ ThreadAt("pulsing")
    /\ ThreadTo("commands")
    /\ UNCHANGED <<queues, packets, flags, net, control, stats, main, sends>>

InPulse == ThreadAt("pulsing") \/ (ThreadAt("process") /\ Head(cmds).kind = "pulse")

ProcessPacket ==
    /\ InPulse /\ handler = "buffer" /\ arrived < MaxPackets
    /\ arrived' = arrived + 1
    /\ incoming' = Append(incoming, arrived + 1)
    /\ UNCHANGED <<queues, batch, handled, dropped, flags, net, control, stats,
                   thread, main, sends>>

\* Wait(10), or the number of commands to do before the next pulse.
ThreadCommands ==
    /\ ThreadAt("commands")
    /\ thread' = IF cmds = <<>> THEN [thread EXCEPT !.pc = "top"]
                 ELSE [pc |-> "take", todo |-> Len(cmds)]
    /\ UNCHANGED <<queues, packets, flags, net, control, stats, main, sends>>

SetStage(j, stage) ==
    IF j = NoJob THEN job ELSE [job EXCEPT ![j].stage = stage]

\* Mutant: until the queue is empty, not as many as there were.
ThreadTakeAll ==
    /\ ThreadAt("take")
    /\ IF cmds = <<>> \/ terminate
       THEN thread' = [pc |-> "top", todo |-> 0] /\ UNCHANGED job
       ELSE /\ thread' = [pc |-> "process", todo |-> thread.todo - 1]
            /\ job' = SetStage(Head(cmds).id, "processing")
    /\ UNCHANGED <<cmds, results, finished, packets, flags, net, control, stats, main, sends>>

ThreadTake ==
    /\ ThreadAt("take")
    /\ IF thread.todo = 0 \/ terminate
       THEN thread' = [pc |-> "top", todo |-> 0] /\ UNCHANGED job
       ELSE /\ thread' = [pc |-> "process", todo |-> thread.todo - 1]
            /\ job' = SetStage(Head(cmds).id, "processing")
    /\ UNCHANGED <<cmds, results, finished, packets, flags, net, control, stats, main, sends>>

\* ProcessCommand, with the mutex given up.
ProcessCommand ==
    /\ ThreadAt("process")
    /\ LET c == Head(cmds)
       IN /\ wire' = IF c.kind = "send" THEN Append(wire, c.arg) ELSE wire
          /\ handler' = IF c.kind = "handler"
                        THEN IF dmHandler THEN "buffer" ELSE "none" ELSE handler
    /\ ThreadTo("store")
    /\ UNCHANGED <<queues, packets, flags, control, stats, main, sends>>

\* Signal wakes the main thread if it waits.
Woken == [main EXCEPT !.asleep = FALSE]

\* Mutant: the signal is forgotten for a command with a result.
StoreResultSilently ==
    /\ ThreadAt("store")
    /\ LET j == Head(cmds).id
       IN /\ results' = IF j = NoJob THEN results ELSE Append(results, j)
          /\ job' = SetStage(j, "result")
          /\ main' = IF j = NoJob THEN Woken ELSE main
    /\ cmds' = Tail(cmds)
    /\ ThreadTo("take")
    /\ UNCHANGED <<finished, packets, flags, net, control, stats, sends>>

StoreResult ==
    /\ ThreadAt("store")
    /\ LET j == Head(cmds).id
       IN /\ results' = IF j = NoJob THEN results ELSE Append(results, j)
          /\ job' = SetStage(j, "result")
    /\ cmds' = Tail(cmds)
    /\ main' = Woken
    /\ ThreadTo("take")
    /\ UNCHANGED <<finished, packets, flags, net, control, stats, sends>>

-----------------------------------------------------------------------------
(* The main thread: commands.  It is in the game's own code at "game" and, *)
(* inside the handler of a packet, at "handler".                           *)

At(pc) == main.pc = pc
GoTo(pc) == main' = [main EXCEPT !.pc = pc]
Return == main' = [main EXCEPT !.pc = main.back, !.job = NoJob, !.back = "game"]
InGame == At("game") \/ At("handler")

\* Mutant: a command goes to the front of the queue.
AddCommandFirst(kind, j, arg) ==
    cmds' = <<[kind |-> kind, id |-> j, arg |-> arg]>> \o cmds

AddCommand(kind, j, arg) ==
    cmds' = Append(cmds, [kind |-> kind, id |-> j, arg |-> arg])

\* The next job: they are numbered in the order in which they are made.
NewJobs == {j \in Ids : job[j].stage = "none" /\ \A i \in 1..(j - 1) : job[i].stage # "none"}

\* A command whose result is waited for, or called back with; the main
\* thread then goes on at pc, and from there to `back`.
AddCommandWithResult(kind, p, pc, back) ==
    /\ \E j \in NewJobs :
         /\ job' = [job EXCEPT ![j].stage = "queued", ![j].player = p]
         /\ AddCommand(kind, j, 0)
         /\ main' = [main EXCEPT !.pc = pc, !.job = j, !.back = back]
    /\ UNCHANGED <<results, finished>>

HasRoom == Len(cmds) < MaxQueue

\* SendPacket, Kick and the others that go through AddCommandAndFree; without
\* the buffer, the net module is called at once.
Send ==
    /\ InGame /\ sends < MaxSends
    /\ sends' = sends + 1
    /\ IF enabled
       THEN HasRoom /\ AddCommand("send", NoJob, sends + 1) /\ UNCHANGED wire
       ELSE wire' = Append(wire, sends + 1) /\ UNCHANGED cmds
    /\ UNCHANGED <<results, finished, job, packets, flags, handler, control, stats, thread, main>>

\* GetPlayerIP and the other blocking ones.
Query ==
    /\ InGame /\ enabled /\ HasRoom
    /\ AddCommandWithResult("query", NoPlayer, "poll", main.pc)
    /\ UNCHANGED <<packets, flags, net, control, stats, thread, sends>>

GetNetworkStatistics(p) ==
    /\ InGame /\ enabled /\ HasRoom
    /\ IF cache.valid /\ cache.for = p
       THEN /\ AddCommandWithResult("stats", p, "setCallback", main.pc)
            /\ answer' = [asked |-> p, of |-> cache.of]
       ELSE /\ AddCommandWithResult("stats", p, "poll", main.pc)
            /\ UNCHANGED answer
    /\ UNCHANGED <<packets, flags, net, control, cache, thread, sends>>

\* SetCallback, without the mutex: the thread may have come to any stage.
SetCallback ==
    /\ At("setCallback")
    /\ job' = IF job[main.job].stage \in {"finished", "deleted"} THEN job
              ELSE [job EXCEPT ![main.job].cb = "set"]
    /\ Return
    /\ UNCHANGED <<cmds, results, finished, packets, flags, net, control, stats, thread, sends>>

\* PollCommand with an infinite timeout: look, and sleep until a signal.
PollSleep ==
    /\ At("poll") /\ ~main.asleep /\ main.job \notin ToSet(results)
    /\ main' = [main EXCEPT !.asleep = TRUE]
    /\ UNCHANGED <<queues, packets, flags, net, control, stats, thread, sends>>

\* Mutant: the result stays in the result queue.
TakeResultLeaves(j) ==
    /\ j \in ToSet(results) /\ results' = results
    /\ finished' = finished \cup {j}
    /\ job' = [job EXCEPT ![j].stage = "finished"]

TakeResult(j) ==
    /\ \E i \in DOMAIN results : results[i] = j /\ results' = RemoveAt(results, i)
    /\ finished' = finished \cup {j}
    /\ job' = [job EXCEPT ![j].stage = "finished"]

\* A blocking GetNetworkStatistics saves its result for the next.
PollFound ==
    /\ At("poll") /\ ~main.asleep /\ main.job \in ToSet(results)
    /\ TakeResult(main.job)
    /\ LET p == job[main.job].player
       IN IF p = NoPlayer THEN UNCHANGED stats
          ELSE /\ cache' = [valid |-> TRUE, for |-> p, of |-> p]
               /\ answer' = [asked |-> p, of |-> p]
    /\ Return
    /\ UNCHANGED <<cmds, packets, flags, net, control, thread, sends>>

-----------------------------------------------------------------------------
(* The main thread: DoPulse and ProcessIncoming.                           *)

\* The net module, pulsed by the main thread when there is no buffer, calls
\* the game for each packet, if any came.
PulseDirectly ==
    /\ At("game") /\ ~enabled
    /\ \/ UNCHANGED <<arrived, handled>>
       \/ /\ arrived < MaxPackets /\ arrived' = arrived + 1
          /\ handled' = Append(handled, arrived + 1)
    /\ UNCHANGED <<queues, incoming, batch, dropped, flags, net, control, stats,
                   thread, main, sends>>

DoPulse ==
    /\ At("game") /\ enabled /\ HasRoom
    /\ AddCommand("pulse", NoJob, 0)
    /\ main' = [main EXCEPT !.pc = "incoming", !.back = "game"]
    /\ UNCHANGED <<results, finished, job, packets, flags, net, control, stats, thread, sends>>

\* Mutant: the queue is copied and not cleared.
TakeIncomingCopies ==
    /\ At("incoming")
    /\ batch' = incoming
    /\ GoTo("packets")
    /\ UNCHANGED <<queues, incoming, handled, dropped, arrived, flags, net, control, stats,
                   thread, sends>>

TakeIncoming ==
    /\ At("incoming")
    /\ batch' = incoming
    /\ incoming' = <<>>
    /\ GoTo("packets")
    /\ UNCHANGED <<queues, handled, dropped, arrived, flags, net, control, stats, thread, sends>>

\* The game's handler, if there still is one.
HandlePacket ==
    /\ At("packets") /\ batch # <<>>
    /\ batch' = Tail(batch)
    /\ IF dmHandler
       THEN handled' = Append(handled, Head(batch)) /\ GoTo("handler") /\ UNCHANGED dropped
       ELSE dropped' = dropped \cup {Head(batch)} /\ UNCHANGED <<handled, main>>
    /\ UNCHANGED <<queues, incoming, arrived, flags, net, control, stats, thread, sends>>

HandlerReturns ==
    /\ At("handler")
    /\ GoTo("packets")
    /\ UNCHANGED <<queues, packets, flags, net, control, stats, thread, sends>>

DeleteFinished ==
    /\ At("packets") /\ batch = <<>>
    /\ finished' = {}
    /\ job' = [j \in Ids |-> IF j \in finished THEN [job[j] EXCEPT !.stage = "deleted"] ELSE job[j]]
    /\ GoTo("callbacks")
    /\ UNCHANGED <<cmds, results, packets, flags, net, control, stats, thread, sends>>

Due == {i \in DOMAIN results : job[results[i]].cb = "set"}

\* The first of the results whose callback is due.
Callback ==
    /\ At("callbacks")
    /\ \E i \in Due :
         /\ \A k \in Due : i <= k
         /\ job' = [job EXCEPT ![results[i]].cb = "done"]
         /\ main' = [main EXCEPT !.pc = "callback", !.job = results[i]]
    /\ UNCHANGED <<cmds, results, finished, packets, flags, net, control, stats, thread, sends>>

\* GetNetworkStatisticsCallback polls its own job and saves the statistics.
CallbackSaves ==
    /\ At("callback")
    /\ TakeResult(main.job)
    /\ cache' = [cache EXCEPT !.of = job[main.job].player]
    /\ main' = [main EXCEPT !.pc = "callbacks", !.job = NoJob]
    /\ UNCHANGED <<cmds, packets, flags, net, control, answer, thread, sends>>

CallbacksDone ==
    /\ At("callbacks") /\ Due = {}
    /\ Return
    /\ UNCHANGED <<queues, packets, flags, net, control, stats, thread, sends>>

-----------------------------------------------------------------------------
(* CSimControl::DoPulse, when the setting has changed.                     *)

\* A new buffer with its thread.
Enable ==
    /\ At("game") /\ ~enabled /\ switches < MaxSwitches
    /\ switches' = switches + 1
    /\ enabled' = TRUE /\ dmHandler' = TRUE
    /\ terminate' = FALSE /\ UNCHANGED autoPulse
    /\ thread' = [pc |-> "top", todo |-> 0]
    /\ AddCommandWithResult("handler", NoPlayer, "poll", "enabling")
    /\ UNCHANGED <<packets, net, stats, sends>>

Enabled ==
    /\ At("enabling")
    /\ autoPulse' = TRUE
    /\ GoTo("game")
    /\ UNCHANGED <<queues, packets, terminate, net, control, stats, thread, sends>>

Disable ==
    /\ At("game") /\ enabled /\ switches < MaxSwitches /\ NewJobs # {}
    /\ switches' = switches + 1
    /\ autoPulse' = FALSE
    /\ GoTo("disabling")
    /\ UNCHANGED <<queues, packets, terminate, net, dmHandler, enabled, stats, thread, sends>>

\* Mutant: without waiting for the command.
RestoreHandlerAndGo ==
    /\ At("disabling")
    /\ dmHandler' = FALSE
    /\ AddCommand("handler", NoJob, 0)
    /\ GoTo("restore")
    /\ UNCHANGED <<results, finished, job, packets, flags, net, enabled, switches, stats,
                   thread, sends>>

\* RegisterPacketHandler(NULL)
RestoreHandler ==
    /\ At("disabling")
    /\ dmHandler' = FALSE
    /\ AddCommandWithResult("handler", NoPlayer, "poll", "restore")
    /\ UNCHANGED <<packets, flags, net, enabled, switches, stats, thread, sends>>

\* Mutant: the incoming queue is not drained.
RestoredUndrained ==
    /\ At("restore")
    /\ handler' = "game"
    /\ GoTo("stop")
    /\ UNCHANGED <<queues, packets, flags, wire, control, stats, thread, sends>>

\* The net module gets the game's handler; then the incoming queue is drained.
Restored ==
    /\ At("restore")
    /\ handler' = "game"
    /\ main' = [main EXCEPT !.pc = "incoming", !.back = "stop"]
    /\ UNCHANGED <<queues, packets, flags, wire, control, stats, thread, sends>>

StopThread ==
    /\ At("stop")
    /\ terminate' = TRUE
    /\ GoTo("stopping")
    /\ UNCHANGED <<queues, packets, autoPulse, net, control, stats, thread, sends>>

\* The thread has ended, or is cancelled wherever it is after 5 seconds; the
\* buffer is deleted with what is in its queues.
Stopped ==
    /\ At("stopping")
    /\ enabled' = FALSE
    /\ thread' = [pc |-> "ended", todo |-> 0]
    /\ cmds' = <<>> /\ results' = <<>> /\ finished' = {} /\ incoming' = <<>>
    /\ job' = [j \in Ids |-> IF job[j].stage = "none" THEN job[j]
                             ELSE [job[j] EXCEPT !.stage = "deleted"]]
    /\ GoTo("game")
    /\ UNCHANGED <<batch, handled, dropped, arrived, flags, net, dmHandler, switches, stats, sends>>

-----------------------------------------------------------------------------
ThreadNext == \/ ThreadTop \/ ThreadPulsed \/ ThreadCommands \/ ThreadTake
              \/ ProcessCommand \/ StoreResult

\* What the main thread goes on with by itself.
MainNext == \/ SetCallback \/ PollSleep \/ PollFound \/ TakeIncoming \/ HandlePacket
            \/ HandlerReturns \/ DeleteFinished \/ Callback \/ CallbackSaves
            \/ CallbacksDone \/ Enabled \/ RestoreHandler \/ Restored
            \/ StopThread \/ Stopped

Next == \/ ThreadNext \/ ProcessPacket \/ MainNext
        \/ Send \/ Query \/ (\E p \in Players : GetNetworkStatistics(p))
        \/ DoPulse \/ PulseDirectly \/ Enable \/ Disable

Spec == Init /\ [][Next]_vars
FairSpec == Spec /\ WF_vars(ThreadNext) /\ WF_vars(MainNext) /\ WF_vars(DoPulse)

-----------------------------------------------------------------------------
(* Properties.                                                             *)

MainPcs == {"game", "handler", "setCallback", "poll", "incoming", "packets", "callbacks",
            "callback", "enabling", "disabling", "restore", "stop", "stopping"}
ThreadPcs == {"top", "pulsing", "commands", "take", "process", "store", "ended"}

\* Types.
TypeOK ==
    /\ cmds \in Seq(Command) /\ results \in Seq(Ids) /\ finished \subseteq Ids
    /\ job \in [Ids -> Job]
    /\ main \in [pc : MainPcs, job : Ids \cup {NoJob}, back : MainPcs, asleep : BOOLEAN]
    /\ thread \in [pc : ThreadPcs, todo : 0..MaxQueue + 1]
    /\ handler \in {"game", "buffer", "none"}
    /\ incoming \in Seq(1..MaxPackets) /\ batch \in Seq(1..MaxPackets)

\* A job is in the one list that its stage stands for, and in it once; the
\* job that the thread processes is at the front of the queue (the assertion
\* of ThreadProc); no thread holds a pointer to a deleted job.
JobPlacement ==
    /\ \A j \in Ids :
         /\ (\E i \in DOMAIN cmds : cmds[i].id = j) <=> job[j].stage \in {"queued", "processing"}
         /\ j \in ToSet(results) <=> job[j].stage = "result"
         /\ j \in finished <=> job[j].stage = "finished"
         /\ job[j].stage = "processing" <=>
              thread.pc \in {"process", "store"} /\ Head(cmds).id = j
    /\ \A i, k \in DOMAIN cmds : cmds[i].id = cmds[k].id /\ cmds[i].id # NoJob => i = k
    /\ IsInjective(results)
    /\ thread.pc \in {"process", "store"} => cmds # <<>>
    /\ main.job # NoJob => job[main.job].stage \notin {"none", "finished", "deleted"}

\* The sends that are queued and not yet executed.
Unsent == {i \in DOMAIN cmds : cmds[i].kind = "send" /\ (ThreadAt("store") => i > 1)}

\* The net module executes what the game asks for once, in the order it was
\* asked, also across a switch to calling it directly: it has executed the
\* first sends, and the others wait in their order.
SendsInOrder ==
    /\ wire = UpTo(Len(wire))
    /\ {cmds[i].arg : i \in Unsent} = Len(wire) + 1 .. sends
    /\ \A i, k \in Unsent : i < k => cmds[i].arg < cmds[k].arg

Increasing(s) == \A i, k \in DOMAIN s : i < k => s[i] < s[k]

\* The game gets the packets of the net module in their order, once, and all
\* but those that were dropped by HandlePacket.
PacketsInOrder ==
    LET taken == handled \o batch \o incoming
    IN Increasing(taken) /\ ToSet(taken) = 1..arrived \ dropped

\* All of them: a switch of the setting loses none.
PacketsReachGame == dropped = {}

\* When the thread is stopped, and may be cancelled, it has executed all that
\* the game asked for, no callback is due, and no packet is left behind.
StopLosesNothing ==
    At("stopping") => cmds = <<>> /\ incoming = <<>> /\ \A j \in Ids : job[j].cb # "set"

\* Every blocking call returns: no signal is lost between a look at the result
\* queue and the wait.
WaitReturns == At("poll") ~> ~At("poll")

\* Every asynchronous read of the statistics is called back (its callback
\* frees the store it was given), also when the buffer is taken out meanwhile:
\* after the last of them, none is left.
CallbackHappens == (\E j \in Ids : job[j].cb = "set") ~> (\A j \in Ids : job[j].cb # "set")

\* What GetNetworkStatistics returns for a player are statistics of that
\* player; the code does not keep it, and no run checks it.
StatisticsOfPlayer == answer.asked = answer.of
=============================================================================
