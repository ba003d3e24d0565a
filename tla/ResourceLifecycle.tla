------------------------- MODULE ResourceLifecycle -------------------------
(***************************************************************************)
(* The resources of a server: CResource::Start and Stop, the dependents    *)
(* that start and stop a resource with those that include it, and          *)
(* CResourceManager's queue of stops and restarts.                         *)
(*                                                                         *)
(* Everything runs on the main thread, but Start and Stop fire events, and *)
(* a handler in any running resource may start, stop, restart or delete    *)
(* resources from inside.  `stack` is the C++ call stack of these          *)
(* functions, its top first; a frame whose pc is in EventPcs is inside     *)
(* CallEvent.  With no frame, the server is between two pulses' work.      *)
(*                                                                         *)
(* A state in which the code would use a null pointer or a deleted object  *)
(* has no successor through that code: the server is gone.                 *)
(*                                                                         *)
(* Not modelled: Refresh, loading and renaming resources, and the start    *)
(* options (every start is one with the defaults of SResourceStartOptions).*)
(***************************************************************************)
EXTENDS Integers, Sequences, FiniteSets, SequencesExt, Subsequences

CONSTANTS
    Resources,
    Order,          \* m_resources
    Includes,       \* the <include>s of each resource's meta.xml, in order
    SyncDefined,    \* those with m_bSyncMapElementDataDefined
    MinClient,      \* those with a client version requirement
    ScriptOps,      \* the functions scripts call
    MaxCalls,       \* bound: calls of scripts and of the console
    MaxChanges,     \* bound: changes of a resource's files
    MaxQueue        \* bound: items in the queue

ASSUME ResourcesType ==
    /\ IsFiniteSet(Resources)
    /\ Order \in Seq(Resources) /\ ToSet(Order) = Resources /\ Order # <<>>
    /\ Includes \in [Resources -> Seq(Resources)]
    /\ SyncDefined \subseteq Resources /\ MinClient \subseteq Resources
    /\ ScriptOps \subseteq {"start", "persist", "stop", "restart", "delete", "warp"}
    /\ MaxCalls \in Nat /\ MaxChanges \in Nat /\ MaxQueue \in Nat

VARIABLES
    res,            \* the fields of each CResource
    live,           \* m_resources: those that are not deleted
    started,        \* m_StartedResources
    syncOptions,    \* the keys of m_SyncMapElementDataOptionMap
    requirements,   \* the keys of m_MinClientRequirementMap
    queue,          \* m_resourceQueue
    stack,
    calls, changes

vars == <<res, live, started, syncOptions, requirements, queue, stack, calls, changes>>
maps == <<started, syncOptions, requirements>>
outside == <<live, queue, calls, changes>>

States == {"None", "Loaded", "Starting", "Running", "Stopping"}

\* deferred: m_PendingClientSyncCallbacks, by whether they were deferred in
\* this start of the resource or in an earlier one.
Resource == [state : States, links : SUBSET Resources, linked : BOOLEAN,
             temps : SUBSET Resources, deps : SUBSET Resources,
             persistent : BOOLEAN, manual : BOOLEAN, vm : BOOLEAN,
             changed : BOOLEAN, deferred : SUBSET {"now", "earlier"}]

Included(r) == ToSet(Includes[r])

Init ==
    /\ res = [r \in Resources |->
         [state |-> "Loaded", links |-> Included(r), linked |-> TRUE,
          temps |-> {}, deps |-> {}, persistent |-> FALSE, manual |-> FALSE,
          vm |-> FALSE, changed |-> FALSE, deferred |-> {}]]
    /\ live = Resources
    /\ started = {} /\ syncOptions = {} /\ requirements = {}
    /\ queue = <<>> /\ stack = <<>>
    /\ calls = 0 /\ changes = 0

-----------------------------------------------------------------------------
(* The call stack.                                                         *)

Frame(op, r, pc) == [op |-> op, r |-> r, pc |-> pc, left |-> <<>>,
                     manual |-> FALSE, by |-> r, deps |-> {}]

Top == Head(stack)
At(op, pc) == stack # <<>> /\ Top.op = op /\ Top.pc = pc
Goto(pc) == <<[Top EXCEPT !.pc = pc]>> \o Tail(stack)
GotoWith(pc, left) == <<[Top EXCEPT !.pc = pc, !.left = left]>> \o Tail(stack)

EventPcs == {"prestart", "scripts", "aborting", "starting", "started",
             "stopping", "stopped", "teardown", "gone", "reloaded"}
InEvent == stack # <<>> => Top.pc \in EventPcs

Active(r) == res[r].state \in {"Starting", "Running", "Stopping"}

\* The frame of a call Start(D, manual, ...), if it does not return at once.
StartFrame(new, r, m, D) ==
    IF new[r].state = "Loaded"
    THEN <<[Frame("start", r, "prestart") EXCEPT !.manual = m, !.deps = D]>> ELSE <<>>

\* Mutant: without the test for the state Running.
StopFrameAnyState(new, r, m) ==
    IF new[r].state # "Loaded" /\ (m \/ ~new[r].manual)
    THEN <<Frame("stop", r, "stopping")>> ELSE <<>>

StopFrame(new, r, m) ==
    IF new[r].state = "Running" /\ (m \/ ~new[r].manual)
    THEN <<Frame("stop", r, "stopping")>> ELSE <<>>

\* Start sets its state before its first event.
Entered(new, frames) ==
    [r \in Resources |->
       IF \E i \in DOMAIN frames : frames[i].op = "start" /\ frames[i].r = r
       THEN [new[r] EXCEPT !.state = "Starting",
                           !.deferred = IF @ = {} THEN @ ELSE {"earlier"}]
       ELSE new[r]]

\* Go on with res = new and the frames of the call above the stack below.
Call(new, frames, below) ==
    /\ res' = Entered(new, frames)
    /\ stack' = frames \o below

CheckStateFrame(new, r) ==
    IF new[r].deps = {} /\ ~new[r].persistent
    THEN StopFrame(new, r, FALSE) ELSE StartFrame(new, r, FALSE, {})

\* Mutant: a running resource is not told of a new dependent.
AddDependentUnlessRunning(r, d, below) ==
    LET new == IF res[r].state = "Running" THEN res ELSE [res EXCEPT ![r].deps = @ \cup {d}]
    IN Call(new, IF d \in res[r].deps THEN <<>> ELSE CheckStateFrame(new, r), below)

AddDependent(r, d, below) ==
    LET new == [res EXCEPT ![r].deps = @ \cup {d}]
    IN Call(new, IF d \in res[r].deps THEN <<>> ELSE CheckStateFrame(new, r), below)

RemoveDependent(r, d, new, below) ==
    LET without == [new EXCEPT ![r].deps = @ \ {d}]
    IN Call(without, CheckStateFrame(without, r), below)

-----------------------------------------------------------------------------
(* Loading and deleting.                                                   *)

\* Mutant: the temporary includes keep the pointer.
InvalidatedButTemps(new, x, S) ==
    [r \in Resources |->
       IF r \in S THEN [new[r] EXCEPT !.links = @ \ {x}, !.deps = @ \ {x}] ELSE new[r]]

\* r's pointers to x are forgotten.
Invalidated(new, x, S) ==
    [r \in Resources |->
       IF r \in S THEN [new[r] EXCEPT !.links = @ \ {x}, !.temps = @ \ {x},
                                      !.deps = @ \ {x}]
       ELSE new[r]]

\* Reload of a resource that is not active: TidyUp, then Load.
Reloaded(x, ok) ==
    [Invalidated(res, x, res[x].deps \ {x}) EXCEPT
       ![x].state = IF ok THEN "Loaded" ELSE "None",
       ![x].links = {}, ![x].linked = FALSE,
       ![x].persistent = FALSE, ![x].manual = FALSE, ![x].changed = ~ok]

\* What LinkToIncludedResources finds.
Linked(r) == [res EXCEPT ![r].links = Included(r) \cap live,
                         ![r].linked = Included(r) \subseteq live]

\* CResourceManager::StartResource of a resource that is not active.
StartResource(x, D, m, below) ==
    \/ /\ ~res[x].changed
       /\ Call(res, StartFrame(res, x, m, D), below)
    \/ /\ res[x].changed
       /\ \/ res' = Reloaded(x, FALSE) /\ stack' = below
          \/ /\ res' = Reloaded(x, TRUE)
             /\ stack' = <<[Frame("reload", x, "reloaded") EXCEPT !.manual = m]>> \o below

\* onResourceLoadStateChange returns to StartResource, or to the Start of an includer.
ReloadReturn ==
    /\ At("reload", "reloaded") /\ Top.r \in live
    /\ Call(res, IF Top.by = Top.r THEN StartFrame(res, Top.r, Top.manual, {}) ELSE <<>>,
            Tail(stack))
    /\ UNCHANGED <<outside, maps>>

-----------------------------------------------------------------------------
(* CResource::Start, from its first event on.                              *)

StartFails(r) == [res EXCEPT ![r].state = "Loaded"]

\* onResourcePreStart is cancelled, a version is too low, an include is
\* missing, or the element ids have run out.
PreStartFails ==
    /\ At("start", "prestart")
    /\ \/ res' = StartFails(Top.r)
       \/ /\ ~res[Top.r].linked
          /\ res' = [Linked(Top.r) EXCEPT ![Top.r].state = "Loaded"]
    /\ stack' = Tail(stack)
    /\ UNCHANGED <<outside, maps>>

\* The VM is created and the resource files start: its scripts run.
PreStarted ==
    /\ At("start", "prestart")
    /\ LET r == Top.r
           new == IF res[r].linked THEN res ELSE Linked(r)
       IN /\ new[r].linked
          /\ res' = [new EXCEPT ![r].persistent = FALSE, ![r].vm = TRUE]
          /\ syncOptions' = syncOptions \cup ({r} \cap SyncDefined)
    /\ stack' = Goto("scripts")
    /\ UNCHANGED <<outside, started, requirements>>

\* A resource file is blocked or fails to start.
ScriptsFail ==
    /\ At("start", "scripts")
    /\ stack' = Goto("aborting")
    /\ UNCHANGED <<res, outside, maps>>

ScriptsRun ==
    /\ At("start", "scripts")
    /\ stack' = GotoWith("includes", Includes[Top.r])
    /\ UNCHANGED <<res, outside, maps>>

\* Mutant: the sync_map_element_data option survives a failed start.
AbortKeepsOption ==
    /\ At("start", "aborting")
    /\ res' = [StartFails(Top.r) EXCEPT ![Top.r].vm = FALSE]
    /\ stack' = Tail(stack)
    /\ UNCHANGED <<outside, maps>>

Abort ==
    /\ At("start", "aborting")
    /\ res' = [StartFails(Top.r) EXCEPT ![Top.r].vm = FALSE]
    /\ syncOptions' = syncOptions \ {Top.r}
    /\ stack' = Tail(stack)
    /\ UNCHANGED <<outside, started, requirements>>

Include ==
    /\ At("start", "includes") /\ Top.left # <<>>
    /\ LET r == Top.r
           i == Head(Top.left)
           next == GotoWith("includes", Tail(Top.left))
           reload == i \in res[r].links /\ res[i].changed /\ ~Active(i)
       IN \/ i \notin res[r].links /\ res' = res /\ stack' = next
          \/ i \in res[r].links /\ ~reload /\ AddDependent(i, r, next)
          \/ reload /\ res' = Reloaded(i, FALSE) /\ stack' = Goto("aborting")
          \/ /\ reload
             /\ res' = Reloaded(i, TRUE)
             /\ stack' = <<[Frame("reload", i, "reloaded") EXCEPT !.by = r]>>
                            \o <<[Head(next) EXCEPT !.pc = "include", !.left = Top.left]>>
                            \o Tail(stack)
    /\ UNCHANGED <<outside, maps>>

\* After the reload of an include.
IncludeReloaded ==
    /\ At("start", "include")
    /\ Head(Top.left) \in live
    /\ AddDependent(Head(Top.left), Top.r, GotoWith("includes", Tail(Top.left)))
    /\ UNCHANGED <<outside, maps>>

IncludesDone ==
    /\ At("start", "includes") /\ Top.left = <<>>
    /\ res' = [res EXCEPT ![Top.r].deps = @ \cup Top.deps]
    /\ stack' = Goto("starting")
    /\ UNCHANGED <<outside, maps>>

Run ==
    /\ At("start", "starting")
    /\ res' = [res EXCEPT ![Top.r].state = "Running"]
    /\ stack' = Goto("started")
    /\ UNCHANGED <<outside, maps>>

\* A handler of onResourceStart cancelled it: Stop(true), then return.
StartCancelled ==
    /\ At("start", "started")
    /\ stack' = StopFrame(res, Top.r, TRUE) \o Tail(stack)
    /\ UNCHANGED <<res, outside, maps>>

\* Mutant: an empty requirement is stored like any other.
StartAcceptedAnyVersion ==
    /\ At("start", "started")
    /\ res' = [res EXCEPT ![Top.r].manual = Top.manual]
    /\ requirements' = requirements \cup {Top.r}
    /\ stack' = Goto("announce")
    /\ UNCHANGED <<outside, started, syncOptions>>

StartAccepted ==
    /\ At("start", "started")
    /\ res' = [res EXCEPT ![Top.r].manual = Top.manual]
    /\ requirements' = requirements \cup ({Top.r} \cap MinClient)
    /\ stack' = Goto("announce")
    /\ UNCHANGED <<outside, started, syncOptions>>

\* The broadcast reads the resource's element, then runs what was deferred.
Announce ==
    /\ At("start", "announce")
    /\ res[Top.r].vm
    /\ res' = [res EXCEPT ![Top.r].deferred = {}]
    /\ started' = started \cup {Top.r}
    /\ stack' = Tail(stack)
    /\ UNCHANGED <<outside, syncOptions, requirements>>

-----------------------------------------------------------------------------
(* CResource::Stop, from its first event on.                               *)

\* m_pVM->GetVirtualMachine() needs the VM.
StopStart ==
    /\ At("stop", "stopping")
    /\ res[Top.r].vm
    /\ res' = [res EXCEPT ![Top.r].state = "Stopping"]
    /\ requirements' = requirements \ {Top.r}
    /\ syncOptions' = syncOptions \ {Top.r}
    /\ started' = started \ {Top.r}
    /\ stack' = Goto("stopped")
    /\ UNCHANGED outside

Stopped ==
    /\ At("stop", "stopped")
    /\ stack' = GotoWith("leave", Includes[Top.r])
    /\ UNCHANGED <<res, outside, maps>>

LeaveInclude ==
    /\ At("stop", "leave") /\ Top.left # <<>>
    /\ LET i == Head(Top.left)
           next == GotoWith("leave", Tail(Top.left))
       IN IF i \in res[Top.r].links THEN RemoveDependent(i, Top.r, res, next)
          ELSE res' = res /\ stack' = next
    /\ UNCHANGED <<outside, maps>>

\* The temporary includes, the resources started by this one's scripts, are
\* visited in the order they were added: any order of a set.  `deps` holds
\* those that have been visited.
LeaveTemporary ==
    /\ At("stop", "leave") /\ Top.left = <<>>
    /\ \E t \in res[Top.r].temps \ Top.deps :
         RemoveDependent(t, Top.r, res, <<[Top EXCEPT !.deps = @ \cup {t}]>> \o Tail(stack))
    /\ UNCHANGED <<outside, maps>>

LeaveDone ==
    /\ At("stop", "leave") /\ Top.left = <<>> /\ res[Top.r].temps \subseteq Top.deps
    /\ res' = [res EXCEPT ![Top.r].temps = {}]
    /\ stack' = Goto("teardown")
    /\ UNCHANGED <<outside, maps>>

\* Is a script of r in the middle of a call?
ScriptOnStack(r) == \E i \in DOMAIN stack : stack[i].op = "lua" /\ stack[i].by = r

\* Files stopped and elements destroyed; lua_close.
CloseVM ==
    /\ At("stop", "teardown")
    /\ ~ScriptOnStack(Top.r)
    /\ res' = [res EXCEPT ![Top.r].vm = FALSE]
    /\ stack' = Goto("gone")
    /\ UNCHANGED <<outside, maps>>

StopDone ==
    /\ At("stop", "gone")
    /\ res' = [res EXCEPT ![Top.r].state = "Loaded"]
    /\ stack' = Tail(stack)
    /\ UNCHANGED <<outside, maps>>

-----------------------------------------------------------------------------
(* What scripts and the console call.                                      *)

\* startResource, called by a script of v.
LuaStart(v, x, persist) ==
    /\ ~Active(x) /\ res[x].state = "Loaded"
    /\ StartResource(x, {}, persist,
         <<[Frame("lua", x, "called") EXCEPT !.by = v, !.manual = persist]>> \o stack)
    /\ UNCHANGED <<live, queue>>

LuaStarted ==
    /\ At("lua", "called")
    /\ LET x == Top.r
           new == [res EXCEPT ![x].persistent = Top.manual]
       IN \/ ~Active(x) /\ res' = res /\ stack' = Tail(stack)
          \/ Active(x) /\ Top.manual /\ res' = new /\ stack' = Tail(stack)
          \/ /\ Active(x) /\ ~Top.manual
             /\ LET with == [new EXCEPT ![Top.by].temps = @ \cup {x},
                                        ![x].deps = @ \cup {Top.by}]
                IN Call(with, IF Top.by \in res[x].deps THEN <<>>
                              ELSE CheckStateFrame(with, x), Tail(stack))
    /\ UNCHANGED <<outside, maps>>

Queued(x, kind) == [r |-> x, kind |-> kind, deps |-> {}]

QueueResource(x, kind) ==
    /\ Active(x) /\ res[x].state # "Stopping" /\ Len(queue) < MaxQueue
    /\ queue' = Append(queue, Queued(x, kind))
    /\ UNCHANGED <<res, live, stack>>

\* deleteResource: UnloadAndDelete of a resource that is not active.
Delete(x) ==
    /\ ~Active(x)
    /\ res' = [Invalidated(res, x, Resources \ {x}) EXCEPT
                 ![x].state = "None", ![x].links = {}, ![x].deps = {}, ![x].temps = {}]
    /\ live' = live \ {x}
    /\ queue' = Subsequence(queue, {i \in DOMAIN queue : queue[i].r # x})
    /\ UNCHANGED stack

\* RunOrDeferUntilClientSynced (warpPedIntoVehicle): held back until the
\* clients know the elements, at the end of Start.
Defer(v) ==
    /\ v \notin started
    /\ res' = [res EXCEPT ![v].deferred = @ \cup {"now"}]
    /\ UNCHANGED <<live, queue, stack>>

ScriptCall ==
    /\ InEvent /\ calls < MaxCalls /\ calls' = calls + 1
    /\ \E v \in Resources : res[v].vm /\
         \/ "warp" \in ScriptOps /\ Defer(v)
         \/ \E x \in live :
              \/ "start" \in ScriptOps /\ LuaStart(v, x, FALSE)
              \/ "persist" \in ScriptOps /\ LuaStart(v, x, TRUE)
              \/ "stop" \in ScriptOps /\ QueueResource(x, "stop")
              \/ "restart" \in ScriptOps /\ QueueResource(x, "restart")
              \/ "delete" \in ScriptOps /\ Delete(x)
    /\ UNCHANGED <<maps, changes>>

\* The commands start, stop, restart and stopall.
ConsoleCall ==
    /\ stack = <<>> /\ calls < MaxCalls /\ calls' = calls + 1
    /\ \/ \E x \in live :
            \/ /\ res[x].state = "Loaded" /\ StartResource(x, {}, TRUE, <<>>)
               /\ UNCHANGED <<live, queue>>
            \/ \E kind \in {"stop", "restart"} :
                 Active(x) /\ QueueResource(x, kind)
       \/ /\ Len(queue) < MaxQueue
          /\ queue' = Append(queue, Queued(Order[1], "stopall"))
          /\ UNCHANGED <<res, live, stack>>
    /\ UNCHANGED <<maps, changes>>

\* Somebody edits the files of a resource.
FilesChange ==
    /\ stack = <<>> /\ changes < MaxChanges /\ changes' = changes + 1
    /\ \E x \in live : res' = [res EXCEPT ![x].changed = TRUE]
    /\ UNCHANGED <<live, queue, stack, calls, maps>>

-----------------------------------------------------------------------------
(* CResourceManager::ProcessQueue, once a pulse.                           *)

ProcessQueue ==
    /\ stack = <<>> /\ queue # <<>>
    /\ stack' = <<Frame("queue", Order[1], "loop")>>
    /\ UNCHANGED <<res, outside, maps>>

Item == Head(queue)
AtItem(kind) == At("queue", "loop") /\ queue # <<>> /\ Item.kind = kind

\* What a stop from the queue does first.
Released(x) == [res EXCEPT ![x].persistent = FALSE]

DoStop ==
    /\ AtItem("stop")
    /\ IF Active(Item.r)
       THEN Call(Released(Item.r), StopFrame(res, Item.r, TRUE), stack)
       ELSE UNCHANGED <<res, stack>>
    /\ queue' = Tail(queue)
    /\ UNCHANGED <<live, maps, calls, changes>>

DoRestart ==
    /\ AtItem("restart")
    /\ IF Active(Item.r)
       THEN Call(Released(Item.r), StopFrame(res, Item.r, TRUE),
                 <<[Top EXCEPT !.pc = "restart", !.r = Item.r,
                               !.deps = res[Item.r].deps]>>)
       ELSE UNCHANGED <<res, stack>>
    /\ queue' = Tail(queue)
    /\ UNCHANGED <<live, maps, calls, changes>>

\* The second half of a restart is queued behind the other items, the
\* dependents by their names.
RestartStopped ==
    /\ At("queue", "restart")
    /\ queue' = Append(queue, [r |-> Top.r, kind |-> "restart2", deps |-> Top.deps])
    /\ stack' = Goto("loop")
    /\ UNCHANGED <<res, live, maps, calls, changes>>

\* Mutant: a resource that runs again is put back in the queue.
DoRestart2Again ==
    /\ AtItem("restart2")
    /\ LET x == Item.r
       IN \/ /\ Active(x)
             /\ queue' = Append(Tail(queue), Item) /\ UNCHANGED <<res, stack>>
          \/ /\ ~Active(x)
             /\ queue' = Tail(queue)
             /\ StartResource(x, Item.deps \cap live, TRUE, stack)
    /\ UNCHANGED <<live, maps, calls, changes>>

DoRestart2 ==
    /\ AtItem("restart2")
    /\ LET x == Item.r
       IN \/ Active(x) /\ ~res[x].changed /\ UNCHANGED <<res, stack>>
          \/ ~Active(x) /\ StartResource(x, Item.deps \cap live, TRUE, stack)
          \/ \* Running again, with other files: Reload stops it first.
             /\ Active(x) /\ res[x].changed
             /\ Call(res, StopFrame(res, x, TRUE), <<[Top EXCEPT !.pc = "reload", !.r = x]>>)
    /\ queue' = Tail(queue)
    /\ UNCHANGED <<live, maps, calls, changes>>

Restart2Stopped ==
    /\ At("queue", "reload")
    /\ StartResource(Top.r, {}, TRUE, Goto("loop"))
    /\ UNCHANGED <<outside, maps>>

DoStopAll ==
    /\ AtItem("stopall")
    /\ queue' = Tail(queue)
    /\ stack' = <<[Frame("stopall", Order[1], "loop") EXCEPT !.left = Order]>> \o stack
    /\ UNCHANGED <<res, live, maps, calls, changes>>

StopAllNext ==
    /\ At("stopall", "loop") /\ Top.left # <<>>
    /\ LET x == Head(Top.left)
           next == GotoWith("loop", Tail(Top.left))
       IN IF x \in live /\ Active(x)
          THEN Call(Released(x), StopFrame(res, x, TRUE), next)
          ELSE res' = res /\ stack' = next
    /\ UNCHANGED <<outside, maps>>

LoopDone ==
    /\ \/ At("stopall", "loop") /\ Top.left = <<>>
       \/ At("queue", "loop") /\ queue = <<>>
    /\ stack' = Tail(stack)
    /\ UNCHANGED <<res, outside, maps>>

-----------------------------------------------------------------------------
Continue ==
    \/ ReloadReturn \/ PreStartFails \/ PreStarted \/ ScriptsFail \/ ScriptsRun
    \/ Abort \/ Include \/ IncludeReloaded \/ IncludesDone \/ Run
    \/ StartCancelled \/ StartAccepted \/ Announce
    \/ StopStart \/ Stopped \/ LeaveInclude \/ LeaveTemporary \/ LeaveDone
    \/ CloseVM \/ StopDone \/ LuaStarted
    \/ DoStop \/ DoRestart \/ RestartStopped \/ DoRestart2 \/ Restart2Stopped
    \/ DoStopAll \/ StopAllNext \/ LoopDone

Next == Continue \/ ScriptCall \/ ConsoleCall \/ FilesChange \/ ProcessQueue

Spec == Init /\ [][Next]_vars
FairSpec == Spec /\ WF_vars(Continue) /\ WF_vars(ProcessQueue)
-----------------------------------------------------------------------------
(* Properties.                                                             *)

\* Types.  Requirements and options are only kept of resources that have them
\* (ApplyMinClientRequirement, m_bSyncMapElementDataDefined).
TypeOK ==
    /\ res \in [Resources -> Resource]
    /\ live \subseteq Resources /\ started \subseteq Resources
    /\ syncOptions \subseteq SyncDefined /\ requirements \subseteq MinClient
    /\ \A i \in DOMAIN queue : queue[i].r \in Resources
    /\ \A i \in DOMAIN stack : stack[i].r \in Resources /\ stack[i].by \in Resources

Running == {r \in Resources : res[r].state = "Running"}

\* Whatever handlers did from inside Start and Stop, once the outermost call
\* has returned every resource is either running or not, and what the manager
\* keeps of the running ones agrees with it: m_StartedResources (what joining
\* players are told to start), the VMs, the client version requirements and
\* the sync_map_element_data options.
Settled ==
    stack = <<>> =>
      /\ \A r \in Resources : res[r].state \in {"None", "Loaded", "Running"}
      /\ started = Running /\ {r \in Resources : res[r].vm} = Running
      /\ syncOptions = Running \cap SyncDefined
      /\ requirements = Running \cap MinClient

\* No include, temporary include or queued item points to a deleted resource,
\* also while a handler deletes resources from inside other calls
\* (InvalidateIncludedResourceReference, RemoveFromQueue).
PointersLive ==
    /\ \A r \in live : res[r].links \cup res[r].temps \subseteq live
    /\ \A i \in DOMAIN queue : queue[i].kind # "stopall" => queue[i].r \in live

\* The third of the lists that ~CResource's comment names: no dependent is a
\* deleted resource.
DependentsLive == \A r \in live : res[r].deps \subseteq live

\* A running resource holds what it includes: between calls it is a dependent
\* of each of its linked includes, so that none of them is stopped under it.
IncludersAreDependents ==
    stack = <<>> =>
      \A r \in Running : \A i \in res[r].links : r \in res[i].deps

FramesOf(op, r, pcs) ==
    Cardinality({i \in DOMAIN stack : stack[i].op = op /\ stack[i].r = r /\ stack[i].pc \in pcs})

StartingPcs == {"prestart", "scripts", "aborting", "includes", "include", "starting"}
StoppingPcs == {"stopped", "leave", "teardown", "gone"}

\* m_eState is a lock: while a resource is starting or stopping, exactly one
\* call on the stack is in the part of Start or Stop that this state stands
\* for, so no handler starts or stops it a second time.
StateIsOneFrames ==
    \A r \in Resources :
      /\ FramesOf("start", r, StartingPcs) = IF res[r].state = "Starting" THEN 1 ELSE 0
      /\ FramesOf("stop", r, StoppingPcs) = IF res[r].state = "Stopping" THEN 1 ELSE 0

\* Where the code goes on with a null pointer, a closed VM or a deleted resource.
Crashed ==
    \/ At("start", "announce") /\ ~res[Top.r].vm
    \/ At("stop", "stopping") /\ ~res[Top.r].vm
    \/ At("stop", "teardown") /\ ScriptOnStack(Top.r)
    \/ At("reload", "reloaded") /\ Top.r \notin live
    \/ At("start", "include") /\ Head(Top.left) \notin live

\* ProcessQueue returns: with handlers that call finitely often, a queue that
\* is being worked off becomes empty, although restarts append to it.
QueueDrains == queue # <<>> ~> (queue = <<>> \/ Crashed)

(* What the code does not keep; no run checks the three.                   *)

\* No interleaving of handlers reaches a dead pointer.
NotCrashed == ~Crashed

\* What was deferred in one start is not run in a later one.
DeferredFresh == At("start", "announce") => "earlier" \notin res[Top.r].deferred

\* m_bLinked says that every include is linked.
LinkedIsLinked == \A r \in live : res[r].linked => res[r].links = Included(r)
=============================================================================
