----------------------- MODULE SyncerAssignmentProofs -----------------------
(***************************************************************************)
(* Theorems about SyncerAssignment, for any finite sets of vehicles, peds  *)
(* and players and any bounds on what scripts and players do.              *)
(***************************************************************************)
EXTENDS SyncerAssignment, SequenceTheorems, TLAPS

-----------------------------------------------------------------------------
(* The calls on the stack.                                                 *)

Frame ==
    [op : {"script"}]
    \cup [op : {"override"}, p : Players \cup {NoPlayer}, e : Elements, pers : BOOLEAN]
    \cup [op : {"start"}, p : Players, e : Elements]
    \cup [op : {"find"}, e : Elements]
    \cup [op : {"update"}, kind : Kinds, left : SUBSET Elements, last : SUBSET Elements]
    \cup [op : {"leave"}, p : Players]

\* A call that will make a player the syncer knows one who is not freed.
FrameLive(f, st) ==
    f.op \in {"override", "start"} /\ f.p # NoPlayer => st[f.p] # "freed"

\* The destructor of a player is the outermost call.
StackOK(s, st) ==
    /\ s \in Seq(Frame)
    /\ \A i \in 1 .. Len(s) :
         /\ FrameLive(s[i], st)
         /\ s[i].op = "leave" => i = Len(s)

AssignedType ==
    /\ syncer \in [Elements -> Players \cup {NoPlayer}]
    /\ persistent \in [Kinds -> BOOLEAN]
    /\ told \subseteq Players \X Elements

\* What the operators of the module keep, with the part of TypeOK they leave alone.
Assigned == AssignedType /\ SyncerTold /\ StackOK(stack, status)

WorldType ==
    /\ syncable \in [Elements -> BOOLEAN]
    /\ status \in [Players \cup Elements -> {"alive", "deleting", "freed"}]
    /\ place \in [Players -> [Elements -> Places]]
    /\ driver \in [Elements -> Players \cup {NoPlayer}]
    /\ calls \in 0 .. MaxCalls /\ moves \in 0 .. MaxMoves

\* Who sits at the wheel has not been freed.
DriversLive == \A e \in Elements : driver[e] # NoPlayer => status[driver[e]] # "freed"

IInv == WorldType /\ DriversLive /\ Assigned

\* A call pushed on a stack keeps it one.
LEMMA PushStack ==
    ASSUME NEW st, NEW s, StackOK(s, st),
           NEW f \in Frame, FrameLive(f, st), f.op # "leave"
    PROVE  StackOK(<<f>> \o s, st)
<1>1. /\ <<f>> \o s \in Seq(Frame) /\ Len(<<f>> \o s) = Len(s) + 1 /\ Len(s) \in Nat
      /\ \A i \in 1 .. Len(s) + 1 : (<<f>> \o s)[i] = IF i = 1 THEN f ELSE s[i - 1]
  BY DEF StackOK
<1>2. \A i \in 1 .. Len(s) + 1 : i # 1 => i - 1 \in 1 .. Len(s)
  BY <1>1
<1> QED
  BY <1>1, <1>2 DEF StackOK

\* The stack below the innermost call is one.
LEMMA PopStack ==
    ASSUME NEW st, NEW s, StackOK(s, st), s # <<>>
    PROVE  /\ StackOK(Tail(s), st)
           /\ Head(s) \in Frame /\ FrameLive(Head(s), st)
           /\ Head(s).op = "leave" => Tail(s) = <<>>
<1> DEFINE t == Tail(s)
<1>1. /\ t \in Seq(Frame) /\ Len(t) = Len(s) - 1 /\ Len(s) \in Nat \ {0}
      /\ \A i \in 1 .. Len(s) - 1 : t[i] = s[i + 1]
      /\ Head(s) = s[1] /\ s[1] \in Frame
  BY HeadTailProperties, EmptySeq, LenProperties DEF StackOK
<1>2. 1 \in 1 .. Len(s) /\ (Len(s) = 1 => Len(t) = 0)
  BY <1>1
<1> HIDE DEF t
<1>3. Len(t) = 0 => t = <<>>
  BY <1>1, EmptySeq
<1>4. StackOK(t, st)
  <2>1. ASSUME NEW i \in 1 .. Len(t)
        PROVE  FrameLive(t[i], st) /\ (t[i].op = "leave" => i = Len(t))
    <3>1. i + 1 \in 1 .. Len(s) /\ t[i] = s[i + 1] /\ (i + 1 = Len(s) => i = Len(t))
      BY <1>1
    <3>2. FrameLive(s[i + 1], st) /\ (s[i + 1].op = "leave" => i + 1 = Len(s))
      BY <3>1 DEF StackOK
    <3> QED
      BY <3>1, <3>2
  <2> QED
    BY <1>1, <2>1 DEF StackOK
<1>5. FrameLive(s[1], st) /\ (s[1].op = "leave" => t = <<>>)
  BY <1>2, <1>3 DEF StackOK
<1> QED
  BY <1>1, <1>4, <1>5 DEF t

\* The empty stack is one.
LEMMA EmptyStack == \A st : StackOK(<<>>, st)
BY DEF StackOK

\* So is that of a script which the main loop runs.
LEMMA ScriptStack == \A st : \A s : StackOK(s, st) => StackOK(<<Script>> \o s, st)
<1>1. Script \in Frame /\ Script.op = "script"
  BY DEF Script, Frame
<1> QED
  BY <1>1, PushStack DEF FrameLive

-----------------------------------------------------------------------------
(* What the operators keep, whoever calls them.                            *)

\* Nothing assigned and the rest of the stack: still assigned well.
LEMMA UnchangedKeeps ==
    ASSUME Assigned, UNCHANGED status,
           NEW below, StackOK(below, status), Unchanged(below)
    PROVE  Assigned'
BY DEF Assigned, AssignedType, SyncerTold, Unchanged, assigned

\* StartSync and Assign: the new syncer is told before he is one.
LEMMA StartedKeeps ==
    ASSUME Assigned, UNCHANGED status, persistent' \in [Kinds -> BOOLEAN],
           NEW below, StackOK(below, status),
           NEW e \in Elements, NEW p \in Players, status[p] # "freed",
           Started(p, e, below)
    PROVE  Assigned'
<1>1. CASE syncable'[e]
  <2>1. /\ told' = told \cup {<<p, e>>}
        /\ syncer' = [syncer EXCEPT ![e] = p]
        /\ stack' = <<Script>> \o below
    BY <1>1 DEF Started
  <2>2. AssignedType'
    BY <2>1 DEF Assigned, AssignedType
  <2>3. SyncerTold'
    BY <2>1 DEF Assigned, AssignedType, SyncerTold
  <2>4. StackOK(stack', status')
    BY <2>1, ScriptStack
  <2> QED
    BY <2>2, <2>3, <2>4 DEF Assigned
<1>2. CASE ~syncable'[e]
  BY <1>2 DEF Started, Assigned, AssignedType, SyncerTold
<1> QED
  BY <1>1, <1>2

LEMMA StartSyncKeeps ==
    ASSUME Assigned, UNCHANGED status,
           NEW below, StackOK(below, status),
           NEW e \in Elements, NEW p \in Players, status[p] # "freed",
           StartSync(p, e, below)
    PROVE  Assigned'
<1>1. persistent' \in [Kinds -> BOOLEAN]
  BY DEF StartSync, Assigned, AssignedType
<1> QED
  BY <1>1, StartedKeeps DEF StartSync

\* StopSync: only who is no longer the syncer is told to stop.
LEMMA StopSyncKeeps ==
    ASSUME Assigned, UNCHANGED status,
           NEW below, StackOK(below, status),
           NEW e \in Elements, StopSync(e, below)
    PROVE  Assigned'
<1>1. /\ told' = told \ {<<syncer[e], e>>}
      /\ syncer' = [syncer EXCEPT ![e] = NoPlayer]
      /\ persistent' = [persistent EXCEPT ![Kind(e)] = FALSE]
      /\ stack' = <<Script>> \o below
  BY DEF StopSync
<1>2. AssignedType'
  BY <1>1 DEF Assigned, AssignedType
<1>3. SyncerTold'
  BY <1>1 DEF Assigned, AssignedType, SyncerTold
<1>4. StackOK(stack', status')
  BY <1>1, ScriptStack
<1> QED
  BY <1>2, <1>3, <1>4 DEF Assigned

LEMMA AssignKeeps ==
    ASSUME Assigned, UNCHANGED status,
           NEW below, StackOK(below, status),
           NEW e \in Elements, NEW p \in Players \cup {NoPlayer}, NEW pers \in BOOLEAN,
           p # NoPlayer => status[p] # "freed",
           Assign(p, e, pers, below)
    PROVE  Assigned'
<1>1. CASE p = NoPlayer \/ ~Alive(e)
  BY <1>1, UnchangedKeeps DEF Assign
<1>2. CASE ~(p = NoPlayer \/ ~Alive(e))
  <2>1. persistent' \in [Kinds -> BOOLEAN]
    BY <1>2 DEF Assign, Assigned, AssignedType
  <2> QED
    BY <1>2, <2>1, StartedKeeps DEF Assign
<1> QED
  BY <1>1, <1>2

LEMMA OverrideKeeps ==
    ASSUME Assigned, UNCHANGED status,
           NEW below, StackOK(below, status),
           NEW e \in Elements, NEW p \in Players \cup {NoPlayer}, NEW pers \in BOOLEAN,
           p # NoPlayer => status[p] # "freed",
           OverrideSyncer(p, e, pers, below)
    PROVE  Assigned'
<1>1. CASE syncer[e] = NoPlayer
  BY <1>1, AssignKeeps DEF OverrideSyncer
<1>2. CASE syncer[e] # NoPlayer /\ syncer[e] = p
  BY <1>2 DEF OverrideSyncer, Assigned, AssignedType, SyncerTold
<1>3. CASE syncer[e] # NoPlayer /\ syncer[e] # p
  <2> DEFINE f == [op |-> "override", p |-> p, e |-> e, pers |-> pers]
  <2>1. StopSync(e, <<f>> \o below)
    BY <1>3 DEF OverrideSyncer
  <2>2. f \in Frame /\ FrameLive(f, status) /\ f.op # "leave"
    BY DEF Frame, FrameLive
  <2>3. StackOK(<<f>> \o below, status)
    BY <2>2, PushStack
  <2> QED
    BY <2>1, <2>3, StopSyncKeeps
<1> QED
  BY <1>1, <1>2, <1>3

LEMMA FindKeeps ==
    ASSUME Assigned, WorldType, UNCHANGED status,
           NEW below, StackOK(below, status),
           NEW e \in Elements, FindSyncer(e, below)
    PROVE  Assigned'
<1>1. CASE driver[e] # NoPlayer /\ Alive(driver[e])
  <2>1. driver[e] \in Players /\ status[driver[e]] # "freed"
    BY <1>1 DEF WorldType, Alive
  <2> QED
    BY <1>1, <2>1, StartSyncKeeps DEF FindSyncer
<1>2. CASE ~(driver[e] # NoPlayer /\ Alive(driver[e])) /\ Candidates(e) = {}
  BY <1>2, UnchangedKeeps DEF FindSyncer
<1>3. CASE ~(driver[e] # NoPlayer /\ Alive(driver[e])) /\ Candidates(e) # {}
  <2>1. PICK p \in Candidates(e) : StartSync(p, e, below)
    BY <1>3 DEF FindSyncer
  <2>2. p \in Players /\ status[p] # "freed"
    BY <2>1 DEF Candidates
  <2> QED
    BY <2>1, <2>2, StartSyncKeeps
<1> QED
  BY <1>1, <1>2, <1>3

\* The frame that looks for a syncer.
LEMMA FindStack ==
    ASSUME NEW below, StackOK(below, status), NEW e \in Elements
    PROVE  StackOK(<<[op |-> "find", e |-> e]>> \o below, status)
<1> DEFINE f == [op |-> "find", e |-> e]
<1>1. f \in Frame /\ FrameLive(f, status) /\ f.op # "leave"
  BY DEF Frame, FrameLive
<1> QED
  BY <1>1, PushStack

LEMMA UpdateVehicleKeeps ==
    ASSUME Assigned, WorldType, DriversLive, UNCHANGED status,
           NEW below, StackOK(below, status),
           NEW e \in Elements, UpdateVehicle(e, below)
    PROVE  Assigned'
<1>1. CASE ~syncable[e]
  BY <1>1, UnchangedKeeps, StopSyncKeeps DEF UpdateVehicle
<1>2. CASE syncable[e] /\ driver[e] # NoPlayer /\ ~persistent["vehicle"]
  <2> DEFINE p == driver[e]
             f == [op |-> "start", p |-> p, e |-> e]
  <2>1. p \in Players /\ status[p] # "freed"
    BY <1>2 DEF WorldType, DriversLive
  <2>2. \/ Unchanged(below)
        \/ StartSync(p, e, below)
        \/ StopSync(e, <<f>> \o below)
    BY <1>2 DEF UpdateVehicle
  <2>3. f \in Frame /\ FrameLive(f, status) /\ f.op # "leave"
    BY <2>1 DEF Frame, FrameLive
  <2>4. StackOK(<<f>> \o below, status)
    BY <2>3, PushStack
  <2> HIDE DEF p, f
  <2> QED
    BY <2>1, <2>2, <2>4, UnchangedKeeps, StartSyncKeeps, StopSyncKeeps
<1>3. CASE syncable[e] /\ ~(driver[e] # NoPlayer /\ ~persistent["vehicle"])
  <2>1. \/ Unchanged(below)
        \/ FindSyncer(e, below)
        \/ StopSync(e, <<[op |-> "find", e |-> e]>> \o below)
    BY <1>3 DEF UpdateVehicle
  <2> QED
    BY <2>1, UnchangedKeeps, FindKeeps, FindStack, StopSyncKeeps
<1> QED
  BY <1>1, <1>2, <1>3

LEMMA UpdatePedKeeps ==
    ASSUME Assigned, WorldType, UNCHANGED status,
           NEW below, StackOK(below, status),
           NEW e \in Elements, UpdatePed(e, below)
    PROVE  Assigned'
<1>1. \/ Unchanged(below) \/ StopSync(e, below) \/ FindSyncer(e, below)
      \/ StopSync(e, <<[op |-> "find", e |-> e]>> \o below)
  BY DEF UpdatePed
<1> QED
  BY <1>1, UnchangedKeeps, FindKeeps, FindStack, StopSyncKeeps

-----------------------------------------------------------------------------
(* What the actions keep.                                                  *)

\* The innermost call and the calls below it.
LEMMA RunningFrame ==
    ASSUME Assigned, NEW op, Running(op)
    PROVE  /\ Top \in Frame /\ Top.op = op /\ FrameLive(Top, status)
           /\ StackOK(stack, status) /\ StackOK(Tail(stack), status)
           /\ op = "leave" => Tail(stack) = <<>>
BY PopStack DEF Assigned, Running, Top

\* The steps that leave the world alone and assign as one of the operators does.
LEMMA CallsKeep ==
    ASSUME IInv, Overridden \/ DriverStarts \/ FindNext \/ UpdateDone
    PROVE  IInv'
<1> USE DEF IInv
<1>1. UNCHANGED status /\ WorldType' /\ DriversLive'
  BY DEF Overridden, DriverStarts, FindNext, UpdateDone, world, WorldType, DriversLive
<1>2. CASE Overridden
  <2>1. /\ Top.e \in Elements /\ Top.p \in Players \cup {NoPlayer} /\ Top.pers \in BOOLEAN
        /\ Top.p # NoPlayer => status[Top.p] # "freed"
        /\ StackOK(Tail(stack), status)
    BY <1>2, RunningFrame DEF Overridden, Frame, FrameLive
  <2> QED
    BY <1>1, <1>2, <2>1, AssignKeeps DEF Overridden
<1>3. CASE DriverStarts
  <2>1. /\ Top.e \in Elements /\ Top.p \in Players /\ Top.p # NoPlayer
        /\ Top.p # NoPlayer => status[Top.p] # "freed"
        /\ StackOK(Tail(stack), status)
    BY <1>3, RunningFrame, SyncerAssignmentType DEF DriverStarts, Frame, FrameLive
  <2> QED
    BY <1>1, <1>3, <2>1, StartSyncKeeps DEF DriverStarts
<1>4. CASE FindNext
  <2>1. Top.e \in Elements /\ StackOK(Tail(stack), status)
    BY <1>4, RunningFrame DEF FindNext, Frame
  <2> QED
    BY <1>1, <1>4, <2>1, FindKeeps, UnchangedKeeps DEF FindNext
<1>5. CASE UpdateDone
  <2>1. StackOK(Tail(stack), status)
    BY <1>5, RunningFrame DEF UpdateDone
  <2> QED
    BY <1>1, <1>5, <2>1, UnchangedKeeps DEF UpdateDone
<1> QED
  BY <1>2, <1>3, <1>4, <1>5

LEMMA UpdateNextKeeps ==
    ASSUME IInv, UpdateNext
    PROVE  IInv'
<1> USE DEF IInv
<1>1. UNCHANGED status /\ WorldType' /\ DriversLive'
  BY DEF UpdateNext, world, WorldType, DriversLive
<1>2. Top \in [op : {"update"}, kind : Kinds, left : SUBSET Elements, last : SUBSET Elements]
  BY RunningFrame DEF UpdateNext, Frame
<1>3. PICK e \in LeftToUpdate :
        LET f == [Top EXCEPT !.left = LeftToUpdate \ {e}, !.last = {e}]
        IN \/ UpdatePed(e, <<f>> \o Tail(stack))
           \/ UpdateVehicle(e, <<f>> \o Tail(stack))
  BY DEF UpdateNext
<1> DEFINE f == [Top EXCEPT !.left = LeftToUpdate \ {e}, !.last = {e}]
<1>4. e \in Elements /\ LeftToUpdate \subseteq Elements
  BY <1>2, <1>3 DEF LeftToUpdate
<1>5. f \in Frame /\ f.op = "update"
  BY <1>2, <1>4 DEF Frame
<1>6. StackOK(<<f>> \o Tail(stack), status)
  <2>1. StackOK(Tail(stack), status)
    BY RunningFrame DEF UpdateNext
  <2> HIDE DEF f
  <2> QED
    BY <1>5, <2>1, PushStack DEF FrameLive
<1> QED
  BY <1>1, <1>3, <1>4, <1>6, UpdatePedKeeps, UpdateVehicleKeeps

\* The destructor of a player: the calls of its handlers are on top of it, and
\* nothing is below it, so that no call still knows the player when he is freed.
LEMMA LeaveKeeps ==
    ASSUME IInv, PlayerStopsSync \/ PlayerLeaves
    PROVE  IInv'
<1> USE DEF IInv
<1>1. CASE PlayerStopsSync
  <2>1. WorldType' /\ DriversLive'
    BY <1>1 DEF PlayerStopsSync, world, WorldType, DriversLive
  <2>2. AssignedType' /\ SyncerTold'
    BY <1>1 DEF PlayerStopsSync, world, Assigned, AssignedType, SyncerTold
  <2>3. StackOK(stack, status)'
    BY <1>1, ScriptStack DEF PlayerStopsSync, world, Assigned
  <2> QED
    BY <2>1, <2>2, <2>3 DEF Assigned
<1>2. CASE PlayerLeaves
  <2>1. Top.p \in Players /\ stack' = <<>>
    BY <1>2, RunningFrame DEF PlayerLeaves, Frame
  <2>2. WorldType'
    BY <1>2, <2>1 DEF PlayerLeaves, SeatsLeftBy, WorldType
  <2>3. DriversLive'
    BY <1>2, <2>1 DEF PlayerLeaves, SeatsLeftBy, WorldType, DriversLive
  <2>4. AssignedType'
    BY <1>2 DEF PlayerLeaves, assigned, Assigned, AssignedType
  <2>5. \A e \in Elements : syncer[e] # Top.p
    BY <1>2 DEF PlayerLeaves, SyncedBy
  <2>6. SyncerTold'
    BY <1>2, <2>1, <2>5 DEF PlayerLeaves, assigned, WorldType, Assigned, AssignedType, SyncerTold
  <2>7. StackOK(stack, status)'
    BY <2>1, EmptyStack
  <2> QED
    BY <2>2, <2>3, <2>4, <2>6, <2>7 DEF Assigned
<1> QED
  BY <1>1, <1>2

\* A script, or a packet, that asks for another syncer names a player alive.
LEMMA SetElementSyncerKeeps ==
    ASSUME IInv, NEW e \in Elements, NEW p \in Players \cup {NoPlayer},
           NEW enable \in BOOLEAN, NEW pers \in Persist, SetElementSyncer(e, p, enable, pers)
    PROVE  IInv'
<1> USE DEF IInv
<1>1. UNCHANGED status /\ WorldType' /\ DriversLive'
  BY SyncerAssignmentType DEF SetElementSyncer, InScript, world, WorldType, DriversLive
<1>2. p # NoPlayer => status[p] # "freed"
  BY DEF SetElementSyncer, Alive
<1>3. StackOK(stack, status) /\ pers \in BOOLEAN
  BY SyncerAssignmentType DEF Assigned
<1> QED
  BY <1>1, <1>2, <1>3, OverrideKeeps DEF SetElementSyncer

LEMMA PlayerKeeps ==
    ASSUME IInv, NEW p \in Players, NEW e \in Elements, Push(p, e) \/ StartEnter(p, e)
    PROVE  IInv'
<1> USE DEF IInv
<1>1. UNCHANGED status /\ WorldType' /\ DriversLive'
  BY DEF Push, StartEnter, world, WorldType, DriversLive
<1>2. status[p] # "freed" /\ StackOK(<<>>, status)
  BY EmptyStack DEF Push, StartEnter, Alive
<1> QED
  BY <1>1, <1>2, OverrideKeeps DEF Push, StartEnter

LEMMA ExitKeeps ==
    ASSUME IInv, NEW e \in Elements, Exit(e)
    PROVE  IInv'
<1> USE DEF IInv
<1>1. UNCHANGED status /\ WorldType' /\ DriversLive'
  BY DEF Exit, WorldType, DriversLive
<1>2. driver[e] \in Players /\ status[driver[e]] # "freed" /\ StackOK(<<>>, status)
  BY EmptyStack DEF Exit, WorldType, Alive
<1> QED
  BY <1>1, <1>2, OverrideKeeps, UnchangedKeeps DEF Exit

\* What is destroyed is not freed yet, and who is freed is nobody's syncer.
LEMMA DestroyKeeps ==
    ASSUME IInv, NEW x \in Elements \cup Players, Destroy(x) \/ Free(x)
    PROVE  IInv'
<1> USE DEF IInv
<1>1. CASE Destroy(x)
  <2>1. /\ UNCHANGED <<assigned, syncable, place, driver, moves, stack>>
        /\ status' = [status EXCEPT ![x] = "deleting"]
    BY <1>1 DEF Destroy
  <2>2. \A y \in Players : status[y] # "freed" => status'[y] # "freed"
    BY <2>1 DEF WorldType
  <2>3. calls' \in 0 .. MaxCalls
    BY <1>1, SyncerAssignmentType DEF Destroy, InScript, WorldType
  <2>4. WorldType' /\ DriversLive'
    BY <2>1, <2>2, <2>3 DEF WorldType, DriversLive
  <2>5. AssignedType' /\ SyncerTold'
    BY <2>1, <2>2 DEF assigned, Assigned, AssignedType, SyncerTold
  <2>6. StackOK(stack, status')
    <3>1. \A f \in Frame : FrameLive(f, status) => FrameLive(f, status')
      BY <2>2 DEF Frame, FrameLive
    <3>2. \A i \in 1 .. Len(stack) : stack[i] \in Frame
      BY DEF Assigned, StackOK
    <3> QED
      BY <3>1, <3>2 DEF Assigned, StackOK
  <2> QED
    BY <2>1, <2>4, <2>5, <2>6 DEF Assigned
<1>2. CASE Free(x)
  <2>1. UNCHANGED <<persistent, told, syncable, place, moves, calls>> /\ stack = <<>>
    BY <1>2 DEF Free, Idle
  <2>2. CASE x \in Players
    <3>1. stack' = <<[op |-> "leave", p |-> x]>> /\ UNCHANGED <<syncer, status, driver>>
      BY <1>2, <2>2 DEF Free
    <3>2. StackOK(stack', status)
      <4>1. [op |-> "leave", p |-> x] \in Frame
        BY <2>2 DEF Frame
      <4> QED
        BY <3>1, <4>1 DEF StackOK, FrameLive
    <3> QED
      BY <2>1, <3>1, <3>2 DEF WorldType, DriversLive, Assigned, AssignedType, SyncerTold
  <2>3. CASE x \notin Players
    <3>1. /\ syncer' = [syncer EXCEPT ![x] = NoPlayer]
          /\ status' = [status EXCEPT ![x] = "freed"]
          /\ driver' = SeatsLeftBy(x)
          /\ stack' = <<>>
      BY <1>2, <2>1, <2>3 DEF Free
    <3>2. \A y \in Players : status'[y] = status[y]
      BY <2>3, <3>1 DEF WorldType
    <3>3. WorldType' /\ DriversLive'
      BY <2>1, <3>1, <3>2 DEF WorldType, DriversLive, SeatsLeftBy
    <3>4. AssignedType' /\ SyncerTold'
      BY <2>1, <3>1, <3>2 DEF Assigned, AssignedType, SyncerTold
    <3> QED
      BY <3>1, <3>3, <3>4, EmptyStack DEF Assigned
  <2> QED
    BY <2>2, <2>3
<1> QED
  BY <1>1, <1>2

\* The steps that assign nothing.
LEMMA OtherStepsKeep ==
    ASSUME IInv,
           \/ UpdateBreaks \/ ScriptReturns \/ ScriptStarts \/ UNCHANGED vars
           \/ \E k \in Kinds : Update(k)
           \/ \E p \in Players, e \in Elements :
                \/ Enter(p, e)
                \/ \E where \in Places : Move(p, e, where)
    PROVE  IInv'
<1> USE DEF IInv
<1>1. CASE UpdateBreaks \/ UNCHANGED vars
  BY <1>1 DEF UpdateBreaks, vars, assigned, world, WorldType, DriversLive,
              Assigned, AssignedType, SyncerTold
<1>2. CASE ScriptReturns \/ ScriptStarts \/ \E k \in Kinds : Update(k)
  <2>1. UNCHANGED <<assigned, syncable, world, calls>>
    BY <1>2 DEF ScriptReturns, ScriptStarts, Update
  <2>2. WorldType' /\ DriversLive' /\ AssignedType' /\ SyncerTold'
    BY <2>1 DEF assigned, world, WorldType, DriversLive, Assigned, AssignedType, SyncerTold
  <2>3. StackOK(stack', status)
    <3>1. CASE ScriptReturns
      BY <3>1, RunningFrame DEF ScriptReturns
    <3>2. CASE ScriptStarts
      <4>1. Script \in Frame /\ FrameLive(Script, status) /\ Script.op = "script"
        BY DEF Script, Frame, FrameLive
      <4>2. stack' = <<Script>>
        BY <3>2 DEF ScriptStarts
      <4> QED
        BY <4>1, <4>2 DEF StackOK
    <3>3. ASSUME NEW k \in Kinds, Update(k) PROVE StackOK(stack', status)
      <4> DEFINE f == [op |-> "update", kind |-> k, last |-> {},
                       left |-> {e \in Elements : Kind(e) = k /\ Alive(e)}]
      <4>1. f \in Frame /\ FrameLive(f, status) /\ f.op = "update"
        BY DEF Frame, FrameLive
      <4>2. stack' = <<f>>
        BY <3>3 DEF Update
      <4> HIDE DEF f
      <4> QED
        BY <4>1, <4>2 DEF StackOK
    <3> QED
      BY <1>2, <3>1, <3>2, <3>3
  <2> QED
    BY <2>1, <2>2, <2>3 DEF Assigned, world
<1>3. ASSUME NEW p \in Players, NEW e \in Elements,
             Enter(p, e) \/ \E where \in Places : Move(p, e, where)
      PROVE  IInv'
  <2>1. UNCHANGED <<assigned, syncable, status, stack, calls>>
    BY <1>3 DEF Enter, Move
  <2>2. WorldType' /\ DriversLive'
    BY <1>3, SyncerAssignmentType DEF Enter, Move, Alive, WorldType, DriversLive
  <2> QED
    BY <2>1, <2>2 DEF assigned, Assigned, AssignedType, SyncerTold
<1> QED
  BY <1>1, <1>2, <1>3

-----------------------------------------------------------------------------
LEMMA InvInit == Init => IInv
<1> SUFFICES ASSUME Init PROVE IInv
  OBVIOUS
<1>1. WorldType /\ DriversLive
  BY SyncerAssignmentType DEF Init, WorldType, DriversLive, Places
<1>2. AssignedType /\ SyncerTold
  BY SyncerAssignmentType DEF Init, AssignedType, SyncerTold
<1>3. StackOK(stack, status)
  BY EmptyStack DEF Init
<1> QED
  BY <1>1, <1>2, <1>3 DEF IInv, Assigned

LEMMA InvNext == IInv /\ [Next]_vars => IInv'
<1> SUFFICES ASSUME IInv, [Next]_vars PROVE IInv'
  OBVIOUS
<1>1. CASE Code
  BY <1>1, CallsKeep, UpdateNextKeeps, LeaveKeeps, OtherStepsKeep DEF Code
<1>2. ASSUME NEW e \in Elements, NEW p \in Players \cup {NoPlayer},
             NEW enable \in BOOLEAN, NEW pers \in Persist,
             SetElementSyncer(e, p, enable, pers)
      PROVE  IInv'
  BY <1>2, SetElementSyncerKeeps
<1>3. CASE \E x \in Elements \cup Players : Destroy(x) \/ Free(x)
  BY <1>3, DestroyKeeps
<1>4. ASSUME NEW p \in Players, NEW e \in Elements,
             \/ Push(p, e) \/ StartEnter(p, e) \/ Enter(p, e)
             \/ \E where \in Places : Move(p, e, where)
      PROVE  IInv'
  BY <1>4, PlayerKeeps, OtherStepsKeep
<1>5. CASE \E e \in Elements : Exit(e)
  BY <1>5, ExitKeeps
<1>6. CASE ScriptStarts \/ (\E k \in Kinds : Update(k)) \/ UNCHANGED vars
  BY <1>6, OtherStepsKeep
<1> QED
  BY <1>1, <1>2, <1>3, <1>4, <1>5, <1>6 DEF Next

LEMMA Invariance == Spec => []IInv
BY InvInit, InvNext, PTL DEF Spec

\* The variables of SyncerAssignment have their types in every reachable state.
THEOREM TypeCorrect == Spec => []TypeOK
<1>1. IInv => TypeOK
  BY DEF IInv, WorldType, Assigned, AssignedType, TypeOK
<1> QED
  BY <1>1, Invariance, PTL

\* Whatever handlers do between the steps of a change of syncer, and whenever a
\* player is destroyed, the syncer of an element is a player who still exists
\* and who was told to sync it and not to stop (CUnoccupiedVehicleSync,
\* CPedSync, CPlayer::~CPlayer).
THEOREM SyncersTold == Spec => []SyncerTold
<1>1. IInv => SyncerTold
  BY DEF IInv, Assigned
<1> QED
  BY <1>1, Invariance, PTL
=============================================================================
