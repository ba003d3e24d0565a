------------------------ MODULE DatabaseClientProofs ------------------------
(***************************************************************************)
(* Theorems about what the clients of DatabaseJobQueue rely on: the calls  *)
(* of the main thread and the jobs they use, on top of the structure that  *)
(* DatabaseJobQueueProofs shows.                                           *)
(***************************************************************************)
EXTENDS DatabaseJobQueueProofs

-----------------------------------------------------------------------------
(* Calls in progress.                                                      *)

JobOps == {"poll", "collect", "free"}

\* The calls on a stack s use jobs of A, have collected jobs of F, and a pulse is
\* below all others; while it sweeps the results, there are no others.
Stacked(s, A, F) ==
    \A i \in DOMAIN s :
        /\ s[i].op \in JobOps => s[i].job \in A
        /\ s[i].op = "collect" => s[i].job \in F
        /\ s[i].op = "pulse" => i = Len(s) /\ (s[i].at = "scan" => i = 1)

\* A frame that may be on such a stack.
Uses(f, A, F) ==
    /\ f.op \in JobOps => f.job \in A
    /\ f.op = "collect" => f.job \in F

Sweeping(s) == s # <<>> /\ Head(s).op = "pulse" /\ Head(s).at = "scan"

LEMMA PushPositions ==
    ASSUME NEW s \in Seq(Frame), NEW f \in Frame
    PROVE  /\ Push(f, s) \in Seq(Frame) /\ Push(f, s) # <<>> /\ Len(s) \in Nat
           /\ Len(Push(f, s)) = Len(s) + 1
           /\ DOMAIN s = 1..Len(s) /\ DOMAIN Push(f, s) = 1..Len(s) + 1
           /\ Head(Push(f, s)) = f /\ Tail(Push(f, s)) = s
           /\ Push(f, s)[1] = f
           /\ \A i \in 1..Len(s) + 1 : i # 1 => i - 1 \in 1..Len(s) /\ Push(f, s)[i] = s[i - 1]
<1>1. <<f>> \in Seq(Frame) /\ Len(<<f>>) = 1 /\ <<f>>[1] = f
  OBVIOUS
<1>2. Len(s) \in Nat /\ DOMAIN s = 1..Len(s)
  BY LenProperties
<1> DEFINE r == Push(f, s)
<1>3. /\ r \in Seq(Frame) /\ Len(r) = 1 + Len(s)
      /\ \A i \in 1..1 + Len(s) : r[i] = IF i <= 1 THEN <<f>>[i] ELSE s[i - 1]
  BY <1>1, ConcatProperties DEF Push
<1>4. DOMAIN r = 1..Len(r)
  BY <1>3, LenProperties
<1>5. r # <<>> /\ Head(r) = f /\ Tail(r) = s
  BY DEF Push
<1> HIDE DEF r
<1>6. Len(r) = Len(s) + 1 /\ r[1] = f
  BY <1>1, <1>2, <1>3
<1>7. ASSUME NEW i \in 1..Len(s) + 1, i # 1
      PROVE  i - 1 \in 1..Len(s) /\ r[i] = s[i - 1]
  <2>1. ~(i <= 1) /\ i \in 1..1 + Len(s) /\ i - 1 \in 1..Len(s)
    BY <1>2, <1>7
  <2> QED
    BY <1>3, <2>1
<1> QED
  BY <1>2, <1>3, <1>4, <1>5, <1>6, <1>7 DEF r

LEMMA TailPositions ==
    ASSUME NEW s \in Seq(Frame), s # <<>>
    PROVE  /\ Tail(s) \in Seq(Frame) /\ Len(Tail(s)) = Len(s) - 1 /\ Len(s) \in Nat \ {0}
           /\ DOMAIN s = 1..Len(s) /\ DOMAIN Tail(s) = 1..Len(s) - 1
           /\ Head(s) = s[1] /\ Head(s) \in Frame /\ 1 \in DOMAIN s
           /\ \A i \in 1..Len(s) - 1 : i + 1 \in 1..Len(s) /\ i + 1 # 1 /\ Tail(s)[i] = s[i + 1]
<1>1. /\ Tail(s) \in Seq(Frame) /\ Len(Tail(s)) = Len(s) - 1 /\ Head(s) \in Frame
      /\ \A i \in 1..Len(Tail(s)) : Tail(s)[i] = s[i + 1]
  BY HeadTailProperties
<1>2. Len(s) \in Nat \ {0} /\ DOMAIN s = 1..Len(s)
  BY EmptySeq, LenProperties
<1>3. DOMAIN Tail(s) = 1..Len(Tail(s))
  BY <1>1, LenProperties
<1>4. Head(s) = s[1]
  OBVIOUS
<1>5. \A i \in 1..Len(s) - 1 : i + 1 \in 1..Len(s) /\ i + 1 # 1
  BY <1>2
<1> QED
  BY <1>1, <1>2, <1>3, <1>4, <1>5

\* Calls begin, end, and give way to others.
LEMMA StackedPush ==
    ASSUME NEW A, NEW F, NEW s \in Seq(Frame), Stacked(s, A, F), NEW f \in Frame,
           f.op # "pulse", Uses(f, A, F), ~Sweeping(s)
    PROVE  Stacked(Push(f, s), A, F) /\ ~Sweeping(Push(f, s))
<1> DEFINE r == Push(f, s)
<1>1. /\ Len(s) \in Nat /\ Len(r) = Len(s) + 1 /\ DOMAIN s = 1..Len(s) /\ DOMAIN r = 1..Len(s) + 1
      /\ r # <<>> /\ Head(r) = f /\ r[1] = f
      /\ \A i \in 1..Len(s) + 1 : i # 1 => i - 1 \in 1..Len(s) /\ r[i] = s[i - 1]
  BY PushPositions
<1> HIDE DEF r
<1>2. \A i \in 1..Len(s) : ~(s[i].op = "pulse" /\ s[i].at = "scan")
  <2> SUFFICES ASSUME NEW i \in 1..Len(s), s[i].op = "pulse", s[i].at = "scan"
               PROVE  FALSE
    OBVIOUS
  <2>1. i = 1 /\ s # <<>>
    BY <1>1 DEF Stacked
  <2>2. Head(s) = s[1]
    BY <2>1
  <2> QED
    BY <2>1, <2>2 DEF Sweeping
<1>3. ASSUME NEW i \in DOMAIN r
      PROVE  /\ r[i].op \in JobOps => r[i].job \in A
             /\ r[i].op = "collect" => r[i].job \in F
             /\ r[i].op = "pulse" => i = Len(r) /\ (r[i].at = "scan" => i = 1)
  <2>1. CASE i = 1
    BY <1>1, <2>1 DEF Uses
  <2>2. CASE i # 1
    <3>1. i - 1 \in 1..Len(s) /\ r[i] = s[i - 1] /\ i - 1 \in DOMAIN s
      BY <1>1, <2>2
    <3>2. i - 1 = Len(s) => i = Len(r)
      BY <1>1
    <3> QED
      BY <1>2, <3>1, <3>2 DEF Stacked
  <2> QED
    BY <2>1, <2>2
<1> QED
  BY <1>1, <1>3 DEF Stacked, Sweeping, r

LEMMA StackedTail ==
    ASSUME NEW A, NEW F, NEW s \in Seq(Frame), Stacked(s, A, F), s # <<>>
    PROVE  Stacked(Tail(s), A, F) /\ ~Sweeping(Tail(s))
<1> DEFINE r == Tail(s)
<1>1. /\ Len(s) \in Nat \ {0} /\ DOMAIN s = 1..Len(s) /\ DOMAIN r = 1..Len(s) - 1
      /\ r \in Seq(Frame) /\ Len(r) = Len(s) - 1
      /\ \A i \in 1..Len(s) - 1 : i + 1 \in 1..Len(s) /\ i + 1 # 1 /\ r[i] = s[i + 1]
  BY TailPositions
<1>2. r # <<>> => Head(r) = r[1] /\ 1 \in DOMAIN r
  BY <1>1, TailPositions
<1> HIDE DEF r
<1>3. ASSUME NEW i \in DOMAIN r
      PROVE  /\ r[i].op \in JobOps => r[i].job \in A
             /\ r[i].op = "collect" => r[i].job \in F
             /\ r[i].op = "pulse" => i = Len(r) /\ r[i].at # "scan"
  <2>1. i + 1 \in DOMAIN s /\ r[i] = s[i + 1] /\ i + 1 # 1
    BY <1>1
  <2>2. i + 1 = Len(s) => i = Len(r)
    BY <1>1
  <2> QED
    BY <2>1, <2>2 DEF Stacked
<1> QED
  BY <1>2, <1>3 DEF Stacked, Sweeping, r

\* The innermost call gives way to another, a pulse only to a pulse.
LEMMA StackedReplace ==
    ASSUME NEW A, NEW F, NEW s \in Seq(Frame), Stacked(s, A, F), s # <<>>, NEW f \in Frame,
           f.op = "pulse" => Head(s).op = "pulse", Uses(f, A, F)
    PROVE  Stacked(Push(f, Tail(s)), A, F)
<1> DEFINE t == Tail(s)
           r == Push(f, t)
<1>1. /\ Len(s) \in Nat \ {0} /\ DOMAIN s = 1..Len(s) /\ Len(t) = Len(s) - 1
      /\ t \in Seq(Frame) /\ Head(s) = s[1] /\ 1 \in DOMAIN s
  BY TailPositions
<1>2. Stacked(t, A, F) /\ ~Sweeping(t)
  BY StackedTail
<1>3. CASE f.op # "pulse"
  BY <1>1, <1>2, <1>3, StackedPush
<1>4. CASE f.op = "pulse"
  <2>1. Len(s) = 1
    BY <1>1, <1>4 DEF Stacked
  <2> HIDE DEF t
  <2>2. Len(t) = 0 /\ Len(r) = 1 /\ DOMAIN r = 1..1 /\ r[1] = f
    <3>1. t \in Seq(Frame)
      BY <1>1
    <3>2. Len(r) = Len(t) + 1 /\ DOMAIN r = 1..Len(t) + 1 /\ r[1] = f
      BY <3>1, PushPositions
    <3>3. Len(t) = 0
      BY <1>1, <2>1
    <3> QED
      BY <3>2, <3>3
  <2> HIDE DEF r
  <2>3. \A i \in DOMAIN r : i = 1
    BY <2>2
  <2>4. Stacked(r, A, F)
    BY <1>4, <2>2, <2>3 DEF Stacked, Uses
  <2> QED
    BY <2>4 DEF t, r
<1> QED
  BY <1>3, <1>4

\* More jobs are alive, or collected.
LEMMA StackedMore ==
    ASSUME NEW A, NEW F, NEW B, NEW G, A \subseteq B, F \subseteq G, NEW s, Stacked(s, A, F)
    PROVE  Stacked(s, B, G)
BY DEF Stacked

-----------------------------------------------------------------------------
(* No call uses a deleted job, and no callback is lost.                    *)

\* The results before the one that a pulse looks at need no callback.
SweptClean ==
    Sweeping(stack) => /\ mutex = "main"
                       /\ \A k \in 1..Len(resultQueue) : k < Top.pos => ~HasCallback(resultQueue[k])

Calls ==
    /\ Stacked(stack, Active, finishedList)
    /\ \A j \in finishedList : ~HasCallback(j)
    /\ ignored \subseteq Active
    /\ SweptClean

\* The jobs in the queues are jobs, and alive.
LEMMA QueuedAreActive ==
    ASSUME Structure
    PROVE  QueuedJobs \cup ResultJobs \subseteq Active
<1>1. commandQueue \in Seq(Jobs) /\ resultQueue \in Seq(Jobs)
  BY DEF Structure, TypeOK
<1>2. /\ DOMAIN commandQueue = 1..Len(commandQueue) /\ DOMAIN resultQueue = 1..Len(resultQueue)
      /\ \A i \in 1..Len(commandQueue) : commandQueue[i] \in Jobs
      /\ \A i \in 1..Len(resultQueue) : resultQueue[i] \in Jobs
  BY <1>1, LenProperties, ElementOfSeq
<1>3. QueuedJobs \subseteq Jobs /\ ResultJobs \subseteq Jobs
  BY <1>2 DEF QueuedJobs, ResultJobs
<1>4. \A j \in Jobs : j \in QueuedJobs \cup ResultJobs => stage[j] # "NONE"
  BY DEF Structure, JobPlacement
<1> QED
  BY <1>3, <1>4 DEF Active

\* A new command is alive, not finished, and was never given up.
LEMMA AddCommandCalls ==
    ASSUME Structure, Calls, NEW j \in Jobs, NEW type, NEW c, NEW cb, AddCommand(j, type, c, cb)
    PROVE  /\ j \notin Active /\ j \notin finishedList /\ j \notin ignored
           /\ Active' = Active \cup {j} /\ UNCHANGED <<ignored, finishedList, resultQueue>>
           /\ \A k \in Jobs : k # j => callback'[k] = callback[k]
           /\ \A k \in finishedList : ~HasCallback(k)'
           /\ ignored' \subseteq Active'
<1>1. /\ stage[j] = "NONE" /\ stage' = [stage EXCEPT ![j] = "COMMAND_QUEUE"]
      /\ callback' = [callback EXCEPT ![j] = cb] /\ UNCHANGED <<ignored, finishedList, resultQueue>>
  BY DEF AddCommand
<1>2. stage \in [Jobs -> EJobStage] /\ callback \in [Jobs -> Callbacks] /\ finishedList \subseteq Jobs
  BY DEF Structure, TypeOK
<1>3. j \notin Active /\ Active' = Active \cup {j}
  BY <1>1, <1>2 DEF Active
<1>4. j \notin finishedList
  BY <1>1 DEF Structure, JobPlacement
<1>5. \A k \in Jobs : k # j => callback'[k] = callback[k]
  BY <1>1, <1>2
<1>6. \A k \in finishedList : ~HasCallback(k)'
  BY <1>2, <1>4, <1>5 DEF Calls, HasCallback
<1> QED
  BY <1>1, <1>3, <1>4, <1>5, <1>6 DEF Calls

\* The steps of scripts leave a call, or a script, on top.
LEMMA ClientOpCalls ==
    ASSUME Structure, Calls, ClientOp
    PROVE  Calls'
<1>0. stack \in Seq(Frame) /\ stage \in [Jobs -> EJobStage] /\ callback \in [Jobs -> Callbacks]
      /\ finishedList \subseteq Jobs
  BY DEF Structure, TypeOK
<1>1. ScriptRunning /\ ~Sweeping(stack)
  BY DEF ClientOp, QueryStart, Exec, QueryWithResult, AddQuery, Connect, Disconnect,
         DisconnectUnknown, DbPoll, DbFree, SetLogLevel, ScriptRunning, In, Top, Sweeping
<1>2. ASSUME NEW j \in Jobs, NEW type, NEW c, NEW cb, AddCommand(j, type, c, cb),
             UNCHANGED stack \/ \E f \in {FreeOf(j), PollOf(j, "infinite")} : stack' = Push(f, stack)
      PROVE  Calls'
  <2>1. /\ Active' = Active \cup {j} /\ finishedList' = finishedList
        /\ \A k \in finishedList : ~HasCallback(k)'
        /\ ignored' \subseteq Active'
    BY <1>2, AddCommandCalls
  <2>2. Stacked(stack, Active', finishedList')
    BY <2>1, StackedMore DEF Calls
  <2>3. CASE UNCHANGED stack
    BY <1>1, <2>1, <2>2, <2>3 DEF Calls, SweptClean, Sweeping
  <2>4. ASSUME NEW f \in {FreeOf(j), PollOf(j, "infinite")}, stack' = Push(f, stack)
        PROVE  Calls'
    <3>1. f \in Frame
      BY FrameTypes DEF Timeouts
    <3>2. f.op # "pulse" /\ Uses(f, Active', finishedList')
      BY <2>1 DEF FreeOf, PollOf, Uses, JobOps
    <3>3. Stacked(stack', Active', finishedList') /\ ~Sweeping(stack')
      BY <1>0, <1>1, <2>2, <2>4, <3>1, <3>2, StackedPush
    <3> QED
      BY <2>1, <3>3 DEF Calls, SweptClean
  <2> QED
    BY <1>2, <2>3, <2>4
<1>3. ASSUME NEW c \in Conns, QueryStart(c) \/ Exec(c) \/ QueryWithResult(c) \/ Connect(c) \/ Disconnect(c)
      PROVE  Calls'
  <2>1. \E j \in Jobs, type \in {"QUERY", "CONNECT", "DISCONNECT"}, cb \in {"none", "script", "log"} :
            /\ AddCommand(j, type, c, cb)
            /\ UNCHANGED stack \/ \E f \in {FreeOf(j), PollOf(j, "infinite")} : stack' = Push(f, stack)
    BY <1>3 DEF QueryStart, Exec, QueryWithResult, AddQuery, Connect, Disconnect
  <2> QED
    BY <1>2, <2>1
<1>4. CASE SetLogLevel
  BY <1>2, <1>4 DEF SetLogLevel
<1>5. ASSUME NEW c \in Conns, DisconnectUnknown(c)
      PROVE  Calls'
  <2>1. UNCHANGED <<stack, stage, callback, finishedList, ignored, resultQueue>>
    BY <1>5 DEF DisconnectUnknown, jobVars, queueVars, mainVars
  <2> QED
    BY <1>1, <2>1 DEF Calls, SweptClean, Sweeping, Active, HasCallback
<1>6. ASSUME NEW j \in Jobs, DbPoll(j) \/ DbFree(j)
      PROVE  Calls'
  <2>1. j \in Active /\ j \notin finishedList
    BY <1>6 DEF DbPoll, DbFree, Usable, Active, Structure, JobPlacement
  <2>2. UNCHANGED <<stage, finishedList, ignored>> /\ \A k \in Jobs : k # j => callback'[k] = callback[k]
    BY <1>0, <1>6 DEF DbPoll, DbFree, jobVars, queueVars
  <2>3. PICK f \in {FreeOf(j)} \cup {PollOf(j, t) : t \in Timeouts} : stack' = Push(f, stack)
    BY <1>6 DEF DbPoll, DbFree
  <2>4. f \in Frame
    BY FrameTypes
  <2>5. f.op # "pulse" /\ Uses(f, Active, finishedList)
    BY <2>1 DEF FreeOf, PollOf, Uses, JobOps
  <2>6. Stacked(stack', Active, finishedList) /\ ~Sweeping(stack')
    BY <1>0, <1>1, <2>3, <2>4, <2>5, StackedPush DEF Calls
  <2>7. Active' = Active
    BY <2>2 DEF Active
  <2>8. \A k \in finishedList : ~HasCallback(k)'
    BY <1>0, <2>1, <2>2 DEF Calls, HasCallback
  <2> QED
    BY <2>2, <2>6, <2>7, <2>8 DEF Calls, SweptClean
<1> QED
  BY <1>3, <1>4, <1>5, <1>6 DEF ClientOp

\* A callback that is called is done, and leaves a script or the release of the job on top.
LEMMA ProcessCallbackCalls ==
    ASSUME TypeOK, NEW A, NEW F, NEW j \in Jobs, j \in A, NEW st, NEW below \in Seq(Frame),
           Stacked(below, A, F), ~Sweeping(below), ProcessCallback(j, st, below)
    PROVE  /\ \A k \in Jobs : IF k = j THEN ~HasCallback(k)' ELSE callback'[k] = callback[k]
           /\ Stacked(stack', A, F) /\ ~Sweeping(stack')
           /\ stack' \in {below, Push(Script(FALSE), below), Push(Script(TRUE), below),
                          Push(FreeOf(j), below)}
           /\ st = "FINISHED" => stack' \in {below, Push(Script(TRUE), below)}
<1>1. callback' = [callback EXCEPT ![j] = IF HasCallback(j) THEN "done" ELSE @]
  BY DEF ProcessCallback
<1>2. callback \in [Jobs -> Callbacks]
  BY DEF TypeOK
<1>3. \A k \in Jobs : IF k = j THEN ~HasCallback(k)' ELSE callback'[k] = callback[k]
  BY <1>1, <1>2 DEF HasCallback
<1>4. PICK frames \in CallbackPushes(j, st) : stack' = frames \o below
  BY DEF ProcessCallback
<1>5. /\ CallbackPushes(j, st) \subseteq {<<>>, <<Script(FALSE)>>, <<Script(TRUE)>>, <<FreeOf(j)>>}
      /\ st = "FINISHED" => CallbackPushes(j, st) \subseteq {<<>>, <<Script(TRUE)>>}
  BY Zenon DEF CallbackPushes
<1>6. <<>> \o below = below
  BY ConcatEmptySeq
<1>7. /\ stack' \in {below, Push(Script(FALSE), below), Push(Script(TRUE), below), Push(FreeOf(j), below)}
      /\ st = "FINISHED" => stack' \in {below, Push(Script(TRUE), below)}
  BY <1>4, <1>5, <1>6 DEF Push
<1>8. \A f \in {Script(FALSE), Script(TRUE), FreeOf(j)} :
         f \in Frame /\ f.op # "pulse" /\ Uses(f, A, F)
  <2>1. Script(FALSE) \in Frame /\ Script(TRUE) \in Frame /\ FreeOf(j) \in Frame
    BY FrameTypes
  <2>2. \A h \in BOOLEAN : Script(h).op # "pulse" /\ Uses(Script(h), A, F)
    BY DEF Script, Uses, JobOps
  <2>3. FreeOf(j).op # "pulse" /\ Uses(FreeOf(j), A, F)
    BY DEF FreeOf, Uses, JobOps
  <2> QED
    BY <2>1, <2>2, <2>3
<1>9. \A f \in {Script(FALSE), Script(TRUE), FreeOf(j)} :
         Stacked(Push(f, below), A, F) /\ ~Sweeping(Push(f, below))
  BY <1>8, StackedPush
<1> QED
  BY <1>3, <1>7, <1>9

\* The steps of the main thread that carry a call on, except the sweep of a pulse.
LEMMA MainStepCalls ==
    ASSUME Structure, Calls, ~PulseScan, ~PulseAgain,
           MainStep \/ ScriptReturn \/ PulseStart \/ StopThread \/ Stopped
    PROVE  Calls'
<1>0. /\ TypeOK /\ stack \in Seq(Frame) /\ stage \in [Jobs -> EJobStage] /\ callback \in [Jobs -> Callbacks]
      /\ finishedList \subseteq Jobs /\ Stacked(stack, Active, finishedList)
      /\ ignored \subseteq Active /\ \A j \in finishedList : ~HasCallback(j)
  BY DEF Structure, TypeOK, Calls
<1>1. ASSUME UNCHANGED <<stage, callback, finishedList>>, ignored' \subseteq Active,
             Stacked(stack', Active, finishedList), ~Sweeping(stack')
      PROVE  Calls'
  <2>1. Active' = Active
    BY <1>1 DEF Active
  <2> QED
    BY <1>0, <1>1, <2>1 DEF Calls, SweptClean, HasCallback
<1>2. stack # <<>> => Top \in Frame /\ 1 \in DOMAIN stack /\ Top = stack[1]
                      /\ Tail(stack) \in Seq(Frame)
                      /\ Stacked(Tail(stack), Active, finishedList) /\ ~Sweeping(Tail(stack))
  BY <1>0, TailPositions, StackedTail DEF Top
<1>3. CASE FreeCommand \/ CollectConnect \/ CollectDisconnect \/ CollectQuery
           \/ PollTimeout \/ ScriptReturn \/ PulseEnd
  <2>1. /\ UNCHANGED <<stage, callback, finishedList>> /\ stack # <<>> /\ stack' = Tail(stack)
    BY <1>3 DEF FreeCommand, CollectConnect, CollectDisconnect, CollectQuery, PollTimeout,
                ScriptReturn, PulseEnd, In, jobVars, queueVars
  <2>2. ignored' \subseteq Active
    <3>1. CASE FreeCommand
      <4>1. Top.job \in Active
        BY <1>0, <1>2, <2>1, <3>1 DEF FreeCommand, In, Stacked, JobOps
      <4> QED
        BY <1>0, <3>1, <4>1 DEF FreeCommand
    <3>2. CASE CollectDisconnect
      <4>1. \A c : OnConn(c) \subseteq Active
        BY QueuedAreActive DEF OnConn
      <4> QED
        BY <1>0, <3>2, <4>1 DEF CollectDisconnect, IgnoreConnectionResults
    <3>3. CASE ~FreeCommand /\ ~CollectDisconnect
      BY <1>0, <1>3, <3>3 DEF CollectConnect, CollectQuery, PollTimeout, ScriptReturn, PulseEnd, jobVars
    <3> QED
      BY <3>1, <3>2, <3>3
  <2> QED
    BY <1>1, <1>2, <2>1, <2>2
<1>4. CASE PollWait \/ PollWake
  <2>1. /\ UNCHANGED <<stage, callback, finishedList, ignored>> /\ stack # <<>> /\ Top.op = "poll"
    BY <1>4 DEF PollWait, PollWake, In, jobVars, queueVars
  <2>2. PICK t \in Timeouts, w \in BOOLEAN :
          LET f == [Top EXCEPT !.waiting = w, !.timeout = t]
          IN  stack' = ReplaceTop(f) \/ stack' = Push(Script(TRUE), ReplaceTop(f))
    <3>1. Top \in PollFrame
      BY <1>2, <2>1, FrameFields
    <3>2. CASE PollWait
      <4>1. [Top EXCEPT !.waiting = TRUE] = [Top EXCEPT !.waiting = TRUE, !.timeout = Top.timeout]
        BY <3>1 DEF PollFrame
      <4> QED
        BY <3>1, <3>2, <4>1 DEF PollWait, PollFrame
    <3>3. CASE PollWake
      BY <3>1, <3>3 DEF PollWake, PollFrame, Timeouts
    <3> QED
      BY <1>4, <3>2, <3>3
  <2> DEFINE f == [Top EXCEPT !.waiting = w, !.timeout = t]
  <2>3. f \in Frame /\ f.op = "poll" /\ f.job = Top.job
    BY <1>2, <2>1, FrameFields DEF PollFrame, Frame
  <2> HIDE DEF f
  <2>4. Uses(f, Active, finishedList)
    BY <1>0, <1>2, <2>1, <2>3 DEF Uses, Stacked, JobOps
  <2>5. /\ ReplaceTop(f) = Push(f, Tail(stack)) /\ ReplaceTop(f) \in Seq(Frame)
        /\ Stacked(ReplaceTop(f), Active, finishedList) /\ ~Sweeping(ReplaceTop(f))
    <3>1. Stacked(Push(f, Tail(stack)), Active, finishedList)
      BY <1>0, <2>1, <2>3, <2>4, StackedReplace
    <3>2. ~Sweeping(Push(f, Tail(stack))) /\ Push(f, Tail(stack)) \in Seq(Frame)
      BY <1>2, <2>1, <2>3, PushPositions DEF Sweeping
    <3> QED
      BY <3>1, <3>2 DEF ReplaceTop
  <2>6. Script(TRUE) \in Frame /\ Script(TRUE).op # "pulse" /\ Uses(Script(TRUE), Active, finishedList)
    <3>1. Script(TRUE) \in Frame
      BY FrameTypes
    <3>2. Script(TRUE).op # "pulse" /\ Uses(Script(TRUE), Active, finishedList)
      BY DEF Script, Uses, JobOps
    <3> QED
      BY <3>1, <3>2
  <2>7. Stacked(stack', Active, finishedList) /\ ~Sweeping(stack')
    <3>1. stack' = ReplaceTop(f) \/ stack' = Push(Script(TRUE), ReplaceTop(f))
      BY <2>2 DEF f
    <3> QED
      BY <2>5, <2>6, <3>1, StackedPush
  <2> QED
    BY <1>0, <1>1, <2>1, <2>7
<1>5. CASE PulseStart
  <2>1. UNCHANGED <<stage, callback, finishedList, ignored>> /\ stack' = <<PulseAt("flush", 1)>>
    BY <1>5 DEF PulseStart, jobVars, queueVars
  <2>2. Stacked(stack', Active, finishedList) /\ ~Sweeping(stack')
    BY <2>1 DEF Stacked, Sweeping, PulseAt, JobOps
  <2> QED
    BY <1>0, <1>1, <2>1, <2>2
<1>6. CASE PulseFlushed
  <2> DEFINE f == PulseAt("again", 1)
  <2>1. /\ UNCHANGED <<stage, callback, finishedList, ignored>> /\ stack # <<>> /\ Top.op = "pulse"
        /\ stack' = Push(f, Tail(stack))
    BY <1>6 DEF PulseFlushed, In, ReplaceTop, jobVars, queueVars
  <2>2. f \in Frame
    BY FrameTypes
  <2>3. f.op = "pulse" /\ f.at # "scan" /\ Uses(f, Active, finishedList)
    BY DEF PulseAt, Uses, JobOps
  <2> HIDE DEF f
  <2>4. Stacked(stack', Active, finishedList)
    BY <1>0, <2>1, <2>2, <2>3, StackedReplace DEF Top
  <2>5. ~Sweeping(stack')
    BY <1>2, <2>1, <2>2, <2>3, PushPositions DEF Sweeping
  <2> QED
    BY <1>0, <1>1, <2>1, <2>4, <2>5
<1>7. CASE PulseFlush
  <2>1. PICK c \in pendingFlush, j \in Jobs :
            AddCommand(j, "FLUSH", c, "none") /\ stack' = Push(FreeOf(j), stack)
    BY <1>7 DEF PulseFlush
  <2>2. /\ Active' = Active \cup {j} /\ finishedList' = finishedList
        /\ \A k \in finishedList : ~HasCallback(k)'
        /\ ignored' \subseteq Active'
    BY <2>1, AddCommandCalls
  <2>3. Stacked(stack, Active', finishedList')
    BY <2>2, StackedMore DEF Calls
  <2>4. FreeOf(j) \in Frame
    BY FrameTypes
  <2>5. FreeOf(j).op # "pulse" /\ Uses(FreeOf(j), Active', finishedList')
    BY <2>2 DEF FreeOf, Uses, JobOps
  <2>6. ~Sweeping(stack)
    BY <1>7 DEF PulseFlush, Top, Sweeping
  <2>7. Stacked(stack', Active', finishedList') /\ ~Sweeping(stack')
    BY <1>0, <2>1, <2>3, <2>4, <2>5, <2>6, StackedPush
  <2> QED
    BY <2>2, <2>7 DEF Calls, SweptClean
<1>8. CASE PollFound
  <2> DEFINE j == Top.job
             f == CollectOf(j)
             F == finishedList \cup {j}
  <2>1. PICK i \in DOMAIN resultQueue :
          /\ resultQueue[i] = j /\ Finish(i)
          /\ ProcessCallback(j, "FINISHED", ReplaceTop(f))
    BY <1>8 DEF PollFound
  <2>2. j \in Jobs /\ stage[j] = "RESULT" /\ stack # <<>> /\ Top.op = "poll"
    BY <1>0, <1>8, <2>1, ElementOfSeq, LenProperties DEF TypeOK, Structure, JobPlacement, ResultJobs, PollFound, In
  <2>3. /\ finishedList' = F /\ Active' = Active /\ UNCHANGED ignored /\ j \in Active
    BY <1>0, <1>8, <2>1, <2>2 DEF PollFound, Finish, Active
  <2>4. f \in Frame
    BY <2>2, FrameTypes
  <2>5. f.op = "collect" /\ Uses(f, Active, F)
    BY <2>3 DEF CollectOf, Uses
  <2> HIDE DEF f
  <2>6. /\ Stacked(stack, Active, F)
    BY <1>0, StackedMore
  <2>7. /\ ReplaceTop(f) \in Seq(Frame) /\ ~Sweeping(ReplaceTop(f))
        /\ Stacked(ReplaceTop(f), Active, F)
    <3>1. Stacked(Push(f, Tail(stack)), Active, F)
      BY <1>0, <2>2, <2>4, <2>5, <2>6, StackedReplace
    <3>2. ~Sweeping(Push(f, Tail(stack))) /\ Push(f, Tail(stack)) \in Seq(Frame)
      BY <1>2, <2>2, <2>4, <2>5, PushPositions DEF Sweeping
    <3> QED
      BY <3>1, <3>2 DEF ReplaceTop
  <2> DEFINE below == ReplaceTop(f)
  <2>8. /\ \A k \in Jobs : IF k = j THEN ~HasCallback(k)' ELSE callback'[k] = callback[k]
        /\ Stacked(stack', Active, F) /\ ~Sweeping(stack')
    <3>1. /\ TypeOK /\ j \in Jobs /\ j \in Active /\ below \in Seq(Frame)
          /\ Stacked(below, Active, F) /\ ~Sweeping(below)
          /\ ProcessCallback(j, "FINISHED", below)
      BY <1>0, <2>1, <2>2, <2>3, <2>7
    <3> HIDE DEF below, j, F
    <3> QED
      BY <3>1, ProcessCallbackCalls
  <2>9. \A k \in F : ~HasCallback(k)'
    BY <1>0, <2>2, <2>8 DEF HasCallback
  <2> QED
    BY <1>0, <2>3, <2>8, <2>9 DEF Calls, SweptClean
<1>9. CASE StopReturn \/ StopCancel \/ StopThread \/ Stopped
  <2>1. UNCHANGED <<stage, callback, finishedList, ignored, stack, mutex, resultQueue>>
    BY <1>9 DEF StopReturn, StopCancel, StopThread, Stopped, jobVars, queueVars, mainVars, vars
  <2>2. Active' = Active
    BY <2>1 DEF Active
  <2> QED
    BY <1>0, <2>1, <2>2 DEF Calls, SweptClean, Sweeping, HasCallback, Top
<1> QED
  BY <1>3, <1>4, <1>5, <1>6, <1>7, <1>8, <1>9 DEF MainStep

\* A pulse deletes what is finished: below it there is no call.
LEMMA PulseAgainCalls ==
    ASSUME Structure, Calls, PulseAgain
    PROVE  Calls'
<1>0. /\ stack \in Seq(Frame) /\ stage \in [Jobs -> EJobStage] /\ callback \in [Jobs -> Callbacks]
      /\ finishedList \subseteq Jobs /\ resultQueue \in Seq(Jobs)
  BY DEF Structure, TypeOK
<1> DEFINE f == PulseAt("scan", 1)
<1>1. /\ stack # <<>> /\ Top.op = "pulse" /\ stack' = Push(f, Tail(stack)) /\ finishedList' = {}
      /\ ignored' = ignored \ finishedList /\ mutex' = "main" /\ resultQueue' = resultQueue
      /\ Active' = Active \ finishedList
  BY <1>0 DEF PulseAgain, In, ReplaceTop, ScanStart, Active
<1>2. f \in Frame
  BY FrameTypes
<1>3. f.op = "pulse" /\ f.at = "scan" /\ f.pos = 1 /\ Uses(f, {}, {}) /\ Uses(f, Active', {})
  BY DEF PulseAt, Uses, JobOps
<1> HIDE DEF f
<1>4. Head(stack) = stack[1] /\ 1 \in DOMAIN stack /\ DOMAIN stack = 1..Len(stack)
  BY <1>0, <1>1, TailPositions
<1>5. Len(stack) = 1
  BY <1>1, <1>4 DEF Calls, Stacked, Top
<1>6. Stacked(stack, {}, {})
  <2>1. \A i \in DOMAIN stack : i = 1
    BY <1>4, <1>5
  <2> QED
    BY <1>1, <1>4, <2>1 DEF Calls, Stacked, Top, JobOps
<1>7. Stacked(stack', {}, {})
  BY <1>0, <1>1, <1>2, <1>3, <1>6, StackedReplace DEF Top
<1>8. Stacked(stack', Active', finishedList')
  BY <1>1, <1>7, StackedMore
<1>9. stack' # <<>> /\ Head(stack') = f
  <2>1. Tail(stack) \in Seq(Frame)
    BY <1>0, <1>1, TailPositions
  <2> QED
    BY <1>1, <1>2, <2>1, PushPositions
<1>10. SweptClean'
  <2>1. Len(resultQueue) \in Nat
    BY <1>0, LenProperties
  <2> QED
    BY <1>1, <1>3, <1>9, <2>1 DEF SweptClean, Top
<1> QED
  BY <1>1, <1>8, <1>10 DEF Calls

\* A turn of the sweep: the result is dropped, called back or left.
LEMMA PulseScanCalls ==
    ASSUME Structure, Calls, PulseScan
    PROVE  Calls'
<1>0. /\ TypeOK /\ stack \in Seq(Frame) /\ stage \in [Jobs -> EJobStage] /\ callback \in [Jobs -> Callbacks]
      /\ finishedList \subseteq Jobs /\ resultQueue \in Seq(Jobs)
      /\ Stacked(stack, Active, finishedList) /\ ignored \subseteq Active
      /\ \A k \in finishedList : ~HasCallback(k)
  BY DEF Structure, TypeOK, Calls
<1> DEFINE p == Top.pos
           j == resultQueue[p]
           n == Len(resultQueue)
<1>1. /\ stack # <<>> /\ Top.op = "pulse" /\ Top.at = "scan" /\ Top \in Frame /\ Sweeping(stack)
      /\ UNCHANGED ignored /\ n \in Nat /\ p \in 1..n /\ Tail(stack) \in Seq(Frame)
  <2>1. /\ stack # <<>> /\ Top.op = "pulse" /\ Top.at = "scan" /\ p <= n /\ UNCHANGED ignored
    BY DEF PulseScan, In
  <2>2. Top \in Frame /\ Tail(stack) \in Seq(Frame) /\ n \in Nat
    BY <1>0, <2>1, TailPositions, LenProperties DEF Top
  <2>3. p \in Nat \ {0}
    BY <2>1, <2>2, FrameFields
  <2> QED
    BY <2>1, <2>2, <2>3 DEF Sweeping, Top
<1>2. j \in Jobs /\ stage[j] = "RESULT" /\ j \in Active /\ j \notin finishedList
  <2>1. j \in Jobs /\ j \in ResultJobs
    BY <1>0, <1>1, ElementOfSeq, LenProperties DEF ResultJobs
  <2> QED
    BY <2>1 DEF Structure, JobPlacement, Active
<1>3. mutex = "main" /\ \A k \in 1..n : k < p => ~HasCallback(resultQueue[k])
  BY <1>1 DEF Calls, SweptClean
<1>4. /\ finishedList' = IF j \in ignored THEN finishedList \cup {j} ELSE finishedList
      /\ Active' = Active
      /\ resultQueue' = IF j \in ignored THEN RemoveAt(resultQueue, p) ELSE resultQueue
  BY <1>0, <1>2 DEF PulseScan, Finish, Active
<1>5. Stacked(stack, Active, finishedList')
  BY <1>0, <1>4, StackedMore
<1>6. CASE CallbackDue(j)
  <2> DEFINE f == PulseAt("again", 1)
  <2>1. PICK st \in {"FINISHED", "RESULT"} : ProcessCallback(j, st, ReplaceTop(f))
    BY <1>6 DEF PulseScan
  <2>2. f \in Frame
    BY FrameTypes
  <2>3. f.op = "pulse" /\ f.at # "scan" /\ Uses(f, Active, finishedList')
    BY DEF PulseAt, Uses, JobOps
  <2> HIDE DEF f
  <2>4. ReplaceTop(f) \in Seq(Frame) /\ Stacked(ReplaceTop(f), Active, finishedList') /\ ~Sweeping(ReplaceTop(f))
    <3>1. Stacked(Push(f, Tail(stack)), Active, finishedList')
      BY <1>0, <1>1, <1>5, <2>2, <2>3, StackedReplace DEF Top
    <3>2. ~Sweeping(Push(f, Tail(stack))) /\ Push(f, Tail(stack)) \in Seq(Frame)
      BY <1>1, <2>2, <2>3, PushPositions DEF Sweeping
    <3> QED
      BY <3>1, <3>2 DEF ReplaceTop
  <2> HIDE DEF j
  <2>5. /\ \A k \in Jobs : IF k = j THEN ~HasCallback(k)' ELSE callback'[k] = callback[k]
        /\ Stacked(stack', Active, finishedList') /\ ~Sweeping(stack')
    BY <1>0, <1>2, <2>1, <2>4, ProcessCallbackCalls
  <2>6. \A k \in finishedList' : ~HasCallback(k)'
    BY <1>0, <1>2, <1>4, <2>5 DEF HasCallback
  <2> QED
    BY <1>0, <1>1, <1>4, <2>5, <2>6 DEF Calls, SweptClean
<1>7. CASE ~CallbackDue(j)
  <2> DEFINE q == IF j \in ignored THEN p ELSE p + 1
             f == PulseAt("scan", q)
  <2>1. stack' = ReplaceTop(f) /\ UNCHANGED <<mutex, callback>>
    BY <1>7 DEF PulseScan
  <2>2. f \in Frame /\ q \in Nat \ {0}
    <3>1. q \in Nat \ {0}
      BY <1>1
    <3> QED
      BY <3>1, FrameTypes
  <2>3. f.op = "pulse" /\ f.at = "scan" /\ f.pos = q /\ Uses(f, Active, finishedList')
    BY DEF PulseAt, Uses, JobOps
  <2> HIDE DEF f
  <2>4. Stacked(stack', Active, finishedList')
    BY <1>0, <1>1, <1>5, <2>1, <2>2, <2>3, StackedReplace DEF Top, ReplaceTop
  <2>5. Head(stack') = f
    BY <1>1, <2>1, <2>2, PushPositions DEF ReplaceTop
  <2>6. \A k \in 1..Len(resultQueue') : k < q => ~HasCallback(resultQueue'[k])
    <3>1. ~HasCallback(j)
      BY <1>7 DEF CallbackDue
    <3>2. CASE j \in ignored
      <4>1. /\ resultQueue' = RemoveAt(resultQueue, p) /\ Len(resultQueue') = n - 1
            /\ \A k \in 1..n - 1 : resultQueue'[k] = IF k < p THEN resultQueue[k] ELSE resultQueue[k + 1]
        BY <1>0, <1>1, <1>4, <3>2, RemoveAtProperties
      <4>2. \A k \in 1..n - 1 : k \in 1..n
        BY <1>1
      <4> QED
        BY <1>3, <3>2, <4>1, <4>2
    <3>3. CASE j \notin ignored
      <4>1. resultQueue' = resultQueue /\ q = p + 1
        BY <1>4, <3>3
      <4>2. \A k \in 1..n : k < p + 1 => k < p \/ k = p
        BY <1>1
      <4> QED
        BY <1>3, <3>1, <4>1, <4>2
    <3> QED
      BY <3>2, <3>3
  <2>7. SweptClean'
    <3> HIDE DEF q
    <3>1. \A k \in 1..Len(resultQueue') : k < f.pos => ~HasCallback(resultQueue'[k])
      BY <2>3, <2>6
    <3>2. \A k : HasCallback(k)' <=> HasCallback(k)
      BY <2>1 DEF HasCallback
    <3> QED
      BY <1>3, <2>1, <2>5, <3>1, <3>2 DEF SweptClean, Top
  <2>8. \A k \in finishedList' : ~HasCallback(k)'
    BY <1>0, <1>4, <1>7, <2>1 DEF HasCallback, CallbackDue
  <2> QED
    BY <1>0, <1>1, <1>4, <2>4, <2>7, <2>8 DEF Calls
<1> QED
  BY <1>6, <1>7

\* The service thread neither makes nor deletes a job.
LEMMA ThreadStepActive ==
    ASSUME Structure, ThreadStep
    PROVE  Active' = Active
<1>0. stage \in [Jobs -> EJobStage]
  BY DEF Structure, TypeOK
<1>1. CASE ThreadTake
  <2>1. commandQueue # <<>> /\ Head(commandQueue) \in Jobs /\ Head(commandQueue) \in QueuedJobs
    BY <1>1, HeadTailProperties, EmptySeq, LenProperties DEF ThreadTake, Structure, TypeOK, QueuedJobs
  <2>2. stage[Head(commandQueue)] # "NONE"
    BY <2>1 DEF Structure, JobPlacement
  <2> QED
    BY <1>0, <1>1, <2>1, <2>2 DEF ThreadTake, Active
<1>2. CASE ThreadStore
  <2>1. current \in QueuedJobs
    BY <1>2, HeadTailProperties, EmptySeq, LenProperties DEF ThreadStore, Structure, TypeOK, ThreadHoldsFront, QueuedJobs
  <2>2. current \in Jobs
    BY <1>2, HeadTailProperties DEF ThreadStore, Structure, TypeOK, ThreadHoldsFront
  <2>3. stage[current] # "NONE"
    BY <2>1, <2>2 DEF Structure, JobPlacement
  <2> QED
    BY <1>0, <1>2, <2>2, <2>3 DEF ThreadStore, Active
<1>3. CASE ~ThreadTake /\ ~ThreadStore
  BY <1>3 DEF ThreadStep, ProcessConnect, ProcessDisconnect, ProcessQuery, ProcessFlush,
       ProcessSetLogLevel, Processing, ThreadExit, jobVars, Active
<1> QED
  BY <1>1, <1>2, <1>3

LEMMA ThreadStepCalls ==
    ASSUME Structure, Calls, ThreadStep
    PROVE  Calls'
<1>1. UNCHANGED <<callback, ignored, stack, mutex, finishedList>>
  BY DEF ThreadStep, ThreadTake, ProcessConnect, ProcessDisconnect, ProcessQuery, ProcessFlush,
         ProcessSetLogLevel, Processing, ThreadStore, ThreadExit, jobVars, queueVars, mainVars
<1>2. Active' = Active
  BY ThreadStepActive
<1>3. SweptClean'
  <2>1. CASE mutex = "main"
    <3>1. UNCHANGED resultQueue
      BY <2>1 DEF ThreadStep, ThreadTake, ProcessConnect, ProcessDisconnect, ProcessQuery, ProcessFlush,
         ProcessSetLogLevel, Processing, ThreadStore, ThreadExit, queueVars
    <3> QED
      BY <1>1, <3>1 DEF Calls, SweptClean, Sweeping, Top, HasCallback
  <2>2. CASE mutex # "main"
    BY <1>1, <2>2 DEF Calls, SweptClean, Sweeping
  <2> QED
    BY <2>1, <2>2
<1> QED
  BY <1>1, <1>2, <1>3 DEF Calls, HasCallback

\* The calls are in order at first, and each step keeps them so.
LEMMA CallsInit == Init => Calls
<1> SUFFICES ASSUME Init
             PROVE  Calls
  OBVIOUS
<1>1. stack = <<>> /\ finishedList = {} /\ ignored = {}
  BY DEF Init
<1> QED
  BY <1>1 DEF Calls, Stacked, SweptClean, Sweeping

LEMMA CallsStep == Structure /\ Calls /\ [Next]_vars => Calls'
<1> SUFFICES ASSUME Structure, Calls, [Next]_vars
             PROVE  Calls'
  OBVIOUS
<1>1. CASE ClientOp
  BY <1>1, ClientOpCalls
<1>2. CASE PulseScan
  BY <1>2, PulseScanCalls
<1>3. CASE PulseAgain
  BY <1>3, PulseAgainCalls
<1>4. CASE ~PulseScan /\ ~PulseAgain /\ (MainStep \/ ScriptReturn \/ PulseStart \/ StopThread \/ Stopped)
  BY <1>4, MainStepCalls
<1>5. CASE ThreadStep
  BY <1>5, ThreadStepCalls
<1>6. CASE UNCHANGED vars
  BY <1>6 DEF vars, jobVars, queueVars, mainVars, Calls, SweptClean, Sweeping, Active, HasCallback, Top
<1> QED
  BY <1>1, <1>2, <1>3, <1>4, <1>5, <1>6 DEF Next

LEMMA CallsInvariant == Spec => [](Structure /\ Calls)
<1>1. Init => Structure /\ Calls
  BY StructureInit, CallsInit
<1>2. Structure /\ Calls /\ [Next]_vars => (Structure /\ Calls)'
  BY StructureStep, CallsStep
<1> QED
  BY <1>1, <1>2, PTL DEF Spec

\* No call of the main thread, however deep and whatever scripts and handlers do, uses
\* a job that a pulse has deleted, and no job is deleted with its callback to come.
THEOREM CallsUseLiveJobs == Spec => []NoDanglingJob
<1>1. Calls => NoDanglingJob
  BY DEF Calls, Stacked, NoDanglingJob, JobOps
<1> QED
  BY <1>1, CallsInvariant, PTL

\* DoPulse calls the callbacks of the results in the order of the results, although it
\* begins anew after each one and callbacks may poll, free and add commands.
THEOREM CallbacksKeepOrder == Spec => CallbacksInOrder
<1> DEFINE InOrder(i) ==
        (In("pulse") /\ HasCallback(resultQueue[i]) /\ callback'[resultQueue[i]] = "done")
        => \A k \in 1 .. i - 1 : ~HasCallback(resultQueue[k])
<1>1. ASSUME Structure, Calls, [Next]_vars, NEW i \in DOMAIN resultQueue
      PROVE  InOrder(i)
  <2> SUFFICES ASSUME In("pulse"), HasCallback(resultQueue[i]), callback'[resultQueue[i]] = "done"
               PROVE  \A k \in 1 .. i - 1 : ~HasCallback(resultQueue[k])
    OBVIOUS
  <2>1. /\ resultQueue[i] \in Jobs /\ Len(resultQueue) \in Nat /\ i \in 1..Len(resultQueue)
        /\ callback \in [Jobs -> Callbacks] /\ stack # <<>> /\ Top.op = "pulse"
    BY <1>1, LenProperties, ElementOfSeq DEF Structure, TypeOK, In
  <2>2. CASE UNCHANGED callback
    BY <2>2 DEF HasCallback
  <2>3. CASE PulseFlush
    <3>1. PICK j \in Jobs : callback' = [callback EXCEPT ![j] = "none"]
      BY <2>3 DEF PulseFlush, AddCommand
    <3> QED
      BY <2>1, <3>1 DEF HasCallback
  <2>4. CASE PulseAgain
    BY <2>1, <2>4 DEF PulseAgain, HasCallback
  <2>5. CASE PulseScan
    <3> DEFINE p == Top.pos
    <3>1. UNCHANGED callback \/ callback' = [callback EXCEPT ![resultQueue[p]] = "done"]
      BY <2>5 DEF PulseScan, ProcessCallback, CallbackDue
    <3>2. Top \in Frame /\ p \in Nat \ {0} /\ p <= Len(resultQueue) /\ Top.at = "scan"
      BY <1>1, <2>1, <2>5, TailPositions, FrameFields DEF PulseScan, Top, Structure, TypeOK
    <3>3. p \in DOMAIN resultQueue
      BY <1>1, <2>1, <3>2, LenProperties DEF Structure, TypeOK
    <3>4. resultQueue[i] # resultQueue[p] => callback'[resultQueue[i]] = callback[resultQueue[i]]
      BY <2>1, <3>1
    <3>5. resultQueue[i] = resultQueue[p]
      BY <3>4 DEF HasCallback
    <3>6. i = p
      BY <1>1, <3>3, <3>5 DEF Structure, JobPlacement
    <3>7. \A k \in 1..Len(resultQueue) : k < p => ~HasCallback(resultQueue[k])
      BY <1>1, <2>1, <3>2 DEF Calls, SweptClean, Sweeping, Top
    <3> QED
      BY <2>1, <3>6, <3>7
  <2>6. CASE ClientOp
    BY <2>1, <2>6 DEF ClientOp, QueryStart, Exec, QueryWithResult, AddQuery, Connect, Disconnect,
         DisconnectUnknown, DbPoll, DbFree, SetLogLevel, ScriptRunning, In
  <2>7. CASE ThreadStep
    BY <2>2, <2>7 DEF ThreadStep, ThreadTake, ProcessConnect, ProcessDisconnect, ProcessQuery,
         ProcessFlush, ProcessSetLogLevel, Processing, ThreadStore, ThreadExit, jobVars
  <2>8. CASE MainStep /\ ~PulseFlush /\ ~PulseAgain /\ ~PulseScan
    BY <2>1, <2>2, <2>8 DEF MainStep, FreeCommand, PollFound, PollTimeout, PollWait, PollWake,
         CollectConnect, CollectDisconnect, CollectQuery, PulseFlushed, PulseEnd, StopReturn,
         StopCancel, In, jobVars
  <2>9. CASE ScriptReturn \/ PulseStart \/ StopThread \/ Stopped \/ UNCHANGED vars
    BY <2>2, <2>9 DEF ScriptReturn, PulseStart, StopThread, Stopped, vars, jobVars
  <2> QED
    BY <1>1, <2>3, <2>4, <2>5, <2>6, <2>7, <2>8, <2>9 DEF Next, MainStep
<1>2. Structure /\ Calls /\ [Next]_vars => \A i \in DOMAIN resultQueue : InOrder(i)
  BY <1>1
<1> QED
  BY <1>2, CallsInvariant, PTL DEF Spec, CallbacksInOrder

-----------------------------------------------------------------------------
(* Clients one at a time: what holds as long as the onDebugMessage handler *)
(* leaves the database alone.  Then the main thread is in one call on a    *)
(* job at most, and only the handler can be above that call.               *)

Frames(s) == {s[i] : i \in DOMAIN s}

Quiet(s) == \A f \in Frames(s) : f.op \notin JobOps

OneCall(s) ==
    s # <<>> => \/ Quiet(Tail(s))
                \/ /\ Head(s).op = "script" /\ Head(s).handler
                   /\ Tail(s) # <<>> /\ Quiet(Tail(Tail(s)))

LEMMA PushFrames ==
    ASSUME NEW s \in Seq(Frame), NEW f \in Frame
    PROVE  Frames(Push(f, s)) = {f} \cup Frames(s)
<1> DEFINE r == Push(f, s)
<1>1. /\ Len(s) \in Nat /\ DOMAIN s = 1..Len(s) /\ DOMAIN r = 1..Len(s) + 1 /\ r[1] = f
      /\ \A i \in 1..Len(s) + 1 : i # 1 => i - 1 \in 1..Len(s) /\ r[i] = s[i - 1]
  BY PushPositions
<1> HIDE DEF r
<1>2. ASSUME NEW i \in 1..Len(s)
      PROVE  i + 1 \in 1..Len(s) + 1 /\ s[i] = r[i + 1]
  <2>1. i + 1 \in 1..Len(s) + 1 /\ i + 1 # 1 /\ (i + 1) - 1 = i
    BY <1>1
  <2> QED
    BY <1>1, <2>1
<1>3. 1 \in 1..Len(s) + 1
  BY <1>1
<1>4. Frames(r) \subseteq {f} \cup Frames(s)
  BY <1>1 DEF Frames
<1>5. {f} \cup Frames(s) \subseteq Frames(r)
  BY <1>1, <1>2, <1>3 DEF Frames
<1> QED
  BY <1>4, <1>5 DEF r

LEMMA TailFrames ==
    ASSUME NEW s \in Seq(Frame), s # <<>>
    PROVE  Frames(s) = {Head(s)} \cup Frames(Tail(s))
<1> DEFINE r == Tail(s)
<1>1. /\ Len(s) \in Nat \ {0} /\ DOMAIN s = 1..Len(s) /\ DOMAIN r = 1..Len(s) - 1
      /\ Head(s) = s[1] /\ 1 \in DOMAIN s
      /\ \A i \in 1..Len(s) - 1 : i + 1 \in 1..Len(s) /\ r[i] = s[i + 1]
  BY TailPositions
<1> HIDE DEF r
<1>2. ASSUME NEW i \in 1..Len(s), i # 1
      PROVE  i - 1 \in 1..Len(s) - 1 /\ s[i] = r[i - 1]
  <2>1. i - 1 \in 1..Len(s) - 1 /\ (i - 1) + 1 = i
    BY <1>1, <1>2
  <2> QED
    BY <1>1, <2>1
<1>3. Frames(s) \subseteq {Head(s)} \cup Frames(r)
  BY <1>1, <1>2 DEF Frames
<1>4. {Head(s)} \cup Frames(r) \subseteq Frames(s)
  BY <1>1 DEF Frames
<1> QED
  BY <1>3, <1>4 DEF r

LEMMA EmptyFrames == Frames(<<>>) = {} /\ Quiet(<<>>) /\ OneCall(<<>>)
BY DEF Frames, Quiet, OneCall

\* A stack without calls on jobs takes one more call; the innermost call may give way to
\* another or end.
LEMMA OneCallSteps ==
    ASSUME NEW s \in Seq(Frame)
    PROVE  /\ Quiet(s) => \A f \in Frame : OneCall(Push(f, s))
           /\ Quiet(s) => \A f \in Frame : f.op \notin JobOps => Quiet(Push(f, s))
           /\ Quiet(s) => OneCall(s) /\ (s # <<>> => Quiet(Tail(s)))
           /\ s # <<>> /\ OneCall(s) => OneCall(Tail(s))
           /\ s # <<>> /\ OneCall(s) /\ ~(Head(s).op = "script" /\ Head(s).handler) => Quiet(Tail(s))
           /\ s # <<>> /\ OneCall(s) /\ Head(s).op = "script" /\ ~Head(s).handler => Quiet(s)
           /\ s # <<>> /\ Quiet(Tail(s)) => OneCall(Push(Script(TRUE), s))
<1>1. \A f \in Frame : /\ Push(f, s) # <<>> /\ Head(Push(f, s)) = f /\ Tail(Push(f, s)) = s
                       /\ Frames(Push(f, s)) = {f} \cup Frames(s)
  BY PushPositions, PushFrames
<1>2. s # <<>> => Frames(s) = {Head(s)} \cup Frames(Tail(s)) /\ Tail(s) \in Seq(Frame)
  BY TailFrames, TailPositions
<1>3. s # <<>> /\ Tail(s) # <<>> => Frames(Tail(s)) = {Head(Tail(s))} \cup Frames(Tail(Tail(s)))
  BY <1>2, TailFrames
<1>4. Quiet(s) /\ s # <<>> => Quiet(Tail(s))
  BY <1>2 DEF Quiet
<1>5. Quiet(Tail(s)) /\ s # <<>> /\ Tail(s) # <<>> => Quiet(Tail(Tail(s)))
  BY <1>2, <1>3 DEF Quiet
<1>6. Script(TRUE) \in Frame
  BY FrameTypes
<1>7. Script(TRUE).op = "script" /\ Script(TRUE).handler
  BY DEF Script
<1>8. Quiet(s) => \A f \in Frame : OneCall(Push(f, s))
  BY <1>1 DEF OneCall
<1>9. Quiet(s) => \A f \in Frame : f.op \notin JobOps => Quiet(Push(f, s))
  BY <1>1 DEF Quiet
<1>10. Quiet(s) => OneCall(s) /\ (s # <<>> => Quiet(Tail(s)))
  BY <1>4 DEF OneCall
<1>11. s # <<>> /\ OneCall(s) => OneCall(Tail(s))
  BY <1>5 DEF OneCall
<1>12. s # <<>> /\ OneCall(s) /\ ~(Head(s).op = "script" /\ Head(s).handler) => Quiet(Tail(s))
  BY DEF OneCall
<1>13. s # <<>> /\ OneCall(s) /\ Head(s).op = "script" /\ ~Head(s).handler => Quiet(s)
  BY <1>2, <1>12 DEF Quiet, JobOps
<1>14. s # <<>> /\ Quiet(Tail(s)) => OneCall(Push(Script(TRUE), s))
  BY <1>1, <1>6, <1>7 DEF OneCall
<1> QED
  BY <1>8, <1>9, <1>10, <1>11, <1>12, <1>13, <1>14

\* What a step of the main thread does to the calls on jobs, scripts aside: polls give way
\* to polls and collects of the same job, and an endless poll ends only with its result.
CallsCarriedOn ==
    /\ OneCall(stack')
    /\ \A f \in Frames(stack') : f.op \in {"poll", "collect"} =>
        \E g \in Frames(stack) : /\ g.op \in {"poll", "collect"} /\ g.job = f.job
                                 /\ f.op = "poll" => g.op = "poll"
    /\ \A g \in Frames(stack) : g.op = "poll" /\ g.timeout = "infinite" =>
        \/ g.job \in ResultJobs
        \/ \E f \in Frames(stack') : f.op = "poll" /\ f.job = g.job /\ f.timeout = "infinite"
    /\ ~(ignored' \subseteq ignored) => \A f \in Frames(stack') : f.op \notin {"poll", "collect"}
    /\ finishedList' # finishedList => \A f \in Frames(stack') : f.op # "poll"

\* A frame and a quiet stack, on which the callback of a job may have put another.
LEMMA CallbackFrames ==
    ASSUME NEW j \in Jobs, NEW f \in Frame, f.op # "poll", NEW t \in Seq(Frame), Quiet(t),
           NEW r, r \in {Push(f, t), Push(Script(TRUE), Push(f, t))}
                  \/ (f.op \notin JobOps /\ r \in {Push(Script(FALSE), Push(f, t)), Push(FreeOf(j), Push(f, t))})
    PROVE  /\ OneCall(r) /\ \A g \in Frames(r) : g.op # "poll" /\ (g.op = "collect" => g = f)
<1>1. Push(f, t) \in Seq(Frame) /\ Push(f, t) # <<>> /\ Tail(Push(f, t)) = t
  BY PushPositions
<1>2. Frames(Push(f, t)) = {f} \cup Frames(t)
  BY PushFrames
<1>3. OneCall(Push(f, t)) /\ OneCall(Push(Script(TRUE), Push(f, t)))
  BY <1>1, OneCallSteps
<1>4. f.op \notin JobOps => Quiet(Push(f, t))
  BY OneCallSteps
<1>5. Script(TRUE) \in Frame /\ Script(FALSE) \in Frame /\ FreeOf(j) \in Frame
  BY FrameTypes
<1>6. f.op \notin JobOps => OneCall(Push(Script(FALSE), Push(f, t))) /\ OneCall(Push(FreeOf(j), Push(f, t)))
  BY <1>1, <1>4, <1>5, OneCallSteps
<1>7. \A g \in {Script(TRUE), Script(FALSE), FreeOf(j)} : g.op \notin {"poll", "collect"}
  BY DEF Script, FreeOf
<1>8. \A g \in {Script(TRUE), Script(FALSE), FreeOf(j)} :
         Frames(Push(g, Push(f, t))) = {g} \cup Frames(Push(f, t))
  BY <1>1, <1>5, PushFrames
<1>9. \A g \in Frames(t) : g.op \notin {"poll", "collect"}
  BY DEF Quiet, JobOps
<1>10. OneCall(r)
  BY <1>3, <1>6
<1>11. \A g \in Frames(r) : g \in {f, Script(TRUE), Script(FALSE), FreeOf(j)} \cup Frames(t)
  BY <1>2, <1>8
<1> QED
  BY <1>7, <1>9, <1>10, <1>11

LEMMA MainStepCarriesOn ==
    ASSUME Structure, Calls, OneCall(stack),
           MainStep \/ ScriptReturn \/ PulseStart \/ StopThread \/ Stopped
    PROVE  CallsCarriedOn
<1>0. TypeOK /\ stack \in Seq(Frame) /\ resultQueue \in Seq(Jobs)
  BY DEF Structure, TypeOK
<1>1. stack # <<>> => /\ Top \in Frame /\ Tail(stack) \in Seq(Frame)
                      /\ Frames(stack) = {Top} \cup Frames(Tail(stack))
                      /\ Top \in Frames(stack) /\ Top = Head(stack)
  BY <1>0, TailFrames, TailPositions DEF Top
<1>2. stack # <<>> /\ Top.op # "script" => Quiet(Tail(stack))
  BY <1>0, <1>1, OneCallSteps
<1>3. stack # <<>> /\ Top.op # "script" => \A f \in Frames(stack) : f.op \in JobOps => f = Top
  BY <1>1, <1>2 DEF Quiet
<1>4. CASE FreeCommand \/ CollectConnect \/ CollectDisconnect \/ CollectQuery
           \/ PollTimeout \/ ScriptReturn \/ PulseEnd
  <2>1. stack # <<>> /\ stack' = Tail(stack) /\ UNCHANGED finishedList
        /\ (Top.op = "poll" => Top.timeout = "zero")
        /\ (Top.op = "script" => UNCHANGED ignored)
    BY <1>4 DEF FreeCommand, CollectConnect, CollectDisconnect, CollectQuery, PollTimeout,
                ScriptReturn, PulseEnd, In, jobVars, queueVars
  <2>2. OneCall(stack')
    BY <1>0, <2>1, OneCallSteps
  <2>3. CASE Top.op # "script"
    <3>1. \A f \in Frames(stack') : f.op \notin JobOps
      BY <1>2, <2>1, <2>3 DEF Quiet
    <3>2. \A g \in Frames(stack) : ~(g.op = "poll" /\ g.timeout = "infinite")
      BY <1>3, <2>1, <2>3 DEF JobOps
    <3> QED
      BY <2>1, <2>2, <3>1, <3>2 DEF CallsCarriedOn, JobOps
  <2>4. CASE Top.op = "script"
    BY <1>1, <2>1, <2>2, <2>4 DEF CallsCarriedOn
  <2> QED
    BY <2>3, <2>4
<1>5. CASE PollWait \/ PollWake
  <2>1. stack # <<>> /\ Top.op = "poll" /\ Top \in PollFrame /\ Quiet(Tail(stack))
        /\ UNCHANGED <<finishedList, ignored>>
    <3>1. stack # <<>> /\ Top.op = "poll"
      BY <1>5 DEF PollWait, PollWake, In
    <3>2. CASE PollWait
      BY <1>1, <1>2, <3>1, <3>2, FrameFields DEF PollWait, jobVars, queueVars
    <3>3. CASE PollWake
      BY <1>1, <1>2, <3>1, <3>3, FrameFields DEF PollWake, jobVars, queueVars
    <3> QED
      BY <1>5, <3>2, <3>3
  <2>2. PICK t \in Timeouts, w \in BOOLEAN :
          LET f == [Top EXCEPT !.waiting = w, !.timeout = t]
          IN  /\ stack' = ReplaceTop(f) \/ stack' = Push(Script(TRUE), ReplaceTop(f))
              /\ Top.timeout = "infinite" => t = "infinite"
    <3>1. CASE PollWait
      <4>1. [Top EXCEPT !.waiting = TRUE] = [Top EXCEPT !.waiting = TRUE, !.timeout = Top.timeout]
        BY <2>1 DEF PollFrame
      <4> QED
        BY <2>1, <3>1, <4>1 DEF PollWait, PollFrame
    <3>2. CASE PollWake
      BY <2>1, <3>2 DEF PollWake, PollFrame, Timeouts
    <3> QED
      BY <1>5, <3>1, <3>2
  <2> DEFINE f == [Top EXCEPT !.waiting = w, !.timeout = t]
             r == ReplaceTop(f)
  <2>3. f \in Frame /\ f.op = "poll" /\ f.job = Top.job /\ f.timeout = t
    BY <2>1 DEF PollFrame, Frame
  <2> HIDE DEF f
  <2>4. /\ r \in Seq(Frame) /\ r # <<>> /\ Tail(r) = Tail(stack) /\ Head(r) = f
        /\ Frames(r) = {f} \cup Frames(Tail(stack)) /\ OneCall(r)
    BY <1>1, <2>1, <2>3, PushPositions, PushFrames, OneCallSteps DEF ReplaceTop
  <2>5. /\ (stack' = r \/ stack' = Push(Script(TRUE), r))
        /\ Top.timeout = "infinite" => t = "infinite"
    BY <2>2 DEF f
  <2> HIDE DEF r
  <2>6. Script(TRUE) \in Frame
    BY FrameTypes
  <2>7. Frames(Push(Script(TRUE), r)) = {Script(TRUE)} \cup Frames(r)
    BY <2>4, <2>6, PushFrames
  <2>8. OneCall(stack')
    <3>1. OneCall(Push(Script(TRUE), r))
      BY <2>1, <2>4, OneCallSteps
    <3> QED
      BY <2>4, <2>5, <3>1
  <2>9. Script(TRUE).op \notin JobOps
    BY DEF Script, JobOps
  <2>10. f \in Frames(stack') /\ \A g \in Frames(stack') : g.op \in JobOps => g = f
    <3>1. \A g \in Frames(Tail(stack)) : g.op \notin JobOps
      BY <2>1 DEF Quiet
    <3> QED
      BY <2>4, <2>5, <2>7, <2>9, <3>1
  <2> QED
    BY <1>1, <1>3, <2>1, <2>3, <2>5, <2>8, <2>10 DEF CallsCarriedOn, JobOps
<1>6. CASE PulseStart
  <2>1. stack = <<>> /\ stack' = Push(PulseAt("flush", 1), <<>>)
        /\ UNCHANGED <<finishedList, ignored>>
    BY <1>6 DEF PulseStart, jobVars, queueVars, Push
  <2>2. PulseAt("flush", 1) \in Frame /\ <<>> \in Seq(Frame)
    BY FrameTypes
  <2>3. Frames(stack') = {PulseAt("flush", 1)} /\ OneCall(stack')
    BY <2>1, <2>2, EmptyFrames, PushFrames, OneCallSteps
  <2>4. PulseAt("flush", 1).op = "pulse"
    BY DEF PulseAt
  <2> QED
    BY <2>1, <2>3, <2>4, EmptyFrames DEF CallsCarriedOn
<1>7. CASE PulseFlushed \/ PulseAgain \/ (PulseScan /\ ~CallbackDue(resultQueue[Top.pos]))
  <2>1. stack # <<>> /\ Top.op = "pulse"
    BY <1>7 DEF PulseFlushed, PulseAgain, PulseScan, In
  <2>2. PICK f \in Frame : f.op = "pulse" /\ stack' = Push(f, Tail(stack))
    <3>1. CASE PulseScan /\ ~CallbackDue(resultQueue[Top.pos])
      <4>1. Top.pos \in Nat \ {0}
        <5>1. Top.at = "scan"
          BY <3>1 DEF PulseScan
        <5> QED
          BY <1>1, <2>1, <5>1, FrameFields
      <4> DEFINE q == IF resultQueue[Top.pos] \in ignored THEN Top.pos ELSE Top.pos + 1
      <4>2. q \in Nat \ {0}
        BY <4>1
      <4>3. stack' = Push(PulseAt("scan", q), Tail(stack))
        BY <3>1 DEF PulseScan, ReplaceTop
      <4> HIDE DEF q
      <4>4. PulseAt("scan", q) \in Frame
        BY <4>2, FrameTypes
      <4>5. PulseAt("scan", q).op = "pulse"
        BY DEF PulseAt
      <4> QED
        BY <4>3, <4>4, <4>5
    <3>2. CASE PulseFlushed \/ PulseAgain
      <4>1. PulseAt("again", 1) \in Frame /\ PulseAt("scan", 1) \in Frame
        BY FrameTypes
      <4>2. PulseAt("again", 1).op = "pulse" /\ PulseAt("scan", 1).op = "pulse"
        BY DEF PulseAt
      <4> QED
        BY <3>2, <4>1, <4>2 DEF PulseFlushed, PulseAgain, ReplaceTop, ScanStart
    <3> QED
      BY <1>7, <3>1, <3>2
  <2>3. Frames(stack') = {f} \cup Frames(Tail(stack)) /\ OneCall(stack')
    BY <1>1, <1>2, <2>1, <2>2, PushFrames, OneCallSteps
  <2>4. \A g \in Frames(stack') : g.op \notin JobOps
    BY <1>2, <2>1, <2>2, <2>3 DEF Quiet, JobOps
  <2>5. \A g \in Frames(stack) : g.op \notin JobOps
    BY <1>3, <2>1 DEF JobOps
  <2> QED
    BY <2>1, <2>3, <2>4, <2>5 DEF CallsCarriedOn, JobOps
<1>8. CASE PulseFlush
  <2>1. PICK j \in Jobs : stack' = Push(FreeOf(j), stack)
    BY <1>8 DEF PulseFlush
  <2>2. stack # <<>> /\ Top.op = "pulse" /\ UNCHANGED finishedList
    BY <1>8 DEF PulseFlush, AddCommand, In
  <2>3. FreeOf(j) \in Frame
    BY FrameTypes
  <2>4. \A g \in Frames(stack) : g.op \notin JobOps
    BY <1>3, <2>2 DEF JobOps
  <2>5. Frames(stack') = {FreeOf(j)} \cup Frames(stack) /\ OneCall(stack')
    BY <1>0, <2>1, <2>3, <2>4, PushFrames, OneCallSteps DEF Quiet
  <2>6. FreeOf(j).op = "free"
    BY DEF FreeOf
  <2> QED
    BY <2>2, <2>4, <2>5, <2>6 DEF CallsCarriedOn, JobOps
<1>9. CASE PollFound
  <2> DEFINE j == Top.job
             f == CollectOf(j)
  <2>1. stack # <<>> /\ Top.op = "poll" /\ j \in ResultJobs /\ UNCHANGED ignored
    BY <1>9 DEF PollFound, In, ResultJobs
  <2>2. j \in Jobs
    BY <1>1, <2>1, FrameFields DEF PollFrame
  <2>3. ProcessCallback(j, "FINISHED", Push(f, Tail(stack)))
    BY <1>9 DEF PollFound, ReplaceTop
  <2>4. f \in Frame
    BY <2>2, FrameTypes
  <2>5. f.op = "collect" /\ f.job = j
    BY DEF CollectOf
  <2> HIDE DEF f, j
  <2>6. stack' \in {Push(f, Tail(stack)), Push(Script(TRUE), Push(f, Tail(stack)))}
    <3> DEFINE below == Push(f, Tail(stack))
    <3>1. PICK frames \in CallbackPushes(j, "FINISHED") : stack' = frames \o below
      BY <2>3 DEF ProcessCallback
    <3>2. CallbackPushes(j, "FINISHED") \subseteq {<<>>, <<Script(TRUE)>>}
      BY Zenon DEF CallbackPushes
    <3>3. below \in Seq(Frame)
      BY <1>1, <2>1, <2>4, PushPositions
    <3> HIDE DEF below
    <3>4. <<>> \o below = below
      BY <3>3, ConcatEmptySeq
    <3>5. stack' \in {below, Push(Script(TRUE), below)}
      BY <3>1, <3>2, <3>4 DEF Push
    <3> QED
      BY <3>5 DEF below
  <2>7. OneCall(stack') /\ \A g \in Frames(stack') : g.op # "poll" /\ (g.op = "collect" => g = f)
    BY <1>1, <1>2, <2>1, <2>2, <2>4, <2>5, <2>6, CallbackFrames
  <2>8. Top.job \in ResultJobs /\ f.job = Top.job
    BY <2>1, <2>5 DEF j
  <2>9. \A g \in Frames(stack') : g.op \in {"poll", "collect"} => g.job = Top.job /\ g.op = "collect"
    BY <2>7, <2>8
  <2>10. \A g \in Frames(stack) : g.op = "poll" => g.job \in ResultJobs
    BY <1>3, <2>1, <2>8 DEF JobOps
  <2> QED
    BY <1>1, <2>1, <2>7, <2>9, <2>10 DEF CallsCarriedOn
<1>10. CASE PulseScan /\ CallbackDue(resultQueue[Top.pos])
  <2> DEFINE j == resultQueue[Top.pos]
             f == PulseAt("again", 1)
  <2>1. stack # <<>> /\ Top.op = "pulse" /\ Top.at = "scan" /\ Top.pos <= Len(resultQueue)
    BY <1>10 DEF PulseScan, In
  <2>2. Top.pos \in Nat \ {0} /\ Len(resultQueue) \in Nat
    BY <1>0, <1>1, <2>1, FrameFields, LenProperties
  <2>3. j \in Jobs
    BY <1>0, <2>1, <2>2, ElementOfSeq
  <2>4. PICK st \in {"FINISHED", "RESULT"} : ProcessCallback(j, st, Push(f, Tail(stack)))
    BY <1>10 DEF PulseScan, ReplaceTop
  <2>5. f \in Frame
    BY FrameTypes
  <2>6. f.op = "pulse"
    BY DEF PulseAt
  <2> HIDE DEF f, j
  <2> DEFINE below == Push(f, Tail(stack))
  <2>7. stack' \in {below, Push(Script(FALSE), below), Push(Script(TRUE), below), Push(FreeOf(j), below)}
    <3>1. PICK frames \in CallbackPushes(j, st) : stack' = frames \o below
      BY <2>4 DEF ProcessCallback
    <3>2. CallbackPushes(j, st) \subseteq {<<>>, <<Script(FALSE)>>, <<Script(TRUE)>>, <<FreeOf(j)>>}
      BY Zenon DEF CallbackPushes
    <3>3. below \in Seq(Frame)
      BY <1>1, <2>1, <2>5, PushPositions
    <3> HIDE DEF below
    <3>4. <<>> \o below = below
      BY <3>3, ConcatEmptySeq
    <3> QED
      BY <3>1, <3>2, <3>4 DEF Push
  <2>8. OneCall(stack') /\ \A g \in Frames(stack') : g.op # "poll" /\ (g.op = "collect" => g = f)
    <3>1. f.op # "poll" /\ f.op \notin JobOps /\ Tail(stack) \in Seq(Frame) /\ Quiet(Tail(stack))
      BY <1>1, <1>2, <2>1, <2>6 DEF JobOps
    <3>2. \/ stack' \in {Push(f, Tail(stack)), Push(Script(TRUE), Push(f, Tail(stack)))}
          \/ stack' \in {Push(Script(FALSE), Push(f, Tail(stack))), Push(FreeOf(j), Push(f, Tail(stack)))}
      BY <2>7
    <3> QED
      BY <2>3, <2>5, <3>1, <3>2, CallbackFrames
  <2>9. \A g \in Frames(stack) : g.op \notin JobOps
    BY <1>3, <2>1 DEF JobOps
  <2> QED
    BY <2>1, <2>6, <2>8, <2>9 DEF CallsCarriedOn, JobOps
<1>11. CASE StopReturn \/ StopCancel \/ StopThread \/ Stopped
  <2>1. UNCHANGED <<stack, finishedList, ignored>>
    BY <1>11 DEF StopReturn, StopCancel, StopThread, Stopped, mainVars, jobVars, queueVars, vars
  <2> QED
    BY <2>1 DEF CallsCarriedOn
<1> QED
  BY <1>4, <1>5, <1>6, <1>7, <1>8, <1>9, <1>10, <1>11 DEF MainStep

Solo ==
    /\ OneCall(stack)
    /\ \A f \in Frames(stack) : f.op \in {"poll", "collect"} => f.job \notin ignored
    /\ \A f \in Frames(stack) : f.op = "poll" => f.job \notin finishedList

\* While a script may use the database, no call on a job is in progress.
LEMMA ScriptIsQuiet ==
    ASSUME ReentrantHandler = FALSE, stack \in Seq(Frame), OneCall(stack), ScriptRunning
    PROVE  Quiet(stack)
<1>1. CASE stack = <<>>
  BY <1>1, EmptyFrames
<1>2. CASE stack # <<>>
  <2>1. Head(stack).op = "script" /\ ~Head(stack).handler
    <3>1. Top \in Frame /\ Top.op = "script"
      BY <1>2, TailPositions DEF ScriptRunning, In, Top
    <3>2. Top.handler => ReentrantHandler
      BY <1>2 DEF ScriptRunning
    <3> QED
      BY <3>1, <3>2 DEF Top
  <2> QED
    BY <1>2, <2>1, OneCallSteps
<1> QED
  BY <1>1, <1>2

\* What a step of a client does to the calls in progress.
ClientCalls ==
    /\ Quiet(stack)
    /\ \/ UNCHANGED stack
       \/ \E f \in Frame : /\ stack' = Push(f, stack) /\ f.op \in {"poll", "free"}
                           /\ f.job \notin finishedList /\ f.job \notin ignored
    /\ UNCHANGED <<ignored, finishedList>>

LEMMA ClientOpIsCall ==
    ASSUME ReentrantHandler = FALSE, Structure, Calls, OneCall(stack), ClientOp
    PROVE  ClientCalls
<1>1. stack \in Seq(Frame) /\ ScriptRunning
  BY DEF Structure, TypeOK, ClientOp, QueryStart, Exec, QueryWithResult, AddQuery, Connect, Disconnect,
         DisconnectUnknown, DbPoll, DbFree, SetLogLevel
<1>2. Quiet(stack)
  BY <1>1, ScriptIsQuiet
<1>3. \A j \in Jobs : /\ FreeOf(j) \in Frame /\ \A t \in Timeouts : PollOf(j, t) \in Frame
  BY FrameTypes
<1>4. \A j : /\ FreeOf(j).op = "free" /\ FreeOf(j).job = j
             /\ \A t : PollOf(j, t).op = "poll" /\ PollOf(j, t).job = j
  BY DEF FreeOf, PollOf
<1>5. ASSUME NEW j \in Jobs, NEW type, NEW c, NEW cb, AddCommand(j, type, c, cb),
             UNCHANGED stack \/ stack' = Push(FreeOf(j), stack) \/ stack' = Push(PollOf(j, "infinite"), stack)
      PROVE  ClientCalls
  <2>1. j \notin finishedList /\ j \notin ignored /\ UNCHANGED <<ignored, finishedList>>
    BY <1>5, AddCommandCalls
  <2> QED
    BY <1>2, <1>3, <1>4, <1>5, <2>1 DEF ClientCalls, Timeouts
<1>6. ASSUME NEW c \in Conns, QueryStart(c) \/ Exec(c) \/ QueryWithResult(c) \/ Connect(c) \/ Disconnect(c)
      PROVE  ClientCalls
  <2>1. \E j \in Jobs, type \in {"QUERY", "CONNECT", "DISCONNECT"}, cb \in {"none", "script", "log"} :
            /\ AddCommand(j, type, c, cb)
            /\ UNCHANGED stack \/ stack' = Push(FreeOf(j), stack) \/ stack' = Push(PollOf(j, "infinite"), stack)
    BY <1>6 DEF QueryStart, Exec, QueryWithResult, AddQuery, Connect, Disconnect
  <2> QED
    BY <1>5, <2>1
<1>7. CASE SetLogLevel
  BY <1>5, <1>7 DEF SetLogLevel
<1>8. ASSUME NEW c \in Conns, DisconnectUnknown(c)
      PROVE  ClientCalls
  BY <1>2, <1>8 DEF DisconnectUnknown, ClientCalls, jobVars, queueVars, mainVars
<1>9. ASSUME NEW j \in Jobs, DbPoll(j) \/ DbFree(j)
      PROVE  ClientCalls
  <2>1. j \notin ignored /\ j \notin finishedList /\ UNCHANGED <<ignored, finishedList>>
    BY <1>9 DEF DbPoll, DbFree, Usable, Structure, JobPlacement, jobVars, queueVars
  <2>2. stack' = Push(FreeOf(j), stack) \/ \E t \in Timeouts : stack' = Push(PollOf(j, t), stack)
    BY <1>9 DEF DbPoll, DbFree
  <2> QED
    BY <1>2, <1>3, <1>4, <2>1, <2>2 DEF ClientCalls
<1> QED
  BY <1>6, <1>7, <1>8, <1>9 DEF ClientOp

\* The service thread leaves calls and finished results alone.
LEMMA ThreadStepLeaves ==
    ASSUME ThreadStep
    PROVE  UNCHANGED <<stack, ignored, finishedList, held, command, typeMap, shutdown, pendingFlush, callback>>
BY DEF ThreadStep, ThreadTake, ProcessConnect, ProcessDisconnect, ProcessQuery, ProcessFlush,
       ProcessSetLogLevel, Processing, ThreadStore, ThreadExit, jobVars, queueVars, mainVars, connVars

LEMMA SoloInit == Init => Solo
<1> SUFFICES ASSUME Init
             PROVE  Solo
  OBVIOUS
<1>1. stack = <<>>
  BY DEF Init
<1> QED
  BY <1>1, EmptyFrames DEF Solo

LEMMA SoloStep ==
    ASSUME ReentrantHandler = FALSE, Structure, Calls, Solo, [Next]_vars
    PROVE  Solo'
<1>0. stack \in Seq(Frame) /\ OneCall(stack)
  BY DEF Structure, TypeOK, Solo
<1>1. CASE ClientOp
  <2>1. ClientCalls
    BY <1>0, <1>1, ClientOpIsCall
  <2>2. CASE UNCHANGED stack
    BY <2>1, <2>2 DEF ClientCalls, Solo
  <2>3. ASSUME NEW f \in Frame, stack' = Push(f, stack), f.job \notin finishedList, f.job \notin ignored
        PROVE  Solo'
    <3>1. OneCall(stack') /\ Frames(stack') = {f} \cup Frames(stack)
      BY <1>0, <2>1, <2>3, OneCallSteps, PushFrames DEF ClientCalls
    <3> QED
      BY <2>1, <2>3, <3>1 DEF ClientCalls, Solo
  <2> QED
    BY <2>1, <2>2, <2>3 DEF ClientCalls
<1>2. CASE MainStep \/ ScriptReturn \/ PulseStart \/ StopThread \/ Stopped
  <2>1. CallsCarriedOn
    BY <1>0, <1>2, MainStepCarriesOn
  <2>2. \A f \in Frames(stack') : f.op \in {"poll", "collect"} => f.job \notin ignored'
    BY <2>1 DEF CallsCarriedOn, Solo
  <2>3. \A f \in Frames(stack') : f.op = "poll" => f.job \notin finishedList'
    BY <2>1 DEF CallsCarriedOn, Solo
  <2> QED
    BY <2>1, <2>2, <2>3 DEF CallsCarriedOn, Solo
<1>3. CASE ThreadStep
  BY <1>3, ThreadStepLeaves DEF Solo
<1>4. CASE UNCHANGED vars
  BY <1>4 DEF Solo, vars, jobVars, queueVars, mainVars
<1> QED
  BY <1>1, <1>2, <1>3, <1>4 DEF Next

LEMMA SoloInvariant ==
    ASSUME ReentrantHandler = FALSE
    PROVE  Spec => [](Structure /\ Calls /\ Solo)
<1>1. Init => Structure /\ Calls /\ Solo
  BY StructureInit, CallsInit, SoloInit
<1>2. Structure /\ Calls /\ Solo /\ [Next]_vars => (Structure /\ Calls /\ Solo)'
  BY StructureStep, CallsStep, SoloStep
<1> QED
  BY <1>1, <1>2, PTL DEF Spec

\* As long as handlers leave the database alone, no caller collects a result that was
\* given up ("should not be called for ignored results").
THEOREM GivenUpNotCollected ==
    ASSUME ReentrantHandler = FALSE
    PROVE  Spec => []FreedNotCollected
<1>1. Solo => FreedNotCollected
  BY DEF Solo, FreedNotCollected, Frames
<1> QED
  BY <1>1, SoloInvariant, PTL

\* Then no call of PollCommand waits for a result that was taken already ("should not
\* be called for collected results").
THEOREM TakenNotPolled ==
    ASSUME ReentrantHandler = FALSE
    PROVE  Spec => []PollsUncollected
<1>1. Solo => PollsUncollected
  BY DEF Solo, PollsUncollected, Frames
<1> QED
  BY <1>1, SoloInvariant, PTL

-----------------------------------------------------------------------------
(* Queries and disconnects of the same handle.                             *)

IsA(j, type) == command[j].type = type

\* The query handles of scripts are of queries.
HeldQueries == \A j \in held : j \in Active /\ IsA(j, "QUERY")

\* The caller of Disconnect waits as long as the command is in the queue.
DisconnectsWait ==
    \A j \in QueuedJobs : IsA(j, "DISCONNECT") =>
        \E f \in Frames(stack) : f.op = "poll" /\ f.job = j /\ f.timeout = "infinite"

\* Queries are in the queue only for handles that both maps know.
QueriesKnown == \A j \in QueuedJobs : IsA(j, "QUERY") => command[j].conn \in handleMap \cap typeMap

\* No query is behind a disconnect of its handle.
QueriesFirst ==
    \A i, k \in DOMAIN commandQueue :
        k < i /\ IsA(commandQueue[i], "QUERY") /\ IsA(commandQueue[k], "DISCONNECT")
        => command[commandQueue[i]].conn # command[commandQueue[k]].conn

\* While a caller waits for a disconnect or takes its result, the queries of the handle
\* still in the queue are ahead of the disconnect.
DisconnectsLast ==
    \A f \in Frames(stack) : f.op \in {"poll", "collect"} /\ IsA(f.job, "DISCONNECT") =>
        \A i \in DOMAIN commandQueue :
            IsA(commandQueue[i], "QUERY") /\ command[commandQueue[i]].conn = command[f.job].conn
            => \E k \in DOMAIN commandQueue : i < k /\ commandQueue[k] = f.job

Ordered ==
    HeldQueries /\ DisconnectsWait /\ QueriesKnown /\ QueriesFirst /\ DisconnectsLast
    /\ ShutdownLosesNoQuery

\* The positions of a queue of jobs, and of one that is longer or shorter by one.
LEMMA QueuePositions ==
    ASSUME NEW q \in Seq(Jobs)
    PROVE  /\ Len(q) \in Nat /\ DOMAIN q = 1..Len(q) /\ \A i \in 1..Len(q) : q[i] \in Jobs
           /\ \A j \in Jobs : /\ DOMAIN Append(q, j) = 1..Len(q) + 1
                              /\ Append(q, j)[Len(q) + 1] = j
                              /\ \A i \in 1..Len(q) : Append(q, j)[i] = q[i]
                              /\ \A i \in 1..Len(q) + 1 : i \in 1..Len(q) \/ i = Len(q) + 1
           /\ q # <<>> => /\ Head(q) = q[1] /\ 1 \in 1..Len(q)
                          /\ DOMAIN Tail(q) = 1..Len(q) - 1
                          /\ \A i \in 1..Len(q) - 1 : i + 1 \in 1..Len(q) /\ Tail(q)[i] = q[i + 1]
                          /\ \A i \in 1..Len(q) : i # 1 => i - 1 \in 1..Len(q) - 1
<1>1. Len(q) \in Nat /\ DOMAIN q = 1..Len(q) /\ \A i \in 1..Len(q) : q[i] \in Jobs
  BY LenProperties, ElementOfSeq
<1>2. ASSUME NEW j \in Jobs
      PROVE  /\ DOMAIN Append(q, j) = 1..Len(q) + 1
             /\ Append(q, j)[Len(q) + 1] = j
             /\ \A i \in 1..Len(q) : Append(q, j)[i] = q[i]
  <2>1. /\ Append(q, j) \in Seq(Jobs) /\ Len(Append(q, j)) = Len(q) + 1
        /\ \A i \in 1..Len(q) : Append(q, j)[i] = q[i]
        /\ Append(q, j)[Len(q) + 1] = j
    BY AppendProperties
  <2> QED
    BY <2>1, LenProperties
<1>3. \A i \in 1..Len(q) + 1 : i \in 1..Len(q) \/ i = Len(q) + 1
  BY <1>1
<1>4. ASSUME q # <<>>
      PROVE  /\ Head(q) = q[1] /\ 1 \in 1..Len(q)
             /\ DOMAIN Tail(q) = 1..Len(q) - 1
             /\ \A i \in 1..Len(q) - 1 : i + 1 \in 1..Len(q) /\ Tail(q)[i] = q[i + 1]
             /\ \A i \in 1..Len(q) : i # 1 => i - 1 \in 1..Len(q) - 1
  <2>1. /\ Tail(q) \in Seq(Jobs) /\ Len(Tail(q)) = Len(q) - 1
        /\ \A i \in 1..Len(Tail(q)) : Tail(q)[i] = q[i + 1]
    BY <1>4, HeadTailProperties
  <2>2. Len(q) # 0
    BY <1>4, EmptySeq
  <2>3. DOMAIN Tail(q) = 1..Len(q) - 1
    BY <2>1, LenProperties
  <2>4. Head(q) = q[1]
    OBVIOUS
  <2>5. /\ 1 \in 1..Len(q) /\ \A i \in 1..Len(q) - 1 : i + 1 \in 1..Len(q)
        /\ \A i \in 1..Len(q) : i # 1 => i - 1 \in 1..Len(q) - 1
    BY <1>1, <2>2
  <2> QED
    BY <2>1, <2>3, <2>4, <2>5
<1> QED
  BY <1>1, <1>2, <1>3, <1>4

LEMMA QueuedJobsAlive ==
    ASSUME Structure
    PROVE  /\ \A i \in DOMAIN commandQueue : /\ commandQueue[i] \in Active /\ commandQueue[i] \in Jobs
                                             /\ commandQueue[i] \in QueuedJobs
                                             /\ commandQueue[i] \notin finishedList
           /\ \A j \in QueuedJobs : \E i \in DOMAIN commandQueue : commandQueue[i] = j
           /\ \A j \in ResultJobs : j \notin QueuedJobs
<1>1. commandQueue \in Seq(Jobs) /\ resultQueue \in Seq(Jobs)
  BY DEF Structure, TypeOK
<1>2. \A i \in DOMAIN commandQueue : commandQueue[i] \in Jobs /\ commandQueue[i] \in QueuedJobs
  BY <1>1, QueuePositions DEF QueuedJobs
<1>3. \A j \in ResultJobs : j \in Jobs
  BY <1>1, LenProperties, ElementOfSeq DEF ResultJobs
<1>4. \A j \in Jobs : (j \in QueuedJobs => stage[j] \in {"COMMAND_QUEUE", "PROCCESSING"})
                      /\ (j \in ResultJobs => stage[j] = "RESULT")
                      /\ (j \in finishedList => stage[j] = "FINISHED")
  BY DEF Structure, JobPlacement
<1> QED
  BY <1>2, <1>3, <1>4 DEF Active, QueuedJobs

\* A new command: a query comes from a script with no call in progress, a disconnect is
\* waited for.
LEMMA AddCommandOrdered ==
    ASSUME Structure, Calls, Ordered,
           NEW j \in Jobs, NEW type \in {"QUERY", "CONNECT", "DISCONNECT", "FLUSH", "SETLOGLEVEL"},
           NEW c, NEW cb, AddCommand(j, type, c, cb),
           UNCHANGED <<handleMap, typeMap, shutdown>>,
           held' = held \/ (held' = held \cup {j} /\ type = "QUERY"),
           Frames(stack) \subseteq Frames(stack'),
           \A f \in Frames(stack') : f.op \in {"poll", "collect"} => f \in Frames(stack) \/ f.job = j,
           type = "QUERY" => Quiet(stack) /\ c \in handleMap \cap typeMap /\ ~m_bTerminateThread,
           type = "DISCONNECT" => PollOf(j, "infinite") \in Frames(stack')
    PROVE  Ordered'
<1> DEFINE q == commandQueue
           n == Len(q)
<1>0. /\ q \in Seq(Jobs) /\ n \in Nat /\ DOMAIN q = 1..n /\ \A i \in 1..n : q[i] \in Jobs
      /\ command \in [Jobs -> Command] /\ held \subseteq Jobs
  BY QueuePositions DEF Structure, TypeOK
<1>1. /\ j \notin Active /\ Active' = Active \cup {j}
  BY AddCommandCalls
<1>2. /\ q' = Append(q, j) /\ command' = [command EXCEPT ![j] = [type |-> type, conn |-> c]]
  BY DEF AddCommand, PushBack
<1>3. /\ command'[j].type = type /\ command'[j].conn = c
      /\ \A k \in Jobs : k # j => command'[k] = command[k]
  BY <1>0, <1>2
<1>4. /\ DOMAIN q' = 1..n + 1 /\ q'[n + 1] = j /\ \A i \in 1..n : q'[i] = q[i]
      /\ \A i \in 1..n + 1 : i \in 1..n \/ i = n + 1
  BY <1>0, <1>2, QueuePositions
<1>5. \A i \in 1..n : q[i] # j /\ q[i] \in QueuedJobs /\ command'[q[i]] = command[q[i]]
  BY <1>0, <1>1, <1>3, QueuedJobsAlive
<1>6. \A f \in Frames(stack) : f.op \in JobOps => f.job \in Active
  BY DEF Calls, Stacked, Frames
<1>7. \A k \in Active : k # j /\ k \in Jobs
  BY <1>1 DEF Active
<1>8. \A k \in QueuedJobs' : k = j \/ (k \in QueuedJobs /\ k \in Jobs /\ k # j)
  BY <1>0, <1>1, <1>4, <1>5 DEF QueuedJobs
<1>9. type = "QUERY" => \A k \in QueuedJobs : ~IsA(k, "DISCONNECT")
  BY DEF Ordered, DisconnectsWait, Quiet, JobOps
<1> HIDE DEF q, n
<1>10. HeldQueries'
  <2>1. \A k \in held : k \in Active /\ IsA(k, "QUERY")
    BY DEF Ordered, HeldQueries
  <2>2. \A k \in held : k \in Active' /\ command'[k].type = "QUERY"
    BY <1>1, <1>3, <1>7, <2>1 DEF IsA
  <2> QED
    BY <1>1, <1>3, <2>2 DEF HeldQueries, IsA
<1>11. DisconnectsWait'
  <2>1. PollOf(j, "infinite").op = "poll" /\ PollOf(j, "infinite").job = j /\ PollOf(j, "infinite").timeout = "infinite"
    BY DEF PollOf
  <2> QED
    BY <1>3, <1>8, <2>1 DEF Ordered, DisconnectsWait, IsA
<1>12. QueriesKnown'
  BY <1>3, <1>8 DEF Ordered, QueriesKnown, IsA
<1>13. QueriesFirst'
  <2> SUFFICES ASSUME NEW i \in 1..n + 1, NEW k \in 1..n + 1, k < i,
                      command'[q'[i]].type = "QUERY", command'[q'[k]].type = "DISCONNECT"
               PROVE  command'[q'[i]].conn # command'[q'[k]].conn
    BY <1>4 DEF QueriesFirst, IsA, q
  <2>1. k \in 1..n /\ q'[k] = q[k] /\ command[q[k]].type = "DISCONNECT" /\ q[k] \in QueuedJobs
    <3>1. k # n + 1
      BY <1>0
    <3> QED
      BY <1>4, <1>5, <3>1
  <2>2. CASE i \in 1..n
    <3>1. command[q[i]].type = "QUERY" /\ q'[i] = q[i]
      BY <1>4, <1>5, <2>2
    <3> QED
      BY <1>0, <1>4, <1>5, <2>1, <2>2, <3>1 DEF Ordered, QueriesFirst, IsA, q
  <2>3. CASE i = n + 1
    BY <1>3, <1>4, <1>9, <2>1, <2>3 DEF IsA
  <2> QED
    BY <1>4, <2>2, <2>3
<1>14. DisconnectsLast'
  <2> SUFFICES ASSUME NEW f \in Frames(stack'), f.op \in {"poll", "collect"}, command'[f.job].type = "DISCONNECT",
                      NEW i \in 1..n + 1, command'[q'[i]].type = "QUERY",
                      command'[q'[i]].conn = command'[f.job].conn
               PROVE  \E k \in 1..n + 1 : i < k /\ q'[k] = f.job
    BY <1>4 DEF DisconnectsLast, IsA, q
  <2>1. CASE f \in Frames(stack)
    <3>1. f.op \in JobOps
      BY DEF JobOps
    <3>2. f.job \in Active /\ command'[f.job] = command[f.job]
      BY <1>3, <1>6, <1>7, <2>1, <3>1
    <3>3. type # "QUERY"
      BY <2>1, <3>1 DEF Quiet
    <3>4. i \in 1..n
      BY <1>3, <1>4, <3>3
    <3>5. command[q[i]].type = "QUERY" /\ command[q[i]].conn = command[f.job].conn
      BY <1>4, <1>5, <3>2, <3>4
    <3>6. PICK k \in 1..n : i < k /\ q[k] = f.job
      BY <1>0, <2>1, <3>2, <3>4, <3>5 DEF Ordered, DisconnectsLast, IsA, q
    <3>7. k \in 1..n + 1 /\ q'[k] = f.job
      BY <1>0, <1>4, <3>6
    <3> QED
      BY <3>6, <3>7
  <2>2. CASE f.job = j
    <3>1. type = "DISCONNECT" /\ i # n + 1
      BY <1>3, <1>4, <2>2
    <3>2. i < n + 1 /\ n + 1 \in 1..n + 1
      BY <1>0, <3>1
    <3> QED
      BY <1>4, <2>2, <3>2
  <2> QED
    BY <2>1, <2>2
<1>15. ShutdownLosesNoQuery'
  <2>1. m_bTerminateThread' => m_bTerminateThread
    BY DEF m_bTerminateThread
  <2> QED
    BY <1>3, <1>8, <2>1 DEF Ordered, ShutdownLosesNoQuery, IsA
<1> QED
  BY <1>10, <1>11, <1>12, <1>13, <1>14, <1>15 DEF Ordered

LEMMA ClientOpOrdered ==
    ASSUME ReentrantHandler = FALSE, Structure, Calls, OneCall(stack), Ordered, ClientOp
    PROVE  Ordered'
<1>0. /\ stack \in Seq(Frame) /\ ScriptRunning /\ ~m_bTerminateThread
  BY DEF Structure, TypeOK, ClientOp, QueryStart, Exec, QueryWithResult, AddQuery, Connect, Disconnect,
         DisconnectUnknown, DbPoll, DbFree, SetLogLevel, ScriptRunning
<1>1. Quiet(stack)
  BY <1>0, ScriptIsQuiet
<1>2. ASSUME NEW j \in Jobs, NEW g \in {FreeOf(j)} \cup {PollOf(j, t) : t \in Timeouts}
      PROVE  Frames(Push(g, stack)) = {g} \cup Frames(stack) /\ g.job = j
  <2>1. g \in Frame
    BY FrameTypes
  <2>2. g.job = j
    BY DEF FreeOf, PollOf
  <2> QED
    BY <1>0, <2>1, <2>2, PushFrames
<1>3. ASSUME NEW j \in Jobs, NEW type \in {"QUERY", "CONNECT", "DISCONNECT", "FLUSH", "SETLOGLEVEL"},
             NEW c, NEW cb, AddCommand(j, type, c, cb), UNCHANGED <<handleMap, typeMap, shutdown>>,
             held' = held \/ (held' = held \cup {j} /\ type = "QUERY"),
             type = "QUERY" => c \in handleMap \cap typeMap,
             \/ UNCHANGED stack /\ type = "QUERY"
             \/ stack' = Push(FreeOf(j), stack) /\ type # "DISCONNECT"
             \/ stack' = Push(PollOf(j, "infinite"), stack)
      PROVE  Ordered'
  <2>1. CASE UNCHANGED stack /\ type = "QUERY"
    BY <1>0, <1>1, <1>3, <2>1, AddCommandOrdered
  <2>2. CASE stack' = Push(FreeOf(j), stack) /\ type # "DISCONNECT"
    <3>1. Frames(stack') = {FreeOf(j)} \cup Frames(stack) /\ FreeOf(j).job = j
      BY <1>2, <2>2
    <3> QED
      BY <1>0, <1>1, <1>3, <2>2, <3>1, AddCommandOrdered
  <2>3. CASE stack' = Push(PollOf(j, "infinite"), stack)
    <3>1. Frames(stack') = {PollOf(j, "infinite")} \cup Frames(stack) /\ PollOf(j, "infinite").job = j
      BY <1>2, <2>3 DEF Timeouts
    <3> QED
      BY <1>0, <1>1, <1>3, <2>3, <3>1, AddCommandOrdered
  <2> QED
    BY <1>3, <2>1, <2>2, <2>3
<1>4. ASSUME NEW c \in Conns, QueryStart(c) \/ Exec(c) \/ QueryWithResult(c) \/ Connect(c) \/ Disconnect(c)
      PROVE  Ordered'
  <2>1. \E j \in Jobs, type \in {"QUERY", "CONNECT", "DISCONNECT"}, cb \in {"none", "script", "log"} :
            /\ AddCommand(j, type, c, cb) /\ UNCHANGED <<handleMap, typeMap, shutdown>>
            /\ held' = held \/ (held' = held \cup {j} /\ type = "QUERY")
            /\ type = "QUERY" => c \in handleMap \cap typeMap
            /\ \/ UNCHANGED stack /\ type = "QUERY"
               \/ stack' = Push(FreeOf(j), stack) /\ type # "DISCONNECT"
               \/ stack' = Push(PollOf(j, "infinite"), stack)
    BY <1>4 DEF QueryStart, Exec, QueryWithResult, AddQuery, Connect, Disconnect, connVars
  <2> QED
    BY <1>3, <2>1
<1>5. CASE SetLogLevel
  BY <1>3, <1>5 DEF SetLogLevel, connVars
<1>6. ASSUME NEW c \in Conns, DisconnectUnknown(c)
      PROVE  Ordered'
  <2>1. /\ UNCHANGED <<stage, command, held, commandQueue, handleMap, stack, shutdown>>
        /\ typeMap' = typeMap \ {c} /\ c \notin handleMap
    BY <1>6 DEF DisconnectUnknown, jobVars, queueVars, mainVars
  <2>2. QueriesKnown'
    BY <2>1 DEF Ordered, QueriesKnown, QueuedJobs, IsA
  <2> QED
    BY <2>1, <2>2 DEF Ordered, HeldQueries, DisconnectsWait, QueriesFirst, DisconnectsLast,
                      ShutdownLosesNoQuery, QueuedJobs, Active, IsA, m_bTerminateThread
<1>7. ASSUME NEW j \in Jobs, DbPoll(j) \/ DbFree(j)
      PROVE  Ordered'
  <2>1. /\ UNCHANGED <<stage, command, held, commandQueue, handleMap, typeMap, shutdown>>
        /\ IsA(j, "QUERY")
    BY <1>7 DEF DbPoll, DbFree, Usable, Ordered, HeldQueries, jobVars, queueVars, connVars
  <2>2. PICK g \in {FreeOf(j)} \cup {PollOf(j, t) : t \in Timeouts} : stack' = Push(g, stack)
    BY <1>7 DEF DbPoll, DbFree
  <2>3. Frames(stack') = {g} \cup Frames(stack) /\ g.job = j
    BY <1>2, <2>2
  <2>4. DisconnectsWait' /\ DisconnectsLast'
    BY <2>1, <2>3 DEF Ordered, DisconnectsWait, DisconnectsLast, QueuedJobs, IsA
  <2> QED
    BY <2>1, <2>4 DEF Ordered, HeldQueries, QueriesKnown, QueriesFirst,
                      ShutdownLosesNoQuery, QueuedJobs, Active, IsA, m_bTerminateThread
<1> QED
  BY <1>4, <1>5, <1>6, <1>7 DEF ClientOp

\* The main thread goes on, the queue stays as it is.
LEMMA QueueKeptOrdered ==
    ASSUME Structure, Calls, Ordered, CallsCarriedOn, UNCHANGED <<commandQueue, handleMap>>,
           \A k \in Jobs : command'[k] = command[k] \/ (k \in finishedList /\ command'[k] = NoCommand),
           held' \subseteq held, \A k \in held' : k \in Active' /\ command'[k] = command[k],
           \A k \in QueuedJobs : IsA(k, "QUERY") => command[k].conn \in typeMap',
           m_bTerminateThread' => m_bTerminateThread \/ \A k \in QueuedJobs : ~IsA(k, "QUERY")
    PROVE  Ordered'
<1>1. \A k \in QueuedJobs : k \in Jobs /\ command'[k] = command[k]
  BY QueuedJobsAlive
<1>2. QueuedJobs' = QueuedJobs
  BY DEF QueuedJobs
<1>3. \A i \in DOMAIN commandQueue : commandQueue[i] \in QueuedJobs
  BY DEF QueuedJobs
<1>4. \A k \in QueuedJobs : k \notin ResultJobs
  BY QueuedJobsAlive
<1>5. \A f \in Frames(stack) : f.op \in JobOps => f.job \in Active
  BY DEF Calls, Stacked, Frames
<1>6. \A k \in Jobs : command'[k].type = "DISCONNECT" => command'[k] = command[k]
  BY DEF NoCommand
<1>7. HeldQueries'
  BY DEF Ordered, HeldQueries, IsA
<1>8. DisconnectsWait'
  BY <1>1, <1>2, <1>4 DEF Ordered, DisconnectsWait, IsA, CallsCarriedOn
<1>9. QueriesKnown'
  BY <1>1, <1>2 DEF Ordered, QueriesKnown, IsA
<1>10. QueriesFirst'
  BY <1>1, <1>3 DEF Ordered, QueriesFirst, IsA
<1>11. DisconnectsLast'
  <2> SUFFICES ASSUME NEW f \in Frames(stack'), f.op \in {"poll", "collect"}, command'[f.job].type = "DISCONNECT"
               PROVE  \A i \in DOMAIN commandQueue :
                        command'[commandQueue[i]].type = "QUERY" /\ command'[commandQueue[i]].conn = command'[f.job].conn
                        => \E k \in DOMAIN commandQueue : i < k /\ commandQueue[k] = f.job
    BY DEF DisconnectsLast, IsA
  <2>1. PICK g \in Frames(stack) : g.op \in {"poll", "collect"} /\ g.job = f.job
    BY DEF CallsCarriedOn
  <2>2. f.job \in Jobs
    BY <1>5, <2>1 DEF JobOps, Active
  <2>3. command'[f.job] = command[f.job]
    BY <1>6, <2>2
  <2> QED
    BY <1>1, <1>3, <2>1, <2>3 DEF Ordered, DisconnectsLast, IsA
<1>12. ShutdownLosesNoQuery'
  BY <1>1, <1>2 DEF Ordered, ShutdownLosesNoQuery, IsA
<1> QED
  BY <1>7, <1>8, <1>9, <1>10, <1>11, <1>12 DEF Ordered

LEMMA MainStepOrdered ==
    ASSUME Structure, Calls, OneCall(stack), Ordered,
           MainStep \/ ScriptReturn \/ PulseStart \/ StopThread \/ Stopped
    PROVE  Ordered'
<1>0. /\ TypeOK /\ stack \in Seq(Frame) /\ stage \in [Jobs -> EJobStage] /\ held \subseteq Jobs
      /\ resultQueue \in Seq(Jobs)
  BY DEF Structure, TypeOK
<1>1. CallsCarriedOn
  BY MainStepCarriesOn
<1>2. \A k \in held : k \in Active
  BY DEF Ordered, HeldQueries
<1>3. \A k \in QueuedJobs : IsA(k, "QUERY") => command[k].conn \in typeMap
  BY DEF Ordered, QueriesKnown
<1>4. CASE PulseFlush
  <2>1. PICK c \in pendingFlush, j \in Jobs : AddCommand(j, "FLUSH", c, "none") /\ stack' = Push(FreeOf(j), stack)
    BY <1>4 DEF PulseFlush
  <2>2. UNCHANGED <<held, handleMap, typeMap, shutdown>>
    BY <1>4 DEF PulseFlush
  <2>3. FreeOf(j) \in Frame
    BY FrameTypes
  <2>4. Frames(stack') = {FreeOf(j)} \cup Frames(stack)
    BY <1>0, <2>1, <2>3, PushFrames
  <2>5. FreeOf(j).job = j
    BY DEF FreeOf
  <2> QED
    BY <2>1, <2>2, <2>4, <2>5, AddCommandOrdered
<1>5. CASE PulseAgain
  <2>1. /\ UNCHANGED <<commandQueue, handleMap, typeMap, shutdown>>
        /\ \A k \in Jobs : command'[k] = IF k \in finishedList THEN NoCommand ELSE command[k]
        /\ held' = held \ finishedList
        /\ Active' = Active \ finishedList
    BY <1>5 DEF PulseAgain, connVars, Active
  <2>2. \A k \in held' : k \in Active' /\ command'[k] = command[k]
    BY <1>0, <1>2, <2>1
  <2> QED
    BY <1>1, <1>3, <2>1, <2>2, QueueKeptOrdered DEF m_bTerminateThread
<1>6. CASE PollFound \/ PulseScan
  <2>1. /\ UNCHANGED <<commandQueue, handleMap, typeMap, shutdown, command, held>>
    BY <1>6 DEF PollFound, PulseScan, connVars
  <2>2. stage' = stage \/ \E k \in Jobs : stage' = [stage EXCEPT ![k] = "FINISHED"]
    <3>1. CASE PollFound
      <4>1. PICK i \in DOMAIN resultQueue : Finish(i)
        BY <3>1 DEF PollFound
      <4> QED
        BY <1>0, <4>1, LenProperties, ElementOfSeq DEF Finish
    <3>2. CASE PulseScan
      <4>1. stack # <<>> /\ Top.at = "scan" /\ Top.op = "pulse" /\ Top.pos <= Len(resultQueue)
        BY <3>2 DEF PulseScan, In
      <4>2. Top.pos \in Nat \ {0} /\ Len(resultQueue) \in Nat
        BY <1>0, <4>1, TailPositions, FrameFields, LenProperties DEF Top
      <4>3. resultQueue[Top.pos] \in Jobs
        BY <1>0, <4>1, <4>2, ElementOfSeq
      <4> QED
        BY <3>2, <4>3 DEF PulseScan, Finish
    <3> QED
      BY <1>6, <3>1, <3>2
  <2>3. Active \subseteq Active'
    BY <1>0, <2>2 DEF Active
  <2> QED
    BY <1>1, <1>2, <1>3, <2>1, <2>3, QueueKeptOrdered DEF m_bTerminateThread
<1>7. CASE FreeCommand \/ PollTimeout \/ PollWait \/ PollWake \/ CollectConnect \/ CollectQuery
           \/ PulseFlushed \/ PulseEnd \/ ScriptReturn \/ PulseStart \/ Stopped
  <2>1. /\ UNCHANGED <<commandQueue, handleMap, shutdown, stage, command, held>>
        /\ typeMap \subseteq typeMap'
    BY <1>7 DEF FreeCommand, PollTimeout, PollWait, PollWake, CollectConnect, CollectQuery, PulseFlushed,
                PulseEnd, ScriptReturn, PulseStart, Stopped, vars, jobVars, queueVars, connVars
  <2>2. Active' = Active
    BY <2>1 DEF Active
  <2> QED
    BY <1>1, <1>2, <1>3, <2>1, <2>2, QueueKeptOrdered DEF m_bTerminateThread
<1>8. CASE CollectDisconnect
  <2> DEFINE d == Top.job
  <2>1. /\ UNCHANGED <<commandQueue, handleMap, shutdown, stage, command, held>>
        /\ typeMap \ {command[d].conn} \subseteq typeMap'
        /\ stack # <<>> /\ Top.op = "collect" /\ IsA(d, "DISCONNECT")
    BY <1>8 DEF CollectDisconnect, In, IsA, queueVars
  <2>2. Top \in Frames(stack)
    BY <1>0, <2>1, TailFrames DEF Top
  <2>3. d \in finishedList
    BY <2>1, <2>2 DEF Calls, Stacked, Frames
  <2>4. \A k \in QueuedJobs : IsA(k, "QUERY") => command[k].conn # command[d].conn
    <3> SUFFICES ASSUME NEW k \in QueuedJobs, IsA(k, "QUERY"), command[k].conn = command[d].conn
                 PROVE  FALSE
      OBVIOUS
    <3>1. PICK i \in DOMAIN commandQueue : commandQueue[i] = k
      BY QueuedJobsAlive
    <3>2. PICK i2 \in DOMAIN commandQueue : commandQueue[i2] = d
      BY <2>1, <2>2, <3>1 DEF Ordered, DisconnectsLast
    <3> QED
      BY <2>3, <3>2, QueuedJobsAlive
  <2>5. Active' = Active
    BY <2>1 DEF Active
  <2>6. \A k \in QueuedJobs : IsA(k, "QUERY") => command[k].conn \in typeMap'
    BY <1>3, <2>1, <2>4
  <2> HIDE DEF d
  <2> QED
    BY <1>1, <1>2, <2>1, <2>5, <2>6, QueueKeptOrdered DEF m_bTerminateThread
<1>9. CASE StopThread \/ StopReturn \/ StopCancel
  <2>1. /\ UNCHANGED <<commandQueue, handleMap, typeMap, stage, command, held>>
    BY <1>9 DEF StopThread, StopReturn, StopCancel, jobVars, queueVars, connVars
  <2>2. m_bTerminateThread \/ \A k \in QueuedJobs : ~IsA(k, "QUERY")
    BY <1>3, <1>9 DEF StopThread, StopReturn, StopCancel, m_bTerminateThread
  <2>3. Active' = Active
    BY <2>1 DEF Active
  <2> QED
    BY <1>1, <1>2, <1>3, <2>1, <2>2, <2>3, QueueKeptOrdered
<1> QED
  BY <1>4, <1>5, <1>6, <1>7, <1>8, <1>9 DEF MainStep

LEMMA ThreadStepOrdered ==
    ASSUME Structure, Calls, Ordered, ThreadStep
    PROVE  Ordered'
<1>0. /\ commandQueue \in Seq(Jobs) /\ handleMap \subseteq Conns /\ Len(commandQueue) \in Nat
      /\ DOMAIN commandQueue = 1..Len(commandQueue)
  BY QueuePositions DEF Structure, TypeOK
<1>1. UNCHANGED <<stack, held, command, typeMap, shutdown>> /\ Active' = Active
  BY ThreadStepLeaves, ThreadStepActive
<1>2. ASSUME UNCHANGED commandQueue, \A k \in QueuedJobs : IsA(k, "QUERY") => command[k].conn \in handleMap'
      PROVE  Ordered'
  <2>1. QueuedJobs' = QueuedJobs
    BY <1>2 DEF QueuedJobs
  <2>2. QueriesKnown'
    BY <1>1, <1>2, <2>1 DEF Ordered, QueriesKnown, IsA
  <2> QED
    BY <1>1, <1>2, <2>1, <2>2 DEF Ordered, HeldQueries, DisconnectsWait, QueriesFirst,
            DisconnectsLast, ShutdownLosesNoQuery, IsA, m_bTerminateThread
<1>3. CASE ThreadTake \/ ThreadExit \/ ProcessConnect \/ ProcessQuery \/ ProcessFlush \/ ProcessSetLogLevel
  <2>1. UNCHANGED commandQueue /\ handleMap \subseteq handleMap'
    BY <1>3 DEF ThreadTake, ThreadExit, ProcessConnect, ProcessQuery, ProcessFlush, ProcessSetLogLevel,
                Processing, queueVars, connVars
  <2> QED
    BY <1>2, <2>1 DEF Ordered, QueriesKnown
<1>4. CASE ProcessDisconnect
  <2>1. /\ UNCHANGED commandQueue /\ handleMap \ {currentConn} \subseteq handleMap'
        /\ IsA(current, "DISCONNECT")
    BY <1>4 DEF ProcessDisconnect, Processing, Release, IsA, queueVars
  <2>2. commandQueue # <<>> /\ Head(commandQueue) = current
    BY <1>4 DEF ProcessDisconnect, Processing, Structure, ThreadHoldsFront
  <2>3. 1 \in DOMAIN commandQueue /\ commandQueue[1] = current
    BY <1>0, <2>2, QueuePositions
  <2>4. ASSUME NEW k \in QueuedJobs, IsA(k, "QUERY")
        PROVE  command[k].conn # currentConn
    <3>1. PICK i \in DOMAIN commandQueue : commandQueue[i] = k
      BY QueuedJobsAlive
    <3>2. i # 1
      BY <2>1, <2>3, <2>4, <3>1 DEF IsA
    <3>3. 1 < i
      BY <1>0, <3>2
    <3> QED
      BY <2>1, <2>3, <2>4, <3>1, <3>3 DEF Ordered, QueriesFirst, currentConn
  <2> QED
    BY <1>2, <2>1, <2>4 DEF Ordered, QueriesKnown
<1>5. CASE ThreadStore
  <2>1. commandQueue # <<>> /\ Head(commandQueue) = current
    BY <1>5 DEF ThreadStore, Structure, ThreadHoldsFront
  <2>2. commandQueue' = Tail(commandQueue) /\ UNCHANGED handleMap
    BY <1>5, <2>1 DEF ThreadStore, connVars
  <2> DEFINE q == commandQueue
             n == Len(q)
  <2>3. /\ DOMAIN q' = 1..n - 1 /\ q[1] = current
        /\ \A i \in 1..n - 1 : i + 1 \in 1..n /\ q'[i] = q[i + 1]
        /\ \A i \in 1..n : i # 1 => i - 1 \in 1..n - 1
    BY <1>0, <2>1, <2>2, QueuePositions
  <2>4. QueuedJobs' \subseteq QueuedJobs
    BY <1>0, <2>3 DEF QueuedJobs
  <2>5. current \notin QueuedJobs'
    <3>1. \A i \in 1..n : q[i] = q[1] => i = 1
      BY <1>0, <2>1, QueuePositions DEF Structure, JobPlacement
    <3>2. \A i \in 1..n - 1 : i + 1 # 1
      BY <1>0
    <3> QED
      BY <2>3, <3>1, <3>2 DEF QueuedJobs
  <2>6. HeldQueries' /\ DisconnectsWait' /\ QueriesKnown' /\ ShutdownLosesNoQuery'
    BY <1>1, <2>2, <2>4 DEF Ordered, HeldQueries, DisconnectsWait, QueriesKnown, ShutdownLosesNoQuery,
                            IsA, m_bTerminateThread
  <2> HIDE DEF n
  <2>7. QueriesFirst'
    <3> SUFFICES ASSUME NEW i \in 1..n - 1, NEW k \in 1..n - 1, k < i,
                        IsA(q'[i], "QUERY"), IsA(q'[k], "DISCONNECT")
                 PROVE  command[q'[i]].conn # command[q'[k]].conn
      BY <1>1, <2>3 DEF QueriesFirst, IsA
    <3>1. i + 1 \in 1..n /\ k + 1 \in 1..n /\ k + 1 < i + 1 /\ q'[i] = q[i + 1] /\ q'[k] = q[k + 1]
      BY <1>0, <2>3
    <3> HIDE DEF q
    <3> QED
      BY <1>0, <3>1 DEF Ordered, QueriesFirst, q, n
  <2>8. DisconnectsLast'
    <3> SUFFICES ASSUME NEW f \in Frames(stack), f.op \in {"poll", "collect"}, IsA(f.job, "DISCONNECT"),
                        NEW i \in 1..n - 1, IsA(q'[i], "QUERY"), command[q'[i]].conn = command[f.job].conn
                 PROVE  \E k \in 1..n - 1 : i < k /\ q'[k] = f.job
      BY <1>1, <2>3 DEF DisconnectsLast, IsA
    <3>1. i + 1 \in 1..n /\ q'[i] = q[i + 1]
      BY <2>3
    <3>2. PICK k \in 1..n : i + 1 < k /\ q[k] = f.job
      BY <1>0, <3>1 DEF Ordered, DisconnectsLast, n
    <3>3. k # 1 /\ i < k - 1
      BY <3>2
    <3>4. k - 1 \in 1..n - 1 /\ q'[k - 1] = q[(k - 1) + 1] /\ (k - 1) + 1 = k
      BY <2>3, <3>3
    <3> QED
      BY <3>2, <3>3, <3>4
  <2> QED
    BY <2>6, <2>7, <2>8 DEF Ordered
<1> QED
  BY <1>3, <1>4, <1>5 DEF ThreadStep

LEMMA OrderedInit == Init => Ordered
<1> SUFFICES ASSUME Init
             PROVE  Ordered
  OBVIOUS
<1>1. stack = <<>> /\ commandQueue = <<>> /\ held = {} /\ QueuedJobs = {}
  BY DEF Init, QueuedJobs
<1> QED
  BY <1>1, EmptyFrames DEF Ordered, HeldQueries, DisconnectsWait, QueriesKnown, QueriesFirst,
     DisconnectsLast, ShutdownLosesNoQuery

LEMMA OrderedStep ==
    ASSUME ReentrantHandler = FALSE, Structure, Calls, Solo, Ordered, [Next]_vars
    PROVE  Ordered'
<1>0. OneCall(stack)
  BY DEF Solo
<1>1. CASE ClientOp
  BY <1>0, <1>1, ClientOpOrdered
<1>2. CASE MainStep \/ ScriptReturn \/ PulseStart \/ StopThread \/ Stopped
  BY <1>0, <1>2, MainStepOrdered
<1>3. CASE ThreadStep
  BY <1>3, ThreadStepOrdered
<1>4. CASE UNCHANGED vars
  BY <1>4 DEF vars, jobVars, queueVars, connVars, mainVars, Ordered, HeldQueries, DisconnectsWait,
     QueriesKnown, QueriesFirst, DisconnectsLast, ShutdownLosesNoQuery, QueuedJobs, Active, IsA,
     m_bTerminateThread
<1> QED
  BY <1>1, <1>2, <1>3, <1>4 DEF Next

LEMMA OrderedInvariant ==
    ASSUME ReentrantHandler = FALSE
    PROVE  Spec => [](Structure /\ Calls /\ Solo /\ Ordered)
<1>1. Init => Structure /\ Calls /\ Solo /\ Ordered
  BY StructureInit, CallsInit, SoloInit, OrderedInit
<1>2. Structure /\ Calls /\ Solo /\ Ordered /\ [Next]_vars => (Structure /\ Calls /\ Solo /\ Ordered)'
  BY StructureStep, CallsStep, SoloStep, OrderedStep
<1> QED
  BY <1>1, <1>2, PTL DEF Spec

\* As long as handlers leave the database alone, a query runs before any disconnect of
\* its handle that was asked for later, on a handle still open: Disconnect waits for its
\* own command, and new queries for the handle cannot come meanwhile.
THEOREM QueriesRunFirst ==
    ASSUME ReentrantHandler = FALSE
    PROVE  Spec => []QueriesPrecedeDisconnect
<1>1. Structure /\ Ordered => QueriesPrecedeDisconnect
  <2> SUFFICES ASSUME Structure, Ordered, NEW c \in Conns, NEW i \in DOMAIN commandQueue, Queued(i, "QUERY", c)
               PROVE  c \in handleMap /\ \A k \in 1 .. i - 1 : ~Queued(k, "DISCONNECT", c)
    BY DEF QueriesPrecedeDisconnect
  <2>1. IsA(commandQueue[i], "QUERY") /\ command[commandQueue[i]].conn = c
    BY DEF Queued, IsA
  <2>2. c \in handleMap
    BY <2>1, QueuedJobsAlive DEF Ordered, QueriesKnown
  <2>3. Len(commandQueue) \in Nat /\ DOMAIN commandQueue = 1..Len(commandQueue)
    BY QueuePositions DEF Structure, TypeOK
  <2>4. ASSUME NEW k \in 1..i - 1, Queued(k, "DISCONNECT", c)
        PROVE  FALSE
    <3>1. IsA(commandQueue[k], "DISCONNECT") /\ command[commandQueue[k]].conn = c
      BY <2>4 DEF Queued, IsA
    <3>2. k \in DOMAIN commandQueue /\ k < i
      BY <2>3
    <3> QED
      BY <2>1, <3>1, <3>2 DEF Ordered, QueriesFirst
  <2> QED
    BY <2>2, <2>4
<1> QED
  BY <1>1, OrderedInvariant, PTL

\* Then shutting the queue down discards no query: every connection is disconnected
\* before, and every query accepted on it is executed before that.
THEOREM ShutdownAfterQueries ==
    ASSUME ReentrantHandler = FALSE
    PROVE  Spec => []ShutdownLosesNoQuery
<1>1. Ordered => ShutdownLosesNoQuery
  BY DEF Ordered
<1> QED
  BY <1>1, OrderedInvariant, PTL

-----------------------------------------------------------------------------
(* Flushes: whatever handlers do, but with a connection for each handle.   *)

At(i, type, c) == command[commandQueue[i]] = [type |-> type, conn |-> c]

DirtyWillFlush ==
    \A d \in dirty : \E c \in handleMap :
        /\ ConnectionOf[c] = d
        /\ \/ c \in pendingFlush
           \/ \E k \in DOMAIN commandQueue : ~Executed(k) /\ (At(k, "FLUSH", c) \/ At(k, "DISCONNECT", c))

\* Unlike FlushScheduled, also of a query that was executed and is still in front: the
\* thread can be cancelled before it moves the query.
QueriesWillFlush ==
    \A c \in Conns \ pendingFlush : \A i \in DOMAIN commandQueue :
        At(i, "QUERY", c) => \E k \in DOMAIN commandQueue : i < k /\ At(k, "FLUSH", c)

LEMMA QueueKeptFlush ==
    ASSUME Structure, DirtyWillFlush, QueriesWillFlush,
           UNCHANGED <<commandQueue, pendingFlush, handleMap, dirty>>,
           \A k \in QueuedJobs : command'[k] = command[k],
           \A k \in DOMAIN commandQueue : Executed(k)' => Executed(k)
    PROVE  DirtyWillFlush' /\ QueriesWillFlush'
<1>1. \A k \in DOMAIN commandQueue : \A type, c : At(k, type, c)' <=> At(k, type, c)
  BY DEF At, QueuedJobs
<1>2. QueriesWillFlush'
  BY <1>1 DEF QueriesWillFlush
<1>3. DirtyWillFlush'
  BY <1>1 DEF DirtyWillFlush
<1> QED
  BY <1>2, <1>3

LEMMA AddCommandFlush ==
    ASSUME Structure, DirtyWillFlush, QueriesWillFlush,
           NEW j \in Jobs, NEW type, NEW c, NEW cb, AddCommand(j, type, c, cb),
           UNCHANGED <<handleMap, dirty, thread>>,
           \A b \in pendingFlush : b \in pendingFlush' \/ (b = c /\ type = "FLUSH"),
           \A b \in Conns \ pendingFlush' : b \notin pendingFlush \/ (b = c /\ type = "FLUSH"),
           type = "QUERY" => c \in pendingFlush'
    PROVE  DirtyWillFlush' /\ QueriesWillFlush'
<1> DEFINE q == commandQueue
<1> PICK n : n = Len(q)
  OBVIOUS
<1>0. /\ n = Len(q) /\ q \in Seq(Jobs) /\ n \in Nat /\ DOMAIN q = 1..n /\ \A i \in 1..n : q[i] \in Jobs
      /\ command \in [Jobs -> Command]
  BY QueuePositions DEF Structure, TypeOK
<1>1. q' = Append(q, j) /\ command' = [command EXCEPT ![j] = [type |-> type, conn |-> c]] /\ j \notin Active
  BY DEF AddCommand, PushBack, Active
<1>2. /\ DOMAIN q' = 1..n + 1 /\ q'[n + 1] = j /\ \A i \in 1..n : q'[i] = q[i]
      /\ \A i \in 1..n + 1 : i \in 1..n \/ i = n + 1
  BY <1>0, <1>1, QueuePositions
<1>3. \A i \in 1..n : q[i] # j
  BY <1>0, <1>1, QueuedJobsAlive
<1>4. \A i \in 1..n : \A t, b : At(i, t, b)' <=> At(i, t, b)
  BY <1>0, <1>1, <1>2, <1>3 DEF At
<1>5. command'[q'[n + 1]] = [type |-> type, conn |-> c]
  BY <1>0, <1>1, <1>2
<1>6. At(n + 1, type, c)' /\ \A t, b : At(n + 1, t, b)' => t = type /\ b = c
  BY <1>5 DEF At
<1>7. \A i \in 1..n : i < n + 1 /\ i \in 1..n + 1 /\ n + 1 \in 1..n + 1
  BY <1>0
<1>8. n + 1 \in 1..n + 1 /\ (Executed(n + 1)' => type # "FLUSH" \/ n = 0)
  BY <1>0 DEF Executed
<1>9. n = 0 => ~Executed(n + 1)'
  <2> SUFFICES ASSUME n = 0, Executed(n + 1)'
               PROVE  FALSE
    OBVIOUS
  <2>1. thread = "store" /\ q = <<>>
    BY <1>0, EmptySeq DEF Executed
  <2> QED
    BY <2>1 DEF Structure, ThreadHoldsFront
<1>10. \A i \in 1..n : Executed(i)' <=> Executed(i)
  BY DEF Executed
<1> HIDE DEF q
<1>11. QueriesWillFlush'
  <2> SUFFICES ASSUME NEW b \in Conns, b \notin pendingFlush', NEW i \in 1..n + 1, At(i, "QUERY", b)'
               PROVE  \E k \in 1..n + 1 : i < k /\ At(k, "FLUSH", b)'
    BY <1>2 DEF QueriesWillFlush, q
  <2>1. i \in 1..n /\ At(i, "QUERY", b)
    BY <1>2, <1>4, <1>6
  <2>2. CASE b \notin pendingFlush
    <3>1. PICK k \in 1..n : i < k /\ At(k, "FLUSH", b)
      BY <1>0, <2>1, <2>2 DEF QueriesWillFlush, q
    <3> QED
      BY <1>4, <1>7, <3>1
  <2>3. CASE b = c /\ type = "FLUSH"
    BY <1>6, <1>7, <2>1, <2>3
  <2> QED
    BY <2>2, <2>3
<1>12. DirtyWillFlush'
  <2> SUFFICES ASSUME NEW d \in dirty
               PROVE  \E b \in handleMap :
                        /\ ConnectionOf[b] = d
                        /\ \/ b \in pendingFlush'
                           \/ \E k \in 1..n + 1 : ~Executed(k)' /\ (At(k, "FLUSH", b)' \/ At(k, "DISCONNECT", b)')
    BY <1>2 DEF DirtyWillFlush, q
  <2>1. PICK b \in handleMap :
          /\ ConnectionOf[b] = d
          /\ \/ b \in pendingFlush
             \/ \E k \in 1..n : ~Executed(k) /\ (At(k, "FLUSH", b) \/ At(k, "DISCONNECT", b))
    BY <1>0 DEF DirtyWillFlush, q
  <2>2. CASE b \in pendingFlush
    <3>1. b \in pendingFlush' \/ (~Executed(n + 1)' /\ At(n + 1, "FLUSH", b)')
      BY <1>6, <1>8, <1>9, <2>2
    <3> QED
      BY <1>8, <2>1, <3>1
  <2>3. CASE \E k \in 1..n : ~Executed(k) /\ (At(k, "FLUSH", b) \/ At(k, "DISCONNECT", b))
    BY <1>4, <1>7, <1>10, <2>1, <2>3
  <2> QED
    BY <2>1, <2>2, <2>3
<1> QED
  BY <1>11, <1>12

LEMMA ThreadStepFlush ==
    ASSUME \A a, b \in Conns : ConnectionOf[a] = ConnectionOf[b] => a = b,
           Structure, DirtyWillFlush, QueriesWillFlush, ThreadStep
    PROVE  DirtyWillFlush' /\ QueriesWillFlush'
<1> DEFINE q == commandQueue
           n == Len(q)
<1>0. /\ q \in Seq(Jobs) /\ n \in Nat /\ DOMAIN q = 1..n /\ \A i \in 1..n : q[i] \in Jobs
      /\ command \in [Jobs -> Command] /\ handleMap \subseteq Conns
  BY QueuePositions DEF Structure, TypeOK
<1>1. UNCHANGED <<command, pendingFlush>>
  BY ThreadStepLeaves
<1>2. CASE ThreadTake \/ ThreadExit
  <2>1. UNCHANGED <<commandQueue, handleMap, dirty>> /\ thread' # "store"
    BY <1>2 DEF ThreadTake, ThreadExit, queueVars, connVars
  <2> QED
    BY <1>1, <2>1, QueueKeptFlush DEF Executed
<1>3. CASE ThreadStore
  <2>1. q # <<>> /\ q' = Tail(q) /\ thread = "store" /\ thread' = "loop" /\ UNCHANGED <<handleMap, dirty>>
    BY <1>3 DEF ThreadStore, Structure, ThreadHoldsFront, connVars
  <2>2. /\ DOMAIN q' = 1..n - 1
        /\ \A i \in 1..n - 1 : i + 1 \in 1..n /\ q'[i] = q[i + 1]
        /\ \A i \in 1..n : i # 1 => i - 1 \in 1..n - 1
    BY <1>0, <2>1, QueuePositions
  <2>3. \A i \in 1..n - 1 : \A t, c : At(i, t, c)' <=> At(i + 1, t, c)
    BY <1>1, <2>2 DEF At
  <2>4. \A k : ~Executed(k)'
    BY <2>1 DEF Executed
  <2>5. ASSUME NEW k \in 1..n, k # 1
        PROVE  k - 1 \in 1..n - 1 /\ \A t, c : At(k - 1, t, c)' <=> At(k, t, c)
    <3>1. k - 1 \in 1..n - 1 /\ (k - 1) + 1 = k
      BY <2>2, <2>5
    <3> QED
      BY <2>3, <3>1
  <2> HIDE DEF q, n
  <2>6. QueriesWillFlush'
    <3> SUFFICES ASSUME NEW c \in Conns \ pendingFlush, NEW i \in 1..n - 1, At(i, "QUERY", c)'
                 PROVE  \E k \in 1..n - 1 : i < k /\ At(k, "FLUSH", c)'
      BY <1>1, <2>2 DEF QueriesWillFlush, q
    <3>1. i + 1 \in 1..n /\ At(i + 1, "QUERY", c)
      BY <2>2, <2>3
    <3>2. PICK k \in 1..n : i + 1 < k /\ At(k, "FLUSH", c)
      BY <1>0, <3>1 DEF QueriesWillFlush, q
    <3>3. k # 1 /\ i < k - 1
      BY <3>2
    <3> QED
      BY <2>5, <3>2, <3>3
  <2>7. DirtyWillFlush'
    <3> SUFFICES ASSUME NEW d \in dirty
                 PROVE  \E c \in handleMap :
                          /\ ConnectionOf[c] = d
                          /\ \/ c \in pendingFlush
                             \/ \E k \in 1..n - 1 : ~Executed(k)' /\ (At(k, "FLUSH", c)' \/ At(k, "DISCONNECT", c)')
      BY <1>1, <2>1, <2>2 DEF DirtyWillFlush, q
    <3>1. PICK c \in handleMap :
            /\ ConnectionOf[c] = d
            /\ \/ c \in pendingFlush
               \/ \E k \in 1..n : ~Executed(k) /\ (At(k, "FLUSH", c) \/ At(k, "DISCONNECT", c))
      BY <1>0 DEF DirtyWillFlush, q
    <3>2. \A k \in 1..n : ~Executed(k) => k # 1
      BY <2>1 DEF Executed
    <3> QED
      BY <2>4, <2>5, <3>1, <3>2
  <2> QED
    BY <2>6, <2>7
<1>4. CASE ProcessConnect \/ ProcessDisconnect \/ ProcessQuery \/ ProcessFlush \/ ProcessSetLogLevel
  <2>1. /\ thread = "process" /\ thread' = "store" /\ UNCHANGED <<commandQueue, current>>
    BY <1>4 DEF ProcessConnect, ProcessDisconnect, ProcessQuery, ProcessFlush, ProcessSetLogLevel,
                Processing, queueVars
  <2>2. q # <<>> /\ Head(q) = current
    BY <2>1 DEF Structure, ThreadHoldsFront
  <2>3. 1 \in 1..n /\ q[1] = current /\ current \in Jobs
    BY <1>0, <2>2, QueuePositions
  <2>4. \A k \in 1..n : k # 1 => ~Executed(k)'
    BY DEF Executed
  <2>5. \A k, t, c : At(k, t, c)' <=> At(k, t, c)
    BY <1>1, <2>1 DEF At
  <2>6. \A t, c : At(1, t, c) => command[current].type = t /\ command[current].conn = c
    BY <2>3 DEF At
  <2>7. QueriesWillFlush'
    BY <1>1, <2>1, <2>5 DEF QueriesWillFlush
  \* What is scheduled for another handle than that of the command in front stays so.
  <2>8. ASSUME NEW d \in dirty, NEW c \in handleMap, ConnectionOf[c] = d, c \in handleMap',
               \/ c \in pendingFlush
               \/ \E k \in 1..n : ~Executed(k) /\ (At(k, "FLUSH", c) \/ At(k, "DISCONNECT", c)),
               c # command[current].conn \/ command[current].type \notin {"FLUSH", "DISCONNECT"}
        PROVE  \/ c \in pendingFlush
               \/ \E k \in 1..n : ~Executed(k)' /\ (At(k, "FLUSH", c)' \/ At(k, "DISCONNECT", c)')
    BY <2>4, <2>5, <2>6, <2>8
  <2>9. ASSUME handleMap \ {command[current].conn} \subseteq handleMap',
               command[current].type \notin {"FLUSH", "DISCONNECT"} => handleMap \subseteq handleMap',
               \A d \in dirty' : d \in dirty \/ \E c \in handleMap' :
                   /\ ConnectionOf[c] = d
                   /\ \/ c \in pendingFlush
                      \/ \E k \in 1..n : ~Executed(k)' /\ (At(k, "FLUSH", c)' \/ At(k, "DISCONNECT", c)'),
               command[current].type \in {"FLUSH", "DISCONNECT"} =>
                   \A d \in dirty' : \A c \in handleMap : ConnectionOf[c] = d => c # command[current].conn
        PROVE  DirtyWillFlush'
    <3> SUFFICES ASSUME NEW d \in dirty'
                 PROVE  \E c \in handleMap' :
                          /\ ConnectionOf[c] = d
                          /\ \/ c \in pendingFlush
                             \/ \E k \in 1..n : ~Executed(k)' /\ (At(k, "FLUSH", c)' \/ At(k, "DISCONNECT", c)')
      BY <1>0, <1>1, <2>1 DEF DirtyWillFlush
    <3>1. CASE d \in dirty
      <4>1. PICK c \in handleMap :
              /\ ConnectionOf[c] = d
              /\ \/ c \in pendingFlush
                 \/ \E k \in 1..n : ~Executed(k) /\ (At(k, "FLUSH", c) \/ At(k, "DISCONNECT", c))
        BY <1>0, <3>1 DEF DirtyWillFlush
      <4>2. /\ c \in handleMap'
            /\ c # command[current].conn \/ command[current].type \notin {"FLUSH", "DISCONNECT"}
        BY <2>9, <4>1
      <4> QED
        BY <2>8, <3>1, <4>1, <4>2
    <3>2. CASE d \notin dirty
      BY <2>9, <3>2
    <3> QED
      BY <3>1, <3>2
  <2>10. CASE ProcessConnect \/ ProcessSetLogLevel
    <3>1. command[current].type \notin {"FLUSH", "DISCONNECT"} /\ handleMap \subseteq handleMap' /\ dirty' = dirty
      BY <2>10 DEF ProcessConnect, ProcessSetLogLevel, Processing
    <3> QED
      BY <2>7, <2>9, <3>1
  <2>11. CASE ProcessQuery
    <3>1. /\ command[current].type = "QUERY" /\ handleMap' = handleMap
          /\ dirty' = dirty \/ (currentConn \in handleMap /\ dirty' = dirty \cup {ConnectionOf[currentConn]})
      BY <2>11 DEF ProcessQuery, Processing
    <3>2. ASSUME NEW b \in handleMap, b = currentConn
          PROVE  \/ b \in pendingFlush
                 \/ \E k \in 1..n : ~Executed(k)' /\ At(k, "FLUSH", b)'
      <4>1. b \in Conns /\ At(1, "QUERY", b)
        <5>1. command[current] \in Command /\ command[current].type = "QUERY"
          BY <1>0, <2>3, <3>1
        <5>2. command[current] = [type |-> "QUERY", conn |-> command[current].conn]
          BY <5>1 DEF Command
        <5> QED
          BY <1>0, <2>3, <3>2, <5>2 DEF At, currentConn
      <4>2. CASE b \notin pendingFlush
        <5>1. PICK k \in 1..n : 1 < k /\ At(k, "FLUSH", b)
          BY <1>0, <2>3, <4>1, <4>2 DEF QueriesWillFlush
        <5> QED
          BY <2>4, <2>5, <5>1
      <4> QED
        BY <4>2
    <3>3. \A d \in dirty' : d \in dirty \/ \E c \in handleMap' :
            /\ ConnectionOf[c] = d
            /\ \/ c \in pendingFlush
               \/ \E k \in 1..n : ~Executed(k)' /\ (At(k, "FLUSH", c)' \/ At(k, "DISCONNECT", c)')
      BY <3>1, <3>2
    <3> QED
      BY <2>7, <2>9, <3>1, <3>3
  <2>12. CASE ProcessFlush
    <3>1. /\ command[current].type = "FLUSH" /\ handleMap' = handleMap
          /\ \/ dirty' = dirty /\ currentConn \notin handleMap
             \/ currentConn \in handleMap /\ dirty' = dirty \ {ConnectionOf[currentConn]}
      BY <2>12 DEF ProcessFlush, Processing
    <3> QED
      BY <2>7, <2>9, <3>1 DEF currentConn
  <2>13. CASE ProcessDisconnect
    <3>1. /\ command[current].type = "DISCONNECT"
          /\ \/ dirty' = dirty /\ currentConn \notin handleMap /\ handleMap' = handleMap
             \/ /\ handleMap' = handleMap \ {currentConn} /\ currentConn \in handleMap
                /\ dirty' = dirty \cap SharedBy(handleMap \ {currentConn})
      BY <2>13 DEF ProcessDisconnect, Processing, Release
    <3>2. \A d \in dirty' : \A c \in handleMap : ConnectionOf[c] = d => c # currentConn
      <4> SUFFICES ASSUME currentConn \in handleMap,
                          NEW d \in SharedBy(handleMap \ {currentConn}), ConnectionOf[currentConn] = d
                   PROVE  FALSE
        BY <3>1
      <4>1. PICK c \in handleMap \ {currentConn} : ConnectionOf[c] = d
        BY DEF SharedBy
      <4> QED
        BY <1>0, <4>1
    <3>3. handleMap \ {command[current].conn} \subseteq handleMap' /\ dirty' \subseteq dirty
      BY <3>1 DEF currentConn
    <3> QED
      BY <2>7, <2>9, <3>1, <3>2, <3>3 DEF currentConn
  <2> QED
    BY <1>4, <2>10, <2>11, <2>12, <2>13
<1> QED
  BY <1>2, <1>3, <1>4 DEF ThreadStep

LEMMA FlushStep ==
    ASSUME \A a, b \in Conns : ConnectionOf[a] = ConnectionOf[b] => a = b,
           Structure, DirtyWillFlush, QueriesWillFlush, [Next]_vars
    PROVE  DirtyWillFlush' /\ QueriesWillFlush'
<1>1. CASE ThreadStep
  BY <1>1, ThreadStepFlush
<1>2. ASSUME NEW c \in Conns, QueryStart(c) \/ Exec(c) \/ QueryWithResult(c)
      PROVE  DirtyWillFlush' /\ QueriesWillFlush'
  <2>1. PICK j \in Jobs, cb \in {"none", "script", "log"} : AddQuery(j, c, cb)
    BY <1>2 DEF QueryStart, Exec, QueryWithResult
  <2>2. /\ AddCommand(j, "QUERY", c, cb) /\ pendingFlush' = pendingFlush \cup {c}
        /\ UNCHANGED <<handleMap, dirty, thread>>
    BY <2>1 DEF AddQuery, threadVars
  <2> QED
    BY <2>2, AddCommandFlush
<1>3. ASSUME NEW c, Connect(c) \/ Disconnect(c)
      PROVE  DirtyWillFlush' /\ QueriesWillFlush'
  <2>1. PICK j \in Jobs, type \in {"CONNECT", "DISCONNECT"} : AddCommand(j, type, c, "none")
    BY <1>3 DEF Connect, Disconnect
  <2>2. UNCHANGED <<pendingFlush, handleMap, dirty, thread>>
    BY <1>3 DEF Connect, Disconnect, connVars, threadVars
  <2> QED
    BY <2>1, <2>2, AddCommandFlush
<1>4. CASE SetLogLevel
  <2>1. PICK j \in Jobs : AddCommand(j, "SETLOGLEVEL", NoConn, "none")
    BY <1>4 DEF SetLogLevel
  <2>2. UNCHANGED <<pendingFlush, handleMap, dirty, thread>>
    BY <1>4 DEF SetLogLevel, connVars, threadVars
  <2> QED
    BY <2>1, <2>2, AddCommandFlush
<1>5. CASE PulseFlush
  <2>1. PICK c \in pendingFlush, j \in Jobs :
            AddCommand(j, "FLUSH", c, "none") /\ pendingFlush' = pendingFlush \ {c}
    BY <1>5 DEF PulseFlush
  <2>2. UNCHANGED <<handleMap, dirty, thread>>
    BY <1>5 DEF PulseFlush, threadVars
  <2> QED
    BY <2>1, <2>2, AddCommandFlush
<1>6. CASE PulseAgain
  <2>1. /\ UNCHANGED <<commandQueue, pendingFlush, handleMap, dirty, thread>>
        /\ \A k \in Jobs : k \notin finishedList => command'[k] = command[k]
    BY <1>6 DEF PulseAgain, connVars, threadVars
  <2>2. \A k \in QueuedJobs : k \in Jobs /\ k \notin finishedList
    BY QueuedJobsAlive
  <2> QED
    BY <2>1, <2>2, QueueKeptFlush DEF Executed
<1>7. CASE \/ \E c \in Conns : DisconnectUnknown(c)
           \/ \E j \in Jobs : DbPoll(j) \/ DbFree(j)
           \/ FreeCommand \/ PollFound \/ PollTimeout \/ PollWait \/ PollWake
           \/ CollectConnect \/ CollectDisconnect \/ CollectQuery
           \/ PulseFlushed \/ PulseScan \/ PulseEnd \/ ScriptReturn \/ PulseStart \/ StopThread
           \/ StopReturn \/ Stopped \/ UNCHANGED vars
  <2>1. UNCHANGED <<command, commandQueue, pendingFlush, handleMap, dirty, thread>>
    BY <1>7 DEF DisconnectUnknown, DbPoll, DbFree, FreeCommand, PollFound, PollTimeout, PollWait, PollWake,
                CollectConnect, CollectDisconnect, CollectQuery, PulseFlushed, PulseScan, PulseEnd,
                ScriptReturn, PulseStart, StopThread, StopReturn, Stopped, vars, jobVars, queueVars,
                connVars, threadVars
  <2> QED
    BY <2>1, QueueKeptFlush DEF Executed
<1>8. CASE StopCancel
  <2>1. UNCHANGED <<command, commandQueue, pendingFlush, handleMap, dirty>> /\ thread' = "cancelled"
    BY <1>8 DEF StopCancel, jobVars, queueVars, connVars
  <2> QED
    BY <2>1, QueueKeptFlush DEF Executed
<1> QED
  BY <1>1, <1>2, <1>3, <1>4, <1>5, <1>6, <1>7, <1>8 DEF Next, ClientOp, MainStep

\* If no two handles share a connection, changes never stay in an open transaction with
\* nothing scheduled to flush them, whatever scripts and handlers do.
THEOREM ChangesWillFlush ==
    ASSUME \A a, b \in Conns : ConnectionOf[a] = ConnectionOf[b] => a = b
    PROVE  Spec => []FlushScheduled
<1>1. Init => DirtyWillFlush /\ QueriesWillFlush
  <2> SUFFICES ASSUME Init
               PROVE  DirtyWillFlush /\ QueriesWillFlush
    OBVIOUS
  <2>1. dirty = {} /\ commandQueue = <<>>
    BY DEF Init
  <2> QED
    BY <2>1 DEF DirtyWillFlush, QueriesWillFlush
<1>2. Structure /\ DirtyWillFlush /\ QueriesWillFlush /\ [Next]_vars
      => (Structure /\ DirtyWillFlush /\ QueriesWillFlush)'
  BY StructureStep, FlushStep
<1>3. Structure /\ DirtyWillFlush /\ QueriesWillFlush => FlushScheduled
  <2> SUFFICES ASSUME Structure, DirtyWillFlush, QueriesWillFlush
               PROVE  FlushScheduled
    OBVIOUS
  <2>1. DOMAIN commandQueue = 1..Len(commandQueue)
    BY QueuePositions DEF Structure, TypeOK
  <2>2. \A i, k \in DOMAIN commandQueue : i < k => ~Executed(k)
    BY <2>1 DEF Executed
  <2>3. \A d \in dirty : \E c \in handleMap :
          /\ ConnectionOf[c] = d
          /\ \/ c \in pendingFlush
             \/ \E k \in DOMAIN commandQueue : Queued(k, "FLUSH", c) \/ Queued(k, "DISCONNECT", c)
    BY DEF DirtyWillFlush, Queued, At
  <2>4. \A c \in Conns \ pendingFlush : \A i \in DOMAIN commandQueue :
          Queued(i, "QUERY", c) => \E k \in DOMAIN commandQueue : k > i /\ Queued(k, "FLUSH", c)
    <3> SUFFICES ASSUME NEW c \in Conns \ pendingFlush, NEW i \in DOMAIN commandQueue, Queued(i, "QUERY", c)
                 PROVE  \E k \in DOMAIN commandQueue : k > i /\ Queued(k, "FLUSH", c)
      OBVIOUS
    <3>1. PICK k \in DOMAIN commandQueue : i < k /\ At(k, "FLUSH", c)
      BY DEF QueriesWillFlush, Queued, At
    <3>2. k > i
      BY <2>1, <3>1
    <3> QED
      BY <2>2, <3>1, <3>2 DEF Queued, At
  <2> QED
    BY <2>3, <2>4 DEF FlushScheduled
<1>4. Init => Structure
  BY StructureInit
<1> QED
  BY <1>1, <1>2, <1>3, <1>4, PTL DEF Spec

-----------------------------------------------------------------------------
(* The queue implements QueryService.                                      *)

Outcomes == [j \in Jobs |-> Outcome(j)]

LEMMA OutcomeOf ==
    ASSUME Structure
    PROVE  \A j \in Jobs : /\ Outcomes[j] = Outcome(j)
                           /\ j \in QueuedJobs => Outcomes[j] = "accepted"
                           /\ j \in ResultJobs => Outcomes[j] = "ready"
                           /\ j \in finishedList => Outcomes[j] = "taken"
                           /\ stage[j] = "NONE" => Outcomes[j] = "none"
<1>1. \A j \in Jobs : /\ j \in QueuedJobs => stage[j] \in {"COMMAND_QUEUE", "PROCCESSING"}
                      /\ j \in ResultJobs => stage[j] = "RESULT"
                      /\ j \in finishedList => stage[j] = "FINISHED"
  BY DEF Structure, JobPlacement
<1> QED
  BY <1>1 DEF Outcomes, Outcome

\* A new stage for one job.
LEMMA OutcomeChange ==
    ASSUME Structure, NEW j \in Jobs, NEW st, stage' = [stage EXCEPT ![j] = st]
    PROVE  Outcomes' = [Outcomes EXCEPT ![j] = IF st = "NONE" THEN "none"
                                               ELSE IF st = "RESULT" THEN "ready"
                                               ELSE IF st = "FINISHED" THEN "taken" ELSE "accepted"]
<1>1. stage \in [Jobs -> EJobStage]
  BY DEF Structure, TypeOK
<1>2. \A k \in Jobs : stage'[k] = IF k = j THEN st ELSE stage[k]
  BY <1>1
<1> QED
  BY <1>2 DEF Outcomes, Outcome

LEMMA OutcomesKept ==
    ASSUME UNCHANGED stage
    PROVE  Outcomes' = Outcomes
BY DEF Outcomes, Outcome

LEMMA AddCommandAccepts ==
    ASSUME Structure, NEW j \in Jobs, NEW type, NEW c, NEW cb, AddCommand(j, type, c, cb)
    PROVE  Service!Accept(j)
<1>1. /\ stage[j] = "NONE" /\ stage' = [stage EXCEPT ![j] = "COMMAND_QUEUE"]
      /\ commandQueue' = Append(commandQueue, j) /\ UNCHANGED ignored
  BY DEF AddCommand, PushBack
<1>2. Outcomes[j] = "none"
  BY <1>1, OutcomeOf
<1>3. Outcomes' = [Outcomes EXCEPT ![j] = "accepted"]
  <2>1. stage' = [stage EXCEPT ![j] = "COMMAND_QUEUE"]
    BY <1>1
  <2> QED
    BY <2>1, OutcomeChange
<1> QED
  BY <1>1, <1>2, <1>3 DEF Service!Accept, Outcomes

LEMMA ClientOpRefines ==
    ASSUME Structure, ClientOp
    PROVE  [Service!Next]_(Service!vars)
<1>1. ASSUME NEW j \in Jobs, NEW type, NEW c, NEW cb, AddCommand(j, type, c, cb)
      PROVE  Service!Next
  BY <1>1, AddCommandAccepts DEF Service!Next
<1>2. ASSUME NEW c \in Conns, QueryStart(c) \/ Exec(c) \/ QueryWithResult(c) \/ Connect(c) \/ Disconnect(c)
      PROVE  Service!Next
  <2>1. PICK j \in Jobs, type \in {"QUERY", "CONNECT", "DISCONNECT"}, cb \in {"none", "script", "log"} :
            AddCommand(j, type, c, cb)
    BY <1>2 DEF QueryStart, Exec, QueryWithResult, AddQuery, Connect, Disconnect
  <2> QED
    BY <1>1, <2>1
<1>3. CASE SetLogLevel
  BY <1>1, <1>3 DEF SetLogLevel
<1>4. CASE \E c \in Conns : DisconnectUnknown(c)
  <2>1. UNCHANGED <<stage, commandQueue, ignored>>
    BY <1>4 DEF DisconnectUnknown, jobVars, queueVars
  <2> QED
    BY <2>1, OutcomesKept DEF Service!vars, Outcomes
<1>5. CASE \E j \in Jobs : DbPoll(j) \/ DbFree(j)
  <2>1. UNCHANGED <<stage, commandQueue, ignored>>
    BY <1>5 DEF DbPoll, DbFree, jobVars, queueVars
  <2> QED
    BY <2>1, OutcomesKept DEF Service!vars, Outcomes
<1> QED
  BY <1>2, <1>3, <1>4, <1>5 DEF ClientOp

\* A result is taken out of the result queue.
LEMMA FinishTakes ==
    ASSUME Structure, NEW i \in 1..Len(resultQueue), Finish(i), UNCHANGED <<commandQueue, ignored>>
    PROVE  Service!Next
<1> DEFINE j == resultQueue[i]
<1>1. resultQueue \in Seq(Jobs) /\ DOMAIN resultQueue = 1..Len(resultQueue)
  BY LenProperties DEF Structure, TypeOK
<1>2. j \in Jobs /\ j \in ResultJobs
  BY <1>1, ElementOfSeq DEF ResultJobs
<1>3. stage' = [stage EXCEPT ![j] = "FINISHED"]
  BY DEF Finish
<1> HIDE DEF j
<1>4. Outcomes[j] = "ready" /\ Outcomes' = [Outcomes EXCEPT ![j] = "taken"]
  BY <1>2, <1>3, OutcomeOf, OutcomeChange
<1>5. PICK k \in Jobs : k = j
  BY <1>2
<1>6. Service!Take(k)
  BY <1>4, <1>5 DEF Service!Take, Outcomes
<1>7. Service!Collect(k) \/ Service!ThrowAway(k)
  BY <1>6 DEF Service!Collect, Service!ThrowAway
<1> QED
  BY <1>7 DEF Service!Next

LEMMA MainStepRefines ==
    ASSUME Structure, MainStep \/ ScriptReturn \/ PulseStart \/ StopThread \/ Stopped
    PROVE  [Service!Next]_(Service!vars)
<1>0. /\ stack \in Seq(Frame) /\ resultQueue \in Seq(Jobs) /\ finishedList \subseteq Jobs
      /\ stage \in [Jobs -> EJobStage]
  BY DEF Structure, TypeOK
<1>1. ASSUME UNCHANGED <<stage, commandQueue, ignored>>
      PROVE  UNCHANGED Service!vars
  BY <1>1, OutcomesKept DEF Service!vars, Outcomes
<1>2. \A j \in QueuedJobs \cup ResultJobs : j \in Jobs /\ Outcomes[j] \in {"accepted", "ready"}
  <2>1. QueuedJobs \cup ResultJobs \subseteq Jobs
    BY QueuedAreActive DEF Active
  <2> QED
    BY <2>1, OutcomeOf
<1>3. ASSUME NEW S \in SUBSET (QueuedJobs \cup ResultJobs), ignored' = ignored \cup S,
             UNCHANGED <<stage, commandQueue>>
      PROVE  Service!Next
  <2>1. S \in SUBSET Jobs /\ \A j \in S : Outcomes[j] \in {"accepted", "ready"}
    BY <1>2
  <2>2. Service!GiveUp(S)
    BY <1>3, <2>1, OutcomesKept DEF Service!GiveUp, Outcomes
  <2> QED
    BY <2>1, <2>2 DEF Service!Next
<1>4. CASE FreeCommand
  <2>1. UNCHANGED <<stage, commandQueue>>
    BY <1>4 DEF FreeCommand, queueVars
  <2>2. CASE InQueues(Top.job)
    <3>1. PICK j \in QueuedJobs \cup ResultJobs : ignored' = ignored \cup {j}
      BY <1>4, <2>2 DEF FreeCommand, InQueues
    <3> QED
      BY <1>3, <2>1, <3>1
  <2>3. CASE ~InQueues(Top.job)
    BY <1>1, <1>4, <2>1, <2>3 DEF FreeCommand
  <2> QED
    BY <2>2, <2>3
<1>5. CASE CollectDisconnect
  <2>1. UNCHANGED <<stage, commandQueue>>
    BY <1>5 DEF CollectDisconnect, queueVars
  <2>2. UNCHANGED ignored \/ \E c : ignored' = ignored \cup OnConn(c)
    BY <1>5 DEF CollectDisconnect, IgnoreConnectionResults
  <2>3. \A c : OnConn(c) \in SUBSET (QueuedJobs \cup ResultJobs)
    BY DEF OnConn
  <2>4. UNCHANGED ignored \/ \E S \in SUBSET (QueuedJobs \cup ResultJobs) : ignored' = ignored \cup S
    BY <2>2, <2>3
  <2> QED
    BY <1>1, <1>3, <2>1, <2>4
<1>6. CASE PollFound
  <2>1. PICK i \in DOMAIN resultQueue : Finish(i)
    BY <1>6 DEF PollFound
  <2>2. i \in 1..Len(resultQueue) /\ UNCHANGED <<commandQueue, ignored>>
    BY <1>0, <1>6, LenProperties DEF PollFound
  <2> QED
    BY <2>1, <2>2, FinishTakes
<1>7. CASE PulseScan
  <2>1. stack # <<>> /\ Top.at = "scan" /\ Top.op = "pulse" /\ Top.pos <= Len(resultQueue)
        /\ UNCHANGED <<commandQueue, ignored>>
    BY <1>7 DEF PulseScan, In
  <2>2. PICK p \in 1..Len(resultQueue) : p = Top.pos
    <3>1. Top.pos \in Nat \ {0} /\ Len(resultQueue) \in Nat
      BY <1>0, <2>1, TailPositions, FrameFields, LenProperties DEF Top
    <3> QED
      BY <2>1, <3>1
  <2>3. Finish(p) \/ UNCHANGED stage
    BY <1>7, <2>2 DEF PulseScan
  <2> QED
    BY <1>1, <2>1, <2>3, FinishTakes
<1>8. CASE PulseAgain
  <2>1. /\ ignored' = ignored \ finishedList /\ UNCHANGED commandQueue
        /\ stage' = [j \in Jobs |-> IF j \in finishedList THEN "NONE" ELSE stage[j]]
    BY <1>8 DEF PulseAgain
  <2>2. Outcomes' = [j \in Jobs |-> IF j \in finishedList THEN "none" ELSE Outcomes[j]]
    BY <2>1 DEF Outcomes, Outcome
  <2>3. \A j \in finishedList : Outcomes[j] = "taken"
    BY <1>0, OutcomeOf
  <2>4. Service!Forget(finishedList)
    BY <2>1, <2>2, <2>3 DEF Service!Forget, Outcomes
  <2>5. PICK S \in SUBSET Jobs : Service!Forget(S)
    BY <1>0, <2>4
  <2> QED
    BY <2>5 DEF Service!Next
<1>9. CASE PulseFlush
  <2>1. PICK c \in pendingFlush, j \in Jobs : AddCommand(j, "FLUSH", c, "none")
    BY <1>9 DEF PulseFlush
  <2> QED
    BY <2>1, AddCommandAccepts DEF Service!Next
<1>10. CASE \/ PollTimeout \/ PollWait \/ PollWake \/ CollectConnect \/ CollectQuery
            \/ PulseFlushed \/ PulseEnd \/ StopReturn \/ StopCancel
            \/ ScriptReturn \/ PulseStart \/ StopThread \/ Stopped
  <2>1. UNCHANGED <<stage, commandQueue, ignored>>
    BY <1>10 DEF PollTimeout, PollWait, PollWake, CollectConnect, CollectQuery, PulseFlushed, PulseEnd,
                 StopReturn, StopCancel, ScriptReturn, PulseStart, StopThread, Stopped, vars, jobVars, queueVars
  <2> QED
    BY <1>1, <2>1
<1> QED
  BY <1>4, <1>5, <1>6, <1>7, <1>8, <1>9, <1>10 DEF MainStep

LEMMA ThreadStepRefines ==
    ASSUME Structure, ThreadStep
    PROVE  [Service!Next]_(Service!vars)
<1>0. commandQueue \in Seq(Jobs)
  BY DEF Structure, TypeOK
<1>1. UNCHANGED ignored
  BY ThreadStepLeaves
<1>2. commandQueue # <<>> =>
        /\ Head(commandQueue) \in Jobs /\ Head(commandQueue) \in QueuedJobs
  BY <1>0, QueuePositions DEF QueuedJobs
<1>3. CASE ThreadStore
  <2>1. /\ commandQueue # <<>> /\ commandQueue' = Tail(commandQueue)
        /\ stage' = [stage EXCEPT ![Head(commandQueue)] = "RESULT"]
    BY <1>3 DEF ThreadStore, Structure, ThreadHoldsFront
  <2>2. Outcomes' = [Outcomes EXCEPT ![Head(commandQueue)] = "ready"]
    BY <1>2, <2>1, OutcomeChange
  <2>3. Service!Execute
    BY <1>1, <2>1, <2>2 DEF Service!Execute, Outcomes
  <2> QED
    BY <2>3 DEF Service!Next
<1>4. CASE ThreadTake
  <2>1. /\ commandQueue # <<>> /\ UNCHANGED commandQueue
        /\ stage' = [stage EXCEPT ![Head(commandQueue)] = "PROCCESSING"]
    BY <1>4 DEF ThreadTake, queueVars
  <2>2. Outcomes' = [Outcomes EXCEPT ![Head(commandQueue)] = "accepted"]
    BY <1>2, <2>1, OutcomeChange
  <2>3. Outcomes[Head(commandQueue)] = "accepted"
    BY <1>2, <2>1, OutcomeOf
  <2>4. Outcomes' = Outcomes
    BY <2>2, <2>3 DEF Outcomes
  <2> QED
    BY <1>1, <2>1, <2>4 DEF Service!vars, Outcomes
<1>5. CASE ~ThreadStore /\ ~ThreadTake
  <2>1. UNCHANGED <<stage, commandQueue>>
    BY <1>5 DEF ThreadStep, ProcessConnect, ProcessDisconnect, ProcessQuery, ProcessFlush,
                ProcessSetLogLevel, Processing, ThreadExit, jobVars, queueVars
  <2> QED
    BY <1>1, <2>1, OutcomesKept DEF Service!vars, Outcomes
<1> QED
  BY <1>3, <1>4, <1>5

\* The job queue implements the service that QueryService promises, whatever scripts and
\* handlers do: commands are executed once each in the order they were accepted, a result
\* is taken once, and a job is forgotten only after that.
THEOREM QueueImplementsService == Spec => ImplementsQueryService
<1>1. Init => Service!Init
  <2> SUFFICES ASSUME Init
               PROVE  Service!Init
    OBVIOUS
  <2>1. Outcomes = [j \in Jobs |-> "none"]
    BY DEF Init, Outcomes, Outcome
  <2> QED
    BY <2>1 DEF Init, Service!Init, Outcomes
<1>2. Structure /\ [Next]_vars => [Service!Next]_(Service!vars)
  <2> SUFFICES ASSUME Structure, [Next]_vars
               PROVE  [Service!Next]_(Service!vars)
    OBVIOUS
  <2>1. CASE ClientOp
    BY <2>1, ClientOpRefines
  <2>2. CASE MainStep \/ ScriptReturn \/ PulseStart \/ StopThread \/ Stopped
    BY <2>2, MainStepRefines
  <2>3. CASE ThreadStep
    BY <2>3, ThreadStepRefines
  <2>4. CASE UNCHANGED vars
    BY <2>4, OutcomesKept DEF Service!vars, Outcomes, vars, jobVars, queueVars
  <2> QED
    BY <2>1, <2>2, <2>3, <2>4 DEF Next
<1> QED
  BY <1>1, <1>2, StructureInvariant, PTL DEF Spec, ImplementsQueryService, Service!Spec
=============================================================================
