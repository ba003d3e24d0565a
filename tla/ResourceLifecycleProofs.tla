----------------------- MODULE ResourceLifecycleProofs -----------------------
(***************************************************************************)
(* Theorems about ResourceLifecycle, for any resources, includes and       *)
(* bounds, and any nesting of the calls that handlers make.                *)
(*                                                                         *)
(* The invariant is about the state of the resources and the stack         *)
(* together.  Its parts are operators of both, so that they can be stated  *)
(* of the state in the middle of a step too: most steps end in a Call,     *)
(* which pushes the frame of a Start or a Stop on what is left of the      *)
(* stack.                                                                  *)
(***************************************************************************)
EXTENDS ResourceLifecycle, SequenceLemmas

Frames(s) == {s[i] : i \in DOMAIN s}

Ops == {"start", "stop", "reload", "lua", "queue", "stopall"}
Pcs == EventPcs \cup StartingPcs \cup StoppingPcs
         \cup {"announce", "called", "loop", "restart", "reload"}
Kinds == {"stop", "restart", "restart2", "stopall"}

FrameType == [op : Ops, r : Resources, pc : Pcs, left : Seq(Resources),
              manual : BOOLEAN, by : Resources, deps : SUBSET Resources]

QueuedType == [r : Resources, kind : Kinds, deps : SUBSET Resources]

\* The part of Start or Stop that holds the resource's state as a lock.
Locked(f) ==
    \/ f.op = "start" /\ f.pc \in StartingPcs
    \/ f.op = "stop" /\ f.pc \in StoppingPcs

LockedBy(s, op) == {f.r : f \in {g \in Frames(s) : g.op = op /\ Locked(g)}}

\* Above a frame that holds a resource's lock is no other Start or Stop of it.
Layered(s) ==
    \A i, k \in DOMAIN s :
        k < i /\ Locked(s[i]) /\ s[k].op \in {"start", "stop"} => s[k].r # s[i].r

\* While a Start or Stop of r is in these parts, r has its VM.
VMPcs == {"scripts", "aborting", "includes", "include", "starting",
          "stopped", "leave", "teardown"}

\* r is a dependent of all that it includes but the resources of S.
HoldsIncludes(R, r, S) == \A i \in R[r].links \ S : r \in R[i].deps

\* What a frame says of its resource.
FrameOK(R, f) ==
    /\ Locked(f) => (R[f.r].vm <=> f.pc \in VMPcs)
    /\ f.op = "start" /\ f.pc = "starting" => HoldsIncludes(R, f.r, {})
    /\ f.op = "start" /\ f.pc \in {"includes", "include"} =>
         HoldsIncludes(R, f.r, ToSet(f.left))
    /\ f.op = "start" /\ f.pc = "include" => f.left # <<>>

\* A Start that has made r run and not yet announced it, or a Stop that has only
\* called its first event: m_StartedResources and the requirements may lag behind.
Lags(f, r, pcs) ==
    /\ f.r = r
    /\ \/ f.op = "start" /\ f.pc \in pcs
       \/ f.op = "stop" /\ f.pc = "stopping"

ResOK(R, l) ==
    /\ R \in [Resources -> Resource] /\ l \subseteq Resources
    /\ \A r \in Resources \ l : R[r].state = "None"
    /\ \A r \in l : R[r].links \cup R[r].temps \subseteq l
    /\ \A r \in Resources :
        /\ R[r].links \subseteq Included(r)
        /\ R[r].state \in {"None", "Loaded"} => ~R[r].vm
        /\ R[r].state = "Running" => R[r].vm /\ HoldsIncludes(R, r, {})

Locks(R, s) ==
    /\ LockedBy(s, "start") = {r \in Resources : R[r].state = "Starting"}
    /\ LockedBy(s, "stop") = {r \in Resources : R[r].state = "Stopping"}

MapsOK(R, s, st, so, rq) ==
    /\ so = {r \in SyncDefined : R[r].vm /\ R[r].state # "Stopping"}
    /\ st \subseteq {r \in Resources : R[r].state = "Running"}
    /\ rq \subseteq MinClient
    /\ \A r \in Resources : R[r].state = "Running" =>
        /\ r \notin st => \E f \in Frames(s) : Lags(f, r, {"started", "announce"})
        /\ r \in MinClient \ rq => \E f \in Frames(s) : Lags(f, r, {"started"})
    /\ \A r \in rq : R[r].state # "Running" =>
        \E f \in Frames(s) : f.op = "start" /\ f.r = r /\ f.pc = "announce"

StackOK(R, s) ==
    /\ s \in Seq(FrameType)
    /\ Layered(s) /\ Locks(R, s)
    /\ \A f \in Frames(s) : FrameOK(R, f)

Good(R, s, l, st, so, rq) ==
    ResOK(R, l) /\ StackOK(R, s) /\ MapsOK(R, s, st, so, rq)

\* ProcessQueue is called by the main loop only; while it waits for a Stop, to
\* start the resource again, that Stop is the call above it.
Waiting(s) ==
    \A i \in DOMAIN s : s[i].op = "queue" =>
        /\ i = Len(s)
        /\ s[i].pc \in {"restart", "reload"} /\ i > 1 =>
             s[i - 1].op = "stop" /\ s[i - 1].r = s[i].r

\* The Stop that ProcessQueue waited for has returned.
Waited(s) == s # <<>> /\ Head(s).op = "queue" /\ Head(s).pc \in {"restart", "reload"}
WaitedOK(R, s) == Waited(s) => R[Head(s).r].state = "Loaded"

QueueOK ==
    /\ queue \in Seq(QueuedType)
    /\ \A i \in DOMAIN queue : queue[i].kind # "stopall" => queue[i].r \in live

IInv ==
    /\ Good(res, stack, live, started, syncOptions, requirements)
    /\ Waiting(stack) /\ WaitedOK(res, stack)
    /\ QueueOK

-----------------------------------------------------------------------------
(* The stack.                                                              *)

\* Pushing a frame on a stack.
LEMMA PushFrame ==
    ASSUME NEW s \in Seq(FrameType), NEW a \in FrameType
    PROVE  /\ <<a>> \o s \in Seq(FrameType) /\ <<a>> \o s # <<>>
           /\ Head(<<a>> \o s) = a /\ Tail(<<a>> \o s) = s
           /\ Len(<<a>> \o s) = Len(s) + 1 /\ Len(s) \in Nat
           /\ (<<a>> \o s)[1] = a
           /\ \A k \in 1 .. Len(s) : (<<a>> \o s)[k + 1] = s[k]
           /\ Frames(<<a>> \o s) = Frames(s) \cup {a}
<1>1. <<a>> \in Seq(FrameType) /\ Len(<<a>>) = 1 /\ <<a>>[1] = a
  OBVIOUS
<1> DEFINE t == <<a>> \o s
<1>2. Len(s) \in Nat /\ DOMAIN s = 1 .. Len(s)
  BY LenProperties
<1>3. /\ t \in Seq(FrameType) /\ Len(t) = 1 + Len(s)
      /\ \A k \in 1 .. 1 + Len(s) : t[k] = IF k <= 1 THEN <<a>>[k] ELSE s[k - 1]
  BY <1>1, <1>2, ConcatProperties
<1>4. DOMAIN t = 1 .. Len(s) + 1
  BY <1>2, <1>3, LenProperties
<1> HIDE DEF t
<1>5. t[1] = a /\ \A k \in 1 .. Len(s) : t[k + 1] = s[k]
  <2>1. 1 \in 1 .. 1 + Len(s)
    BY <1>2
  <2>2. \A k \in 1 .. Len(s) : k + 1 \in 1 .. 1 + Len(s) /\ ~(k + 1 <= 1) /\ k + 1 - 1 = k
    BY <1>2
  <2> QED
    BY <2>1, <2>2, <1>1, <1>3
<1>6. Frames(t) = Frames(s) \cup {a}
  <2>1. ASSUME NEW i \in DOMAIN t PROVE t[i] \in Frames(s) \cup {a}
    <3>1. CASE i = 1
      BY <3>1, <1>5
    <3>2. CASE i # 1
      <4>1. i - 1 \in 1 .. Len(s) /\ (i - 1) + 1 = i
        BY <3>2, <1>4, <1>2
      <4>2. t[i] = s[i - 1]
        BY <4>1, <1>5
      <4> QED
        BY <4>1, <4>2, <1>2 DEF Frames
    <3> QED
      BY <3>1, <3>2
  <2>2. ASSUME NEW i \in DOMAIN s PROVE s[i] \in Frames(t)
    <3>1. i + 1 \in DOMAIN t /\ t[i + 1] = s[i]
      BY <1>2, <1>4, <1>5
    <3> QED
      BY <3>1 DEF Frames
  <2>3. a \in Frames(t)
    <3>1. 1 \in DOMAIN t
      BY <1>2, <1>4
    <3> QED
      BY <3>1, <1>5 DEF Frames
  <2> QED
    BY <2>1, <2>2, <2>3 DEF Frames
<1>7. t # <<>> /\ Head(t) = a
  <2>1. Len(t) # 0
    BY <1>2, <1>3
  <2> QED
    BY <2>1, <1>3, <1>5
<1>8. Tail(t) = s
  <2>1. /\ Tail(t) \in Seq(FrameType) /\ Len(Tail(t)) = Len(t) - 1
        /\ \A k \in 1 .. Len(Tail(t)) : Tail(t)[k] = t[k + 1]
    BY <1>3, <1>7, HeadTailProperties
  <2>2. Len(Tail(t)) = Len(s)
    BY <2>1, <1>2, <1>3
  <2>3. \A k \in 1 .. Len(s) : Tail(t)[k] = s[k]
    BY <2>1, <2>2, <1>5
  <2> QED
    BY <2>1, <2>2, <2>3, SeqEqual
<1> QED
  BY <1>2, <1>3, <1>5, <1>6, <1>7, <1>8 DEF t

\* Every stack with a frame is one with its top pushed on the others.
LEMMA TopFrame ==
    ASSUME NEW s \in Seq(FrameType), s # <<>>
    PROVE  /\ Head(s) \in FrameType /\ Tail(s) \in Seq(FrameType)
           /\ s = <<Head(s)>> \o Tail(s)
<1>1. Head(s) \in FrameType /\ Tail(s) \in Seq(FrameType) /\ s = <<Head(s)>> \o Tail(s)
  BY HeadTailProperties
<1> QED
  BY <1>1

\* No frames.
LEMMA NoFrames == <<>> \in Seq(FrameType) /\ Frames(<<>>) = {} /\ DOMAIN <<>> = {}
  BY EmptySeq DEF Frames

\* What a frame adds to the resources that are locked.
LEMMA LockedByPush ==
    ASSUME NEW s \in Seq(FrameType), NEW a \in FrameType, NEW op
    PROVE  LockedBy(<<a>> \o s, op) =
             LockedBy(s, op) \cup IF a.op = op /\ Locked(a) THEN {a.r} ELSE {}
<1>1. Frames(<<a>> \o s) = Frames(s) \cup {a}
  BY PushFrame
<1> QED
  BY <1>1 DEF LockedBy

\* A stack is layered if what is below its top is, and nothing there has locked
\* the resource that the top starts or stops.
LEMMA LayeredPush ==
    ASSUME NEW s \in Seq(FrameType), NEW a \in FrameType
    PROVE  Layered(<<a>> \o s) <=>
             /\ Layered(s)
             /\ a.op \in {"start", "stop"} => \A f \in Frames(s) : Locked(f) => f.r # a.r
<1> DEFINE t == <<a>> \o s
<1>1. /\ t \in Seq(FrameType) /\ Len(t) = Len(s) + 1 /\ Len(s) \in Nat
      /\ t[1] = a /\ \A k \in 1 .. Len(s) : t[k + 1] = s[k]
  BY PushFrame
<1>2. DOMAIN t = 1 .. Len(s) + 1 /\ DOMAIN s = 1 .. Len(s)
  BY <1>1, LenProperties
<1> HIDE DEF t
<1>3. ASSUME Layered(t) PROVE Layered(s)
  <2> SUFFICES ASSUME NEW i \in DOMAIN s, NEW k \in DOMAIN s, k < i, Locked(s[i]),
                      s[k].op \in {"start", "stop"}
               PROVE  s[k].r # s[i].r
    BY DEF Layered
  <2>1. i + 1 \in DOMAIN t /\ k + 1 \in DOMAIN t /\ k + 1 < i + 1
    BY <1>1, <1>2
  <2>2. t[i + 1] = s[i] /\ t[k + 1] = s[k]
    BY <1>1, <1>2
  <2> QED
    BY <2>1, <2>2, <1>3 DEF Layered
<1>4. ASSUME Layered(t), a.op \in {"start", "stop"}, NEW f \in Frames(s), Locked(f)
      PROVE  f.r # a.r
  <2> PICK i \in DOMAIN s : f = s[i]
    BY DEF Frames
  <2>1. i + 1 \in DOMAIN t /\ 1 \in DOMAIN t /\ 1 < i + 1
    BY <1>1, <1>2
  <2>2. t[i + 1] = s[i]
    BY <1>1, <1>2
  <2> QED
    BY <2>1, <2>2, <1>1, <1>4 DEF Layered
<1>5. ASSUME Layered(s),
             a.op \in {"start", "stop"} => \A f \in Frames(s) : Locked(f) => f.r # a.r
      PROVE  Layered(t)
  <2> SUFFICES ASSUME NEW i \in DOMAIN t, NEW k \in DOMAIN t, k < i, Locked(t[i]),
                      t[k].op \in {"start", "stop"}
               PROVE  t[k].r # t[i].r
    BY DEF Layered
  <2>1. i - 1 \in DOMAIN s /\ t[i] = s[i - 1]
    <3>1. i - 1 \in 1 .. Len(s) /\ (i - 1) + 1 = i
      BY <1>1, <1>2
    <3> QED
      BY <3>1, <1>1, <1>2
  <2>2. CASE k = 1
    BY <2>1, <2>2, <1>1, <1>5 DEF Frames
  <2>3. CASE k # 1
    <3>1. k - 1 \in 1 .. Len(s) /\ (k - 1) + 1 = k /\ k - 1 < i - 1
      BY <2>3, <1>1, <1>2
    <3>2. t[k] = s[k - 1]
      BY <3>1, <1>1
    <3> QED
      BY <3>1, <3>2, <2>1, <1>2, <1>5 DEF Layered
  <2> QED
    BY <2>2, <2>3
<1> QED
  BY <1>3, <1>4, <1>5 DEF t

\* ProcessQueue at the bottom of the stack, seen from its top.
LEMMA WaitingPush ==
    ASSUME NEW s \in Seq(FrameType), NEW a \in FrameType
    PROVE  Waiting(<<a>> \o s) <=>
             /\ Waiting(s)
             /\ a.op = "queue" => s = <<>>
             /\ Waited(s) => a.op = "stop" /\ a.r = Head(s).r
<1> DEFINE t == <<a>> \o s
<1>1. /\ t \in Seq(FrameType) /\ Len(t) = Len(s) + 1 /\ Len(s) \in Nat
      /\ t[1] = a /\ \A k \in 1 .. Len(s) : t[k + 1] = s[k]
  BY PushFrame
<1>2. DOMAIN t = 1 .. Len(s) + 1 /\ DOMAIN s = 1 .. Len(s)
  BY <1>1, LenProperties
<1>3. s = <<>> <=> Len(s) = 0
  OBVIOUS
<1>4. s # <<>> => Head(s) = s[1] /\ 1 \in DOMAIN s
  BY <1>1, <1>2, <1>3
<1> HIDE DEF t
<1>5. ASSUME Waiting(t)
      PROVE  /\ Waiting(s)
             /\ a.op = "queue" => s = <<>>
             /\ Waited(s) => a.op = "stop" /\ a.r = Head(s).r
  <2>1. ASSUME NEW i \in DOMAIN s, s[i].op = "queue"
        PROVE  /\ i = Len(s)
               /\ s[i].pc \in {"restart", "reload"} => t[i].op = "stop" /\ t[i].r = s[i].r
    <3>1. i + 1 \in DOMAIN t /\ t[i + 1] = s[i] /\ i + 1 > 1 /\ (i + 1) - 1 = i /\ i \in Int
      BY <1>1, <1>2
    <3>2. i + 1 = Len(t)
      BY <3>1, <2>1, <1>5 DEF Waiting
    <3>3. s[i].pc \in {"restart", "reload"} =>
            t[(i + 1) - 1].op = "stop" /\ t[(i + 1) - 1].r = t[i + 1].r
      BY <3>1, <2>1, <1>5 DEF Waiting
    <3> QED
      BY <3>1, <3>2, <3>3, <1>1
  <2>2. Waiting(s)
    <3> SUFFICES ASSUME NEW i \in DOMAIN s, s[i].op = "queue",
                        s[i].pc \in {"restart", "reload"}, i > 1
                 PROVE  s[i - 1].op = "stop" /\ s[i - 1].r = s[i].r
      BY <2>1 DEF Waiting
    <3>1. i - 1 \in 1 .. Len(s) /\ (i - 1) + 1 = i
      BY <1>1, <1>2
    <3>2. t[i] = s[i - 1]
      BY <3>1, <1>1
    <3> QED
      BY <3>2, <2>1
  <2>3. a.op = "queue" => s = <<>>
    <3>1. 1 \in DOMAIN t
      BY <1>1, <1>2
    <3>2. a.op = "queue" => 1 = Len(t)
      BY <3>1, <1>1, <1>5 DEF Waiting
    <3> QED
      BY <3>2, <1>1, <1>3
  <2>4. Waited(s) => a.op = "stop" /\ a.r = Head(s).r
    BY <1>1, <1>4, <2>1 DEF Waited
  <2> QED
    BY <2>2, <2>3, <2>4
<1>6. ASSUME Waiting(s), a.op = "queue" => s = <<>>,
             Waited(s) => a.op = "stop" /\ a.r = Head(s).r
      PROVE  Waiting(t)
  <2> SUFFICES ASSUME NEW i \in DOMAIN t, t[i].op = "queue"
               PROVE  /\ i = Len(t)
                      /\ t[i].pc \in {"restart", "reload"} /\ i > 1 =>
                           t[i - 1].op = "stop" /\ t[i - 1].r = t[i].r
    BY DEF Waiting
  <2>1. CASE i = 1
    <3>1. s = <<>>
      BY <2>1, <1>1, <1>6
    <3> QED
      BY <3>1, <2>1, <1>1, <1>3
  <2>2. CASE i # 1
    <3>1. i - 1 \in 1 .. Len(s) /\ (i - 1) + 1 = i /\ i \in Int
      BY <2>2, <1>1, <1>2
    <3>2. t[i] = s[i - 1]
      BY <3>1, <1>1
    <3>3. i - 1 = Len(s)
      BY <3>1, <3>2, <1>2, <1>6 DEF Waiting
    <3>4. CASE i - 1 = 1
      BY <3>1, <3>2, <3>3, <3>4, <1>1, <1>2, <1>4, <1>6 DEF Waited
    <3>5. CASE i - 1 # 1
      <4>1. i - 2 \in 1 .. Len(s) /\ (i - 2) + 1 = i - 1 /\ i - 1 > 1 /\ (i - 1) - 1 = i - 2
        BY <3>1, <3>5, <1>1
      <4>2. t[i - 1] = s[i - 2]
        BY <4>1, <1>1
      <4>3. s[i - 1].pc \in {"restart", "reload"} =>
              s[(i - 1) - 1].op = "stop" /\ s[(i - 1) - 1].r = s[i - 1].r
        BY <4>1, <3>1, <3>2, <1>2, <1>6 DEF Waiting
      <4> QED
        BY <4>1, <4>2, <4>3, <3>2, <3>3, <3>1, <1>1
    <3> QED
      BY <3>4, <3>5
  <2> QED
    BY <2>1, <2>2
<1> QED
  BY <1>5, <1>6 DEF t

-----------------------------------------------------------------------------
(* What leaves the stack as it is, and what is pushed on it.               *)

\* Those that include keep their includes as far as they have them.
Keeps(R, Q) ==
    \A r \in Resources : R[r].state \in {"Starting", "Running"} =>
        /\ Q[r].links \subseteq R[r].links
        /\ \A i \in Q[r].links : r \in R[i].deps => r \in Q[i].deps

\* From R to Q no resource changes its state, but between not loaded and loaded.
Quiet(R, Q, l) ==
    /\ Q \in [Resources -> Resource] /\ l \subseteq Resources
    /\ \A r \in Resources \ l : Q[r].state = "None"
    /\ \A r \in l : Q[r].links \cup Q[r].temps \subseteq l
    /\ \A r \in Resources :
        /\ Q[r].vm = R[r].vm /\ Q[r].links \subseteq Included(r)
        /\ \/ Q[r].state = R[r].state
           \/ Q[r].state \in {"None", "Loaded"} /\ R[r].state \in {"None", "Loaded"}
    /\ Keeps(R, Q)

\* The resources that a frame of Start has locked are starting, those of Stop
\* stopping.
LEMMA LockedState ==
    ASSUME NEW R, NEW s \in Seq(FrameType), Locks(R, s), NEW f \in Frames(s), Locked(f)
    PROVE  /\ f.op \in {"start", "stop"} /\ f.r \in Resources
           /\ f.op = "start" => R[f.r].state = "Starting"
           /\ f.op = "stop" => R[f.r].state = "Stopping"
<1>1. f.op \in {"start", "stop"}
  BY DEF Locked
<1>2. f.r \in LockedBy(s, f.op)
  BY DEF LockedBy
<1> QED
  BY <1>1, <1>2 DEF Locks

\* A quiet change keeps what a frame says.
LEMMA QuietFrame ==
    ASSUME NEW R, NEW Q, NEW l, Quiet(R, Q, l),
           NEW s \in Seq(FrameType), Locks(R, s), NEW f \in Frames(s), FrameOK(R, f)
    PROVE  FrameOK(Q, f)
<1>1. Locked(f) => (Q[f.r].vm <=> f.pc \in VMPcs)
  BY LockedState DEF FrameOK, Quiet
<1>2. ASSUME f.op = "start", f.pc \in {"starting", "includes", "include"}, NEW S,
             HoldsIncludes(R, f.r, S)
      PROVE  HoldsIncludes(Q, f.r, S)
  <2>1. Locked(f)
    BY <1>2 DEF Locked, StartingPcs
  <2>2. f.r \in Resources /\ R[f.r].state = "Starting"
    BY <2>1, <1>2, LockedState
  <2> QED
    BY <2>2, <1>2 DEF Quiet, Keeps, HoldsIncludes
<1> QED
  BY <1>1, <1>2 DEF FrameOK

LEMMA QuietGood ==
    ASSUME NEW R, NEW Q, NEW s, NEW l, NEW k, NEW st, NEW so, NEW rq,
           Good(R, s, l, st, so, rq), Quiet(R, Q, k)
    PROVE  Good(Q, s, k, st, so, rq)
<1> USE DEF Good
<1>0. s \in Seq(FrameType) /\ Locks(R, s) /\ Layered(s)
  BY DEF StackOK
<1>1. ResOK(Q, k)
  <2>1. ASSUME NEW r \in Resources
        PROVE  /\ Q[r].links \subseteq Included(r)
               /\ Q[r].state \in {"None", "Loaded"} => ~Q[r].vm
               /\ Q[r].state = "Running" => Q[r].vm /\ HoldsIncludes(Q, r, {})
    BY DEF ResOK, Quiet, Keeps, HoldsIncludes
  <2> QED
    BY <2>1 DEF ResOK, Quiet
<1>2. StackOK(Q, s)
  <2>1. ASSUME NEW f \in Frames(s) PROVE FrameOK(Q, f)
    <3>1. FrameOK(R, f)
      BY DEF StackOK
    <3> QED
      BY <3>1, <1>0, QuietFrame
  <2>2. \A r \in Resources : /\ Q[r].state = "Starting" <=> R[r].state = "Starting"
                             /\ Q[r].state = "Stopping" <=> R[r].state = "Stopping"
    BY DEF Quiet
  <2>3. Locks(Q, s)
    BY <2>2, <1>0 DEF Locks
  <2> QED
    BY <2>1, <2>3, <1>0 DEF StackOK
<1>3. MapsOK(Q, s, st, so, rq)
  <2>1. \A r \in Resources : /\ Q[r].state = "Running" <=> R[r].state = "Running"
                             /\ Q[r].state = "Stopping" <=> R[r].state = "Stopping"
                             /\ Q[r].vm = R[r].vm
    BY DEF Quiet
  <2>2. SyncDefined \subseteq Resources /\ MinClient \subseteq Resources
    BY ResourcesType
  <2> QED
    BY <2>1, <2>2 DEF MapsOK
<1> QED
  BY <1>1, <1>2, <1>3

\* A frame that locks nothing can be pushed; no Start or Stop of a resource is
\* while it is locked.
LEMMA PushGood ==
    ASSUME NEW R, NEW s, NEW l, NEW st, NEW so, NEW rq, Good(R, s, l, st, so, rq),
           NEW a \in FrameType, ~Locked(a),
           a.op \in {"start", "stop"} => R[a.r].state \notin {"Starting", "Stopping"}
    PROVE  Good(R, <<a>> \o s, l, st, so, rq)
<1> USE DEF Good
<1>0. s \in Seq(FrameType) /\ Locks(R, s) /\ Layered(s) /\ \A f \in Frames(s) : FrameOK(R, f)
  BY DEF StackOK
<1>1. <<a>> \o s \in Seq(FrameType) /\ Frames(<<a>> \o s) = Frames(s) \cup {a}
  BY <1>0, PushFrame
<1>2. Layered(<<a>> \o s)
  <2>1. ASSUME a.op \in {"start", "stop"}, NEW f \in Frames(s), Locked(f), f.r = a.r
        PROVE  FALSE
    BY <2>1, <1>0, LockedState
  <2> QED
    BY <2>1, <1>0, LayeredPush
<1>3. Locks(R, <<a>> \o s)
  <2>1. LockedBy(<<a>> \o s, "start") = LockedBy(s, "start")
    BY <1>0, LockedByPush, ZenonT(60)
  <2>2. LockedBy(<<a>> \o s, "stop") = LockedBy(s, "stop")
    BY <1>0, LockedByPush, ZenonT(60)
  <2> QED
    BY <2>1, <2>2, <1>0 DEF Locks
<1>4. FrameOK(R, a)
  BY DEF FrameOK, Locked, StartingPcs
<1>5. MapsOK(R, <<a>> \o s, st, so, rq)
  BY <1>1 DEF MapsOK
<1> QED
  BY <1>0, <1>1, <1>2, <1>3, <1>4, <1>5 DEF StackOK

\* The top of a stack that is neither a Start nor a Stop can be taken off.
LEMMA PopGood ==
    ASSUME NEW R, NEW s \in Seq(FrameType), NEW l, NEW st, NEW so, NEW rq,
           NEW a \in FrameType, a.op \notin {"start", "stop"},
           Good(R, <<a>> \o s, l, st, so, rq)
    PROVE  Good(R, s, l, st, so, rq)
<1> USE DEF Good
<1>0. /\ Locks(R, <<a>> \o s) /\ Layered(<<a>> \o s)
      /\ \A f \in Frames(<<a>> \o s) : FrameOK(R, f)
  BY DEF StackOK
<1>1. Frames(<<a>> \o s) = Frames(s) \cup {a}
  BY PushFrame
<1>2. Layered(s)
  BY <1>0, LayeredPush
<1>3. Locks(R, s)
  <2>1. LockedBy(<<a>> \o s, "start") = LockedBy(s, "start")
    BY LockedByPush, ZenonT(60)
  <2>2. LockedBy(<<a>> \o s, "stop") = LockedBy(s, "stop")
    BY LockedByPush, ZenonT(60)
  <2> QED
    BY <2>1, <2>2, <1>0 DEF Locks
<1>4. MapsOK(R, s, st, so, rq)
  <2>1. \A r, pcs : ~Lags(a, r, pcs)
    BY DEF Lags
  <2> QED
    BY <2>1, <1>1 DEF MapsOK
<1> QED
  BY <1>0, <1>1, <1>2, <1>3, <1>4 DEF StackOK

-----------------------------------------------------------------------------
(* Calls of Start and Stop.                                                *)

\* The frame of a call: none, or that of a Start or a Stop.
Fresh(R, frames) ==
    \/ frames = <<>>
    \/ \E r \in Resources, m \in BOOLEAN, D \in SUBSET Resources :
         /\ R[r].state = "Loaded"
         /\ frames = <<[Frame("start", r, "prestart") EXCEPT !.manual = m, !.deps = D]>>
    \/ \E r \in Resources :
         R[r].state = "Running" /\ frames = <<Frame("stop", r, "stopping")>>

LEMMA FrameIsFrame ==
    ASSUME NEW op \in Ops, NEW r \in Resources, NEW pc \in Pcs
    PROVE  /\ Frame(op, r, pc) \in FrameType
           /\ Frame(op, r, pc).op = op /\ Frame(op, r, pc).r = r
           /\ Frame(op, r, pc).pc = pc
<1>1. <<>> \in Seq(Resources)
  BY EmptySeq
<1> QED
  BY <1>1 DEF Frame, FrameType

LEMMA CallsFresh ==
    ASSUME NEW R, NEW r \in Resources, NEW m \in BOOLEAN, NEW D \in SUBSET Resources
    PROVE  /\ Fresh(R, StartFrame(R, r, m, D)) /\ Fresh(R, StopFrame(R, r, m))
           /\ Fresh(R, CheckStateFrame(R, r)) /\ Fresh(R, <<>>)
<1>1. Fresh(R, StartFrame(R, r, m, D))
  BY DEF Fresh, StartFrame
<1>2. \A x \in BOOLEAN : Fresh(R, StopFrame(R, r, x))
  BY DEF Fresh, StopFrame
<1>3. Fresh(R, StartFrame(R, r, FALSE, {}))
  BY DEF Fresh, StartFrame
<1> QED
  BY <1>1, <1>2, <1>3, ZenonT(60) DEF Fresh, CheckStateFrame

\* A Call from a good state is one to a good state, and not yet back in
\* ProcessQueue.
LEMMA CallGood ==
    ASSUME NEW R, NEW s, NEW l, NEW st, NEW so, NEW rq, Good(R, s, l, st, so, rq),
           NEW frames, Fresh(R, frames)
    PROVE  Good(Entered(R, frames), frames \o s, l, st, so, rq)
<1>0. s \in Seq(FrameType) /\ R \in [Resources -> Resource]
  BY DEF Good, StackOK, ResOK
<1>1. CASE frames = <<>>
  <2>1. frames \o s = s
    BY <1>1, <1>0, ConcatEmptySeq
  <2>2. DOMAIN frames = {}
    BY <1>1, NoFrames
  <2>3. Entered(R, frames) = R
    BY <2>2, <1>0 DEF Entered
  <2> QED
    BY <2>1, <2>3
<1>2. CASE \E r \in Resources :
             R[r].state = "Running" /\ frames = <<Frame("stop", r, "stopping")>>
  <2> PICK r \in Resources :
        R[r].state = "Running" /\ frames = <<Frame("stop", r, "stopping")>>
    BY <1>2
  <2> DEFINE a == Frame("stop", r, "stopping")
  <2>0. "stop" \in Ops /\ "stopping" \in Pcs
    BY DEF Ops, Pcs, EventPcs
  <2>1. a \in FrameType /\ a.op = "stop" /\ a.r = r /\ a.pc = "stopping"
    BY <2>0, FrameIsFrame
  <2>2. DOMAIN frames = {1} /\ frames[1] = a
    OBVIOUS
  <2> HIDE DEF a
  <2>3. Entered(R, frames) = R
    BY <2>1, <2>2, <1>0, ZenonT(60) DEF Entered
  <2>4. ~Locked(a)
    BY <2>1 DEF Locked, StoppingPcs
  <2>5. Good(R, <<a>> \o s, l, st, so, rq)
    BY <2>1, <2>4, PushGood
  <2> QED
    BY <2>3, <2>5 DEF a
<1>3. CASE \E r \in Resources, m \in BOOLEAN, D \in SUBSET Resources :
             /\ R[r].state = "Loaded"
             /\ frames = <<[Frame("start", r, "prestart") EXCEPT !.manual = m, !.deps = D]>>
  <2> PICK r \in Resources, m \in BOOLEAN, D \in SUBSET Resources :
        /\ R[r].state = "Loaded"
        /\ frames = <<[Frame("start", r, "prestart") EXCEPT !.manual = m, !.deps = D]>>
    BY <1>3
  <2> DEFINE a == [Frame("start", r, "prestart") EXCEPT !.manual = m, !.deps = D]
             Q == Entered(R, frames)
  <2> DEFINE b == Frame("start", r, "prestart")
  <2>0. "start" \in Ops /\ "prestart" \in Pcs
    BY DEF Ops, Pcs, EventPcs
  <2>b. b \in FrameType /\ b.op = "start" /\ b.r = r /\ b.pc = "prestart"
    BY <2>0, FrameIsFrame
  <2>1. a \in FrameType /\ a.op = "start" /\ a.r = r /\ a.pc = "prestart"
    <3> HIDE DEF b
    <3>1. a = [b EXCEPT !.manual = m, !.deps = D]
      BY DEF b
    <3> QED
      BY <3>1, <2>b DEF FrameType
  <2>2. DOMAIN frames = {1} /\ frames[1] = a
    OBVIOUS
  <2>3. frames \o s = <<a>> \o s
    OBVIOUS
  <2> HIDE DEF a
  <2>4. /\ Q \in [Resources -> Resource]
        /\ \A x \in Resources \ {r} : Q[x] = R[x]
        /\ Q[r].state = "Starting" /\ Q[r].vm = R[r].vm /\ Q[r].links = R[r].links
        /\ Q[r].deps = R[r].deps /\ Q[r].temps = R[r].temps
    <3>1. Q = [x \in Resources |->
                 IF x = r THEN [R[x] EXCEPT !.state = "Starting",
                                            !.deferred = IF @ = {} THEN @ ELSE {"earlier"}]
                 ELSE R[x]]
      <4>1. \A x : (\E i \in DOMAIN frames : frames[i].op = "start" /\ frames[i].r = x)
                     <=> x = r
        <5>1. \A i \in DOMAIN frames : frames[i].op = "start" /\ frames[i].r = r
          BY <2>1, <2>2
        <5>2. 1 \in DOMAIN frames
          BY <2>2
        <5> QED
          BY <5>1, <5>2, Zenon
      <4>2. ASSUME NEW x \in Resources
            PROVE  Entered(R, frames)[x] =
                     IF x = r THEN [R[x] EXCEPT !.state = "Starting",
                                            !.deferred = IF @ = {} THEN @ ELSE {"earlier"}]
                     ELSE R[x]
        BY <4>1 DEF Entered
      <4>3. Entered(R, frames) = [x \in Resources |-> Entered(R, frames)[x]]
        BY DEF Entered
      <4> QED
        BY <4>2, <4>3
    <3>2. R[r] \in Resource /\ "Starting" \in States
      BY <1>0 DEF States
    <3>3. [R[r] EXCEPT !.state = "Starting",
                       !.deferred = IF @ = {} THEN @ ELSE {"earlier"}] \in Resource
      BY <3>2 DEF Resource
    <3> HIDE DEF Q
    <3> QED
      BY <3>1, <3>2, <3>3, <1>0, ZenonT(60) DEF Resource
  <2> HIDE DEF Q
  <2>5. /\ Locks(R, s) /\ Layered(s) /\ \A f \in Frames(s) : FrameOK(R, f)
        /\ ResOK(R, l) /\ MapsOK(R, s, st, so, rq)
    BY DEF Good, StackOK
  <2>6. <<a>> \o s \in Seq(FrameType) /\ Frames(<<a>> \o s) = Frames(s) \cup {a}
    BY <1>0, <2>1, PushFrame
  <2>7. ~R[r].vm /\ r \in l
    BY <2>5 DEF ResOK
  <2>8. Locked(a)
    BY <2>1 DEF Locked, StartingPcs
  <2>9. \A f \in Frames(s) : Locked(f) => f.r # r
    BY <1>0, <2>5, LockedState
  <2>10. ResOK(Q, l)
    <3>1. \A x \in Resources : \A S : HoldsIncludes(R, x, S) => HoldsIncludes(Q, x, S)
      <4>1. \A i \in Resources : Q[i].deps = R[i].deps /\ Q[i].links = R[i].links
        BY <2>4
      <4>2. \A x \in Resources : R[x].links \subseteq Resources
        BY <1>0 DEF Resource
      <4> QED
        BY <4>1, <4>2 DEF HoldsIncludes
    <3>2. ASSUME NEW x \in Resources
          PROVE  /\ x \notin l => Q[x].state = "None"
                 /\ x \in l => Q[x].links \cup Q[x].temps \subseteq l
                 /\ Q[x].links \subseteq Included(x)
                 /\ Q[x].state \in {"None", "Loaded"} => ~Q[x].vm
                 /\ Q[x].state = "Running" => Q[x].vm /\ HoldsIncludes(Q, x, {})
      BY <3>1, <2>4, <2>5, <2>7 DEF ResOK
    <3> QED
      BY <3>2, <2>4, <2>5 DEF ResOK
  <2>11. StackOK(Q, <<a>> \o s)
    <3>1. Layered(<<a>> \o s)
      BY <1>0, <2>1, <2>5, <2>9, LayeredPush
    <3>2. LockedBy(<<a>> \o s, "start") = LockedBy(s, "start") \cup {r}
      BY <1>0, <2>1, <2>8, LockedByPush
    <3>3. LockedBy(<<a>> \o s, "stop") = LockedBy(s, "stop")
      BY <1>0, <2>1, LockedByPush
    <3>4. Locks(Q, <<a>> \o s)
      BY <3>2, <3>3, <2>4, <2>5 DEF Locks
    <3>5. FrameOK(Q, a)
      BY <2>1, <2>4, <2>7 DEF FrameOK, VMPcs
    <3>6. ASSUME NEW f \in Frames(s) PROVE FrameOK(Q, f)
      <4>1. FrameOK(R, f)
        BY <2>5
      <4>2. CASE Locked(f)
        <5>1. f.r \in Resources \ {r}
          BY <4>2, <2>9, <1>0, <2>5, LockedState
        <5>2. Q[f.r] = R[f.r] /\ \A i \in Resources : Q[i].deps = R[i].deps
          BY <5>1, <2>4
        <5>3. R[f.r].links \subseteq Resources
          BY <5>1, <1>0 DEF Resource
        <5> QED
          BY <4>1, <5>2, <5>3 DEF FrameOK, HoldsIncludes
      <4>3. CASE ~Locked(f)
        BY <4>3 DEF FrameOK, Locked, StartingPcs
      <4> QED
        BY <4>2, <4>3
    <3> QED
      BY <3>1, <3>4, <3>5, <3>6, <2>6 DEF StackOK
  <2>12. MapsOK(Q, <<a>> \o s, st, so, rq)
    <3>1. so = {x \in SyncDefined : Q[x].vm /\ Q[x].state # "Stopping"}
      <4>1. \A x \in SyncDefined : (Q[x].vm /\ Q[x].state # "Stopping")
                                     <=> (R[x].vm /\ R[x].state # "Stopping")
        BY <2>4, <2>7, ResourcesType
      <4> QED
        BY <4>1, <2>5 DEF MapsOK
    <3>2. \A x \in Resources : Q[x].state = "Running" <=> R[x].state = "Running"
      BY <2>4
    <3>3. rq \subseteq Resources
      BY <2>5, ResourcesType DEF MapsOK
    <3> QED
      BY <3>1, <3>2, <3>3, <2>5, <2>6 DEF MapsOK
  <2> QED
    BY <2>3, <2>10, <2>11, <2>12 DEF Good, Q
<1> QED
  BY <1>1, <1>2, <1>3 DEF Fresh

-----------------------------------------------------------------------------
(* Steps of a Start or Stop at the top of the stack that change its resource. *)

\* From R to Q only r changes, and no dependents.
Focused(R, Q, r, l) ==
    /\ Q \in [Resources -> Resource]
    /\ \A x \in Resources \ {r} : Q[x] = R[x]
    /\ Q[r].deps = R[r].deps
    /\ r \notin l => Q[r].state = "None"
    /\ r \in l => Q[r].links \cup Q[r].temps \subseteq l
    /\ Q[r].links \subseteq Included(r)
    /\ Q[r].state \in {"None", "Loaded"} => ~Q[r].vm
    /\ Q[r].state = "Running" => Q[r].vm /\ HoldsIncludes(Q, r, {})

\* The manager's sets change for r only, and agree with its state.
MapsFocused(Q, r, F, st, so, rq, st1, so1, rq1) ==
    /\ st1 \subseteq Resources /\ so1 \subseteq SyncDefined /\ rq1 \subseteq MinClient
    /\ \A x \in Resources \ {r} : /\ x \in st1 <=> x \in st
                                  /\ x \in so1 <=> x \in so
                                  /\ x \in rq1 <=> x \in rq
    /\ r \in so1 <=> r \in SyncDefined /\ Q[r].vm /\ Q[r].state # "Stopping"
    /\ r \in st1 => Q[r].state = "Running"
    /\ Q[r].state = "Running" =>
         /\ r \notin st1 => \E f \in F : Lags(f, r, {"started", "announce"})
         /\ r \in MinClient \ rq1 => \E f \in F : Lags(f, r, {"started"})
    /\ r \in rq1 /\ Q[r].state # "Running" =>
         \E f \in F : f.op = "start" /\ f.r = r /\ f.pc = "announce"

\* The top's resource is not locked by a frame below it.
LEMMA TopUnlocked ==
    ASSUME NEW R, NEW s \in Seq(FrameType), NEW t \in FrameType,
           StackOK(R, <<t>> \o s), t.op \in {"start", "stop"}
    PROVE  /\ Layered(s) /\ \A f \in Frames(s) : FrameOK(R, f)
           /\ FrameOK(R, t)
           /\ \A f \in Frames(s) : Locked(f) =>
                /\ f.r \in Resources \ {t.r} /\ f.op \in {"start", "stop"}
                /\ f.op = "start" => R[f.r].state = "Starting"
                /\ f.op = "stop" => R[f.r].state = "Stopping"
           /\ t.r \notin LockedBy(s, "start") /\ t.r \notin LockedBy(s, "stop")
           /\ R[t.r].state = "Starting" <=> t.op = "start" /\ Locked(t)
           /\ R[t.r].state = "Stopping" <=> t.op = "stop" /\ Locked(t)
           /\ \A x \in Resources \ {t.r} :
                /\ x \in LockedBy(s, "start") <=> R[x].state = "Starting"
                /\ x \in LockedBy(s, "stop") <=> R[x].state = "Stopping"
<1>0. /\ <<t>> \o s \in Seq(FrameType) /\ Locks(R, <<t>> \o s) /\ Layered(<<t>> \o s)
      /\ \A f \in Frames(<<t>> \o s) : FrameOK(R, f)
  BY DEF StackOK
<1>1. Frames(<<t>> \o s) = Frames(s) \cup {t}
  BY PushFrame
<1>2. Layered(s) /\ \A f \in Frames(s) : Locked(f) => f.r # t.r
  BY <1>0, LayeredPush
<1>3. \A f \in Frames(s) : Locked(f) =>
        /\ f.r \in Resources \ {t.r} /\ f.op \in {"start", "stop"}
        /\ f.op = "start" => R[f.r].state = "Starting"
        /\ f.op = "stop" => R[f.r].state = "Stopping"
  <2> SUFFICES ASSUME NEW f \in Frames(s), Locked(f)
               PROVE  /\ f.r \in Resources \ {t.r} /\ f.op \in {"start", "stop"}
                      /\ f.op = "start" => R[f.r].state = "Starting"
                      /\ f.op = "stop" => R[f.r].state = "Stopping"
    OBVIOUS
  <2>1. f \in Frames(<<t>> \o s)
    BY <1>1
  <2>2. /\ f.op \in {"start", "stop"} /\ f.r \in Resources
        /\ f.op = "start" => R[f.r].state = "Starting"
        /\ f.op = "stop" => R[f.r].state = "Stopping"
    BY <2>1, <1>0, LockedState
  <2> QED
    BY <2>2, <1>2
<1>4. t.r \notin LockedBy(s, "start") /\ t.r \notin LockedBy(s, "stop")
  BY <1>2 DEF LockedBy
<1>5. /\ LockedBy(<<t>> \o s, "start") =
           LockedBy(s, "start") \cup IF t.op = "start" /\ Locked(t) THEN {t.r} ELSE {}
      /\ LockedBy(<<t>> \o s, "stop") =
           LockedBy(s, "stop") \cup IF t.op = "stop" /\ Locked(t) THEN {t.r} ELSE {}
  BY LockedByPush
<1>6. t.r \in Resources
  BY DEF FrameType
<1>7. /\ R[t.r].state = "Starting" <=> t.op = "start" /\ Locked(t)
      /\ R[t.r].state = "Stopping" <=> t.op = "stop" /\ Locked(t)
  BY <1>0, <1>4, <1>5, <1>6 DEF Locks
<1>8. \A x \in Resources \ {t.r} :
        /\ x \in LockedBy(s, "start") <=> R[x].state = "Starting"
        /\ x \in LockedBy(s, "stop") <=> R[x].state = "Stopping"
  BY <1>0, <1>5 DEF Locks
<1> QED
  BY <1>0, <1>1, <1>2, <1>3, <1>4, <1>7, <1>8

\* After such a step, with s1 the stack: the frames below the top and perhaps one more.
LEMMA FocusGood ==
    ASSUME NEW R, NEW s \in Seq(FrameType), NEW t \in FrameType, NEW l,
           NEW st, NEW so, NEW rq, Good(R, <<t>> \o s, l, st, so, rq),
           t.op \in {"start", "stop"},
           NEW Q, Focused(R, Q, t.r, l),
           NEW s1 \in Seq(FrameType), Layered(s1), Frames(s) \subseteq Frames(s1),
           \A f \in Frames(s1) \ Frames(s) : FrameOK(Q, f),
           LockedBy(s1, "start") =
             LockedBy(s, "start") \cup IF Q[t.r].state = "Starting" THEN {t.r} ELSE {},
           LockedBy(s1, "stop") =
             LockedBy(s, "stop") \cup IF Q[t.r].state = "Stopping" THEN {t.r} ELSE {},
           NEW st1, NEW so1, NEW rq1,
           MapsFocused(Q, t.r, Frames(s1), st, so, rq, st1, so1, rq1)
    PROVE  Good(Q, s1, l, st1, so1, rq1)
<1> DEFINE r == t.r
<1>0. r \in Resources
  BY DEF FrameType
<1>1. ResOK(R, l) /\ StackOK(R, <<t>> \o s) /\ MapsOK(R, <<t>> \o s, st, so, rq)
  BY DEF Good
<1>2. \A i \in Resources : Q[i].deps = R[i].deps
  BY DEF Focused
<1>3. \A x \in Resources : \A S : x # r => (HoldsIncludes(Q, x, S) <=> HoldsIncludes(R, x, S))
  <2>1. \A x \in Resources : R[x].links \subseteq Resources
    BY <1>1 DEF ResOK, Resource
  <2>2. \A x \in Resources : x # r => Q[x].links = R[x].links
    BY DEF Focused
  <2> QED
    BY <2>1, <2>2, <1>2 DEF HoldsIncludes
<1>4. ResOK(Q, l)
  <2>1. ASSUME NEW x \in Resources
        PROVE  /\ x \notin l => Q[x].state = "None"
               /\ x \in l => Q[x].links \cup Q[x].temps \subseteq l
               /\ Q[x].links \subseteq Included(x)
               /\ Q[x].state \in {"None", "Loaded"} => ~Q[x].vm
               /\ Q[x].state = "Running" => Q[x].vm /\ HoldsIncludes(Q, x, {})
    <3>1. CASE x = r
      BY <3>1 DEF Focused
    <3>2. CASE x # r
      <4>1. Q[x] = R[x]
        BY <3>2 DEF Focused
      <4> QED
        BY <4>1, <3>2, <1>3, <1>1 DEF ResOK
    <3> QED
      BY <3>1, <3>2
  <2>2. l \subseteq Resources
    BY <1>1 DEF ResOK
  <2> QED
    BY <2>1, <2>2 DEF ResOK, Focused
<1>5. /\ \A f \in Frames(s) : FrameOK(R, f)
      /\ \A f \in Frames(s) : Locked(f) => f.r \in Resources \ {r}
      /\ r \notin LockedBy(s, "start") /\ r \notin LockedBy(s, "stop")
      /\ \A x \in Resources \ {r} :
           /\ x \in LockedBy(s, "start") <=> R[x].state = "Starting"
           /\ x \in LockedBy(s, "stop") <=> R[x].state = "Stopping"
  BY <1>1, TopUnlocked, ZenonT(60)
<1>6. StackOK(Q, s1)
  <2>1. ASSUME NEW f \in Frames(s) PROVE FrameOK(Q, f)
    <3>1. FrameOK(R, f)
      BY <1>5
    <3>2. CASE Locked(f)
      <4>1. f.r \in Resources /\ f.r # r
        BY <3>2, <1>5
      <4>2. Q[f.r] = R[f.r] /\ \A S : HoldsIncludes(Q, f.r, S) <=> HoldsIncludes(R, f.r, S)
        BY <4>1, <1>3 DEF Focused
      <4> QED
        BY <3>1, <4>2 DEF FrameOK
    <3>3. CASE ~Locked(f)
      BY <3>1, <3>3 DEF FrameOK, Locked, StartingPcs
    <3> QED
      BY <3>2, <3>3
  <2>2. LockedBy(s, "start") \subseteq Resources /\ LockedBy(s, "stop") \subseteq Resources
    BY <1>5 DEF LockedBy
  <2>3. \A x \in Resources \ {r} : Q[x] = R[x]
    BY DEF Focused
  <2>4. Locks(Q, s1)
    BY <2>2, <2>3, <1>0, <1>5 DEF Locks
  <2> QED
    BY <2>1, <2>4 DEF StackOK
<1>7. MapsOK(Q, s1, st1, so1, rq1)
  <2>1. \A x \in Resources \ {r} : Q[x] = R[x]
    BY DEF Focused
  <2>2. so1 = {x \in SyncDefined : Q[x].vm /\ Q[x].state # "Stopping"}
    <3>1. ASSUME NEW x \in SyncDefined
          PROVE  x \in so1 <=> Q[x].vm /\ Q[x].state # "Stopping"
      <4>1. CASE x = r
        BY <4>1 DEF MapsFocused
      <4>2. CASE x # r
        BY <4>2, <2>1, <1>1, ResourcesType, ZenonT(60) DEF MapsFocused, MapsOK
      <4> QED
        BY <4>1, <4>2
    <3> QED
      BY <3>1 DEF MapsFocused
  <2>3. \A x \in st1 : Q[x].state = "Running"
    BY <2>1, <1>1 DEF MapsFocused, MapsOK
  <2>4. Frames(<<t>> \o s) = Frames(s) \cup {t}
    BY PushFrame
  <2>5. ASSUME NEW x \in Resources, Q[x].state = "Running"
        PROVE  /\ x \notin st1 => \E f \in Frames(s1) : Lags(f, x, {"started", "announce"})
               /\ x \in MinClient \ rq1 => \E f \in Frames(s1) : Lags(f, x, {"started"})
    <3>1. CASE x = r
      BY <3>1, <2>5 DEF MapsFocused
    <3>2. CASE x # r
      <4>1. R[x].state = "Running" /\ (x \in st1 <=> x \in st) /\ (x \in rq1 <=> x \in rq)
        BY <3>2, <2>1, <2>5 DEF MapsFocused
      <4>2. \A pcs : ~Lags(t, x, pcs)
        BY <3>2 DEF Lags
      <4>3. /\ x \notin st =>
                 \E f \in Frames(<<t>> \o s) : Lags(f, x, {"started", "announce"})
            /\ x \in MinClient \ rq => \E f \in Frames(<<t>> \o s) : Lags(f, x, {"started"})
        BY <4>1, <1>1 DEF MapsOK
      <4> QED
        BY <4>1, <4>2, <4>3, <2>4
    <3> QED
      BY <3>1, <3>2
  <2>6. ASSUME NEW x \in rq1, Q[x].state # "Running"
        PROVE  \E f \in Frames(s1) : f.op = "start" /\ f.r = x /\ f.pc = "announce"
    <3>0. x \in Resources
      BY ResourcesType DEF MapsFocused
    <3>1. CASE x = r
      BY <3>1, <2>6 DEF MapsFocused
    <3>2. CASE x # r
      <4>1. R[x].state # "Running" /\ x \in rq
        BY <3>0, <3>2, <2>1, <2>6 DEF MapsFocused
      <4>2. \E f \in Frames(<<t>> \o s) : f.op = "start" /\ f.r = x /\ f.pc = "announce"
        BY <4>1, <1>1 DEF MapsOK
      <4> QED
        BY <4>2, <2>4, <3>2
    <3> QED
      BY <3>1, <3>2
  <2>7. st1 \subseteq Resources /\ rq1 \subseteq MinClient
    BY DEF MapsFocused
  <2> QED
    BY <2>2, <2>3, <2>5, <2>6, <2>7 DEF MapsOK
<1> QED
  BY <1>4, <1>6, <1>7 DEF Good

\* The top returns.
LEMMA FocusPop ==
    ASSUME NEW R, NEW s \in Seq(FrameType), NEW t \in FrameType, NEW l,
           NEW st, NEW so, NEW rq, Good(R, <<t>> \o s, l, st, so, rq),
           t.op \in {"start", "stop"},
           NEW Q, Focused(R, Q, t.r, l), Q[t.r].state \notin {"Starting", "Stopping"},
           NEW st1, NEW so1, NEW rq1,
           MapsFocused(Q, t.r, Frames(s), st, so, rq, st1, so1, rq1)
    PROVE  Good(Q, s, l, st1, so1, rq1)
<1>1. Layered(s)
  BY TopUnlocked DEF Good
<1>2. /\ LockedBy(s, "start") =
           LockedBy(s, "start") \cup IF Q[t.r].state = "Starting" THEN {t.r} ELSE {}
      /\ LockedBy(s, "stop") =
           LockedBy(s, "stop") \cup IF Q[t.r].state = "Stopping" THEN {t.r} ELSE {}
  OBVIOUS
<1>3. Frames(s) \subseteq Frames(s) /\ \A f \in Frames(s) \ Frames(s) : FrameOK(Q, f)
  OBVIOUS
<1> QED
  BY <1>1, <1>2, <1>3, FocusGood

\* The top goes on, to c.
LEMMA FocusKeep ==
    ASSUME NEW R, NEW s \in Seq(FrameType), NEW t \in FrameType, NEW l,
           NEW st, NEW so, NEW rq, Good(R, <<t>> \o s, l, st, so, rq),
           t.op \in {"start", "stop"},
           NEW c \in FrameType, c.r = t.r,
           NEW Q, Focused(R, Q, t.r, l), FrameOK(Q, c),
           Q[t.r].state = "Starting" <=> c.op = "start" /\ Locked(c),
           Q[t.r].state = "Stopping" <=> c.op = "stop" /\ Locked(c),
           NEW st1, NEW so1, NEW rq1,
           MapsFocused(Q, t.r, Frames(s) \cup {c}, st, so, rq, st1, so1, rq1)
    PROVE  Good(Q, <<c>> \o s, l, st1, so1, rq1)
<1>0. StackOK(R, <<t>> \o s)
  BY DEF Good
<1>1. Layered(s) /\ \A f \in Frames(s) : Locked(f) => f.r # c.r
  <2>1. /\ Layered(s)
        /\ \A f \in Frames(s) : Locked(f) => f.r \in Resources \ {t.r}
    BY <1>0, TopUnlocked
  <2> QED
    BY <2>1
<1>2. Layered(<<c>> \o s)
  BY <1>1, LayeredPush
<1>3. <<c>> \o s \in Seq(FrameType) /\ Frames(<<c>> \o s) = Frames(s) \cup {c}
  BY PushFrame
<1>4. /\ LockedBy(<<c>> \o s, "start") =
           LockedBy(s, "start") \cup IF Q[t.r].state = "Starting" THEN {t.r} ELSE {}
      /\ LockedBy(<<c>> \o s, "stop") =
           LockedBy(s, "stop") \cup IF Q[t.r].state = "Stopping" THEN {t.r} ELSE {}
  BY LockedByPush
<1>5. Frames(s) \subseteq Frames(<<c>> \o s)
      /\ \A f \in Frames(<<c>> \o s) \ Frames(s) : FrameOK(Q, f)
  BY <1>3
<1>6. MapsFocused(Q, t.r, Frames(<<c>> \o s), st, so, rq, st1, so1, rq1)
  BY <1>3
<1> QED
  BY <1>2, <1>3, <1>4, <1>5, <1>6, FocusGood

\* A Start that has run its resource and not announced it, or a Stop in its first
\* event: the manager's sets may wait for it.
Lagging(f) ==
    \/ f.op = "start" /\ f.pc \in {"started", "announce"}
    \/ f.op = "stop" /\ f.pc = "stopping"

\* What is known of the resource that the top of the stack starts or stops.
TopOK(R, s, t, l, st, so, rq) ==
    /\ R \in [Resources -> Resource] /\ R[t.r] \in Resource /\ t.r \in Resources
    /\ st \subseteq Resources /\ so \subseteq SyncDefined /\ rq \subseteq MinClient
    /\ l \subseteq Resources
    /\ t.r \notin l => R[t.r].state = "None"
    /\ t.r \in l => R[t.r].links \cup R[t.r].temps \subseteq l
    /\ R[t.r].links \subseteq Included(t.r)
    /\ R[t.r].state \in {"None", "Loaded"} => ~R[t.r].vm
    /\ R[t.r].state = "Running" => R[t.r].vm /\ HoldsIncludes(R, t.r, {})
    /\ R[t.r].state = "Starting" <=> t.op = "start" /\ Locked(t)
    /\ R[t.r].state = "Stopping" <=> t.op = "stop" /\ Locked(t)
    /\ FrameOK(R, t)
    /\ t.r \in so <=> t.r \in SyncDefined /\ R[t.r].vm /\ R[t.r].state # "Stopping"
    /\ t.r \in st => R[t.r].state = "Running"
    /\ R[t.r].state = "Running" =>
         /\ t.r \notin st =>
              \E f \in Frames(s) \cup {t} : Lags(f, t.r, {"started", "announce"})
         /\ t.r \in MinClient \ rq =>
              \E f \in Frames(s) \cup {t} : Lags(f, t.r, {"started"})
    /\ t.r \in rq /\ R[t.r].state # "Running" =>
         \E f \in Frames(s) \cup {t} : f.op = "start" /\ f.r = t.r /\ f.pc = "announce"

LEMMA TopFacts ==
    ASSUME NEW R, NEW s \in Seq(FrameType), NEW t \in FrameType, NEW l,
           NEW st, NEW so, NEW rq, Good(R, <<t>> \o s, l, st, so, rq),
           t.op \in {"start", "stop"}
    PROVE  TopOK(R, s, t, l, st, so, rq)
<1>1. t.r \in Resources
  BY DEF FrameType
<1>2. ResOK(R, l) /\ StackOK(R, <<t>> \o s) /\ MapsOK(R, <<t>> \o s, st, so, rq)
  BY DEF Good
<1>3. Frames(<<t>> \o s) = Frames(s) \cup {t}
  BY PushFrame
<1>4. /\ FrameOK(R, t)
      /\ R[t.r].state = "Starting" <=> t.op = "start" /\ Locked(t)
      /\ R[t.r].state = "Stopping" <=> t.op = "stop" /\ Locked(t)
  BY <1>2, TopUnlocked
<1>5. /\ t.r \in so <=> t.r \in SyncDefined /\ R[t.r].vm /\ R[t.r].state # "Stopping"
      /\ t.r \in st => R[t.r].state = "Running"
      /\ st \subseteq Resources /\ so \subseteq SyncDefined /\ rq \subseteq MinClient
  BY <1>2 DEF MapsOK
<1>6. /\ R[t.r].state = "Running" =>
           /\ t.r \notin st =>
                \E f \in Frames(s) \cup {t} : Lags(f, t.r, {"started", "announce"})
           /\ t.r \in MinClient \ rq =>
                \E f \in Frames(s) \cup {t} : Lags(f, t.r, {"started"})
      /\ t.r \in rq /\ R[t.r].state # "Running" =>
           \E f \in Frames(s) \cup {t} : f.op = "start" /\ f.r = t.r /\ f.pc = "announce"
  BY <1>1, <1>2, <1>3 DEF MapsOK
<1>7. /\ R \in [Resources -> Resource] /\ R[t.r] \in Resource /\ l \subseteq Resources
      /\ t.r \notin l => R[t.r].state = "None"
      /\ t.r \in l => R[t.r].links \cup R[t.r].temps \subseteq l
      /\ R[t.r].links \subseteq Included(t.r)
      /\ R[t.r].state \in {"None", "Loaded"} => ~R[t.r].vm
      /\ R[t.r].state = "Running" => R[t.r].vm /\ HoldsIncludes(R, t.r, {})
  BY <1>1, <1>2 DEF ResOK
<1> QED
  BY <1>1, <1>4, <1>5, <1>6, <1>7 DEF TopOK

\* The top goes from one place in its part to another.
LEMMA GoOn ==
    ASSUME NEW R, NEW s \in Seq(FrameType), NEW t \in FrameType, NEW l,
           NEW st, NEW so, NEW rq, Good(R, <<t>> \o s, l, st, so, rq),
           NEW c \in FrameType, c.op = t.op, c.r = t.r,
           t.op \in {"start", "stop"} => Locked(t) /\ Locked(c) /\ FrameOK(R, c)
    PROVE  Good(R, <<c>> \o s, l, st, so, rq)
<1>1. CASE t.op \notin {"start", "stop"}
  <2>1. Good(R, s, l, st, so, rq)
    BY <1>1, PopGood
  <2>2. ~Locked(c)
    BY <1>1 DEF Locked
  <2> QED
    BY <2>1, <2>2, <1>1, PushGood
<1>2. CASE t.op \in {"start", "stop"}
  <2>0. TopOK(R, s, t, l, st, so, rq)
    BY <1>2, TopFacts
  <2>1. Locked(t) /\ Locked(c) /\ FrameOK(R, c)
    BY <1>2
  <2>2. R[t.r].state \in {"Starting", "Stopping"}
    BY <2>0, <2>1, <1>2 DEF TopOK
  <2>3. Focused(R, R, t.r, l)
    BY <2>0, <2>2 DEF Focused, TopOK
  <2>4. t.pc # "announce"
    BY <2>1, <1>2 DEF Locked, StartingPcs, StoppingPcs
  <2>5. MapsFocused(R, t.r, Frames(s) \cup {c}, st, so, rq, st, so, rq)
    BY <2>0, <2>2, <2>4 DEF MapsFocused, TopOK
  <2>6. /\ R[t.r].state = "Starting" <=> c.op = "start" /\ Locked(c)
        /\ R[t.r].state = "Stopping" <=> c.op = "stop" /\ Locked(c)
    BY <2>0, <2>1 DEF TopOK
  <2> QED
    BY <1>2, <2>1, <2>3, <2>5, <2>6, FocusKeep
<1> QED
  BY <1>1, <1>2

-----------------------------------------------------------------------------
(* Steps, in terms of the top of the stack and what is below it.           *)

Below == Tail(stack)
GoodWith(R, s) == Good(R, s, live, started, syncOptions, requirements)

\* The invariant, seen from the top of the stack.
LEMMA FromTop ==
    ASSUME IInv, stack # <<>>
    PROVE  /\ Top \in FrameType /\ Below \in Seq(FrameType)
           /\ stack = <<Top>> \o Below
           /\ Good(res, <<Top>> \o Below, live, started, syncOptions, requirements)
           /\ Waiting(Below)
           /\ Top.op = "queue" => Below = <<>>
           /\ Waited(Below) => Top.op = "stop" /\ Top.r = Head(Below).r
           /\ Top.op = "queue" /\ Top.pc \in {"restart", "reload"} =>
                res[Top.r].state = "Loaded"
<1>1. stack \in Seq(FrameType)
  BY DEF IInv, Good, StackOK
<1>2. Top \in FrameType /\ Below \in Seq(FrameType) /\ stack = <<Top>> \o Below
  BY <1>1, TopFrame DEF Top, Below
<1>3. Waiting(<<Top>> \o Below)
  BY <1>2 DEF IInv
<1>4. /\ Waiting(Below)
      /\ Top.op = "queue" => Below = <<>>
      /\ Waited(Below) => Top.op = "stop" /\ Top.r = Head(Below).r
  BY <1>2, <1>3, WaitingPush
<1>5. Top.op = "queue" /\ Top.pc \in {"restart", "reload"} => res[Top.r].state = "Loaded"
  BY DEF IInv, WaitedOK, Waited, Top
<1>6. Good(res, <<Top>> \o Below, live, started, syncOptions, requirements)
  BY <1>2 DEF IInv
<1> QED
  BY <1>2, <1>4, <1>5, <1>6

\* The top is replaced by another frame of the same call.
LEMMA WaitingKeep ==
    ASSUME IInv, stack # <<>>, NEW c \in FrameType, c.op = Top.op, c.r = Top.r,
           ~(c.op = "queue" /\ c.pc \in {"restart", "reload"})
    PROVE  Waiting(<<c>> \o Below) /\ ~Waited(<<c>> \o Below)
<1>1. /\ Below \in Seq(FrameType) /\ Waiting(Below)
      /\ Top.op = "queue" => Below = <<>>
      /\ Waited(Below) => Top.op = "stop" /\ Top.r = Head(Below).r
  BY FromTop
<1>2. Waiting(<<c>> \o Below)
  BY <1>1, WaitingPush
<1>3. Head(<<c>> \o Below) = c
  BY <1>1, PushFrame
<1> QED
  BY <1>2, <1>3 DEF Waited

\* The top returns, and it is not a Stop.
LEMMA WaitingPop ==
    ASSUME IInv, stack # <<>>, Top.op # "stop"
    PROVE  Waiting(Below) /\ ~Waited(Below)
  BY FromTop

\* A frame is pushed that is not ProcessQueue.
LEMMA WaitingCall ==
    ASSUME NEW s \in Seq(FrameType), Waiting(s), ~Waited(s), NEW a \in FrameType,
           a.op # "queue"
    PROVE  Waiting(<<a>> \o s) /\ ~Waited(<<a>> \o s)
<1>1. Waiting(<<a>> \o s)
  BY WaitingPush
<1>2. Head(<<a>> \o s) = a
  BY PushFrame
<1> QED
  BY <1>1, <1>2 DEF Waited

LEMMA WaitingFresh ==
    ASSUME NEW s \in Seq(FrameType), Waiting(s), ~Waited(s), NEW R, NEW frames,
           Fresh(R, frames)
    PROVE  Waiting(frames \o s) /\ ~Waited(frames \o s)
<1>1. CASE frames = <<>>
  <2>1. frames \o s = s
    BY <1>1, ConcatEmptySeq
  <2> QED
    BY <2>1
<1>2. CASE \E r \in Resources, m \in BOOLEAN, D \in SUBSET Resources :
             /\ R[r].state = "Loaded"
             /\ frames = <<[Frame("start", r, "prestart") EXCEPT !.manual = m, !.deps = D]>>
  <2> PICK r \in Resources, m \in BOOLEAN, D \in SUBSET Resources :
        frames = <<[Frame("start", r, "prestart") EXCEPT !.manual = m, !.deps = D]>>
    BY <1>2
  <2> DEFINE b == Frame("start", r, "prestart")
             a == [b EXCEPT !.manual = m, !.deps = D]
  <2>0. "start" \in Ops /\ "prestart" \in Pcs
    BY DEF Ops, Pcs, EventPcs
  <2>1. b \in FrameType /\ b.op = "start"
    BY <2>0, FrameIsFrame
  <2>2. a \in FrameType /\ a.op # "queue"
    <3> HIDE DEF b
    <3> QED
      BY <2>1 DEF FrameType
  <2>3. frames \o s = <<a>> \o s
    OBVIOUS
  <2> HIDE DEF a
  <2> QED
    BY <2>2, <2>3, WaitingCall
<1>3. CASE \E r \in Resources :
             R[r].state = "Running" /\ frames = <<Frame("stop", r, "stopping")>>
  <2> PICK r \in Resources : frames = <<Frame("stop", r, "stopping")>>
    BY <1>3
  <2> DEFINE a == Frame("stop", r, "stopping")
  <2>0. "stop" \in Ops /\ "stopping" \in Pcs
    BY DEF Ops, Pcs, EventPcs
  <2>2. a \in FrameType /\ a.op # "queue"
    BY <2>0, FrameIsFrame
  <2>3. frames \o s = <<a>> \o s
    OBVIOUS
  <2> HIDE DEF a
  <2> QED
    BY <2>2, <2>3, WaitingCall
<1> QED
  BY <1>1, <1>2, <1>3 DEF Fresh

\* The top's frame with another place in the code.
LEMMA GotoFrame ==
    ASSUME NEW t \in FrameType, NEW pc \in Pcs
    PROVE  /\ [t EXCEPT !.pc = pc] \in FrameType
           /\ [t EXCEPT !.pc = pc].op = t.op /\ [t EXCEPT !.pc = pc].r = t.r
           /\ [t EXCEPT !.pc = pc].pc = pc /\ [t EXCEPT !.pc = pc].left = t.left
           /\ \A left \in Seq(Resources) :
                /\ [t EXCEPT !.pc = pc, !.left = left] \in FrameType
                /\ [t EXCEPT !.pc = pc, !.left = left].op = t.op
                /\ [t EXCEPT !.pc = pc, !.left = left].r = t.r
                /\ [t EXCEPT !.pc = pc, !.left = left].pc = pc
                /\ [t EXCEPT !.pc = pc, !.left = left].left = left
  BY DEF FrameType

\* Nothing outside the resources and the stack changes.
LEMMA QueueKept ==
    ASSUME IInv, UNCHANGED <<queue, live>>
    PROVE  QueueOK'
  BY DEF IInv, QueueOK

\* A step that ends in a Call.
LEMMA CallStep ==
    ASSUME IInv, QueueOK', UNCHANGED maps,
           NEW R, NEW s \in Seq(FrameType), NEW frames,
           Good(R, s, live', started, syncOptions, requirements),
           Waiting(s), ~Waited(s), Fresh(R, frames), Call(R, frames, s)
    PROVE  IInv'
<1>1. res' = Entered(R, frames) /\ stack' = frames \o s
  BY DEF Call
<1>2. started' = started /\ syncOptions' = syncOptions /\ requirements' = requirements
  BY DEF maps
<1>3. Good(res', stack', live', started', syncOptions', requirements')
  BY <1>1, <1>2, CallGood
<1>4. Waiting(stack') /\ ~Waited(stack')
  BY <1>1, WaitingFresh
<1> QED
  BY <1>3, <1>4 DEF IInv, WaitedOK

\* A step after which the same call is at the top.
LEMMA KeepStep ==
    ASSUME IInv, stack # <<>>, QueueOK',
           NEW c \in FrameType, c.op = Top.op, c.r = Top.r,
           ~(c.op = "queue" /\ c.pc \in {"restart", "reload"}),
           stack' = <<c>> \o Below,
           Good(res', <<c>> \o Below, live', started', syncOptions', requirements')
    PROVE  IInv'
<1>1. Waiting(<<c>> \o Below) /\ ~Waited(<<c>> \o Below)
  BY WaitingKeep
<1> QED
  BY <1>1 DEF IInv, WaitedOK

\* A step with which the top returns that is not a Stop.
LEMMA PopStep ==
    ASSUME IInv, stack # <<>>, QueueOK', Top.op # "stop", stack' = Below,
           Good(res', Below, live', started', syncOptions', requirements')
    PROVE  IInv'
<1>1. Waiting(Below) /\ ~Waited(Below)
  BY WaitingPop
<1> QED
  BY <1>1 DEF IInv, WaitedOK

\* A step of a Start or Stop that changes its resource and goes on at c.
LEMMA FocusStep ==
    ASSUME IInv, stack # <<>>, Top.op \in {"start", "stop"}, UNCHANGED <<queue, live>>,
           NEW c \in FrameType, c.op = Top.op, c.r = Top.r, stack' = <<c>> \o Below,
           Focused(res, res', Top.r, live), FrameOK(res', c),
           res'[Top.r].state = "Starting" <=> c.op = "start" /\ Locked(c),
           res'[Top.r].state = "Stopping" <=> c.op = "stop" /\ Locked(c),
           MapsFocused(res', Top.r, Frames(Below) \cup {c}, started, syncOptions,
                       requirements, started', syncOptions', requirements')
    PROVE  IInv'
<1>1. /\ Top \in FrameType /\ Below \in Seq(FrameType)
      /\ Good(res, <<Top>> \o Below, live, started, syncOptions, requirements)
  BY FromTop
<1>2. Good(res', <<c>> \o Below, live, started', syncOptions', requirements')
  BY <1>1, FocusKeep
<1>3. QueueOK'
  BY QueueKept
<1>4. ~(c.op = "queue" /\ c.pc \in {"restart", "reload"})
  OBVIOUS
<1> QED
  BY <1>2, <1>3, <1>4, KeepStep

\* A step of a Start or Stop that changes nothing but its place in the code.
LEMMA GoOnStep ==
    ASSUME IInv, stack # <<>>, UNCHANGED <<res, queue, live>>, UNCHANGED maps,
           Top.op \in {"start", "stop"}, Locked(Top),
           NEW c \in FrameType, c.op = Top.op, c.r = Top.r, stack' = <<c>> \o Below,
           Locked(c), FrameOK(res, c)
    PROVE  IInv'
<1>1. /\ Top \in FrameType /\ Below \in Seq(FrameType)
      /\ Good(res, <<Top>> \o Below, live, started, syncOptions, requirements)
  BY FromTop
<1>2. Good(res, <<c>> \o Below, live, started, syncOptions, requirements)
  BY <1>1, GoOn
<1>3. Good(res', <<c>> \o Below, live', started', syncOptions', requirements')
  BY <1>2 DEF maps
<1>4. QueueOK'
  BY QueueKept
<1>5. ~(c.op = "queue" /\ c.pc \in {"restart", "reload"})
  OBVIOUS
<1> QED
  BY <1>3, <1>4, <1>5, KeepStep

\* The frames that Goto and GotoWith put at the top.
LEMMA GotoIs ==
    ASSUME IInv, stack # <<>>, NEW pc \in Pcs
    PROVE  \E c \in FrameType :
             /\ c.op = Top.op /\ c.r = Top.r /\ c.pc = pc /\ c.left = Top.left
             /\ Goto(pc) = <<c>> \o Below
<1>1. Top \in FrameType
  BY FromTop
<1>2. /\ [Top EXCEPT !.pc = pc] \in FrameType
      /\ [Top EXCEPT !.pc = pc].op = Top.op /\ [Top EXCEPT !.pc = pc].r = Top.r
      /\ [Top EXCEPT !.pc = pc].pc = pc /\ [Top EXCEPT !.pc = pc].left = Top.left
  BY <1>1, GotoFrame
<1>3. Goto(pc) = <<[Top EXCEPT !.pc = pc]>> \o Below
  BY DEF Goto, Below
<1> QED
  BY <1>2, <1>3

LEMMA GotoWithIs ==
    ASSUME IInv, stack # <<>>, NEW pc \in Pcs, NEW left \in Seq(Resources)
    PROVE  \E c \in FrameType :
             /\ c.op = Top.op /\ c.r = Top.r /\ c.pc = pc /\ c.left = left
             /\ GotoWith(pc, left) = <<c>> \o Below
<1>1. Top \in FrameType
  BY FromTop
<1> DEFINE c == [Top EXCEPT !.pc = pc, !.left = left]
<1>2. c \in FrameType /\ c.op = Top.op /\ c.r = Top.r /\ c.pc = pc /\ c.left = left
  BY <1>1 DEF FrameType
<1>3. GotoWith(pc, left) = <<c>> \o Below
  BY DEF GotoWith, Below
<1> HIDE DEF c
<1> QED
  BY <1>2, <1>3

-----------------------------------------------------------------------------
(* The steps of Start.                                                     *)

LEMMA ReloadReturnKeeps == ASSUME IInv, ReloadReturn PROVE IInv'
<1> DEFINE frames == IF Top.by = Top.r THEN StartFrame(res, Top.r, Top.manual, {}) ELSE <<>>
<1>1. stack # <<>> /\ Top.op = "reload"
  BY DEF ReloadReturn, At
<1>2. /\ Top \in FrameType /\ Below \in Seq(FrameType)
      /\ Good(res, <<Top>> \o Below, live, started, syncOptions, requirements)
  BY <1>1, FromTop
<1>3. Good(res, Below, live, started, syncOptions, requirements)
  BY <1>1, <1>2, PopGood
<1>4. Top.r \in Resources /\ Top.manual \in BOOLEAN
  BY <1>2 DEF FrameType
<1>5. Fresh(res, frames)
  BY <1>4, CallsFresh
<1>6. Waiting(Below) /\ ~Waited(Below)
  BY <1>1, WaitingPop
<1>7. Call(res, frames, Below) /\ live' = live /\ UNCHANGED maps /\ UNCHANGED <<queue, live>>
  BY DEF ReloadReturn, Below, outside
<1>8. QueueOK'
  BY <1>7, QueueKept
<1> HIDE DEF frames
<1> QED
  BY <1>2, <1>3, <1>5, <1>6, <1>7, <1>8, CallStep

LEMMA PreStartFailsKeeps == ASSUME IInv, PreStartFails PROVE IInv'
<1>1. stack # <<>> /\ Top.op = "start" /\ Top.pc = "prestart"
  BY DEF PreStartFails, At
<1>2. /\ Top \in FrameType /\ Below \in Seq(FrameType)
      /\ Good(res, <<Top>> \o Below, live, started, syncOptions, requirements)
  BY <1>1, FromTop
<1>3. TopOK(res, Below, Top, live, started, syncOptions, requirements)
  BY <1>1, <1>2, TopFacts
<1>4. Locked(Top) /\ Top.pc \notin VMPcs
  BY <1>1 DEF Locked, StartingPcs, VMPcs
<1>5. res[Top.r].state = "Starting" /\ ~res[Top.r].vm /\ Top.r \in live
  BY <1>1, <1>3, <1>4 DEF TopOK, FrameOK
<1>6. UNCHANGED <<live, queue>> /\ UNCHANGED maps /\ stack' = Below
  BY DEF PreStartFails, outside, Below
<1>7. PICK links \in SUBSET Resources, linked \in BOOLEAN :
        /\ links \subseteq res[Top.r].links \/ links \subseteq live
        /\ links \subseteq Included(Top.r)
        /\ res' = [res EXCEPT ![Top.r].state = "Loaded", ![Top.r].links = links,
                              ![Top.r].linked = linked]
  <2>1. CASE res' = StartFails(Top.r)
    <3>1. res' = [res EXCEPT ![Top.r].state = "Loaded", ![Top.r].links = res[Top.r].links,
                             ![Top.r].linked = res[Top.r].linked]
      BY <2>1, <1>3 DEF StartFails, TopOK, Resource
    <3>2. /\ res[Top.r].links \in SUBSET Resources /\ res[Top.r].linked \in BOOLEAN
          /\ res[Top.r].links \subseteq Included(Top.r)
      BY <1>3 DEF TopOK, Resource
    <3> QED
      BY <3>1, <3>2
  <2>2. CASE res' = [Linked(Top.r) EXCEPT ![Top.r].state = "Loaded"]
    <3>1. res' = [res EXCEPT ![Top.r].state = "Loaded",
                             ![Top.r].links = Included(Top.r) \cap live,
                             ![Top.r].linked = (Included(Top.r) \subseteq live)]
      BY <2>2, <1>3, ZenonT(60) DEF Linked, TopOK, Resource
    <3>2. /\ Included(Top.r) \cap live \in SUBSET Resources
          /\ (Included(Top.r) \subseteq live) \in BOOLEAN
      BY <1>3 DEF TopOK
    <3> QED
      BY <3>1, <3>2
  <2> QED
    BY <2>1, <2>2 DEF PreStartFails
<1>8. /\ res' \in [Resources -> Resource]
      /\ \A x \in Resources \ {Top.r} : res'[x] = res[x]
      /\ res'[Top.r].deps = res[Top.r].deps /\ res'[Top.r].temps = res[Top.r].temps
      /\ res'[Top.r].links = links /\ res'[Top.r].state = "Loaded" /\ ~res'[Top.r].vm
  BY <1>3, <1>5, <1>7 DEF TopOK, Resource, States
<1>9. Focused(res, res', Top.r, live)
  BY <1>3, <1>5, <1>7, <1>8 DEF Focused, TopOK
<1>10. MapsFocused(res', Top.r, Frames(Below), started, syncOptions, requirements,
                   started, syncOptions, requirements)
  BY <1>1, <1>3, <1>5, <1>8 DEF MapsFocused, TopOK
<1>11. Good(res', Below, live, started, syncOptions, requirements)
  BY <1>1, <1>2, <1>8, <1>9, <1>10, FocusPop
<1>12. Waiting(Below) /\ ~Waited(Below)
  BY <1>1, WaitingPop
<1>13. QueueOK'
  BY <1>6, QueueKept
<1> QED
  BY <1>6, <1>11, <1>12, <1>13 DEF IInv, WaitedOK, maps

LEMMA PreStartedKeeps == ASSUME IInv, PreStarted PROVE IInv'
<1>1. stack # <<>> /\ Top.op = "start" /\ Top.pc = "prestart"
  BY DEF PreStarted, At
<1>2. /\ Top \in FrameType /\ Below \in Seq(FrameType)
      /\ Good(res, <<Top>> \o Below, live, started, syncOptions, requirements)
  BY <1>1, FromTop
<1>3. TopOK(res, Below, Top, live, started, syncOptions, requirements)
  BY <1>1, <1>2, TopFacts
<1>4. Locked(Top) /\ Top.pc \notin VMPcs
  BY <1>1 DEF Locked, StartingPcs, VMPcs
<1>5. res[Top.r].state = "Starting" /\ ~res[Top.r].vm /\ Top.r \in live
  BY <1>1, <1>3, <1>4 DEF TopOK, FrameOK
<1>6. "scripts" \in Pcs /\ Top.left \in Seq(Resources)
  BY <1>2 DEF Pcs, EventPcs, FrameType
<1>7. PICK c \in FrameType : /\ c.op = Top.op /\ c.r = Top.r /\ c.pc = "scripts"
                             /\ Goto("scripts") = <<c>> \o Below
  BY <1>1, <1>6, GotoIs
<1>8. /\ UNCHANGED <<live, queue, started, requirements>> /\ stack' = <<c>> \o Below
      /\ syncOptions' = syncOptions \cup ({Top.r} \cap SyncDefined)
  BY <1>7 DEF PreStarted, outside
<1>9. PICK links \in SUBSET Resources, linked \in BOOLEAN :
        /\ links \subseteq Included(Top.r) /\ links \subseteq live
        /\ res' = [res EXCEPT ![Top.r].links = links, ![Top.r].linked = linked,
                              ![Top.r].persistent = FALSE, ![Top.r].vm = TRUE]
  <2>1. CASE res[Top.r].linked
    <3>1. res' = [res EXCEPT ![Top.r].persistent = FALSE, ![Top.r].vm = TRUE]
      BY <2>1 DEF PreStarted
    <3>2. /\ res[Top.r].links \in SUBSET Resources /\ res[Top.r].linked \in BOOLEAN
          /\ res[Top.r].links \subseteq Included(Top.r)
          /\ res[Top.r].links \subseteq live
      BY <1>3, <1>5 DEF TopOK, Resource
    <3>3. res' = [res EXCEPT ![Top.r].links = res[Top.r].links,
                             ![Top.r].linked = res[Top.r].linked,
                             ![Top.r].persistent = FALSE, ![Top.r].vm = TRUE]
      BY <3>1, <1>3 DEF TopOK, Resource
    <3> QED
      BY <3>2, <3>3
  <2>2. CASE ~res[Top.r].linked
    <3>1. res' = [Linked(Top.r) EXCEPT ![Top.r].persistent = FALSE, ![Top.r].vm = TRUE]
      BY <2>2 DEF PreStarted
    <3>2. res' = [res EXCEPT ![Top.r].links = Included(Top.r) \cap live,
                             ![Top.r].linked = (Included(Top.r) \subseteq live),
                             ![Top.r].persistent = FALSE, ![Top.r].vm = TRUE]
      BY <3>1, <1>3 DEF Linked, TopOK, Resource
    <3>3. /\ Included(Top.r) \cap live \in SUBSET Resources
          /\ (Included(Top.r) \subseteq live) \in BOOLEAN
      BY <1>3 DEF TopOK
    <3> QED
      BY <3>2, <3>3
  <2> QED
    BY <2>1, <2>2
<1>10. /\ res' \in [Resources -> Resource]
       /\ \A x \in Resources \ {Top.r} : res'[x] = res[x]
       /\ res'[Top.r].deps = res[Top.r].deps /\ res'[Top.r].temps = res[Top.r].temps
       /\ res'[Top.r].links = links /\ res'[Top.r].state = "Starting" /\ res'[Top.r].vm
  BY <1>3, <1>5, <1>9 DEF TopOK, Resource
<1>11. Focused(res, res', Top.r, live)
  BY <1>3, <1>5, <1>9, <1>10 DEF Focused, TopOK
<1>12. Locked(c) /\ FrameOK(res', c)
  BY <1>1, <1>7, <1>10 DEF Locked, StartingPcs, FrameOK, VMPcs
<1>13. MapsFocused(res', Top.r, Frames(Below) \cup {c}, started, syncOptions,
                   requirements, started', syncOptions', requirements')
  BY <1>1, <1>3, <1>5, <1>8, <1>10 DEF MapsFocused, TopOK
<1> QED
  BY <1>1, <1>7, <1>8, <1>10, <1>11, <1>12, <1>13, FocusStep

LEMMA ScriptsFailKeeps == ASSUME IInv, ScriptsFail PROVE IInv'
<1>1. stack # <<>> /\ Top.op = "start" /\ Top.pc = "scripts"
  BY DEF ScriptsFail, At
<1>2. /\ Top \in FrameType /\ Below \in Seq(FrameType)
      /\ Good(res, <<Top>> \o Below, live, started, syncOptions, requirements)
  BY <1>1, FromTop
<1>3. TopOK(res, Below, Top, live, started, syncOptions, requirements)
  BY <1>1, <1>2, TopFacts
<1>4. Locked(Top) /\ Top.pc \in VMPcs
  BY <1>1 DEF Locked, StartingPcs, VMPcs
<1>5. "aborting" \in Pcs /\ Top.left \in Seq(Resources)
  BY <1>2 DEF Pcs, EventPcs, FrameType
<1>6. PICK c \in FrameType : /\ c.op = Top.op /\ c.r = Top.r /\ c.pc = "aborting"
                             /\ Goto("aborting") = <<c>> \o Below
  BY <1>1, <1>5, GotoIs
<1>7. Locked(c) /\ FrameOK(res, c)
  BY <1>1, <1>3, <1>4, <1>6 DEF Locked, StartingPcs, FrameOK, VMPcs, TopOK
<1>8. UNCHANGED <<res, queue, live>> /\ UNCHANGED maps /\ stack' = <<c>> \o Below
  BY <1>6 DEF ScriptsFail, outside
<1> QED
  BY <1>1, <1>4, <1>6, <1>7, <1>8, GoOnStep

LEMMA ScriptsRunKeeps == ASSUME IInv, ScriptsRun PROVE IInv'
<1>1. stack # <<>> /\ Top.op = "start" /\ Top.pc = "scripts"
  BY DEF ScriptsRun, At
<1>2. /\ Top \in FrameType /\ Below \in Seq(FrameType)
      /\ Good(res, <<Top>> \o Below, live, started, syncOptions, requirements)
  BY <1>1, FromTop
<1>3. TopOK(res, Below, Top, live, started, syncOptions, requirements)
  BY <1>1, <1>2, TopFacts
<1>4. Locked(Top) /\ Top.pc \in VMPcs
  BY <1>1 DEF Locked, StartingPcs, VMPcs
<1>5. "includes" \in Pcs /\ Includes[Top.r] \in Seq(Resources)
  BY <1>2, ResourcesType DEF Pcs, StartingPcs, FrameType
<1> PICK left \in Seq(Resources) : left = Includes[Top.r]
  BY <1>5
<1>6. PICK c \in FrameType : /\ c.op = Top.op /\ c.r = Top.r /\ c.pc = "includes"
                             /\ c.left = left
                             /\ GotoWith("includes", left) = <<c>> \o Below
  <2>1. stack # <<>> /\ "includes" \in Pcs
    BY <1>1, <1>5
  <2> QED
    BY <2>1, GotoWithIs
<1>7. HoldsIncludes(res, c.r, ToSet(c.left))
  BY <1>3, <1>6 DEF HoldsIncludes, TopOK, Included
<1>8. Locked(c) /\ FrameOK(res, c)
  BY <1>1, <1>3, <1>4, <1>6, <1>7 DEF Locked, StartingPcs, FrameOK, VMPcs, TopOK
<1>9. UNCHANGED <<res, queue, live>> /\ UNCHANGED maps /\ stack' = <<c>> \o Below
  BY <1>6 DEF ScriptsRun, outside
<1> QED
  BY <1>1, <1>4, <1>6, <1>8, <1>9, GoOnStep

LEMMA AbortKeeps == ASSUME IInv, Abort PROVE IInv'
<1>1. stack # <<>> /\ Top.op = "start" /\ Top.pc = "aborting"
  BY DEF Abort, At
<1>2. /\ Top \in FrameType /\ Below \in Seq(FrameType)
      /\ Good(res, <<Top>> \o Below, live, started, syncOptions, requirements)
  BY <1>1, FromTop
<1>3. TopOK(res, Below, Top, live, started, syncOptions, requirements)
  BY <1>1, <1>2, TopFacts
<1>4. Locked(Top)
  BY <1>1 DEF Locked, StartingPcs
<1>5. res[Top.r].state = "Starting" /\ Top.r \in live
  BY <1>1, <1>3, <1>4 DEF TopOK
<1>6. /\ UNCHANGED <<live, queue, started, requirements>> /\ stack' = Below
      /\ syncOptions' = syncOptions \ {Top.r}
  BY DEF Abort, outside, Below
<1>7. /\ res' \in [Resources -> Resource]
      /\ \A x \in Resources \ {Top.r} : res'[x] = res[x]
      /\ res'[Top.r].deps = res[Top.r].deps /\ res'[Top.r].temps = res[Top.r].temps
      /\ res'[Top.r].links = res[Top.r].links
      /\ res'[Top.r].state = "Loaded" /\ ~res'[Top.r].vm
  BY <1>3 DEF Abort, StartFails, TopOK, Resource, States
<1>8. Focused(res, res', Top.r, live)
  BY <1>3, <1>5, <1>7 DEF Focused, TopOK
<1>9. MapsFocused(res', Top.r, Frames(Below), started, syncOptions, requirements,
                  started', syncOptions', requirements')
  BY <1>1, <1>3, <1>5, <1>6, <1>7 DEF MapsFocused, TopOK
<1>10. Good(res', Below, live, started', syncOptions', requirements')
  BY <1>1, <1>2, <1>7, <1>8, <1>9, FocusPop
<1>11. QueueOK'
  BY <1>6, QueueKept
<1> QED
  BY <1>1, <1>6, <1>10, <1>11, PopStep

LEMMA RunKeeps == ASSUME IInv, Run PROVE IInv'
<1>1. stack # <<>> /\ Top.op = "start" /\ Top.pc = "starting"
  BY DEF Run, At
<1>2. /\ Top \in FrameType /\ Below \in Seq(FrameType)
      /\ Good(res, <<Top>> \o Below, live, started, syncOptions, requirements)
  BY <1>1, FromTop
<1>3. TopOK(res, Below, Top, live, started, syncOptions, requirements)
  BY <1>1, <1>2, TopFacts
<1>4. Locked(Top) /\ Top.pc \in VMPcs
  BY <1>1 DEF Locked, StartingPcs, VMPcs
<1>5. /\ res[Top.r].state = "Starting" /\ res[Top.r].vm /\ Top.r \in live
      /\ HoldsIncludes(res, Top.r, {})
  BY <1>1, <1>3, <1>4 DEF TopOK, FrameOK
<1>6. "started" \in Pcs /\ Top.left \in Seq(Resources)
  BY <1>2 DEF Pcs, EventPcs, FrameType
<1>7. PICK c \in FrameType : /\ c.op = Top.op /\ c.r = Top.r /\ c.pc = "started"
                             /\ Goto("started") = <<c>> \o Below
  BY <1>1, <1>6, GotoIs
<1>8. UNCHANGED <<live, queue, started, requirements, syncOptions>> /\ stack' = <<c>> \o Below
  BY <1>7 DEF Run, outside, maps
<1>9. /\ res' \in [Resources -> Resource]
      /\ \A x \in Resources \ {Top.r} : res'[x] = res[x]
      /\ res'[Top.r].deps = res[Top.r].deps /\ res'[Top.r].temps = res[Top.r].temps
      /\ res'[Top.r].links = res[Top.r].links
      /\ res'[Top.r].state = "Running" /\ res'[Top.r].vm
  BY <1>3, <1>5 DEF Run, TopOK, Resource, States
<1>10. HoldsIncludes(res', Top.r, {})
  <2>1. \A x \in Resources : res'[x].deps = res[x].deps
    BY <1>9
  <2>2. res[Top.r].links \subseteq Resources
    BY <1>3 DEF TopOK, Resource
  <2> QED
    BY <2>1, <2>2, <1>5, <1>9 DEF HoldsIncludes
<1>11. Focused(res, res', Top.r, live)
  BY <1>3, <1>5, <1>9, <1>10 DEF Focused, TopOK
<1>12. ~Locked(c) /\ FrameOK(res', c)
  BY <1>1, <1>7 DEF Locked, StartingPcs, FrameOK
<1>13. Lags(c, Top.r, {"started", "announce"}) /\ Lags(c, Top.r, {"started"})
  BY <1>1, <1>7 DEF Lags
<1>14. MapsFocused(res', Top.r, Frames(Below) \cup {c}, started, syncOptions,
                   requirements, started', syncOptions', requirements')
  BY <1>3, <1>5, <1>8, <1>9, <1>13 DEF MapsFocused, TopOK
<1> QED
  BY <1>1, <1>7, <1>8, <1>9, <1>11, <1>12, <1>14, FocusStep

-----------------------------------------------------------------------------
(* Changes of dependents, and reloads.                                     *)

\* A change of neither states, VMs nor includes, that forgets no dependent which
\* is starting or running.
LEMMA SameQuiet ==
    ASSUME NEW R, NEW Q, NEW l, ResOK(R, l), Q \in [Resources -> Resource],
           \A x \in Resources : /\ Q[x].state = R[x].state /\ Q[x].vm = R[x].vm
                                /\ Q[x].links = R[x].links,
           \A x \in l : Q[x].temps \subseteq l,
           \A x \in Resources : \A q \in R[x].deps :
             R[q].state \in {"Starting", "Running"} => q \in Q[x].deps
    PROVE  Quiet(R, Q, l)
<1>1. l \subseteq Resources /\ R \in [Resources -> Resource]
  BY DEF ResOK
<1>2. \A r \in Resources : R[r].links \subseteq Resources
  BY <1>1 DEF Resource
<1>3. Keeps(R, Q)
  BY <1>2 DEF Keeps
<1>4. \A r \in l : Q[r].links \cup Q[r].temps \subseteq l
  <2> SUFFICES ASSUME NEW r \in l PROVE Q[r].links \subseteq l /\ Q[r].temps \subseteq l
    OBVIOUS
  <2>1. R[r].links \subseteq l /\ Q[r].links = R[r].links
    BY <1>1 DEF ResOK
  <2> QED
    BY <2>1
<1>5. \A r \in Resources : Q[r].links \subseteq Included(r)
  BY DEF ResOK
<1>6. \A r \in Resources \ l : Q[r].state = "None"
  BY DEF ResOK
<1> QED
  BY <1>1, <1>3, <1>4, <1>5, <1>6 DEF Quiet

LEMMA FreshSame ==
    ASSUME NEW R, NEW Q, \A x \in Resources : Q[x].state = R[x].state,
           NEW frames, Fresh(R, frames)
    PROVE  Fresh(Q, frames)
  BY DEF Fresh

\* A resource with another set of dependents.
LEMMA DependentsQuiet ==
    ASSUME NEW R, NEW l, ResOK(R, l), NEW i \in Resources, NEW D \in SUBSET Resources,
           \A q \in R[i].deps : R[q].state \in {"Starting", "Running"} => q \in D
    PROVE  Quiet(R, [R EXCEPT ![i].deps = D], l)
<1> DEFINE Q == [R EXCEPT ![i].deps = D]
<1>1. R \in [Resources -> Resource] /\ l \subseteq Resources
  BY DEF ResOK
<1>2. Q \in [Resources -> Resource]
  BY <1>1 DEF Resource
<1>3. \A x \in Resources : /\ Q[x].state = R[x].state /\ Q[x].vm = R[x].vm
                           /\ Q[x].links = R[x].links /\ Q[x].temps = R[x].temps
                           /\ Q[x].deps = IF x = i THEN D ELSE R[x].deps
  BY <1>1 DEF Resource
<1> HIDE DEF Q
<1>4. \A x \in l : Q[x].temps \subseteq l
  <2> SUFFICES ASSUME NEW x \in l PROVE Q[x].temps \subseteq l
    OBVIOUS
  <2>1. R[x].temps \subseteq l /\ Q[x].temps = R[x].temps
    BY <1>1, <1>3 DEF ResOK
  <2> QED
    BY <2>1
<1>5. \A x \in Resources : \A q \in R[x].deps :
        R[q].state \in {"Starting", "Running"} => q \in Q[x].deps
  BY <1>3
<1>6. Quiet(R, Q, l)
  BY <1>2, <1>3, <1>4, <1>5, SameQuiet
<1> QED
  BY <1>6 DEF Q

\* The other resources forget one that is not active.
LEMMA InvalidatedIs ==
    ASSUME NEW R, NEW l, ResOK(R, l), NEW x, NEW S \in SUBSET Resources
    PROVE  /\ Invalidated(R, x, S) \in [Resources -> Resource]
           /\ \A r \in Resources :
                /\ Invalidated(R, x, S)[r].state = R[r].state
                /\ Invalidated(R, x, S)[r].vm = R[r].vm
                /\ Invalidated(R, x, S)[r].links \subseteq R[r].links
                /\ Invalidated(R, x, S)[r].temps \subseteq R[r].temps
                /\ R[r].deps \ {x} \subseteq Invalidated(R, x, S)[r].deps
                /\ r \in S => /\ x \notin Invalidated(R, x, S)[r].links
                              /\ x \notin Invalidated(R, x, S)[r].temps
<1>1. R \in [Resources -> Resource]
  BY DEF ResOK
<1> DEFINE Q == Invalidated(R, x, S)
<1>2. Q = [r \in Resources |->
             IF r \in S THEN [R[r] EXCEPT !.links = @ \ {x}, !.temps = @ \ {x},
                                          !.deps = @ \ {x}]
             ELSE R[r]]
  BY DEF Invalidated
<1> HIDE DEF Q
<1>3. ASSUME NEW r \in Resources
      PROVE  /\ Q[r] \in Resource
             /\ Q[r].state = R[r].state /\ Q[r].vm = R[r].vm
             /\ Q[r].links \subseteq R[r].links /\ Q[r].temps \subseteq R[r].temps
             /\ R[r].deps \ {x} \subseteq Q[r].deps
             /\ r \in S => x \notin Q[r].links /\ x \notin Q[r].temps
  <2>1. R[r] \in Resource
    BY <1>1
  <2>2. CASE r \in S
    <3>1. Q[r] = [R[r] EXCEPT !.links = @ \ {x}, !.temps = @ \ {x}, !.deps = @ \ {x}]
      BY <2>2, <1>2
    <3> QED
      BY <2>1, <2>2, <3>1, ZenonT(60) DEF Resource
  <2>3. CASE r \notin S
    <3>1. Q[r] = R[r]
      BY <2>3, <1>2
    <3> QED
      BY <2>1, <2>3, <3>1
  <2> QED
    BY <2>2, <2>3
<1>4. Q \in [Resources -> Resource]
  BY <1>2, <1>3
<1> QED
  BY <1>3, <1>4 DEF Q

\* Reload of a resource that is not active.
LEMMA ReloadQuiet ==
    ASSUME ResOK(res, live), NEW x \in live, ~Active(x), NEW ok \in BOOLEAN
    PROVE  Quiet(res, Reloaded(x, ok), live)
<1> DEFINE S == res[x].deps \ {x}
           I == Invalidated(res, x, S)
           Q == Reloaded(x, ok)
<1>1. res \in [Resources -> Resource] /\ live \subseteq Resources /\ x \in Resources
  BY DEF ResOK
<1>2. S \in SUBSET Resources
  BY <1>1 DEF Resource
<1>3. /\ I \in [Resources -> Resource]
      /\ \A r \in Resources :
           /\ I[r].state = res[r].state /\ I[r].vm = res[r].vm
           /\ I[r].links \subseteq res[r].links /\ I[r].temps \subseteq res[r].temps
           /\ res[r].deps \ {x} \subseteq I[r].deps
  <2> HIDE DEF S
  <2> QED
    BY <1>2, InvalidatedIs
<1>a. PICK state \in {"None", "Loaded"} : state = IF ok THEN "Loaded" ELSE "None"
  OBVIOUS
<1>b. PICK changed \in BOOLEAN : changed = ~ok
  OBVIOUS
<1>4. Q = [I EXCEPT ![x].state = state, ![x].links = {}, ![x].linked = FALSE,
                    ![x].persistent = FALSE, ![x].manual = FALSE, ![x].changed = changed]
  BY <1>a, <1>b DEF Reloaded
<1> HIDE DEF I, Q, S
<1>5. /\ Q \in [Resources -> Resource]
      /\ \A r \in Resources \ {x} : Q[r] = I[r]
      /\ Q[x].state \in {"None", "Loaded"} /\ Q[x].vm = I[x].vm
      /\ Q[x].links = {} /\ Q[x].temps = I[x].temps /\ Q[x].deps = I[x].deps
  <2> PICK y : y = [I[x] EXCEPT !.state = state, !.links = {}, !.linked = FALSE,
                                !.persistent = FALSE, !.manual = FALSE, !.changed = changed]
    OBVIOUS
  <2>1. Q = [I EXCEPT ![x] = y]
    BY <1>1, <1>3, <1>4
  <2>2. I[x] \in Resource /\ state \in States
    BY <1>1, <1>3 DEF States
  <2>3. /\ y \in Resource /\ y.state = state /\ y.vm = I[x].vm /\ y.links = {}
        /\ y.temps = I[x].temps /\ y.deps = I[x].deps
    BY <2>2 DEF Resource
  <2> QED
    BY <2>1, <2>3, <1>1, <1>3
<1>6. res[x].state \in {"None", "Loaded"}
  BY <1>1 DEF Active, Resource, States
<1>7. Keeps(res, Q)
  <2> SUFFICES ASSUME NEW r \in Resources, res[r].state \in {"Starting", "Running"}
               PROVE  /\ Q[r].links \subseteq res[r].links
                      /\ \A i \in Q[r].links : r \in res[i].deps => r \in Q[i].deps
    BY DEF Keeps
  <2>1. r # x
    BY <1>6
  <2>2. Q[r].links \subseteq res[r].links /\ Q[r].links \subseteq Resources
    BY <2>1, <1>3, <1>5, <1>1 DEF Resource
  <2>3. \A i \in Resources : res[i].deps \ {x} \subseteq Q[i].deps
    BY <1>3, <1>5
  <2> QED
    BY <2>1, <2>2, <2>3
<1>8. \A r \in live : Q[r].links \cup Q[r].temps \subseteq live
  <2> SUFFICES ASSUME NEW r \in live PROVE Q[r].links \cup Q[r].temps \subseteq live
    OBVIOUS
  <2>1. res[r].links \subseteq live /\ res[r].temps \subseteq live
    BY DEF ResOK
  <2>2. Q[r].links \subseteq res[r].links /\ Q[r].temps \subseteq res[r].temps
    BY <1>1, <1>3, <1>5
  <2> QED
    BY <2>1, <2>2
<1>9. \A r \in Resources :
        /\ Q[r].vm = res[r].vm /\ Q[r].links \subseteq Included(r)
        /\ \/ Q[r].state = res[r].state
           \/ Q[r].state \in {"None", "Loaded"} /\ res[r].state \in {"None", "Loaded"}
  <2> SUFFICES ASSUME NEW r \in Resources
               PROVE  /\ Q[r].vm = res[r].vm /\ Q[r].links \subseteq Included(r)
                      /\ \/ Q[r].state = res[r].state
                         \/ /\ Q[r].state \in {"None", "Loaded"}
                            /\ res[r].state \in {"None", "Loaded"}
    OBVIOUS
  <2>1. res[r].links \subseteq Included(r)
    BY DEF ResOK
  <2> QED
    BY <2>1, <1>3, <1>5, <1>6
<1>10. \A r \in Resources \ live : Q[r].state = "None"
  BY <1>3, <1>5 DEF ResOK
<1> QED
  BY <1>1, <1>5, <1>7, <1>8, <1>9, <1>10 DEF Quiet, Q

\* CResourceManager::StartResource.
LEMMA StartResourceStep ==
    ASSUME IInv, QueueOK', live' = live, UNCHANGED maps,
           NEW s \in Seq(FrameType), Good(res, s, live, started, syncOptions, requirements),
           Waiting(s), ~Waited(s),
           NEW x \in live, ~Active(x), NEW D \in SUBSET Resources, NEW m \in BOOLEAN,
           StartResource(x, D, m, s)
    PROVE  IInv'
<1>1. ResOK(res, live) /\ x \in Resources
  BY DEF IInv, Good, ResOK
<1>2. CASE Call(res, StartFrame(res, x, m, D), s)
  <2>1. Fresh(res, StartFrame(res, x, m, D))
    BY <1>1, CallsFresh
  <2>2. Good(res, s, live', started, syncOptions, requirements)
    OBVIOUS
  <2> QED
    BY <1>2, <2>1, <2>2, CallStep
<1>3. ASSUME NEW ok \in BOOLEAN, res' = Reloaded(x, ok)
      PROVE  Good(res', s, live', started', syncOptions', requirements')
  <2>1. Quiet(res, Reloaded(x, ok), live)
    BY <1>1, ReloadQuiet
  <2>2. Good(Reloaded(x, ok), s, live, started, syncOptions, requirements)
    BY <2>1, QuietGood
  <2> QED
    BY <2>2, <1>3 DEF maps
<1>4. CASE res' = Reloaded(x, FALSE) /\ stack' = s
  <2>1. Good(res', s, live', started', syncOptions', requirements')
    BY <1>3, <1>4
  <2> QED
    BY <2>1, <1>4 DEF IInv, WaitedOK
<1>5. CASE /\ res' = Reloaded(x, TRUE)
           /\ stack' = <<[Frame("reload", x, "reloaded") EXCEPT !.manual = m]>> \o s
  <2>1. Good(res', s, live', started', syncOptions', requirements')
    BY <1>3, <1>5
  <2>2. "reload" \in Ops /\ "reloaded" \in Pcs
    BY DEF Ops, Pcs, EventPcs
  <2>3. PICK b : b = Frame("reload", x, "reloaded")
    OBVIOUS
  <2>4. b \in FrameType /\ b.op = "reload"
    BY <2>2, <2>3, <1>1, FrameIsFrame
  <2>5. PICK a \in FrameType : a = [b EXCEPT !.manual = m] /\ a.op = "reload"
    <3>1. [b EXCEPT !.manual = m] \in FrameType /\ [b EXCEPT !.manual = m].op = "reload"
      BY <2>4 DEF FrameType
    <3> QED
      BY <3>1
  <2>6. ~Locked(a) /\ a.op \notin {"start", "stop"} /\ a.op # "queue"
    BY <2>5 DEF Locked
  <2>7. Good(res', <<a>> \o s, live', started', syncOptions', requirements')
    BY <2>1, <2>6, PushGood
  <2>8. Waiting(<<a>> \o s) /\ ~Waited(<<a>> \o s)
    BY <2>6, WaitingCall
  <2>9. stack' = <<a>> \o s
    BY <1>5, <2>3, <2>5
  <2> QED
    BY <2>7, <2>8, <2>9 DEF IInv, WaitedOK
<1> QED
  BY <1>2, <1>4, <1>5 DEF StartResource

\* What is left of the includes after the first.
LEMMA ToSetHeadTail ==
    ASSUME NEW s \in Seq(Resources), s # <<>>
    PROVE  /\ Head(s) \in Resources /\ Tail(s) \in Seq(Resources)
           /\ ToSet(s) \subseteq {Head(s)} \cup ToSet(Tail(s))
<1>1. /\ Head(s) \in Resources /\ Tail(s) \in Seq(Resources) /\ Head(s) = s[1]
      /\ Len(s) \in Nat \ {0} /\ Len(Tail(s)) = Len(s) - 1
      /\ \A i \in 1 .. Len(Tail(s)) : Tail(s)[i] = s[i + 1]
      /\ DOMAIN s = 1 .. Len(s) /\ DOMAIN Tail(s) = 1 .. Len(Tail(s))
  <2>1. Len(s) \in Nat /\ Len(s) # 0 /\ DOMAIN s = 1 .. Len(s)
    BY LenProperties
  <2>2. /\ Head(s) \in Resources /\ Tail(s) \in Seq(Resources) /\ Head(s) = s[1]
        /\ Len(Tail(s)) = Len(s) - 1
        /\ \A i \in 1 .. Len(Tail(s)) : Tail(s)[i] = s[i + 1]
    BY HeadTailProperties
  <2>3. DOMAIN Tail(s) = 1 .. Len(Tail(s))
    BY <2>2, LenProperties
  <2> QED
    BY <2>1, <2>2, <2>3
<1>2. ASSUME NEW i \in DOMAIN s PROVE s[i] \in {Head(s)} \cup ToSet(Tail(s))
  <2>1. CASE i = 1
    BY <2>1, <1>1
  <2>2. CASE i # 1
    <3>1. i - 1 \in 1 .. Len(Tail(s)) /\ (i - 1) + 1 = i
      BY <2>2, <1>1
    <3>2. Tail(s)[i - 1] = s[i]
      BY <3>1, <1>1
    <3> QED
      BY <3>1, <3>2, <1>1 DEF ToSet
  <2> QED
    BY <2>1, <2>2
<1> QED
  BY <1>1, <1>2 DEF ToSet

\* A step of a Start or Stop that keeps its resource's state and goes on at c, perhaps
\* with a call.
LEMMA QuietCallStep ==
    ASSUME IInv, stack # <<>>, UNCHANGED <<queue, live>>, UNCHANGED maps,
           Top.op \in {"start", "stop"}, Locked(Top),
           NEW R, Quiet(res, R, live),
           NEW c \in FrameType, c.op = Top.op, c.r = Top.r, Locked(c), FrameOK(R, c),
           NEW frames, Fresh(R, frames), Call(R, frames, <<c>> \o Below)
    PROVE  IInv'
<1>1. /\ Top \in FrameType /\ Below \in Seq(FrameType)
      /\ Good(res, <<Top>> \o Below, live, started, syncOptions, requirements)
  BY FromTop
<1>2. Good(R, <<Top>> \o Below, live, started, syncOptions, requirements)
  BY <1>1, QuietGood
<1>3. Good(R, <<c>> \o Below, live, started, syncOptions, requirements)
  BY <1>1, <1>2, GoOn
<1>4. QueueOK'
  BY QueueKept
<1>5. ~(c.op = "queue" /\ c.pc \in {"restart", "reload"})
  OBVIOUS
<1>6. Waiting(<<c>> \o Below) /\ ~Waited(<<c>> \o Below)
  BY <1>5, WaitingKeep
<1>7. <<c>> \o Below \in Seq(FrameType)
  BY <1>1, PushFrame
<1>8. Good(R, <<c>> \o Below, live', started, syncOptions, requirements)
  BY <1>3
<1> HIDE DEF Below
<1> QED
  BY <1>4, <1>6, <1>7, <1>8, CallStep

\* The same without a call.
LEMMA QuietStep ==
    ASSUME IInv, stack # <<>>, UNCHANGED <<queue, live>>, UNCHANGED maps,
           Top.op \in {"start", "stop"}, Locked(Top), Quiet(res, res', live),
           NEW c \in FrameType, c.op = Top.op, c.r = Top.r, stack' = <<c>> \o Below,
           Locked(c), FrameOK(res', c)
    PROVE  IInv'
<1>1. /\ Top \in FrameType /\ Below \in Seq(FrameType)
      /\ Good(res, <<Top>> \o Below, live, started, syncOptions, requirements)
  BY FromTop
<1>2. Good(res', <<Top>> \o Below, live, started, syncOptions, requirements)
  BY <1>1, QuietGood
<1>3. Good(res', <<c>> \o Below, live, started, syncOptions, requirements)
  BY <1>1, <1>2, GoOn
<1>4. Good(res', <<c>> \o Below, live', started', syncOptions', requirements')
  BY <1>3 DEF maps
<1>5. QueueOK'
  BY QueueKept
<1>6. ~(c.op = "queue" /\ c.pc \in {"restart", "reload"})
  OBVIOUS
<1> QED
  BY <1>4, <1>5, <1>6, KeepStep

\* AddDependent of a Start, which then goes on with the other includes.
LEMMA AddDependentStep ==
    ASSUME IInv, stack # <<>>, UNCHANGED <<queue, live>>, UNCHANGED maps,
           Top.op = "start", Top.pc \in {"includes", "include"}, Top.left # <<>>,
           NEW c \in FrameType, c.op = Top.op, c.r = Top.r, c.pc = "includes",
           c.left = Tail(Top.left),
           AddDependent(Head(Top.left), Top.r, <<c>> \o Below)
    PROVE  IInv'
<1>2. /\ Top \in FrameType /\ Below \in Seq(FrameType)
      /\ Good(res, <<Top>> \o Below, live, started, syncOptions, requirements)
  BY FromTop
<1>3. TopOK(res, Below, Top, live, started, syncOptions, requirements)
  BY <1>2, TopFacts
<1>4. Locked(Top) /\ Top.pc \in VMPcs /\ Locked(c)
  BY DEF Locked, StartingPcs, VMPcs
<1>5. /\ Top.left \in Seq(Resources) /\ Top.r \in Resources
      /\ HoldsIncludes(res, Top.r, ToSet(Top.left)) /\ res[Top.r].vm
  BY <1>2, <1>3, <1>4 DEF TopOK, FrameOK, FrameType
<1> PICK i \in Resources, r \in Resources : i = Head(Top.left) /\ r = Top.r
  BY <1>5, ToSetHeadTail
<1>6. ToSet(Top.left) \subseteq {i} \cup ToSet(Tail(Top.left))
  BY <1>5, ToSetHeadTail
<1>a. PICK R : R = [res EXCEPT ![i].deps = @ \cup {r}]
  OBVIOUS
<1>7. ResOK(res, live)
  BY DEF IInv, Good
<1>8. /\ Quiet(res, R, live) /\ r \in R[i].deps
      /\ \A x \in Resources : /\ R[x].links = res[x].links /\ R[x].state = res[x].state
                              /\ R[x].vm = res[x].vm /\ res[x].deps \subseteq R[x].deps
  <2>1. res \in [Resources -> Resource]
    BY <1>7 DEF ResOK
  <2> PICK D \in SUBSET Resources : D = res[i].deps \cup {r}
    BY <2>1 DEF Resource
  <2>2. R = [res EXCEPT ![i].deps = D]
    BY <1>a, <2>1
  <2>3. Quiet(res, [res EXCEPT ![i].deps = D], live)
    BY <1>7, DependentsQuiet
  <2> QED
    BY <2>1, <2>2, <2>3 DEF Resource
<1>9. HoldsIncludes(R, r, ToSet(c.left))
  <2>1. res[r].links \subseteq Resources
    BY <1>3 DEF TopOK, Resource
  <2> QED
    BY <2>1, <1>5, <1>6, <1>8 DEF HoldsIncludes
<1>10. FrameOK(R, c)
  BY <1>4, <1>5, <1>8, <1>9 DEF FrameOK, VMPcs
<1>11. Call(R, IF r \in res[i].deps THEN <<>> ELSE CheckStateFrame(R, i), <<c>> \o Below)
  BY <1>a DEF AddDependent
<1>12. Fresh(R, IF r \in res[i].deps THEN <<>> ELSE CheckStateFrame(R, i))
  <2>1. Fresh(R, CheckStateFrame(R, i)) /\ Fresh(R, <<>>)
    BY CallsFresh
  <2> QED
    BY <2>1
<1> QED
  BY <1>4, <1>8, <1>10, <1>11, <1>12, QuietCallStep

LEMMA IncludeKeeps == ASSUME IInv, Include PROVE IInv'
<1>1. stack # <<>> /\ Top.op = "start" /\ Top.pc = "includes" /\ Top.left # <<>>
  BY DEF Include, At
<1>2. /\ Top \in FrameType /\ Below \in Seq(FrameType)
      /\ Good(res, <<Top>> \o Below, live, started, syncOptions, requirements)
  BY <1>1, FromTop
<1>3. TopOK(res, Below, Top, live, started, syncOptions, requirements)
  BY <1>1, <1>2, TopFacts
<1>4. Locked(Top) /\ Top.pc \in VMPcs
  BY <1>1 DEF Locked, StartingPcs, VMPcs
<1>5. /\ Top.left \in Seq(Resources) /\ Top.r \in Resources /\ Top.r \in live
      /\ HoldsIncludes(res, Top.r, ToSet(Top.left)) /\ res[Top.r].vm
      /\ res[Top.r].links \subseteq live
  BY <1>1, <1>2, <1>3, <1>4 DEF TopOK, FrameOK, FrameType
<1> PICK i \in Resources, rest \in Seq(Resources) :
      i = Head(Top.left) /\ rest = Tail(Top.left)
  BY <1>1, <1>5, ToSetHeadTail
<1>6. ToSet(Top.left) \subseteq {i} \cup ToSet(rest)
  BY <1>1, <1>5, ToSetHeadTail
<1>7. "includes" \in Pcs /\ "include" \in Pcs /\ "aborting" \in Pcs
      /\ "reload" \in Ops /\ "reloaded" \in Pcs
  BY DEF Pcs, EventPcs, StartingPcs, Ops
<1>8. PICK c \in FrameType : /\ c.op = Top.op /\ c.r = Top.r /\ c.pc = "includes"
                             /\ c.left = rest
                             /\ GotoWith("includes", rest) = <<c>> \o Below
  <2>1. stack # <<>> /\ "includes" \in Pcs
    BY <1>1, <1>7
  <2> QED
    BY <2>1, GotoWithIs
<1>9. UNCHANGED <<queue, live>> /\ UNCHANGED maps
  BY DEF Include, outside
<1>10. ResOK(res, live)
  BY DEF IInv, Good
<1>11. CASE i \notin res[Top.r].links /\ res' = res /\ stack' = <<c>> \o Below
  <2>1. HoldsIncludes(res, c.r, ToSet(c.left))
    BY <1>5, <1>6, <1>8, <1>11 DEF HoldsIncludes
  <2>2. Locked(c) /\ FrameOK(res, c)
    BY <2>1, <1>1, <1>5, <1>8 DEF Locked, StartingPcs, FrameOK, VMPcs
  <2> QED
    BY <2>2, <1>1, <1>4, <1>8, <1>9, <1>11, GoOnStep
<1>12. CASE AddDependent(i, Top.r, <<c>> \o Below)
  BY <1>12, <1>1, <1>8, <1>9, AddDependentStep
<1>13. ASSUME i \in res[Top.r].links, ~Active(i), NEW ok \in BOOLEAN
       PROVE  /\ Quiet(res, Reloaded(i, ok), live)
              /\ Reloaded(i, ok)[Top.r].vm
              /\ HoldsIncludes(Reloaded(i, ok), Top.r, ToSet(Top.left))
              /\ Good(Reloaded(i, ok), <<Top>> \o Below, live, started, syncOptions,
                      requirements)
  <2>1. i \in live
    BY <1>5, <1>13
  <2>2. Quiet(res, Reloaded(i, ok), live)
    BY <2>1, <1>10, <1>13, ReloadQuiet
  <2>3. Good(Reloaded(i, ok), <<Top>> \o Below, live, started, syncOptions, requirements)
    BY <2>2, <1>2, QuietGood
  <2>4. PICK R : R = Reloaded(i, ok)
    OBVIOUS
  <2>5. TopOK(R, Below, Top, live, started, syncOptions, requirements)
    BY <2>3, <2>4, <1>1, <1>2, TopFacts
  <2>6. R[Top.r].vm /\ HoldsIncludes(R, Top.r, ToSet(Top.left))
    BY <2>5, <1>1, <1>4 DEF TopOK, FrameOK
  <2> QED
    BY <2>2, <2>3, <2>4, <2>6
<1>14. CASE /\ i \in res[Top.r].links /\ ~Active(i)
            /\ res' = Reloaded(i, FALSE) /\ stack' = Goto("aborting")
  <2>1. PICK a \in FrameType : /\ a.op = Top.op /\ a.r = Top.r /\ a.pc = "aborting"
                               /\ Goto("aborting") = <<a>> \o Below
    BY <1>1, <1>7, GotoIs
  <2>2. Quiet(res, res', live) /\ res'[Top.r].vm
    BY <1>13, <1>14
  <2>3. Locked(a) /\ FrameOK(res', a)
    BY <2>1, <2>2, <1>1 DEF Locked, StartingPcs, FrameOK, VMPcs
  <2> QED
    BY <2>1, <2>2, <2>3, <1>1, <1>4, <1>9, <1>14, QuietStep
<1>15. CASE /\ i \in res[Top.r].links /\ ~Active(i)
            /\ res' = Reloaded(i, TRUE)
            /\ stack' = <<[Frame("reload", i, "reloaded") EXCEPT !.by = Top.r]>>
                          \o <<[c EXCEPT !.pc = "include", !.left = Top.left]>> \o Below
  <2>1. PICK a \in FrameType : /\ a = [c EXCEPT !.pc = "include", !.left = Top.left]
                               /\ a.op = Top.op /\ a.r = Top.r /\ a.pc = "include"
                               /\ a.left = Top.left
    <3>1. /\ [c EXCEPT !.pc = "include", !.left = Top.left] \in FrameType
          /\ [c EXCEPT !.pc = "include", !.left = Top.left].op = c.op
          /\ [c EXCEPT !.pc = "include", !.left = Top.left].r = c.r
          /\ [c EXCEPT !.pc = "include", !.left = Top.left].pc = "include"
          /\ [c EXCEPT !.pc = "include", !.left = Top.left].left = Top.left
      BY <1>5, <1>7 DEF FrameType
    <3> QED
      BY <3>1, <1>8
  <2>2. PICK b \in FrameType : b = Frame("reload", i, "reloaded") /\ b.op = "reload"
    BY <1>7, FrameIsFrame
  <2>3. PICK e \in FrameType : e = [b EXCEPT !.by = Top.r] /\ e.op = "reload"
    <3>1. [b EXCEPT !.by = Top.r] \in FrameType /\ [b EXCEPT !.by = Top.r].op = "reload"
      BY <2>2, <1>5 DEF FrameType
    <3> QED
      BY <3>1
  <2>4. PICK R : R = Reloaded(i, TRUE)
    OBVIOUS
  <2>5. /\ Good(R, <<Top>> \o Below, live, started, syncOptions, requirements)
        /\ R[Top.r].vm /\ HoldsIncludes(R, Top.r, ToSet(Top.left))
    BY <2>4, <1>13, <1>15
  <2>6. Locked(a) /\ FrameOK(R, a)
    BY <2>1, <2>5, <1>1 DEF Locked, StartingPcs, FrameOK, VMPcs
  <2>7. Good(R, <<a>> \o Below, live, started, syncOptions, requirements)
    BY <2>1, <2>5, <2>6, <1>1, <1>2, <1>4, GoOn
  <2>8. <<a>> \o Below \in Seq(FrameType)
    BY <1>2, PushFrame
  <2>9. ~(a.op = "queue" /\ a.pc \in {"restart", "reload"})
    BY <2>1
  <2>10. Waiting(<<a>> \o Below) /\ ~Waited(<<a>> \o Below)
    BY <2>1, <2>9, <1>1, WaitingKeep
  <2>11. ~Locked(e) /\ e.op \notin {"start", "stop"} /\ e.op # "queue"
    BY <2>3 DEF Locked
  <2> PICK s \in Seq(FrameType) : s = <<a>> \o Below
    BY <2>8
  <2>12. Good(R, <<e>> \o s, live, started, syncOptions, requirements)
    BY <2>7, <2>11, PushGood
  <2>13. Waiting(<<e>> \o s) /\ ~Waited(<<e>> \o s)
    BY <2>10, <2>11, WaitingCall
  <2>14. stack' = <<e>> \o s
    <3>1. stack' = <<e>> \o <<a>> \o Below
      BY <2>1, <2>2, <2>3, <1>15
    <3>2. <<e>> \in Seq(FrameType) /\ <<a>> \in Seq(FrameType)
      OBVIOUS
    <3>3. (<<e>> \o <<a>>) \o Below = <<e>> \o (<<a>> \o Below)
      BY <3>2, <1>2, ConcatAssociative
    <3> QED
      BY <3>1, <3>3
  <2>15. Good(res', stack', live', started', syncOptions', requirements')
    BY <2>4, <2>12, <2>14, <1>9, <1>15 DEF maps
  <2>16. QueueOK'
    BY <1>9, QueueKept
  <2> QED
    BY <2>13, <2>14, <2>15, <2>16 DEF IInv, WaitedOK
<1>16. Head(<<c>> \o Below) = c
  BY <1>2, PushFrame
<1> QED
  BY <1>8, <1>11, <1>12, <1>14, <1>15, <1>16 DEF Include, Below

LEMMA IncludeReloadedKeeps == ASSUME IInv, IncludeReloaded PROVE IInv'
<1>1. stack # <<>> /\ Top.op = "start" /\ Top.pc = "include"
  BY DEF IncludeReloaded, At
<1>2. /\ Top \in FrameType /\ Below \in Seq(FrameType)
      /\ Good(res, <<Top>> \o Below, live, started, syncOptions, requirements)
  BY <1>1, FromTop
<1>3. TopOK(res, Below, Top, live, started, syncOptions, requirements)
  BY <1>1, <1>2, TopFacts
<1>4. Top.left # <<>> /\ Top.left \in Seq(Resources)
  BY <1>1, <1>2, <1>3 DEF TopOK, FrameOK, FrameType
<1> PICK rest \in Seq(Resources) : rest = Tail(Top.left)
  BY <1>4, ToSetHeadTail
<1>5. PICK c \in FrameType : /\ c.op = Top.op /\ c.r = Top.r /\ c.pc = "includes"
                             /\ c.left = rest
                             /\ GotoWith("includes", rest) = <<c>> \o Below
  <2>1. stack # <<>> /\ "includes" \in Pcs
    BY <1>1 DEF Pcs, StartingPcs
  <2> QED
    BY <2>1, GotoWithIs
<1>6. /\ UNCHANGED <<queue, live>> /\ UNCHANGED maps
      /\ AddDependent(Head(Top.left), Top.r, <<c>> \o Below)
  BY <1>5 DEF IncludeReloaded, outside
<1> QED
  BY <1>1, <1>4, <1>5, <1>6, AddDependentStep

LEMMA IncludesDoneKeeps == ASSUME IInv, IncludesDone PROVE IInv'
<1>1. stack # <<>> /\ Top.op = "start" /\ Top.pc = "includes" /\ Top.left = <<>>
  BY DEF IncludesDone, At
<1>2. /\ Top \in FrameType /\ Below \in Seq(FrameType)
      /\ Good(res, <<Top>> \o Below, live, started, syncOptions, requirements)
  BY <1>1, FromTop
<1>3. TopOK(res, Below, Top, live, started, syncOptions, requirements)
  BY <1>1, <1>2, TopFacts
<1>4. Locked(Top) /\ Top.pc \in VMPcs
  BY <1>1 DEF Locked, StartingPcs, VMPcs
<1>5. /\ HoldsIncludes(res, Top.r, {}) /\ res[Top.r].vm
      /\ Top.r \in Resources /\ Top.deps \subseteq Resources
  <2>1. ToSet(<<>>) = {}
    BY EmptySeq DEF ToSet
  <2> QED
    BY <2>1, <1>1, <1>2, <1>3, <1>4 DEF TopOK, FrameOK, FrameType
<1>6. PICK c \in FrameType : /\ c.op = Top.op /\ c.r = Top.r /\ c.pc = "starting"
                             /\ Goto("starting") = <<c>> \o Below
  <2>1. "starting" \in Pcs
    BY DEF Pcs, EventPcs
  <2> QED
    BY <2>1, <1>1, GotoIs
<1> PICK D \in SUBSET Resources : D = res[Top.r].deps \cup Top.deps
  BY <1>3, <1>5 DEF TopOK, Resource
<1>7. res' = [res EXCEPT ![Top.r].deps = D]
  BY <1>3 DEF IncludesDone, TopOK
<1>8. ResOK(res, live)
  BY DEF IInv, Good
<1>9. Quiet(res, res', live)
  <2>1. \A q \in res[Top.r].deps : q \in D
    OBVIOUS
  <2> PICK r \in Resources : r = Top.r
    BY <1>5
  <2>2. Quiet(res, [res EXCEPT ![r].deps = D], live)
    BY <2>1, <1>8, DependentsQuiet
  <2> QED
    BY <2>2, <1>7
<1>10. /\ \A x \in Resources : res[x].deps \subseteq res'[x].deps
       /\ res'[Top.r].links = res[Top.r].links /\ res'[Top.r].vm
  BY <1>3, <1>5, <1>7 DEF TopOK, Resource
<1>11. HoldsIncludes(res', Top.r, {})
  <2>1. res[Top.r].links \subseteq Resources
    BY <1>3 DEF TopOK, Resource
  <2> QED
    BY <2>1, <1>5, <1>10 DEF HoldsIncludes
<1>12. Locked(c) /\ FrameOK(res', c)
  BY <1>1, <1>6, <1>10, <1>11 DEF Locked, StartingPcs, FrameOK, VMPcs
<1>13. UNCHANGED <<queue, live>> /\ UNCHANGED maps /\ stack' = <<c>> \o Below
  BY <1>6 DEF IncludesDone, outside
<1> QED
  BY <1>1, <1>4, <1>6, <1>9, <1>12, <1>13, QuietStep

LEMMA StartCancelledKeeps == ASSUME IInv, StartCancelled PROVE IInv'
<1>1. stack # <<>> /\ Top.op = "start" /\ Top.pc = "started"
  BY DEF StartCancelled, At
<1>2. /\ Top \in FrameType /\ Below \in Seq(FrameType)
      /\ Good(res, <<Top>> \o Below, live, started, syncOptions, requirements)
  BY <1>1, FromTop
<1>3. TopOK(res, Below, Top, live, started, syncOptions, requirements)
  BY <1>1, <1>2, TopFacts
<1>4. ~Locked(Top)
  BY <1>1 DEF Locked, StartingPcs
<1>5. res[Top.r].state \notin {"Starting", "Stopping"}
  BY <1>3, <1>4 DEF TopOK
<1>6. UNCHANGED <<res, queue, live>> /\ UNCHANGED maps
  BY DEF StartCancelled, outside
<1>7. QueueOK'
  BY <1>6, QueueKept
<1>8. Focused(res, res, Top.r, live)
  BY <1>3 DEF Focused, TopOK
<1>9. Waiting(Below) /\ ~Waited(Below)
  BY <1>1, WaitingPop
<1>10. CASE res[Top.r].state = "Running"
  <2>1. PICK c \in FrameType : /\ c = Frame("stop", Top.r, "stopping")
                               /\ c.op = "stop" /\ c.r = Top.r /\ c.pc = "stopping"
    <3>1. "stop" \in Ops /\ "stopping" \in Pcs /\ Top.r \in Resources
      BY <1>3 DEF Ops, Pcs, EventPcs, TopOK
    <3> QED
      BY <3>1, FrameIsFrame
  <2>2. stack' = <<c>> \o Below
    BY <2>1, <1>10 DEF StartCancelled, StopFrame, Below
  <2>3. ~Locked(c) /\ FrameOK(res, c)
    BY <2>1 DEF Locked, StoppingPcs, FrameOK
  <2>4. \A pcs : Lags(c, Top.r, pcs)
    BY <2>1 DEF Lags
  <2>5. MapsFocused(res, Top.r, Frames(Below) \cup {c}, started, syncOptions, requirements,
                    started, syncOptions, requirements)
    BY <2>4, <1>3, <1>10 DEF MapsFocused, TopOK
  <2>6. Good(res, <<c>> \o Below, live, started, syncOptions, requirements)
    BY <2>1, <2>3, <2>5, <1>1, <1>2, <1>5, <1>8, FocusKeep
  <2>7. Waiting(<<c>> \o Below) /\ ~Waited(<<c>> \o Below)
    BY <2>1, <1>2, <1>9, WaitingCall
  <2>8. Good(res', stack', live', started', syncOptions', requirements')
    BY <2>2, <2>6, <1>6 DEF maps
  <2> QED
    BY <2>2, <2>7, <2>8, <1>7 DEF IInv, WaitedOK
<1>11. CASE res[Top.r].state # "Running"
  <2>1. stack' = Below
    <3>1. <<>> \o Below = Below
      BY <1>2, ConcatEmptySeq
    <3> QED
      BY <3>1, <1>11 DEF StartCancelled, StopFrame, Below
  <2>2. MapsFocused(res, Top.r, Frames(Below), started, syncOptions, requirements,
                    started, syncOptions, requirements)
    BY <1>1, <1>3, <1>11 DEF MapsFocused, TopOK
  <2>3. Good(res, Below, live, started, syncOptions, requirements)
    BY <2>2, <1>1, <1>2, <1>5, <1>8, FocusPop
  <2>4. Good(res', Below, live', started', syncOptions', requirements')
    BY <2>3, <1>6 DEF maps
  <2> QED
    BY <2>1, <2>4, <1>1, <1>7, PopStep
<1> QED
  BY <1>10, <1>11

LEMMA StartAcceptedKeeps == ASSUME IInv, StartAccepted PROVE IInv'
<1>1. stack # <<>> /\ Top.op = "start" /\ Top.pc = "started"
  BY DEF StartAccepted, At
<1>2. /\ Top \in FrameType /\ Below \in Seq(FrameType)
      /\ Good(res, <<Top>> \o Below, live, started, syncOptions, requirements)
  BY <1>1, FromTop
<1>3. TopOK(res, Below, Top, live, started, syncOptions, requirements)
  BY <1>1, <1>2, TopFacts
<1>4. ~Locked(Top) /\ Top.manual \in BOOLEAN
  BY <1>1, <1>2 DEF Locked, StartingPcs, FrameType
<1>5. res[Top.r].state \notin {"Starting", "Stopping"}
  BY <1>3, <1>4 DEF TopOK
<1>6. PICK c \in FrameType : /\ c.op = Top.op /\ c.r = Top.r /\ c.pc = "announce"
                             /\ Goto("announce") = <<c>> \o Below
  <2>1. "announce" \in Pcs
    BY DEF Pcs
  <2> QED
    BY <2>1, <1>1, GotoIs
<1>7. /\ UNCHANGED <<live, queue, started, syncOptions>> /\ stack' = <<c>> \o Below
      /\ requirements' = requirements \cup ({Top.r} \cap MinClient)
  BY <1>6 DEF StartAccepted, outside
<1>8. /\ res' \in [Resources -> Resource]
      /\ \A x \in Resources \ {Top.r} : res'[x] = res[x]
      /\ \A x \in Resources : res'[x].deps = res[x].deps
      /\ res'[Top.r].temps = res[Top.r].temps /\ res'[Top.r].links = res[Top.r].links
      /\ res'[Top.r].state = res[Top.r].state /\ res'[Top.r].vm = res[Top.r].vm
  BY <1>3, <1>4 DEF StartAccepted, TopOK, Resource
<1>9. HoldsIncludes(res, Top.r, {}) => HoldsIncludes(res', Top.r, {})
  <2>1. res[Top.r].links \subseteq Resources
    BY <1>3 DEF TopOK, Resource
  <2> QED
    BY <2>1, <1>8 DEF HoldsIncludes
<1>10. Focused(res, res', Top.r, live)
  BY <1>3, <1>8, <1>9 DEF Focused, TopOK
<1>11. ~Locked(c) /\ FrameOK(res', c)
  BY <1>1, <1>6 DEF Locked, StartingPcs, FrameOK
<1>12. Lags(c, Top.r, {"started", "announce"})
  BY <1>1, <1>6 DEF Lags
<1>13. MapsFocused(res', Top.r, Frames(Below) \cup {c}, started, syncOptions,
                   requirements, started', syncOptions', requirements')
  BY <1>1, <1>3, <1>6, <1>7, <1>8, <1>12 DEF MapsFocused, TopOK
<1> QED
  BY <1>1, <1>5, <1>6, <1>7, <1>8, <1>10, <1>11, <1>13, FocusStep

LEMMA AnnounceKeeps == ASSUME IInv, Announce PROVE IInv'
<1>1. stack # <<>> /\ Top.op = "start" /\ Top.pc = "announce" /\ res[Top.r].vm
  BY DEF Announce, At
<1>2. /\ Top \in FrameType /\ Below \in Seq(FrameType)
      /\ Good(res, <<Top>> \o Below, live, started, syncOptions, requirements)
  BY <1>1, FromTop
<1>3. TopOK(res, Below, Top, live, started, syncOptions, requirements)
  BY <1>1, <1>2, TopFacts
<1>4. ~Locked(Top)
  BY <1>1 DEF Locked, StartingPcs
<1>5. res[Top.r].state = "Running"
  BY <1>1, <1>3, <1>4 DEF TopOK, Resource, States
<1>6. /\ UNCHANGED <<live, queue, syncOptions, requirements>> /\ stack' = Below
      /\ started' = started \cup {Top.r}
  BY DEF Announce, outside, Below
<1>7. /\ res' \in [Resources -> Resource]
      /\ \A x \in Resources \ {Top.r} : res'[x] = res[x]
      /\ \A x \in Resources : res'[x].deps = res[x].deps
      /\ res'[Top.r].temps = res[Top.r].temps /\ res'[Top.r].links = res[Top.r].links
      /\ res'[Top.r].state = "Running" /\ res'[Top.r].vm
  BY <1>1, <1>3, <1>5 DEF Announce, TopOK, Resource
<1>8. HoldsIncludes(res', Top.r, {})
  <2>1. res[Top.r].links \subseteq Resources /\ HoldsIncludes(res, Top.r, {})
    BY <1>3, <1>5 DEF TopOK, Resource
  <2> QED
    BY <2>1, <1>7 DEF HoldsIncludes
<1>9. Focused(res, res', Top.r, live)
  BY <1>3, <1>5, <1>7, <1>8 DEF Focused, TopOK
<1>10. ~Lags(Top, Top.r, {"started"})
  BY <1>1 DEF Lags
<1>11. MapsFocused(res', Top.r, Frames(Below), started, syncOptions, requirements,
                   started', syncOptions', requirements')
  BY <1>1, <1>3, <1>5, <1>6, <1>7, <1>10 DEF MapsFocused, TopOK
<1>12. Good(res', Below, live, started', syncOptions', requirements')
  BY <1>1, <1>2, <1>7, <1>9, <1>11, FocusPop
<1>13. QueueOK'
  BY <1>6, QueueKept
<1> QED
  BY <1>1, <1>6, <1>12, <1>13, PopStep

-----------------------------------------------------------------------------
(* The steps of Stop.                                                      *)

LEMMA StopStartKeeps == ASSUME IInv, StopStart PROVE IInv'
<1>1. stack # <<>> /\ Top.op = "stop" /\ Top.pc = "stopping" /\ res[Top.r].vm
  BY DEF StopStart, At
<1>2. /\ Top \in FrameType /\ Below \in Seq(FrameType)
      /\ Good(res, <<Top>> \o Below, live, started, syncOptions, requirements)
  BY <1>1, FromTop
<1>3. TopOK(res, Below, Top, live, started, syncOptions, requirements)
  BY <1>1, <1>2, TopFacts
<1>4. ~Locked(Top)
  BY <1>1 DEF Locked, StoppingPcs
<1>5. res[Top.r].state = "Running" /\ Top.r \in live
  BY <1>1, <1>3, <1>4 DEF TopOK, Resource, States
<1>6. PICK c \in FrameType : /\ c.op = Top.op /\ c.r = Top.r /\ c.pc = "stopped"
                             /\ Goto("stopped") = <<c>> \o Below
  <2>1. "stopped" \in Pcs
    BY DEF Pcs, EventPcs
  <2> QED
    BY <2>1, <1>1, GotoIs
<1>7. /\ UNCHANGED <<live, queue>> /\ stack' = <<c>> \o Below
      /\ started' = started \ {Top.r} /\ syncOptions' = syncOptions \ {Top.r}
      /\ requirements' = requirements \ {Top.r}
  BY <1>6 DEF StopStart, outside
<1>8. /\ res' \in [Resources -> Resource]
      /\ \A x \in Resources \ {Top.r} : res'[x] = res[x]
      /\ res'[Top.r].deps = res[Top.r].deps /\ res'[Top.r].temps = res[Top.r].temps
      /\ res'[Top.r].links = res[Top.r].links
      /\ res'[Top.r].state = "Stopping" /\ res'[Top.r].vm
  BY <1>1, <1>3 DEF StopStart, TopOK, Resource, States
<1>9. Focused(res, res', Top.r, live)
  BY <1>3, <1>5, <1>8 DEF Focused, TopOK
<1>10. Locked(c) /\ FrameOK(res', c)
  BY <1>1, <1>6, <1>8 DEF Locked, StoppingPcs, FrameOK, VMPcs
<1>11. MapsFocused(res', Top.r, Frames(Below) \cup {c}, started, syncOptions,
                   requirements, started', syncOptions', requirements')
  BY <1>3, <1>7, <1>8 DEF MapsFocused, TopOK
<1> QED
  BY <1>1, <1>6, <1>7, <1>8, <1>9, <1>10, <1>11, FocusStep

LEMMA StoppedKeeps == ASSUME IInv, Stopped PROVE IInv'
<1>1. stack # <<>> /\ Top.op = "stop" /\ Top.pc = "stopped"
  BY DEF Stopped, At
<1>2. /\ Top \in FrameType /\ Below \in Seq(FrameType)
      /\ Good(res, <<Top>> \o Below, live, started, syncOptions, requirements)
  BY <1>1, FromTop
<1>3. TopOK(res, Below, Top, live, started, syncOptions, requirements)
  BY <1>1, <1>2, TopFacts
<1>4. Locked(Top) /\ Top.pc \in VMPcs
  BY <1>1 DEF Locked, StoppingPcs, VMPcs
<1>5. Includes[Top.r] \in Seq(Resources)
  BY <1>2, ResourcesType DEF FrameType
<1> PICK left \in Seq(Resources) : left = Includes[Top.r]
  BY <1>5
<1>6. PICK c \in FrameType : /\ c.op = Top.op /\ c.r = Top.r /\ c.pc = "leave"
                             /\ c.left = left
                             /\ GotoWith("leave", left) = <<c>> \o Below
  <2>1. stack # <<>> /\ "leave" \in Pcs
    BY <1>1 DEF Pcs, StoppingPcs
  <2> QED
    BY <2>1, GotoWithIs
<1>7. Locked(c) /\ FrameOK(res, c)
  BY <1>1, <1>3, <1>4, <1>6 DEF Locked, StoppingPcs, FrameOK, VMPcs, TopOK
<1>8. UNCHANGED <<res, queue, live>> /\ UNCHANGED maps /\ stack' = <<c>> \o Below
  BY <1>6 DEF Stopped, outside
<1> QED
  BY <1>1, <1>4, <1>6, <1>7, <1>8, GoOnStep

\* RemoveDependent of a Stop, which then goes on with the other includes.
LEMMA RemoveDependentStep ==
    ASSUME IInv, stack # <<>>, UNCHANGED <<queue, live>>, UNCHANGED maps,
           Top.op = "stop", Top.pc = "leave", NEW i \in Resources,
           NEW c \in FrameType, c.op = Top.op, c.r = Top.r, c.pc = "leave",
           RemoveDependent(i, Top.r, res, <<c>> \o Below)
    PROVE  IInv'
<1>1. /\ Top \in FrameType /\ Below \in Seq(FrameType)
      /\ Good(res, <<Top>> \o Below, live, started, syncOptions, requirements)
  BY FromTop
<1>2. TopOK(res, Below, Top, live, started, syncOptions, requirements)
  BY <1>1, TopFacts
<1>3. Locked(Top) /\ Locked(c) /\ Top.pc \in VMPcs
  BY DEF Locked, StoppingPcs, VMPcs
<1>4. res[Top.r].state = "Stopping" /\ res[Top.r].vm
  BY <1>2, <1>3 DEF TopOK, FrameOK
<1>5. ResOK(res, live)
  BY DEF IInv, Good
<1>6. res \in [Resources -> Resource]
  BY <1>5 DEF ResOK
<1> PICK D \in SUBSET Resources : D = res[i].deps \ {Top.r}
  BY <1>6 DEF Resource
<1>7. PICK R : R = [res EXCEPT ![i].deps = D]
  OBVIOUS
<1>8. Quiet(res, R, live)
  <2>1. \A q \in res[i].deps : res[q].state \in {"Starting", "Running"} => q \in D
    BY <1>4
  <2>2. Quiet(res, [res EXCEPT ![i].deps = D], live)
    BY <2>1, <1>5, DependentsQuiet
  <2> QED
    BY <2>2, <1>7
<1>9. FrameOK(R, c)
  <2>1. R[Top.r].vm
    BY <1>2, <1>4, <1>8 DEF Quiet, TopOK
  <2> QED
    BY <2>1, <1>3 DEF FrameOK
<1>10. Call(R, CheckStateFrame(R, i), <<c>> \o Below)
  <2>1. R = [res EXCEPT ![i].deps = @ \ {Top.r}]
    BY <1>6, <1>7
  <2> QED
    BY <2>1 DEF RemoveDependent
<1>11. Fresh(R, CheckStateFrame(R, i))
  BY CallsFresh
<1> QED
  BY <1>3, <1>8, <1>9, <1>10, <1>11, QuietCallStep

LEMMA LeaveIncludeKeeps == ASSUME IInv, LeaveInclude PROVE IInv'
<1>1. stack # <<>> /\ Top.op = "stop" /\ Top.pc = "leave" /\ Top.left # <<>>
  BY DEF LeaveInclude, At
<1>2. /\ Top \in FrameType /\ Below \in Seq(FrameType)
      /\ Good(res, <<Top>> \o Below, live, started, syncOptions, requirements)
  BY <1>1, FromTop
<1>3. TopOK(res, Below, Top, live, started, syncOptions, requirements)
  BY <1>1, <1>2, TopFacts
<1>4. Locked(Top) /\ Top.pc \in VMPcs /\ Top.left \in Seq(Resources)
  BY <1>1, <1>2 DEF Locked, StoppingPcs, VMPcs, FrameType
<1> PICK i \in Resources, rest \in Seq(Resources) :
      i = Head(Top.left) /\ rest = Tail(Top.left)
  BY <1>1, <1>4, ToSetHeadTail
<1>5. PICK c \in FrameType : /\ c.op = Top.op /\ c.r = Top.r /\ c.pc = "leave"
                             /\ c.left = rest
                             /\ GotoWith("leave", rest) = <<c>> \o Below
  <2>1. stack # <<>> /\ "leave" \in Pcs
    BY <1>1 DEF Pcs, StoppingPcs
  <2> QED
    BY <2>1, GotoWithIs
<1>6. UNCHANGED <<queue, live>> /\ UNCHANGED maps
  BY DEF LeaveInclude, outside
<1>7. CASE i \in res[Top.r].links
  <2>1. RemoveDependent(i, Top.r, res, <<c>> \o Below)
    BY <1>5, <1>7 DEF LeaveInclude
  <2> QED
    BY <2>1, <1>1, <1>5, <1>6, RemoveDependentStep
<1>8. CASE i \notin res[Top.r].links
  <2>1. res' = res /\ stack' = <<c>> \o Below
    BY <1>5, <1>8 DEF LeaveInclude
  <2>2. Locked(c) /\ FrameOK(res, c)
    BY <1>1, <1>3, <1>4, <1>5 DEF Locked, StoppingPcs, FrameOK, VMPcs, TopOK
  <2> QED
    BY <2>1, <2>2, <1>1, <1>4, <1>5, <1>6, GoOnStep
<1> QED
  BY <1>7, <1>8

LEMMA LeaveTemporaryKeeps == ASSUME IInv, LeaveTemporary PROVE IInv'
<1>1. stack # <<>> /\ Top.op = "stop" /\ Top.pc = "leave"
  BY DEF LeaveTemporary, At
<1>2. /\ Top \in FrameType /\ Below \in Seq(FrameType)
      /\ Good(res, <<Top>> \o Below, live, started, syncOptions, requirements)
  BY <1>1, FromTop
<1>3. TopOK(res, Below, Top, live, started, syncOptions, requirements)
  BY <1>1, <1>2, TopFacts
<1>4. PICK t \in res[Top.r].temps :
        RemoveDependent(t, Top.r, res, <<[Top EXCEPT !.deps = @ \cup {t}]>> \o Below)
  BY DEF LeaveTemporary, Below
<1>5. t \in Resources
  BY <1>3, <1>4 DEF TopOK, Resource
<1>6. PICK c \in FrameType : /\ c = [Top EXCEPT !.deps = @ \cup {t}]
                             /\ c.op = Top.op /\ c.r = Top.r /\ c.pc = "leave"
  <2>1. /\ [Top EXCEPT !.deps = @ \cup {t}] \in FrameType
        /\ [Top EXCEPT !.deps = @ \cup {t}].op = Top.op
        /\ [Top EXCEPT !.deps = @ \cup {t}].r = Top.r
        /\ [Top EXCEPT !.deps = @ \cup {t}].pc = Top.pc
    BY <1>2, <1>5 DEF FrameType
  <2> QED
    BY <2>1, <1>1
<1>7. UNCHANGED <<queue, live>> /\ UNCHANGED maps
  BY DEF LeaveTemporary, outside
<1>8. RemoveDependent(t, Top.r, res, <<c>> \o Below)
  BY <1>4, <1>6
<1> QED
  BY <1>1, <1>5, <1>6, <1>7, <1>8, RemoveDependentStep

LEMMA LeaveDoneKeeps == ASSUME IInv, LeaveDone PROVE IInv'
<1>1. stack # <<>> /\ Top.op = "stop" /\ Top.pc = "leave"
  BY DEF LeaveDone, At
<1>2. /\ Top \in FrameType /\ Below \in Seq(FrameType)
      /\ Good(res, <<Top>> \o Below, live, started, syncOptions, requirements)
  BY <1>1, FromTop
<1>3. TopOK(res, Below, Top, live, started, syncOptions, requirements)
  BY <1>1, <1>2, TopFacts
<1>4. Locked(Top) /\ Top.pc \in VMPcs
  BY <1>1 DEF Locked, StoppingPcs, VMPcs
<1>5. res[Top.r].vm
  BY <1>3, <1>4 DEF TopOK, FrameOK
<1>6. PICK c \in FrameType : /\ c.op = Top.op /\ c.r = Top.r /\ c.pc = "teardown"
                             /\ Goto("teardown") = <<c>> \o Below
  <2>1. "teardown" \in Pcs
    BY DEF Pcs, EventPcs
  <2> QED
    BY <2>1, <1>1, GotoIs
<1>7. UNCHANGED <<queue, live>> /\ UNCHANGED maps /\ stack' = <<c>> \o Below
  BY <1>6 DEF LeaveDone, outside
<1>8. ResOK(res, live)
  BY DEF IInv, Good
<1>9. /\ res' \in [Resources -> Resource]
      /\ \A x \in Resources :
           /\ res'[x].state = res[x].state /\ res'[x].vm = res[x].vm
           /\ res'[x].links = res[x].links /\ res'[x].deps = res[x].deps
           /\ res'[x].temps \subseteq res[x].temps
  BY <1>3 DEF LeaveDone, TopOK, Resource
<1>10. \A x \in live : res'[x].temps \subseteq live
  <2> SUFFICES ASSUME NEW x \in live PROVE res'[x].temps \subseteq live
    OBVIOUS
  <2>1. res[x].temps \subseteq live /\ x \in Resources
    BY <1>8 DEF ResOK
  <2> QED
    BY <2>1, <1>9
<1>11. \A x \in Resources : \A q \in res[x].deps :
         res[q].state \in {"Starting", "Running"} => q \in res'[x].deps
  BY <1>9
<1>12. Quiet(res, res', live)
  BY <1>8, <1>9, <1>10, <1>11, SameQuiet
<1>13. Locked(c) /\ FrameOK(res', c)
  BY <1>1, <1>3, <1>5, <1>6, <1>9 DEF Locked, StoppingPcs, FrameOK, VMPcs, TopOK
<1> QED
  BY <1>1, <1>4, <1>6, <1>7, <1>12, <1>13, QuietStep

LEMMA CloseVMKeeps == ASSUME IInv, CloseVM PROVE IInv'
<1>1. stack # <<>> /\ Top.op = "stop" /\ Top.pc = "teardown"
  BY DEF CloseVM, At
<1>2. /\ Top \in FrameType /\ Below \in Seq(FrameType)
      /\ Good(res, <<Top>> \o Below, live, started, syncOptions, requirements)
  BY <1>1, FromTop
<1>3. TopOK(res, Below, Top, live, started, syncOptions, requirements)
  BY <1>1, <1>2, TopFacts
<1>4. Locked(Top)
  BY <1>1 DEF Locked, StoppingPcs
<1>5. res[Top.r].state = "Stopping" /\ Top.r \in live
  BY <1>1, <1>3, <1>4 DEF TopOK
<1>6. PICK c \in FrameType : /\ c.op = Top.op /\ c.r = Top.r /\ c.pc = "gone"
                             /\ Goto("gone") = <<c>> \o Below
  <2>1. "gone" \in Pcs
    BY DEF Pcs, EventPcs
  <2> QED
    BY <2>1, <1>1, GotoIs
<1>7. /\ UNCHANGED <<live, queue, started, syncOptions, requirements>>
      /\ stack' = <<c>> \o Below
  BY <1>6 DEF CloseVM, outside, maps
<1>8. /\ res' \in [Resources -> Resource]
      /\ \A x \in Resources \ {Top.r} : res'[x] = res[x]
      /\ res'[Top.r].deps = res[Top.r].deps /\ res'[Top.r].temps = res[Top.r].temps
      /\ res'[Top.r].links = res[Top.r].links
      /\ res'[Top.r].state = "Stopping" /\ ~res'[Top.r].vm
  BY <1>3, <1>5 DEF CloseVM, TopOK, Resource
<1>9. Focused(res, res', Top.r, live)
  BY <1>3, <1>5, <1>8 DEF Focused, TopOK
<1>10. Locked(c) /\ FrameOK(res', c)
  BY <1>1, <1>6, <1>8 DEF Locked, StoppingPcs, FrameOK, VMPcs
<1>11. ~(Top.op = "start" /\ Top.pc = "announce")
  BY <1>1
<1>12. MapsFocused(res', Top.r, Frames(Below) \cup {c}, started, syncOptions,
                   requirements, started', syncOptions', requirements')
  BY <1>3, <1>5, <1>7, <1>8, <1>11 DEF MapsFocused, TopOK
<1> QED
  BY <1>1, <1>6, <1>7, <1>8, <1>9, <1>10, <1>12, FocusStep

LEMMA StopDoneKeeps == ASSUME IInv, StopDone PROVE IInv'
<1>1. stack # <<>> /\ Top.op = "stop" /\ Top.pc = "gone"
  BY DEF StopDone, At
<1>2. /\ Top \in FrameType /\ Below \in Seq(FrameType)
      /\ Good(res, <<Top>> \o Below, live, started, syncOptions, requirements)
      /\ Waiting(Below) /\ (Waited(Below) => Top.r = Head(Below).r)
  BY <1>1, FromTop
<1>3. TopOK(res, Below, Top, live, started, syncOptions, requirements)
  BY <1>1, <1>2, TopFacts
<1>4. Locked(Top) /\ Top.pc \notin VMPcs
  BY <1>1 DEF Locked, StoppingPcs, VMPcs
<1>5. res[Top.r].state = "Stopping" /\ Top.r \in live /\ ~res[Top.r].vm
  BY <1>1, <1>3, <1>4 DEF TopOK, FrameOK
<1>6. UNCHANGED <<live, queue, started, syncOptions, requirements>> /\ stack' = Below
  BY DEF StopDone, outside, maps, Below
<1>7. /\ res' \in [Resources -> Resource]
      /\ \A x \in Resources \ {Top.r} : res'[x] = res[x]
      /\ res'[Top.r].deps = res[Top.r].deps /\ res'[Top.r].temps = res[Top.r].temps
      /\ res'[Top.r].links = res[Top.r].links
      /\ res'[Top.r].state = "Loaded" /\ ~res'[Top.r].vm
  BY <1>3, <1>5 DEF StopDone, TopOK, Resource, States
<1>8. Focused(res, res', Top.r, live)
  BY <1>3, <1>5, <1>7 DEF Focused, TopOK
<1>9. MapsFocused(res', Top.r, Frames(Below), started, syncOptions, requirements,
                  started', syncOptions', requirements')
  BY <1>1, <1>3, <1>5, <1>6, <1>7 DEF MapsFocused, TopOK
<1>10. Good(res', Below, live, started', syncOptions', requirements')
  BY <1>1, <1>2, <1>7, <1>8, <1>9, FocusPop
<1>11. WaitedOK(res', Below)
  BY <1>2, <1>7 DEF WaitedOK
<1>12. QueueOK'
  BY <1>6, QueueKept
<1> QED
  BY <1>2, <1>6, <1>10, <1>11, <1>12 DEF IInv

-----------------------------------------------------------------------------
(* The steps of scripts, the console and the queue.                        *)

\* startResource of a script marks the resource, or makes it a temporary include.
Marked(x, m) == [res EXCEPT ![x].persistent = m]
Adopted(new, by, x) == [new EXCEPT ![by].temps = @ \cup {x}, ![x].deps = @ \cup {by}]

LEMMA MarkedQuiet ==
    ASSUME ResOK(res, live), NEW x \in Resources, Active(x), NEW by \in Resources,
           NEW m \in BOOLEAN, NEW new, new = Marked(x, m),
           NEW with, with = Adopted(new, by, x)
    PROVE  Quiet(res, new, live) /\ Quiet(res, with, live)
<1>1. res \in [Resources -> Resource] /\ live \subseteq Resources
  BY DEF ResOK
<1>2. x \in live
  BY DEF ResOK, Active
<1>a. new = [res EXCEPT ![x].persistent = m]
  BY DEF Marked
<1>3. /\ new \in [Resources -> Resource]
      /\ \A y \in Resources :
           /\ new[y].state = res[y].state /\ new[y].vm = res[y].vm
           /\ new[y].links = res[y].links /\ new[y].deps = res[y].deps
           /\ new[y].temps = res[y].temps
  BY <1>1, <1>a DEF Resource
<1> PICK T \in SUBSET Resources : T = new[by].temps \cup {x}
  BY <1>3 DEF Resource
<1>4. PICK mid : mid = [new EXCEPT ![by].temps = T]
  OBVIOUS
<1>5. /\ mid \in [Resources -> Resource]
      /\ \A y \in Resources :
           /\ mid[y].state = new[y].state /\ mid[y].vm = new[y].vm
           /\ mid[y].links = new[y].links /\ mid[y].deps = new[y].deps
           /\ mid[y].temps = IF y = by THEN T ELSE new[y].temps
  BY <1>3, <1>4 DEF Resource
<1> PICK D \in SUBSET Resources : D = mid[x].deps \cup {by}
  BY <1>5 DEF Resource
<1>6. with = [mid EXCEPT ![x].deps = D]
  BY <1>3, <1>4, <1>5 DEF Adopted
<1>7. /\ with \in [Resources -> Resource]
      /\ \A y \in Resources :
           /\ with[y].state = mid[y].state /\ with[y].vm = mid[y].vm
           /\ with[y].links = mid[y].links
           /\ with[y].deps = IF y = x THEN D ELSE mid[y].deps
           /\ with[y].temps = mid[y].temps
  BY <1>5, <1>6 DEF Resource
<1>b. ASSUME NEW y \in Resources
      PROVE  /\ with[y].state = res[y].state /\ with[y].vm = res[y].vm
             /\ with[y].links = res[y].links /\ res[y].deps \subseteq with[y].deps
             /\ with[y].temps \subseteq res[y].temps \cup {x}
  <2>1. /\ with[y].state = mid[y].state /\ with[y].vm = mid[y].vm
        /\ with[y].links = mid[y].links /\ with[y].temps = mid[y].temps
        /\ with[y].deps = IF y = x THEN D ELSE mid[y].deps
    BY <1>7
  <2>2. /\ mid[y].state = new[y].state /\ mid[y].vm = new[y].vm
        /\ mid[y].links = new[y].links /\ mid[y].deps = new[y].deps
        /\ mid[y].temps = IF y = by THEN T ELSE new[y].temps
    BY <1>5
  <2>3. /\ new[y].state = res[y].state /\ new[y].vm = res[y].vm
        /\ new[y].links = res[y].links /\ new[y].deps = res[y].deps
        /\ new[y].temps = res[y].temps
    BY <1>3
  <2> QED
    BY <2>1, <2>2, <2>3
<1>8. \A y \in live : new[y].temps \subseteq live /\ with[y].temps \subseteq live
  <2> SUFFICES ASSUME NEW y \in live
               PROVE  new[y].temps \subseteq live /\ with[y].temps \subseteq live
    OBVIOUS
  <2>1. res[y].temps \subseteq live /\ y \in Resources
    BY <1>1 DEF ResOK
  <2>2. new[y].temps = res[y].temps /\ with[y].temps \subseteq res[y].temps \cup {x}
    BY <2>1, <1>3, <1>b
  <2> QED
    BY <2>1, <2>2, <1>2
<1>9. Quiet(res, new, live)
  <2>1. \A y \in live : new[y].temps \subseteq live
    BY <1>8
  <2>2. \A y \in Resources : \A q \in res[y].deps :
          res[q].state \in {"Starting", "Running"} => q \in new[y].deps
    BY <1>3
  <2>3. \A y \in Resources : /\ new[y].state = res[y].state /\ new[y].vm = res[y].vm
                             /\ new[y].links = res[y].links
    BY <1>3
  <2>4. new \in [Resources -> Resource]
    BY <1>3
  <2> QED
    BY <2>1, <2>2, <2>3, <2>4, SameQuiet
<1>10. Quiet(res, with, live)
  <2>1. \A y \in live : with[y].temps \subseteq live
    BY <1>8
  <2>2. \A y \in Resources : \A q \in res[y].deps :
          res[q].state \in {"Starting", "Running"} => q \in with[y].deps
    BY <1>b
  <2>3. \A y \in Resources : /\ with[y].state = res[y].state /\ with[y].vm = res[y].vm
                             /\ with[y].links = res[y].links
    BY <1>b
  <2>4. with \in [Resources -> Resource]
    BY <1>7
  <2> QED
    BY <2>1, <2>2, <2>3, <2>4, SameQuiet
<1> QED
  BY <1>9, <1>10

LEMMA LuaStartedKeeps == ASSUME IInv, LuaStarted PROVE IInv'
<1>1. stack # <<>> /\ Top.op = "lua" /\ Top.pc = "called"
  BY DEF LuaStarted, At
<1>2. /\ Top \in FrameType /\ Below \in Seq(FrameType)
      /\ Good(res, <<Top>> \o Below, live, started, syncOptions, requirements)
  BY <1>1, FromTop
<1>3. Good(res, Below, live, started, syncOptions, requirements)
  BY <1>1, <1>2, PopGood
<1>4. Waiting(Below) /\ ~Waited(Below)
  BY <1>1, WaitingPop
<1>5. UNCHANGED <<queue, live>> /\ UNCHANGED maps
  BY DEF LuaStarted, outside
<1>6. QueueOK'
  BY <1>5, QueueKept
<1> PICK x \in Resources, by \in Resources, m \in BOOLEAN :
      x = Top.r /\ by = Top.by /\ m = Top.manual
  BY <1>2 DEF FrameType
<1>a. PICK new : new = Marked(x, m)
  OBVIOUS
<1>b. PICK with : with = Adopted(new, by, x)
  OBVIOUS
<1>7. ResOK(res, live)
  BY DEF IInv, Good
<1>8. ASSUME Active(x) PROVE Quiet(res, new, live) /\ Quiet(res, with, live)
  BY <1>7, <1>8, <1>a, <1>b, MarkedQuiet
<1>9. CASE res' = res /\ stack' = Below
  <2>1. Good(res', Below, live', started', syncOptions', requirements')
    BY <1>3, <1>5, <1>9 DEF maps
  <2> QED
    BY <2>1, <1>1, <1>6, <1>9, PopStep
<1>10. CASE Active(x) /\ res' = new /\ stack' = Below
  <2>1. Good(new, Below, live, started, syncOptions, requirements)
    BY <1>3, <1>8, <1>10, QuietGood
  <2>2. Good(res', Below, live', started', syncOptions', requirements')
    BY <2>1, <1>5, <1>10 DEF maps
  <2> QED
    BY <2>2, <1>1, <1>6, <1>10, PopStep
<1>11. CASE /\ Active(x)
            /\ Call(with, IF by \in res[x].deps THEN <<>> ELSE CheckStateFrame(with, x), Below)
  <2>1. Good(with, Below, live', started, syncOptions, requirements)
    BY <1>3, <1>5, <1>8, <1>11, QuietGood
  <2>2. Fresh(with, IF by \in res[x].deps THEN <<>> ELSE CheckStateFrame(with, x))
    <3>1. Fresh(with, CheckStateFrame(with, x)) /\ Fresh(with, <<>>)
      BY CallsFresh
    <3> QED
      BY <3>1
  <2> PICK s \in Seq(FrameType) : s = Below
    BY <1>2
  <2> QED
    BY <2>1, <2>2, <1>4, <1>5, <1>6, <1>11, CallStep
<1> QED
  BY <1>9, <1>10, <1>11, <1>a, <1>b DEF LuaStarted, Below, Marked, Adopted

\* What a Stop that the queue makes changes first.
LEMMA ReleasedQuiet ==
    ASSUME ResOK(res, live), NEW x \in Resources, NEW R, R = Released(x)
    PROVE  Quiet(res, R, live) /\ \A y \in Resources : R[y].state = res[y].state
<1>1. res \in [Resources -> Resource] /\ live \subseteq Resources
  BY DEF ResOK
<1> PICK m \in BOOLEAN : m = FALSE
  OBVIOUS
<1>a. R = [res EXCEPT ![x].persistent = m]
  BY DEF Released
<1>2. /\ R \in [Resources -> Resource]
      /\ \A y \in Resources :
           /\ R[y].state = res[y].state /\ R[y].vm = res[y].vm
           /\ R[y].links = res[y].links /\ R[y].deps = res[y].deps
           /\ R[y].temps = res[y].temps
  BY <1>1, <1>a, SMTT(30) DEF Resource
<1>3. \A y \in live : R[y].temps \subseteq live
  <2> SUFFICES ASSUME NEW y \in live PROVE R[y].temps \subseteq live
    OBVIOUS
  <2>1. res[y].temps \subseteq live /\ y \in Resources
    BY <1>1 DEF ResOK
  <2> QED
    BY <2>1, <1>2
<1>4. \A y \in Resources : \A q \in res[y].deps :
        res[q].state \in {"Starting", "Running"} => q \in R[y].deps
  BY <1>2
<1> QED
  BY <1>2, <1>3, <1>4, SameQuiet

\* The queue's items are taken and added.
LEMMA QueueRest ==
    ASSUME IInv, queue # <<>>, queue' = Tail(queue), live' = live
    PROVE  /\ QueueOK' /\ Item \in QueuedType
           /\ Item.kind # "stopall" => Item.r \in live
<1>1. queue \in Seq(QueuedType) /\ Head(queue) \in QueuedType
  BY HeadTailProperties DEF IInv, QueueOK
<1>2. /\ Tail(queue) \in Seq(QueuedType) /\ Len(Tail(queue)) = Len(queue) - 1
      /\ \A i \in 1 .. Len(Tail(queue)) : Tail(queue)[i] = queue[i + 1]
      /\ Head(queue) = queue[1]
  BY <1>1, HeadTailProperties
<1>3. Len(queue) \in Nat /\ Len(queue) # 0 /\ DOMAIN queue = 1 .. Len(queue)
      /\ DOMAIN Tail(queue) = 1 .. Len(Tail(queue))
  BY <1>1, <1>2, LenProperties
<1>4. \A i \in DOMAIN queue : queue[i].kind # "stopall" => queue[i].r \in live
  BY DEF IInv, QueueOK
<1>5. ASSUME NEW i \in DOMAIN Tail(queue), Tail(queue)[i].kind # "stopall"
      PROVE  Tail(queue)[i].r \in live
  <2>1. i + 1 \in DOMAIN queue /\ Tail(queue)[i] = queue[i + 1]
    BY <1>2, <1>3
  <2> QED
    BY <2>1, <1>4, <1>5
<1>6. 1 \in DOMAIN queue
  BY <1>3
<1>7. Item = queue[1]
  BY <1>2 DEF Item
<1>8. QueueOK'
  BY <1>2, <1>5 DEF QueueOK
<1> QED
  BY <1>1, <1>4, <1>6, <1>7, <1>8 DEF Item

LEMMA QueueMore ==
    ASSUME IInv, NEW a \in QueuedType, a.kind # "stopall" => a.r \in live,
           queue' = Append(queue, a), live' = live
    PROVE  QueueOK'
<1>1. queue \in Seq(QueuedType)
      /\ \A i \in DOMAIN queue : queue[i].kind # "stopall" => queue[i].r \in live
  BY DEF IInv, QueueOK
<1>2. /\ Append(queue, a) \in Seq(QueuedType)
      /\ Len(Append(queue, a)) = Len(queue) + 1
      /\ \A i \in 1 .. Len(queue) : Append(queue, a)[i] = queue[i]
      /\ Append(queue, a)[Len(queue) + 1] = a
  BY <1>1, AppendProperties
<1>3. Len(queue) \in Nat /\ DOMAIN queue = 1 .. Len(queue)
      /\ DOMAIN Append(queue, a) = 1 .. Len(queue) + 1
  BY <1>1, <1>2, LenProperties
<1>4. ASSUME NEW i \in DOMAIN Append(queue, a), Append(queue, a)[i].kind # "stopall"
      PROVE  Append(queue, a)[i].r \in live
  <2>1. CASE i = Len(queue) + 1
    BY <2>1, <1>2, <1>4
  <2>2. CASE i # Len(queue) + 1
    <3>1. i \in 1 .. Len(queue)
      BY <2>2, <1>3
    <3> QED
      BY <3>1, <1>1, <1>2, <1>3, <1>4
  <2> QED
    BY <2>1, <2>2
<1> QED
  BY <1>2, <1>4 DEF QueueOK

\* ProcessQueue in its loop: it is the only call.
LEMMA AtLoop ==
    ASSUME IInv, At("queue", "loop")
    PROVE  /\ stack # <<>> /\ Top \in FrameType /\ Top.op = "queue" /\ Top.pc = "loop"
           /\ stack = <<Top>> /\ stack = <<Top>> \o <<>> /\ stack \in Seq(FrameType)
           /\ Good(res, stack, live, started, syncOptions, requirements)
           /\ Good(res, <<>>, live, started, syncOptions, requirements)
           /\ Waiting(stack) /\ ~Waited(stack)
<1>1. stack # <<>> /\ Top.op = "queue" /\ Top.pc = "loop"
  BY DEF At
<1>2. /\ Top \in FrameType /\ Below = <<>> /\ stack = <<Top>> \o Below
      /\ Good(res, <<Top>> \o Below, live, started, syncOptions, requirements)
  BY <1>1, FromTop
<1>3. <<>> \in Seq(FrameType)
  BY NoFrames
<1>4. Good(res, <<>>, live, started, syncOptions, requirements)
  BY <1>1, <1>2, <1>3, PopGood
<1>5. <<Top>> \o <<>> = <<Top>>
  BY <1>2, ConcatEmptySeq
<1>6. Waiting(stack) /\ ~Waited(stack)
  BY <1>1 DEF IInv, Waited, Top
<1>7. stack \in Seq(FrameType)
  BY DEF IInv, Good, StackOK
<1> QED
  BY <1>1, <1>2, <1>4, <1>5, <1>6, <1>7 DEF IInv

\* With nothing on the stack but ProcessQueue, an active resource runs.
LEMMA AloneRuns ==
    ASSUME Good(res, <<>>, live, started, syncOptions, requirements),
           NEW x \in Resources, Active(x)
    PROVE  res[x].state = "Running"
<1>1. LockedBy(<<>>, "start") = {} /\ LockedBy(<<>>, "stop") = {}
  BY NoFrames DEF LockedBy
<1> QED
  BY <1>1 DEF Good, StackOK, Locks, Active

LEMMA DoStopKeeps == ASSUME IInv, DoStop PROVE IInv'
<1>1. At("queue", "loop") /\ queue # <<>> /\ Item.kind = "stop"
  BY DEF DoStop, AtItem
<1>2. /\ stack \in Seq(FrameType) /\ Waiting(stack) /\ ~Waited(stack)
      /\ Good(res, stack, live, started, syncOptions, requirements)
  BY <1>1, AtLoop
<1>3. queue' = Tail(queue) /\ live' = live /\ UNCHANGED maps
  BY DEF DoStop
<1>4. QueueOK' /\ Item \in QueuedType
  BY <1>1, <1>3, QueueRest
<1> PICK x \in Resources : x = Item.r
  BY <1>4 DEF QueuedType
<1>5. CASE Active(x)
  <2>1. PICK R : R = Released(x)
    OBVIOUS
  <2>2. Quiet(res, R, live) /\ \A y \in Resources : R[y].state = res[y].state
    <3>1. ResOK(res, live)
      BY DEF IInv, Good
    <3> QED
      BY <3>1, <2>1, ReleasedQuiet
  <2>3. Good(R, stack, live', started, syncOptions, requirements)
    BY <2>2, <1>2, <1>3, QuietGood
  <2>4. Fresh(res, StopFrame(res, x, TRUE))
    BY CallsFresh
  <2>5. PICK frames : frames = StopFrame(res, x, TRUE)
    OBVIOUS
  <2>6. Fresh(R, frames)
    BY <2>2, <2>4, <2>5, FreshSame
  <2>7. Call(R, frames, stack)
    BY <2>1, <2>5, <1>5 DEF DoStop
  <2> PICK s \in Seq(FrameType) : s = stack
    BY <1>2
  <2> QED
    BY <2>3, <2>6, <2>7, <1>2, <1>3, <1>4, CallStep
<1>6. CASE ~Active(x)
  <2>1. res' = res /\ stack' = stack
    BY <1>6 DEF DoStop
  <2>2. Good(res', stack', live', started', syncOptions', requirements')
    BY <2>1, <1>2, <1>3 DEF maps
  <2> QED
    BY <2>1, <2>2, <1>2, <1>4 DEF IInv, WaitedOK
<1> QED
  BY <1>5, <1>6

\* ProcessQueue stops a resource to start it again, and waits at c.
LEMMA StopToRestart ==
    ASSUME IInv, At("queue", "loop"), QueueOK', live' = live, UNCHANGED maps,
           NEW x \in Resources, Active(x),
           NEW R, Quiet(res, R, live), \A y \in Resources : R[y].state = res[y].state,
           NEW c \in FrameType, c.op = "queue", c.r = x,
           NEW frames, frames = StopFrame(res, x, TRUE), Call(R, frames, <<c>>)
    PROVE  IInv'
<1>1. Good(res, <<>>, live, started, syncOptions, requirements)
  BY AtLoop
<1>2. res[x].state = "Running"
  BY <1>1, AloneRuns
<1>3. Good(R, <<>>, live, started, syncOptions, requirements)
  BY <1>1, QuietGood
<1>4. ~Locked(c) /\ c.op \notin {"start", "stop"}
  BY DEF Locked
<1>5. <<>> \in Seq(FrameType)
  BY NoFrames
<1>6. <<c>> \o <<>> = <<c>> /\ <<c>> \in Seq(FrameType)
  BY ConcatEmptySeq
<1>7. Good(R, <<c>>, live, started, syncOptions, requirements)
  <2>1. Good(R, <<c>> \o <<>>, live, started, syncOptions, requirements)
    BY <1>3, <1>4, PushGood
  <2> QED
    BY <2>1, <1>6
<1>8. Waiting(<<c>>)
  <2>1. Waiting(<<>>) /\ ~Waited(<<>>)
    BY NoFrames DEF Waiting, Waited
  <2>2. Waiting(<<c>> \o <<>>)
    BY <2>1, <1>5, WaitingPush
  <2> QED
    BY <2>2, <1>6
<1>9. PICK a \in FrameType : /\ a = Frame("stop", x, "stopping")
                             /\ a.op = "stop" /\ a.r = x
  <2>1. "stop" \in Ops /\ "stopping" \in Pcs
    BY DEF Ops, Pcs, EventPcs
  <2> QED
    BY <2>1, FrameIsFrame
<1>10. frames = <<a>>
  BY <1>2, <1>9 DEF StopFrame
<1>11. Fresh(R, frames)
  BY <1>2, <1>9, <1>10 DEF Fresh
<1>12. Good(Entered(R, frames), frames \o <<c>>, live, started, syncOptions, requirements)
  BY <1>7, <1>11, CallGood
<1>13. Head(<<c>>) = c
  OBVIOUS
<1>14. Waiting(<<a>> \o <<c>>)
  BY <1>6, <1>8, <1>9, <1>13, WaitingPush
<1>15. ~Waited(<<a>> \o <<c>>)
  <2>1. Head(<<a>> \o <<c>>) = a
    BY <1>6, PushFrame
  <2> QED
    BY <2>1, <1>9 DEF Waited
<1>16. res' = Entered(R, frames) /\ stack' = <<a>> \o <<c>>
  BY <1>10 DEF Call
<1>17. Good(res', stack', live', started', syncOptions', requirements')
  BY <1>10, <1>12, <1>16 DEF maps
<1> QED
  BY <1>14, <1>15, <1>16, <1>17 DEF IInv, WaitedOK

LEMMA DoRestartKeeps == ASSUME IInv, DoRestart PROVE IInv'
<1>1. At("queue", "loop") /\ queue # <<>> /\ Item.kind = "restart"
  BY DEF DoRestart, AtItem
<1>2. /\ stack \in Seq(FrameType) /\ Waiting(stack) /\ ~Waited(stack)
      /\ Good(res, stack, live, started, syncOptions, requirements)
      /\ Top \in FrameType /\ Top.op = "queue"
  BY <1>1, AtLoop
<1>3. queue' = Tail(queue) /\ live' = live /\ UNCHANGED maps
  BY DEF DoRestart
<1>4. QueueOK' /\ Item \in QueuedType
  BY <1>1, <1>3, QueueRest
<1> PICK x \in Resources : x = Item.r
  BY <1>4 DEF QueuedType
<1>5. CASE Active(x)
  <2>0. ResOK(res, live)
    BY DEF IInv, Good
  <2>1. PICK R : R = Released(x)
    OBVIOUS
  <2>2. Quiet(res, R, live) /\ \A y \in Resources : R[y].state = res[y].state
    BY <2>0, <2>1, ReleasedQuiet
  <2> PICK D \in SUBSET Resources : D = res[x].deps
    BY <2>0 DEF ResOK, Resource
  <2>3. PICK c \in FrameType : /\ c = [Top EXCEPT !.pc = "restart", !.r = x, !.deps = D]
                               /\ c.op = "queue" /\ c.r = x
    <3>1. "restart" \in Pcs
      BY DEF Pcs
    <3>2. /\ [Top EXCEPT !.pc = "restart", !.r = x, !.deps = D] \in FrameType
          /\ [Top EXCEPT !.pc = "restart", !.r = x, !.deps = D].op = Top.op
          /\ [Top EXCEPT !.pc = "restart", !.r = x, !.deps = D].r = x
      BY <3>1, <1>2 DEF FrameType
    <3> QED
      BY <3>2, <1>2
  <2>4. PICK frames : frames = StopFrame(res, x, TRUE)
    OBVIOUS
  <2>5. Call(R, frames, <<c>>)
    BY <2>1, <2>3, <2>4, <1>5 DEF DoRestart
  <2> QED
    BY <2>2, <2>3, <2>4, <2>5, <1>1, <1>3, <1>4, <1>5, StopToRestart
<1>6. CASE ~Active(x)
  <2>1. res' = res /\ stack' = stack
    BY <1>6 DEF DoRestart
  <2>2. Good(res', stack', live', started', syncOptions', requirements')
    BY <2>1, <1>2, <1>3 DEF maps
  <2> QED
    BY <2>1, <2>2, <1>2, <1>4 DEF IInv, WaitedOK
<1> QED
  BY <1>5, <1>6

LEMMA RestartStoppedKeeps == ASSUME IInv, RestartStopped PROVE IInv'
<1>1. stack # <<>> /\ Top.op = "queue" /\ Top.pc = "restart"
  BY DEF RestartStopped, At
<1>2. /\ Top \in FrameType /\ Below \in Seq(FrameType)
      /\ Good(res, <<Top>> \o Below, live, started, syncOptions, requirements)
      /\ res[Top.r].state = "Loaded"
  BY <1>1, FromTop
<1>3. Top.r \in live /\ Top.r \in Resources /\ Top.deps \in SUBSET Resources
  BY <1>2 DEF Good, ResOK, FrameType
<1>4. PICK c \in FrameType : /\ c.op = Top.op /\ c.r = Top.r /\ c.pc = "loop"
                             /\ Goto("loop") = <<c>> \o Below
  <2>1. "loop" \in Pcs
    BY DEF Pcs
  <2> QED
    BY <2>1, <1>1, GotoIs
<1> PICK r \in Resources, D \in SUBSET Resources : r = Top.r /\ D = Top.deps
  BY <1>3
<1>5. PICK a \in QueuedType : a = [r |-> r, kind |-> "restart2", deps |-> D] /\ a.r = r
  <2>1. "restart2" \in Kinds
    BY DEF Kinds
  <2>2. [r |-> r, kind |-> "restart2", deps |-> D] \in QueuedType
    BY <2>1 DEF QueuedType
  <2> QED
    BY <2>2
<1>6. queue' = Append(queue, a) /\ live' = live /\ res' = res /\ UNCHANGED maps
      /\ stack' = <<c>> \o Below
  BY <1>4, <1>5 DEF RestartStopped
<1>7. a.r \in live
  BY <1>3, <1>5
<1>8. QueueOK'
  BY <1>6, <1>7, QueueMore
<1>9. Top.op \notin {"start", "stop"}
  BY <1>1
<1>10. Good(res, <<c>> \o Below, live, started, syncOptions, requirements)
  BY <1>2, <1>4, <1>9, GoOn
<1>11. Good(res', <<c>> \o Below, live', started', syncOptions', requirements')
  BY <1>6, <1>10 DEF maps
<1>12. ~(c.op = "queue" /\ c.pc \in {"restart", "reload"})
  BY <1>4
<1> QED
  BY <1>1, <1>4, <1>6, <1>8, <1>11, <1>12, KeepStep

LEMMA DoRestart2Keeps == ASSUME IInv, DoRestart2 PROVE IInv'
<1>1. At("queue", "loop") /\ queue # <<>> /\ Item.kind = "restart2"
  BY DEF DoRestart2, AtItem
<1>2. /\ stack \in Seq(FrameType) /\ Waiting(stack) /\ ~Waited(stack)
      /\ Good(res, stack, live, started, syncOptions, requirements)
      /\ Top \in FrameType /\ Top.op = "queue"
  BY <1>1, AtLoop
<1>3. queue' = Tail(queue) /\ live' = live /\ UNCHANGED maps
  BY DEF DoRestart2
<1>4. QueueOK' /\ Item \in QueuedType /\ Item.r \in live
  BY <1>1, <1>3, QueueRest
<1>0. ResOK(res, live)
  BY DEF IInv, Good
<1> PICK x \in Resources, D \in SUBSET Resources :
      x = Item.r /\ x \in live /\ D = Item.deps \cap live
  BY <1>4 DEF QueuedType
<1> PICK s \in Seq(FrameType) : s = stack
  BY <1>2
<1>5. CASE UNCHANGED <<res, stack>>
  <2>1. Good(res', stack', live', started', syncOptions', requirements')
    BY <1>2, <1>3, <1>5 DEF maps
  <2> QED
    BY <2>1, <1>2, <1>4, <1>5 DEF IInv, WaitedOK
<1>6. CASE ~Active(x) /\ StartResource(x, D, TRUE, s)
  BY <1>2, <1>3, <1>4, <1>6, StartResourceStep
<1>7. CASE /\ Active(x)
           /\ Call(res, StopFrame(res, x, TRUE), <<[Top EXCEPT !.pc = "reload", !.r = x]>>)
  <2>1. PICK c \in FrameType : /\ c = [Top EXCEPT !.pc = "reload", !.r = x]
                               /\ c.op = "queue" /\ c.r = x
    <3>1. "reload" \in Pcs
      BY DEF Pcs
    <3>2. /\ [Top EXCEPT !.pc = "reload", !.r = x] \in FrameType
          /\ [Top EXCEPT !.pc = "reload", !.r = x].op = Top.op
          /\ [Top EXCEPT !.pc = "reload", !.r = x].r = x
      BY <3>1, <1>2 DEF FrameType
    <3> QED
      BY <3>2, <1>2
  <2>2. PICK frames : frames = StopFrame(res, x, TRUE)
    OBVIOUS
  <2>3. Call(res, frames, <<c>>)
    BY <2>1, <2>2, <1>7
  <2>4. PICK R : R = res
    OBVIOUS
  <2>5. Quiet(res, R, live)
    <3>1. /\ R \in [Resources -> Resource]
          /\ \A y \in live : R[y].temps \subseteq live
      BY <2>4, <1>0 DEF ResOK
    <3> QED
      BY <3>1, <2>4, <1>0, SameQuiet
  <2>6. Call(R, frames, <<c>>) /\ \A y \in Resources : R[y].state = res[y].state
    BY <2>3, <2>4
  <2> QED
    BY <2>1, <2>2, <2>5, <2>6, <1>1, <1>3, <1>4, <1>7, StopToRestart
<1> QED
  BY <1>5, <1>6, <1>7 DEF DoRestart2

LEMMA Restart2StoppedKeeps == ASSUME IInv, Restart2Stopped PROVE IInv'
<1>1. stack # <<>> /\ Top.op = "queue" /\ Top.pc = "reload"
  BY DEF Restart2Stopped, At
<1>2. /\ Top \in FrameType /\ Below \in Seq(FrameType)
      /\ Good(res, <<Top>> \o Below, live, started, syncOptions, requirements)
      /\ res[Top.r].state = "Loaded"
  BY <1>1, FromTop
<1> PICK x \in Resources : x = Top.r
  BY <1>2 DEF FrameType
<1>3. x \in live /\ ~Active(x)
  BY <1>2 DEF Good, ResOK, Active
<1>4. PICK c \in FrameType : /\ c.op = Top.op /\ c.r = Top.r /\ c.pc = "loop"
                             /\ Goto("loop") = <<c>> \o Below
  <2>1. "loop" \in Pcs
    BY DEF Pcs
  <2> QED
    BY <2>1, <1>1, GotoIs
<1>5. UNCHANGED <<queue, live>> /\ UNCHANGED maps
  BY DEF Restart2Stopped, outside
<1>6. QueueOK'
  BY <1>5, QueueKept
<1>7. Top.op \notin {"start", "stop"}
  BY <1>1
<1>8. Good(res, <<c>> \o Below, live, started, syncOptions, requirements)
  BY <1>2, <1>4, <1>7, GoOn
<1>9. ~(c.op = "queue" /\ c.pc \in {"restart", "reload"})
  BY <1>4
<1>10. Waiting(<<c>> \o Below) /\ ~Waited(<<c>> \o Below)
  BY <1>1, <1>4, <1>9, WaitingKeep
<1>11. <<c>> \o Below \in Seq(FrameType)
  BY <1>2, PushFrame
<1> PICK s \in Seq(FrameType) : s = <<c>> \o Below
  BY <1>11
<1>12. StartResource(x, {}, TRUE, s)
  BY <1>4 DEF Restart2Stopped
<1>13. {} \in SUBSET Resources
  OBVIOUS
<1> QED
  BY <1>3, <1>5, <1>6, <1>8, <1>10, <1>12, <1>13, StartResourceStep

\* A frame is pushed that locks nothing and waits for nothing.
LEMMA PushStep ==
    ASSUME IInv, QueueOK', UNCHANGED <<res, live>>, UNCHANGED maps, ~Waited(stack),
           NEW a \in FrameType, a.op \in {"lua", "stopall"}, stack' = <<a>> \o stack
    PROVE  IInv'
<1>1. /\ stack \in Seq(FrameType) /\ Waiting(stack)
      /\ Good(res, stack, live, started, syncOptions, requirements)
  BY DEF IInv, Good, StackOK
<1>2. ~Locked(a) /\ a.op \notin {"start", "stop"} /\ a.op # "queue"
  BY DEF Locked
<1>3. Good(res, <<a>> \o stack, live, started, syncOptions, requirements)
  BY <1>1, <1>2, PushGood
<1>4. Good(res', stack', live', started', syncOptions', requirements')
  BY <1>3 DEF maps
<1>5. Waiting(<<a>> \o stack) /\ ~Waited(<<a>> \o stack)
  BY <1>1, <1>2, WaitingCall
<1> QED
  BY <1>4, <1>5 DEF IInv, WaitedOK

LEMMA DoStopAllKeeps == ASSUME IInv, DoStopAll PROVE IInv'
<1>1. At("queue", "loop") /\ queue # <<>>
  BY DEF DoStopAll, AtItem
<1>2. ~Waited(stack)
  BY <1>1, AtLoop
<1>3. queue' = Tail(queue) /\ UNCHANGED <<res, live>> /\ UNCHANGED maps
  BY DEF DoStopAll
<1>4. QueueOK'
  BY <1>1, <1>3, QueueRest
<1>5. Order \in Seq(Resources) /\ Order[1] \in Resources
  <2>1. Order \in Seq(Resources) /\ Order # <<>>
    BY ResourcesType
  <2> QED
    BY <2>1
<1>6. PICK b \in FrameType : b = Frame("stopall", Order[1], "loop") /\ b.op = "stopall"
  <2>1. "stopall" \in Ops /\ "loop" \in Pcs
    BY DEF Ops, Pcs
  <2> QED
    BY <2>1, <1>5, FrameIsFrame
<1>7. PICK a \in FrameType : a = [b EXCEPT !.left = Order] /\ a.op = "stopall"
  <2>1. [b EXCEPT !.left = Order] \in FrameType /\ [b EXCEPT !.left = Order].op = b.op
    BY <1>5 DEF FrameType
  <2> QED
    BY <2>1, <1>6
<1>8. stack' = <<a>> \o stack
  BY <1>6, <1>7 DEF DoStopAll
<1> QED
  BY <1>2, <1>3, <1>4, <1>7, <1>8, PushStep

LEMMA StopAllNextKeeps == ASSUME IInv, StopAllNext PROVE IInv'
<1>1. stack # <<>> /\ Top.op = "stopall" /\ Top.pc = "loop" /\ Top.left # <<>>
  BY DEF StopAllNext, At
<1>2. /\ Top \in FrameType /\ Below \in Seq(FrameType)
      /\ Good(res, <<Top>> \o Below, live, started, syncOptions, requirements)
  BY <1>1, FromTop
<1>3. Top.left \in Seq(Resources)
  BY <1>2 DEF FrameType
<1> PICK x \in Resources, rest \in Seq(Resources) :
      x = Head(Top.left) /\ rest = Tail(Top.left)
  BY <1>1, <1>3, ToSetHeadTail
<1>4. PICK c \in FrameType : /\ c.op = Top.op /\ c.r = Top.r /\ c.pc = "loop"
                             /\ c.left = rest
                             /\ GotoWith("loop", rest) = <<c>> \o Below
  <2>1. stack # <<>> /\ "loop" \in Pcs
    BY <1>1 DEF Pcs
  <2> QED
    BY <2>1, GotoWithIs
<1>5. UNCHANGED <<queue, live>> /\ UNCHANGED maps
  BY DEF StopAllNext, outside
<1>6. QueueOK'
  BY <1>5, QueueKept
<1>7. Top.op \notin {"start", "stop"}
  BY <1>1
<1>8. Good(res, <<c>> \o Below, live, started, syncOptions, requirements)
  BY <1>2, <1>4, <1>7, GoOn
<1>9. ~(c.op = "queue" /\ c.pc \in {"restart", "reload"})
  BY <1>1, <1>4
<1>10. Waiting(<<c>> \o Below) /\ ~Waited(<<c>> \o Below)
  BY <1>1, <1>4, <1>9, WaitingKeep
<1>11. <<c>> \o Below \in Seq(FrameType)
  BY <1>2, PushFrame
<1> PICK s \in Seq(FrameType) : s = <<c>> \o Below
  BY <1>11
<1>12. CASE Call(Released(x), StopFrame(res, x, TRUE), s)
  <2>0. ResOK(res, live)
    BY DEF IInv, Good
  <2>1. PICK R : R = Released(x)
    OBVIOUS
  <2>2. Quiet(res, R, live) /\ \A y \in Resources : R[y].state = res[y].state
    BY <2>0, <2>1, ReleasedQuiet
  <2>3. Good(R, s, live', started, syncOptions, requirements)
    BY <2>2, <1>5, <1>8, QuietGood
  <2>4. PICK frames : frames = StopFrame(res, x, TRUE)
    OBVIOUS
  <2>5. Fresh(res, frames)
    BY <2>4, CallsFresh
  <2>6. Fresh(R, frames)
    BY <2>2, <2>5, FreshSame
  <2>7. Call(R, frames, s)
    BY <2>1, <2>4, <1>12
  <2> QED
    BY <2>3, <2>6, <2>7, <1>5, <1>6, <1>10, CallStep
<1>13. CASE res' = res /\ stack' = s
  <2>1. Good(res', s, live', started', syncOptions', requirements')
    BY <1>5, <1>8, <1>13 DEF maps
  <2> QED
    BY <2>1, <1>6, <1>10, <1>13 DEF IInv, WaitedOK
<1> QED
  BY <1>4, <1>12, <1>13 DEF StopAllNext

LEMMA LoopDoneKeeps == ASSUME IInv, LoopDone PROVE IInv'
<1>1. stack # <<>> /\ Top.op \in {"stopall", "queue"} /\ Top.op # "stop"
  BY DEF LoopDone, At
<1>2. /\ Top \in FrameType /\ Below \in Seq(FrameType)
      /\ Good(res, <<Top>> \o Below, live, started, syncOptions, requirements)
  BY <1>1, FromTop
<1>3. Top.op \notin {"start", "stop"}
  BY <1>1
<1>4. Good(res, Below, live, started, syncOptions, requirements)
  BY <1>2, <1>3, PopGood
<1>5. UNCHANGED <<res, queue, live>> /\ UNCHANGED maps /\ stack' = Below
  BY DEF LoopDone, outside, Below
<1>6. QueueOK'
  BY <1>5, QueueKept
<1>7. Good(res', Below, live', started', syncOptions', requirements')
  BY <1>4, <1>5 DEF maps
<1> QED
  BY <1>1, <1>5, <1>6, <1>7, PopStep

LEMMA ProcessQueueKeeps == ASSUME IInv, ProcessQueue PROVE IInv'
<1>1. stack = <<>>
  BY DEF ProcessQueue
<1>2. Order[1] \in Resources
  <2>1. Order \in Seq(Resources) /\ Order # <<>>
    BY ResourcesType
  <2> QED
    BY <2>1
<1>3. PICK a \in FrameType : /\ a = Frame("queue", Order[1], "loop")
                             /\ a.op = "queue" /\ a.pc = "loop"
  <2>1. "queue" \in Ops /\ "loop" \in Pcs
    BY DEF Ops, Pcs
  <2> QED
    BY <2>1, <1>2, FrameIsFrame
<1>4. stack' = <<a>> /\ UNCHANGED <<res, queue, live>> /\ UNCHANGED maps
  BY <1>3 DEF ProcessQueue, outside
<1>5. /\ stack \in Seq(FrameType) /\ Waiting(stack) /\ ~Waited(stack)
      /\ Good(res, stack, live, started, syncOptions, requirements)
  BY <1>1 DEF IInv, Good, StackOK, Waited
<1>6. ~Locked(a) /\ a.op \notin {"start", "stop"}
  BY <1>3 DEF Locked
<1>7. Good(res, <<a>> \o stack, live, started, syncOptions, requirements)
  BY <1>5, <1>6, PushGood
<1>8. Waiting(<<a>> \o stack)
  BY <1>1, <1>5, WaitingPush
<1>9. <<a>> \o stack = <<a>> /\ Head(<<a>>) = a
  <2>1. <<a>> \in Seq(FrameType)
    OBVIOUS
  <2> QED
    BY <2>1, <1>1, ConcatEmptySeq
<1>10. Good(res', stack', live', started', syncOptions', requirements')
  BY <1>4, <1>7, <1>9 DEF maps
<1>11. Waiting(stack') /\ ~Waited(stack')
  BY <1>3, <1>4, <1>8, <1>9 DEF Waited
<1>12. QueueOK'
  BY <1>4, QueueKept
<1> QED
  BY <1>10, <1>11, <1>12 DEF IInv, WaitedOK

\* Outside Start and Stop, and in their events, nothing waits.
LEMMA InEventWaits == ASSUME IInv, InEvent PROVE ~Waited(stack)
  BY DEF InEvent, EventPcs, Waited, Top

\* A step that changes the resources quietly and leaves the stack.
LEMMA StayStep ==
    ASSUME IInv, QueueOK', UNCHANGED maps, stack' = stack, ~Waited(stack),
           Quiet(res, res', live')
    PROVE  IInv'
<1>1. Good(res', stack, live', started, syncOptions, requirements)
  BY QuietGood DEF IInv
<1>2. Good(res', stack', live', started', syncOptions', requirements')
  BY <1>1 DEF maps
<1> QED
  BY <1>2 DEF IInv, WaitedOK

LEMMA StillQuiet == ASSUME IInv PROVE Quiet(res, res, live)
<1>1. ResOK(res, live)
  BY DEF IInv, Good
<1>2. /\ res \in [Resources -> Resource]
      /\ \A y \in live : res[y].temps \subseteq live
  BY <1>1 DEF ResOK
<1> QED
  BY <1>1, <1>2, SameQuiet

LEMMA DeferKeeps ==
    ASSUME IInv, InEvent, UNCHANGED maps, NEW v \in Resources, Defer(v)
    PROVE  IInv'
<1>1. ResOK(res, live)
  BY DEF IInv, Good
<1>2. UNCHANGED <<queue, live>> /\ stack' = stack
  BY DEF Defer
<1>3. res[v].deferred \in SUBSET {"now", "earlier"} /\ res \in [Resources -> Resource]
  BY <1>1 DEF ResOK, Resource
<1> PICK D \in SUBSET {"now", "earlier"} : D = res[v].deferred \cup {"now"}
  BY <1>3
<1>4. res' = [res EXCEPT ![v].deferred = D]
  BY <1>3 DEF Defer
<1>5. /\ res' \in [Resources -> Resource]
      /\ \A y \in Resources :
           /\ res'[y].state = res[y].state /\ res'[y].vm = res[y].vm
           /\ res'[y].links = res[y].links /\ res'[y].deps = res[y].deps
           /\ res'[y].temps = res[y].temps
  BY <1>3, <1>4 DEF Resource
<1>6. \A y \in live : res'[y].temps \subseteq live
  <2> SUFFICES ASSUME NEW y \in live PROVE res'[y].temps \subseteq live
    OBVIOUS
  <2>1. res[y].temps \subseteq live /\ y \in Resources
    BY <1>1 DEF ResOK
  <2> QED
    BY <2>1, <1>5
<1>7. \A y \in Resources : \A q \in res[y].deps :
        res[q].state \in {"Starting", "Running"} => q \in res'[y].deps
  BY <1>5
<1>8. Quiet(res, res', live)
  BY <1>1, <1>5, <1>6, <1>7, SameQuiet
<1>9. Quiet(res, res', live')
  BY <1>2, <1>8
<1>10. QueueOK'
  BY <1>2, QueueKept
<1>11. ~Waited(stack)
  BY InEventWaits
<1> QED
  BY <1>2, <1>9, <1>10, <1>11, StayStep

LEMMA LuaStartKeeps ==
    ASSUME IInv, InEvent, UNCHANGED maps, NEW v \in Resources, NEW x \in live,
           NEW m \in BOOLEAN, LuaStart(v, x, m)
    PROVE  IInv'
<1>0. x \in Resources
  BY DEF IInv, Good, ResOK
<1>1. ~Active(x) /\ UNCHANGED <<queue, live>>
  BY DEF LuaStart
<1>2. QueueOK'
  BY <1>1, QueueKept
<1>3. PICK b \in FrameType : b = Frame("lua", x, "called") /\ b.op = "lua"
  <2>1. "lua" \in Ops /\ "called" \in Pcs
    BY DEF Ops, Pcs
  <2> QED
    BY <2>1, <1>0, FrameIsFrame
<1>4. PICK a \in FrameType : a = [b EXCEPT !.by = v, !.manual = m] /\ a.op = "lua"
  <2>1. /\ [b EXCEPT !.by = v, !.manual = m] \in FrameType
        /\ [b EXCEPT !.by = v, !.manual = m].op = b.op
    BY DEF FrameType
  <2> QED
    BY <2>1, <1>3
<1>5. /\ stack \in Seq(FrameType) /\ Waiting(stack)
      /\ Good(res, stack, live, started, syncOptions, requirements)
  BY DEF IInv, Good, StackOK
<1>6. ~Waited(stack)
  BY InEventWaits
<1>7. ~Locked(a) /\ a.op \notin {"start", "stop"} /\ a.op # "queue"
  BY <1>4 DEF Locked
<1>8. Good(res, <<a>> \o stack, live, started, syncOptions, requirements)
  BY <1>5, <1>7, PushGood
<1>9. Waiting(<<a>> \o stack) /\ ~Waited(<<a>> \o stack)
  BY <1>5, <1>6, <1>7, WaitingCall
<1>10. <<a>> \o stack \in Seq(FrameType)
  BY <1>5, PushFrame
<1> PICK s \in Seq(FrameType) : s = <<a>> \o stack
  BY <1>10
<1>11. StartResource(x, {}, m, s)
  BY <1>3, <1>4 DEF LuaStart
<1>12. {} \in SUBSET Resources
  OBVIOUS
<1> QED
  BY <1>1, <1>2, <1>8, <1>9, <1>11, <1>12, StartResourceStep

LEMMA QueueResourceKeeps ==
    ASSUME IInv, UNCHANGED maps, ~Waited(stack), NEW x \in live,
           NEW kind \in {"stop", "restart"}, QueueResource(x, kind)
    PROVE  IInv'
<1>0. x \in Resources
  BY DEF IInv, Good, ResOK
<1>1. PICK a \in QueuedType : a = Queued(x, kind) /\ a.r = x
  <2>1. kind \in Kinds
    BY DEF Kinds
  <2>2. Queued(x, kind) \in QueuedType
    BY <2>1, <1>0 DEF QueuedType, Queued
  <2> QED
    BY <2>2 DEF Queued
<1>2. queue' = Append(queue, a) /\ res' = res /\ live' = live /\ stack' = stack
  BY <1>1 DEF QueueResource
<1>3. a.r \in live
  BY <1>1
<1>4. QueueOK'
  BY <1>2, <1>3, QueueMore
<1>5. Quiet(res, res', live')
  BY <1>2, StillQuiet
<1> QED
  BY <1>2, <1>4, <1>5, StayStep

\* The deletion of a resource, and what it forgets.
Deleted(x) == [Invalidated(res, x, Resources \ {x}) EXCEPT
                 ![x].state = "None", ![x].links = {}, ![x].deps = {}, ![x].temps = {}]

LEMMA DeleteQuiet ==
    ASSUME ResOK(res, live), NEW x \in live, ~Active(x),
           NEW Q, Q = Deleted(x)
    PROVE  Quiet(res, Q, live \ {x})
<1> DEFINE S == Resources \ {x}
           I == Invalidated(res, x, S)
<1>1. res \in [Resources -> Resource] /\ live \subseteq Resources /\ x \in Resources
  BY DEF ResOK
<1>2. S \in SUBSET Resources
  OBVIOUS
<1>3. /\ I \in [Resources -> Resource]
      /\ \A r \in Resources :
           /\ I[r].state = res[r].state /\ I[r].vm = res[r].vm
           /\ I[r].links \subseteq res[r].links /\ I[r].temps \subseteq res[r].temps
           /\ res[r].deps \ {x} \subseteq I[r].deps
           /\ r \in S => x \notin I[r].links /\ x \notin I[r].temps
  <2> HIDE DEF S
  <2> QED
    BY <1>1, <1>2, InvalidatedIs
<1> PICK state \in {"None"} : TRUE
  OBVIOUS
<1>4. Q = [I EXCEPT ![x].state = state, ![x].links = {}, ![x].deps = {}, ![x].temps = {}]
  BY DEF Deleted
<1>s. \A r \in Resources : r \in S <=> r # x
  OBVIOUS
<1> HIDE DEF I, S
<1>5. /\ Q \in [Resources -> Resource]
      /\ \A r \in Resources \ {x} : Q[r] = I[r]
      /\ Q[x].state = "None" /\ Q[x].vm = I[x].vm
      /\ Q[x].links = {} /\ Q[x].temps = {}
  <2> PICK y : y = [I[x] EXCEPT !.state = state, !.links = {}, !.deps = {}, !.temps = {}]
    OBVIOUS
  <2>1. Q = [I EXCEPT ![x] = y]
    BY <1>1, <1>3, <1>4
  <2>2. I[x] \in Resource /\ state \in States
    BY <1>1, <1>3 DEF States
  <2>3. y \in Resource /\ y.state = state /\ y.vm = I[x].vm /\ y.links = {} /\ y.temps = {}
    BY <2>2 DEF Resource
  <2>4. Q \in [Resources -> Resource] /\ Q[x] = y /\ \A r \in Resources \ {x} : Q[r] = I[r]
    BY <2>1, <2>3, <1>1, <1>3
  <2> QED
    BY <2>3, <2>4
<1>6. res[x].state \in {"None", "Loaded"}
  BY <1>1 DEF Active, Resource, States
<1>7. Keeps(res, Q)
  <2> SUFFICES ASSUME NEW r \in Resources, res[r].state \in {"Starting", "Running"}
               PROVE  /\ Q[r].links \subseteq res[r].links
                      /\ \A i \in Q[r].links : r \in res[i].deps => r \in Q[i].deps
    BY DEF Keeps
  <2>1. r # x
    BY <1>6
  <2>2. /\ Q[r].links \subseteq res[r].links /\ Q[r].links \subseteq Resources
        /\ x \notin Q[r].links
    BY <2>1, <1>1, <1>3, <1>5, <1>s DEF Resource
  <2>3. \A i \in Resources \ {x} : res[i].deps \ {x} \subseteq Q[i].deps
    BY <1>3, <1>5
  <2> QED
    BY <2>1, <2>2, <2>3
<1>8. \A r \in live \ {x} : Q[r].links \cup Q[r].temps \subseteq live \ {x}
  <2> SUFFICES ASSUME NEW r \in live \ {x}
               PROVE  Q[r].links \cup Q[r].temps \subseteq live \ {x}
    OBVIOUS
  <2>1. res[r].links \subseteq live /\ res[r].temps \subseteq live
    BY DEF ResOK
  <2>2. /\ Q[r].links \subseteq res[r].links /\ Q[r].temps \subseteq res[r].temps
        /\ x \notin Q[r].links /\ x \notin Q[r].temps
    BY <1>1, <1>3, <1>5, <1>s
  <2> QED
    BY <2>1, <2>2
<1>9. \A r \in Resources :
        /\ Q[r].vm = res[r].vm /\ Q[r].links \subseteq Included(r)
        /\ \/ Q[r].state = res[r].state
           \/ Q[r].state \in {"None", "Loaded"} /\ res[r].state \in {"None", "Loaded"}
  <2> SUFFICES ASSUME NEW r \in Resources
               PROVE  /\ Q[r].vm = res[r].vm /\ Q[r].links \subseteq Included(r)
                      /\ \/ Q[r].state = res[r].state
                         \/ /\ Q[r].state \in {"None", "Loaded"}
                            /\ res[r].state \in {"None", "Loaded"}
    OBVIOUS
  <2>1. res[r].links \subseteq Included(r)
    BY DEF ResOK
  <2>2. CASE r = x
    BY <2>2, <1>3, <1>5, <1>6
  <2>3. CASE r # x
    <3>1. Q[r] = I[r]
      BY <2>3, <1>5
    <3>2. I[r].state = res[r].state /\ I[r].vm = res[r].vm /\ I[r].links \subseteq res[r].links
      BY <1>3
    <3> QED
      BY <3>1, <3>2, <2>1
  <2> QED
    BY <2>2, <2>3
<1>10. \A r \in Resources \ (live \ {x}) : Q[r].state = "None"
  <2> SUFFICES ASSUME NEW r \in Resources \ (live \ {x}) PROVE Q[r].state = "None"
    OBVIOUS
  <2>1. CASE r = x
    BY <2>1, <1>5
  <2>2. CASE r # x
    <3>1. Q[r] = I[r] /\ I[r].state = res[r].state
      BY <2>2, <1>3, <1>5
    <3>2. res[r].state = "None"
      BY <2>2 DEF ResOK
    <3> QED
      BY <3>1, <3>2
  <2> QED
    BY <2>1, <2>2
<1>11. live \ {x} \subseteq Resources
  BY <1>1
<1> QED
  BY <1>5, <1>7, <1>8, <1>9, <1>10, <1>11 DEF Quiet

LEMMA DeleteKeeps ==
    ASSUME IInv, InEvent, UNCHANGED maps, NEW x \in live, Delete(x)
    PROVE  IInv'
<1>1. ~Active(x) /\ stack' = stack /\ live' = live \ {x}
  BY DEF Delete
<1>2. ResOK(res, live)
  BY DEF IInv, Good
<1>3. Quiet(res, res', live')
  <2>1. Quiet(res, res', live \ {x})
    BY <1>1, <1>2, DeleteQuiet DEF Delete, Deleted
  <2> QED
    BY <2>1, <1>1
<1> DEFINE I == {i \in DOMAIN queue : queue[i].r # x}
           new == Subsequence(queue, I)
<1>4. /\ queue \in Seq(QueuedType)
      /\ \A i \in DOMAIN queue : queue[i].kind # "stopall" => queue[i].r \in live
  BY DEF IInv, QueueOK
<1>5. DOMAIN queue = 1 .. Len(queue) /\ I \subseteq 1 .. Len(queue)
  BY <1>4, LenProperties
<1>i. \A i \in I : i \in DOMAIN queue /\ queue[i].r # x
  OBVIOUS
<1>6. queue' = new
  BY DEF Delete
<1> HIDE DEF I, new
<1>7. /\ new \in Seq(QueuedType)
      /\ \A n \in DOMAIN new : \E i \in I : new[n] = queue[i]
  <2> PICK s \in Seq(QueuedType) : s = queue
    BY <1>4
  <2> PICK J : J = I
    OBVIOUS
  <2>1. J \subseteq 1 .. Len(s)
    BY <1>5
  <2>2. Subsequence(s, J) \in Seq(QueuedType) /\ IsPicked(s, J, Subsequence(s, J))
    BY <2>1, SubsequenceProperties
  <2>3. new = Subsequence(s, J)
    BY DEF new
  <2>4. DOMAIN new = 1 .. Cardinality(J)
    BY <2>2, <2>3, LenProperties DEF IsPicked
  <2> QED
    BY <2>2, <2>3, <2>4 DEF IsPicked
<1>8. ASSUME NEW n \in DOMAIN new, new[n].kind # "stopall" PROVE new[n].r \in live \ {x}
  <2>1. \E i \in I : new[n] = queue[i]
    BY <1>7
  <2> QED
    BY <2>1, <1>4, <1>8, <1>i
<1>9. QueueOK'
  BY <1>1, <1>6, <1>7, <1>8 DEF QueueOK
<1>10. ~Waited(stack)
  BY InEventWaits
<1> QED
  BY <1>1, <1>3, <1>9, <1>10, StayStep

LEMMA ScriptCallKeeps == ASSUME IInv, ScriptCall PROVE IInv'
<1>1. InEvent /\ UNCHANGED maps
  BY DEF ScriptCall
<1>2. ~Waited(stack)
  BY <1>1, InEventWaits
<1>3. PICK v \in Resources :
        \/ Defer(v)
        \/ \E x \in live :
             \/ LuaStart(v, x, FALSE) \/ LuaStart(v, x, TRUE)
             \/ QueueResource(x, "stop") \/ QueueResource(x, "restart") \/ Delete(x)
  BY DEF ScriptCall
<1>4. CASE Defer(v)
  BY <1>1, <1>4, DeferKeeps
<1>5. ASSUME NEW x \in live, LuaStart(v, x, FALSE) PROVE IInv'
  BY <1>1, <1>5, LuaStartKeeps
<1>6. ASSUME NEW x \in live, LuaStart(v, x, TRUE) PROVE IInv'
  BY <1>1, <1>6, LuaStartKeeps
<1>7. ASSUME NEW x \in live, QueueResource(x, "stop") PROVE IInv'
  BY <1>1, <1>2, <1>7, QueueResourceKeeps
<1>8. ASSUME NEW x \in live, QueueResource(x, "restart") PROVE IInv'
  BY <1>1, <1>2, <1>8, QueueResourceKeeps
<1>9. ASSUME NEW x \in live, Delete(x) PROVE IInv'
  BY <1>1, <1>9, DeleteKeeps
<1> QED
  BY <1>3, <1>4, <1>5, <1>6, <1>7, <1>8, <1>9

LEMMA ConsoleCallKeeps == ASSUME IInv, ConsoleCall PROVE IInv'
<1>1. stack = <<>> /\ UNCHANGED maps
  BY DEF ConsoleCall
<1>2. ~Waited(stack)
  BY <1>1 DEF Waited
<1>3. ASSUME NEW x \in live, res[x].state = "Loaded", StartResource(x, {}, TRUE, <<>>),
             UNCHANGED <<live, queue>>
      PROVE  IInv'
  <2>1. /\ stack \in Seq(FrameType) /\ Waiting(stack)
        /\ Good(res, stack, live, started, syncOptions, requirements)
    BY DEF IInv, Good, StackOK
  <2>2. ~Active(x) /\ {} \in SUBSET Resources
    BY <1>3 DEF Active
  <2>3. QueueOK'
    BY <1>3, QueueKept
  <2> PICK s \in Seq(FrameType) : s = stack
    BY <2>1
  <2>4. StartResource(x, {}, TRUE, s)
    BY <1>1, <1>3
  <2> QED
    BY <2>1, <2>2, <2>3, <2>4, <1>1, <1>2, <1>3, StartResourceStep
<1>4. ASSUME NEW x \in live, NEW kind \in {"stop", "restart"}, QueueResource(x, kind)
      PROVE  IInv'
  BY <1>1, <1>2, <1>4, QueueResourceKeeps
<1>5. CASE queue' = Append(queue, Queued(Order[1], "stopall"))
           /\ UNCHANGED <<res, live, stack>>
  <2>1. Order[1] \in Resources
    <3>1. Order \in Seq(Resources) /\ Order # <<>>
      BY ResourcesType
    <3> QED
      BY <3>1
  <2>2. PICK a \in QueuedType : a = Queued(Order[1], "stopall") /\ a.kind = "stopall"
    <3>1. "stopall" \in Kinds
      BY DEF Kinds
    <3>2. Queued(Order[1], "stopall") \in QueuedType
      BY <3>1, <2>1 DEF QueuedType, Queued
    <3> QED
      BY <3>2 DEF Queued
  <2>3. queue' = Append(queue, a) /\ live' = live
    BY <2>2, <1>5
  <2>4. QueueOK'
    BY <2>2, <2>3, QueueMore
  <2>5. Quiet(res, res', live')
    BY <1>5, StillQuiet
  <2> QED
    BY <2>4, <2>5, <1>1, <1>2, <1>5, StayStep
<1> QED
  BY <1>3, <1>4, <1>5 DEF ConsoleCall

LEMMA FilesChangeKeeps == ASSUME IInv, FilesChange PROVE IInv'
<1>1. stack = <<>> /\ UNCHANGED <<queue, live>> /\ stack' = stack /\ UNCHANGED maps
  BY DEF FilesChange
<1>2. ~Waited(stack)
  BY <1>1 DEF Waited
<1>3. ResOK(res, live)
  BY DEF IInv, Good
<1>4. PICK x \in live : res' = [res EXCEPT ![x].changed = TRUE]
  BY DEF FilesChange
<1> PICK m \in BOOLEAN : m = TRUE
  OBVIOUS
<1>5. res' = [res EXCEPT ![x].changed = m]
  BY <1>4
<1>6. res \in [Resources -> Resource] /\ x \in Resources
  BY <1>3 DEF ResOK
<1>7. /\ res' \in [Resources -> Resource]
      /\ \A y \in Resources :
           /\ res'[y].state = res[y].state /\ res'[y].vm = res[y].vm
           /\ res'[y].links = res[y].links /\ res'[y].deps = res[y].deps
           /\ res'[y].temps = res[y].temps
  <2> PICK c : c = [res[x] EXCEPT !.changed = m]
    OBVIOUS
  <2>1. res' = [res EXCEPT ![x] = c]
    BY <1>5, <1>6
  <2>2. res[x] \in Resource
    BY <1>6
  <2>3. /\ c \in Resource /\ c.state = res[x].state /\ c.vm = res[x].vm
        /\ c.links = res[x].links /\ c.deps = res[x].deps /\ c.temps = res[x].temps
    BY <2>2 DEF Resource
  <2>4. res' \in [Resources -> Resource] /\ res'[x] = c
        /\ \A r \in Resources \ {x} : res'[r] = res[r]
    BY <2>1, <2>3, <1>6
  <2> QED
    BY <2>3, <2>4
<1>8. \A y \in live : res'[y].temps \subseteq live
  <2> SUFFICES ASSUME NEW y \in live PROVE res'[y].temps \subseteq live
    OBVIOUS
  <2>1. res[y].temps \subseteq live /\ y \in Resources
    BY <1>3 DEF ResOK
  <2> QED
    BY <2>1, <1>7
<1>9. \A y \in Resources : \A q \in res[y].deps :
        res[q].state \in {"Starting", "Running"} => q \in res'[y].deps
  BY <1>7
<1>10. Quiet(res, res', live)
  BY <1>3, <1>7, <1>8, <1>9, SameQuiet
<1>11. Quiet(res, res', live')
  BY <1>1, <1>10
<1>12. QueueOK'
  BY <1>1, QueueKept
<1> QED
  BY <1>1, <1>2, <1>11, <1>12, StayStep

-----------------------------------------------------------------------------
(* The invariant.                                                          *)

LEMMA InitGood == Init => IInv
<1> SUFFICES ASSUME Init PROVE IInv
  OBVIOUS
<1>1. \A r \in Resources : Included(r) \subseteq Resources
  <2> SUFFICES ASSUME NEW r \in Resources PROVE Included(r) \subseteq Resources
    OBVIOUS
  <2>1. Includes[r] \in Seq(Resources)
    BY ResourcesType
  <2>2. \A i \in DOMAIN Includes[r] : Includes[r][i] \in Resources
    BY <2>1, LenProperties
  <2> QED
    BY <2>2 DEF Included, ToSet
<1>2. ASSUME NEW r \in Resources
      PROVE  /\ res[r] \in Resource
             /\ res[r].state = "Loaded" /\ res[r].links = Included(r)
             /\ res[r].temps = {} /\ res[r].vm = FALSE
  BY <1>1 DEF Init, Resource, States
<1>3. res \in [Resources -> Resource]
  <2>1. res = [r \in Resources |-> res[r]]
    BY DEF Init
  <2> QED
    BY <2>1, <1>2
<1>4. live = Resources /\ started = {} /\ syncOptions = {} /\ requirements = {}
      /\ queue = <<>> /\ stack = <<>>
  BY DEF Init
<1>5. ResOK(res, live)
  BY <1>1, <1>2, <1>3, <1>4 DEF ResOK
<1>6. StackOK(res, stack)
  <2>1. LockedBy(<<>>, "start") = {} /\ LockedBy(<<>>, "stop") = {}
    BY NoFrames DEF LockedBy
  <2>2. Locks(res, stack)
    BY <2>1, <1>2, <1>4 DEF Locks
  <2>3. Layered(stack)
    BY <1>4, NoFrames DEF Layered
  <2> QED
    BY <2>2, <2>3, <1>4, NoFrames DEF StackOK
<1>7. MapsOK(res, stack, started, syncOptions, requirements)
  BY <1>2, <1>4, ResourcesType DEF MapsOK
<1>8. Waiting(stack) /\ WaitedOK(res, stack)
  BY <1>4, NoFrames DEF Waiting, WaitedOK, Waited
<1>9. QueueOK
  BY <1>4 DEF QueueOK
<1> QED
  BY <1>5, <1>6, <1>7, <1>8, <1>9 DEF IInv, Good

LEMMA StutterKeeps == ASSUME IInv, UNCHANGED vars PROVE IInv'
<1>1. /\ res' = res /\ live' = live /\ started' = started /\ syncOptions' = syncOptions
      /\ requirements' = requirements /\ queue' = queue /\ stack' = stack
  BY DEF vars
<1>2. QueueOK'
  BY <1>1, QueueKept
<1> QED
  BY <1>1, <1>2 DEF IInv

LEMMA NextKeeps == ASSUME IInv, [Next]_vars PROVE IInv'
<1>1. CASE Continue
  BY <1>1, ReloadReturnKeeps, PreStartFailsKeeps, PreStartedKeeps, ScriptsFailKeeps,
     ScriptsRunKeeps, AbortKeeps, IncludeKeeps, IncludeReloadedKeeps, IncludesDoneKeeps,
     RunKeeps, StartCancelledKeeps, StartAcceptedKeeps, AnnounceKeeps, StopStartKeeps,
     StoppedKeeps, LeaveIncludeKeeps, LeaveTemporaryKeeps, LeaveDoneKeeps, CloseVMKeeps,
     StopDoneKeeps, LuaStartedKeeps, DoStopKeeps, DoRestartKeeps, RestartStoppedKeeps,
     DoRestart2Keeps, Restart2StoppedKeeps, DoStopAllKeeps, StopAllNextKeeps, LoopDoneKeeps
     DEF Continue
<1>2. CASE ScriptCall
  BY <1>2, ScriptCallKeeps
<1>3. CASE ConsoleCall
  BY <1>3, ConsoleCallKeeps
<1>4. CASE FilesChange
  BY <1>4, FilesChangeKeeps
<1>5. CASE ProcessQueue
  BY <1>5, ProcessQueueKeeps
<1>6. CASE UNCHANGED vars
  BY <1>6, StutterKeeps
<1> QED
  BY <1>1, <1>2, <1>3, <1>4, <1>5, <1>6 DEF Next

\* The resources, the stack and the manager's sets agree in every state that nested
\* calls of Start and Stop can reach.
THEOREM Invariance == Spec => []IInv
<1>1. Init => IInv
  BY InitGood
<1>2. IInv /\ [Next]_vars => IInv'
  BY NextKeeps
<1> QED
  BY <1>1, <1>2, PTL DEF Spec

-----------------------------------------------------------------------------
(* What follows.                                                           *)

\* The fields of resources, frames and queued items, and requirements and options
\* only of resources that have them.
THEOREM TypeCorrect == Spec => []TypeOK
<1>1. IInv => TypeOK
  <2> SUFFICES ASSUME IInv PROVE TypeOK
    OBVIOUS
  <2>1. /\ res \in [Resources -> Resource] /\ live \subseteq Resources
        /\ started \subseteq Resources /\ requirements \subseteq MinClient
        /\ syncOptions \subseteq SyncDefined
        /\ queue \in Seq(QueuedType) /\ stack \in Seq(FrameType)
    BY DEF IInv, Good, ResOK, StackOK, MapsOK, QueueOK
  <2>2. \A i \in DOMAIN queue : queue[i] \in QueuedType
    BY <2>1, LenProperties
  <2>3. \A i \in DOMAIN stack : stack[i] \in FrameType
    BY <2>1, LenProperties
  <2> QED
    BY <2>1, <2>2, <2>3 DEF TypeOK, QueuedType, FrameType
<1> QED
  BY <1>1, Invariance, PTL

\* Once the outermost call has returned every resource runs or does not, and
\* m_StartedResources, the VMs, the client version requirements and the options agree
\* with it, whatever the handlers did inside.
THEOREM Settles == Spec => []Settled
<1>1. IInv => Settled
  <2> SUFFICES ASSUME IInv, stack = <<>>
               PROVE  /\ \A r \in Resources : res[r].state \in {"None", "Loaded", "Running"}
                      /\ started = Running /\ {r \in Resources : res[r].vm} = Running
                      /\ syncOptions = Running \cap SyncDefined
                      /\ requirements = Running \cap MinClient
    BY DEF Settled
  <2>1. /\ ResOK(res, live) /\ Locks(res, <<>>)
        /\ MapsOK(res, <<>>, started, syncOptions, requirements)
    BY DEF IInv, Good, StackOK
  <2>2. LockedBy(<<>>, "start") = {} /\ LockedBy(<<>>, "stop") = {}
    BY NoFrames DEF LockedBy
  <2>3. \A r \in Resources : res[r].state \in {"None", "Loaded", "Running"}
    BY <2>1, <2>2 DEF Locks, ResOK, Resource, States
  <2>4. \A r \in Resources : res[r].vm <=> r \in Running
    BY <2>1, <2>3 DEF ResOK, Running
  <2>5. started = Running
    BY <2>1, NoFrames DEF MapsOK, Running
  <2>6. syncOptions = Running \cap SyncDefined
    <3>1. SyncDefined \subseteq Resources
      BY ResourcesType
    <3>2. \A r \in Resources : (res[r].vm /\ res[r].state # "Stopping") <=> r \in Running
      BY <2>4 DEF Running
    <3>3. syncOptions = {r \in SyncDefined : res[r].vm /\ res[r].state # "Stopping"}
      BY <2>1 DEF MapsOK
    <3> QED
      BY <3>1, <3>2, <3>3
  <2>7. requirements = Running \cap MinClient
    BY <2>1, NoFrames, ResourcesType DEF MapsOK, Running
  <2>8. {r \in Resources : res[r].vm} = Running
    BY <2>4 DEF Running
  <2> QED
    BY <2>3, <2>5, <2>6, <2>7, <2>8
<1> QED
  BY <1>1, Invariance, PTL

\* No include, temporary include or queued item points to a deleted resource.
THEOREM PointersStayLive == Spec => []PointersLive
<1>1. IInv => PointersLive
  BY DEF IInv, Good, ResOK, QueueOK, PointersLive
<1> QED
  BY <1>1, Invariance, PTL

\* Between calls, a running resource is a dependent of each of its linked includes.
THEOREM IncludesHeld == Spec => []IncludersAreDependents
<1>1. IInv => IncludersAreDependents
  BY DEF IInv, Good, ResOK, HoldsIncludes, IncludersAreDependents, Running
<1> QED
  BY <1>1, Invariance, PTL

Places(s, op, r, pcs) == {i \in DOMAIN s : s[i].op = op /\ s[i].r = r /\ s[i].pc \in pcs}

\* At most one frame of a kind holds a resource's lock.
LEMMA LockedOnce ==
    ASSUME NEW s \in Seq(FrameType), Layered(s), NEW op \in {"start", "stop"}, NEW r, NEW pcs,
           \A f \in Frames(s) : f.op = op /\ f.pc \in pcs <=> f.op = op /\ Locked(f)
    PROVE  Cardinality(Places(s, op, r, pcs)) = IF r \in LockedBy(s, op) THEN 1 ELSE 0
<1> DEFINE P == {i \in DOMAIN s : s[i].op = op /\ s[i].r = r /\ s[i].pc \in pcs}
<1>1. \A i \in DOMAIN s : s[i] \in Frames(s) /\ i \in Int
  <2>1. DOMAIN s = 1 .. Len(s)
    BY LenProperties
  <2> QED
    BY <2>1 DEF Frames
<1>2. \A i \in DOMAIN s : i \in P <=> s[i].op = op /\ s[i].r = r /\ Locked(s[i])
  BY <1>1
<1>3. ASSUME NEW i \in P, NEW k \in P PROVE i = k
  <2>1. /\ i \in DOMAIN s /\ k \in DOMAIN s /\ i \in Int /\ k \in Int
        /\ Locked(s[i]) /\ Locked(s[k]) /\ s[i].r = r /\ s[k].r = r
        /\ s[i].op \in {"start", "stop"} /\ s[k].op \in {"start", "stop"}
    BY <1>1, <1>2, <1>3
  <2>2. ~(k < i) /\ ~(i < k)
    BY <2>1 DEF Layered
  <2> QED
    BY <2>1, <2>2
<1>4. r \in LockedBy(s, op) <=> \E i \in DOMAIN s : i \in P
  <2>1. r \in LockedBy(s, op) <=> \E f \in Frames(s) : f.op = op /\ Locked(f) /\ f.r = r
    BY DEF LockedBy
  <2> QED
    BY <2>1, <1>1, <1>2 DEF Frames
<1>5. CASE r \in LockedBy(s, op)
  <2> PICK i \in DOMAIN s : i \in P
    BY <1>4, <1>5
  <2>1. P = {i}
    BY <1>3
  <2>2. Cardinality({i}) = 1
    BY FS_Singleton
  <2> HIDE DEF P
  <2>3. Cardinality(P) = 1
    BY <2>1, <2>2
  <2> QED
    BY <2>3, <1>5 DEF P, Places
<1>6. CASE r \notin LockedBy(s, op)
  <2>1. P = {}
    BY <1>4, <1>6
  <2>2. Cardinality({}) = 0
    BY FS_EmptySet
  <2> HIDE DEF P
  <2>3. Cardinality(P) = 0
    BY <2>1, <2>2
  <2> QED
    BY <2>3, <1>6 DEF P, Places
<1> QED
  BY <1>5, <1>6

\* m_eState is a lock: while a resource is starting or stopping exactly one call on the
\* stack is in the part of Start or Stop that the state stands for, and otherwise none.
THEOREM StateLocksOnce == Spec => []StateIsOneFrames
<1>1. IInv => StateIsOneFrames
  <2> SUFFICES ASSUME IInv, NEW r \in Resources
               PROVE  /\ FramesOf("start", r, StartingPcs) =
                           IF res[r].state = "Starting" THEN 1 ELSE 0
                      /\ FramesOf("stop", r, StoppingPcs) =
                           IF res[r].state = "Stopping" THEN 1 ELSE 0
    BY DEF StateIsOneFrames
  <2>1. stack \in Seq(FrameType) /\ Layered(stack) /\ Locks(res, stack)
    BY DEF IInv, Good, StackOK
  <2>2. /\ r \in LockedBy(stack, "start") <=> res[r].state = "Starting"
        /\ r \in LockedBy(stack, "stop") <=> res[r].state = "Stopping"
    BY <2>1 DEF Locks
  <2>3. FramesOf("start", r, StartingPcs) = IF r \in LockedBy(stack, "start") THEN 1 ELSE 0
    <3>1. \A f \in Frames(stack) :
            f.op = "start" /\ f.pc \in StartingPcs <=> f.op = "start" /\ Locked(f)
      BY DEF Locked
    <3> PICK s \in Seq(FrameType) : s = stack
      BY <2>1
    <3>2. Cardinality(Places(s, "start", r, StartingPcs))
            = IF r \in LockedBy(s, "start") THEN 1 ELSE 0
      BY <2>1, <3>1, LockedOnce
    <3> QED
      BY <3>2 DEF FramesOf, Places
  <2>4. FramesOf("stop", r, StoppingPcs) = IF r \in LockedBy(stack, "stop") THEN 1 ELSE 0
    <3>1. \A f \in Frames(stack) :
            f.op = "stop" /\ f.pc \in StoppingPcs <=> f.op = "stop" /\ Locked(f)
      BY DEF Locked
    <3> PICK s \in Seq(FrameType) : s = stack
      BY <2>1
    <3>2. Cardinality(Places(s, "stop", r, StoppingPcs))
            = IF r \in LockedBy(s, "stop") THEN 1 ELSE 0
      BY <2>1, <3>1, LockedOnce
    <3> QED
      BY <3>2 DEF FramesOf, Places
  <2> QED
    BY <2>2, <2>3, <2>4
<1> QED
  BY <1>1, Invariance, PTL

=============================================================================
