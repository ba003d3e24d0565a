--------------------------- MODULE QueryService ---------------------------
(***************************************************************************)
(* What an asynchronous query queue promises its clients, without threads, *)
(* locks, polls or callbacks: requests are executed one at a time, once    *)
(* each, in the order they were accepted; a result is collected once, or   *)
(* thrown away if its request was given up, before or after it ran, and    *)
(* never both; a request is forgotten only after that.                     *)
(***************************************************************************)
EXTENDS Sequences

CONSTANT Jobs

VARIABLES
    accepted,     \* the requests still to be executed, in order
    outcome,      \* how far each request is
    abandoned     \* the requests given up

vars == <<accepted, outcome, abandoned>>

Outcome == {"none", "accepted", "ready", "taken"}

Init ==
    /\ accepted = <<>>
    /\ outcome = [j \in Jobs |-> "none"]
    /\ abandoned = {}

Accept(j) ==
    /\ outcome[j] = "none"
    /\ accepted' = Append(accepted, j)
    /\ outcome' = [outcome EXCEPT ![j] = "accepted"]
    /\ UNCHANGED abandoned

Execute ==
    /\ accepted # <<>>
    /\ accepted' = Tail(accepted)
    /\ outcome' = [outcome EXCEPT ![Head(accepted)] = "ready"]
    /\ UNCHANGED abandoned

GiveUp(S) ==
    /\ \A j \in S : outcome[j] \in {"accepted", "ready"}
    /\ abandoned' = abandoned \cup S
    /\ UNCHANGED <<accepted, outcome>>

Take(j) ==
    /\ outcome[j] = "ready"
    /\ outcome' = [outcome EXCEPT ![j] = "taken"]
    /\ UNCHANGED <<accepted, abandoned>>

Collect(j) == j \notin abandoned /\ Take(j)

ThrowAway(j) == j \in abandoned /\ Take(j)

Forget(S) ==
    /\ \A j \in S : outcome[j] = "taken"
    /\ outcome' = [j \in Jobs |-> IF j \in S THEN "none" ELSE outcome[j]]
    /\ abandoned' = abandoned \ S
    /\ UNCHANGED accepted

Next ==
    \/ \E j \in Jobs : Accept(j) \/ Collect(j) \/ ThrowAway(j)
    \/ Execute
    \/ \E S \in SUBSET Jobs : GiveUp(S) \/ Forget(S)

Spec == Init /\ [][Next]_vars
=============================================================================
