--------------------------- MODULE TransferService ---------------------------
(***************************************************************************)
(* What CLatentTransferManager promises to those who send through it: a    *)
(* transfer that was accepted arrives whole, once and in the order of      *)
(* acceptance, unless it is cancelled before its end is received or the    *)
(* remote leaves.  LatentTransfer implements it with parts.                *)
(***************************************************************************)
EXTENDS Subsequences

CONSTANT Transfers

VARIABLES
    pending,    \* accepted and not yet arrived, in the order of acceptance
    fate        \* what became of each transfer

vars == <<pending, fate>>

Init == pending = <<>> /\ fate = [t \in Transfers |-> "unsent"]

Pending == {pending[i] : i \in DOMAIN pending}
SetFate(S, f) == fate' = [t \in Transfers |-> IF t \in S THEN f ELSE fate[t]]

Accept(t) ==
    /\ fate[t] = "unsent"
    /\ pending' = Append(pending, t)
    /\ SetFate({t}, "sending")

Cancel(S) ==
    /\ pending' = Without(pending, S)
    /\ SetFate(S, "cancelled")

\* The oldest arrives whole; the receiver handles it or refuses it.
Arrive ==
    /\ pending # <<>>
    /\ pending' = Tail(pending)
    /\ \E f \in {"handled", "ignored"} : SetFate({Head(pending)}, f)

Leave == pending' = <<>> /\ SetFate(Pending, "lost")

Next ==
    \/ \E t \in Transfers : Accept(t)
    \/ \E S \in SUBSET Pending : Cancel(S)
    \/ Arrive
    \/ Leave

Spec == Init /\ [][Next]_vars
=============================================================================
