--------------------------- MODULE LatentTransfer ---------------------------
(***************************************************************************)
(* A latent transfer: a large packet (triggerLatentClientEvent and         *)
(* triggerLatentServerEvent) is sent in small parts, paced by a bandwidth. *)
(* This module is one direction between a sender and one remote:           *)
(*                                                                         *)
(*   - the sender's CLatentTransferManager keeps a CLatentSendQueue for    *)
(*     the remote and sends parts of the item at its front once a pulse;   *)
(*   - `net` is the reliable ordered channel PACKET_ORDERING_DATA_TRANSFER;*)
(*   - the receiver's manager keeps a CLatentReceiver, which puts the parts*)
(*     together and hands the whole packet to its handler.                 *)
(*                                                                         *)
(* Everything on one side runs on that side's main thread.  The code is    *)
(* shared by client and server: ReceiverIsServer says which side receives. *)
(* Each call of AddSend is a member of Transfers, its arguments constants. *)
(***************************************************************************)
EXTENDS Integers, Sequences, FiniteSets, FiniteSetsExt, Subsequences

CONSTANTS
    Transfers,          \* the packets sent, each once (the bound on AddSend)
    SizeOf,             \* size of the buffer of a transfer
    RateOf,             \* the bandwidth it asks for
    VMs, NoVM,
    VMOf,               \* the Lua VM it is cancelled with: none if it is persistent
    Deltas,             \* milliseconds from a pulse to the next
    IdRange,            \* ids on the wire have 15 bits: 2^15
    MIN_SEND_RATE, MIN_PACKET_SIZE, MAX_PACKET_SIZE, LATENT_PACKET_MAX_SIZE,
    MIN_DATA_SIZE,      \* data a packet carries at least: 10 bytes
    HeadSize,           \* bytes the header of a HEAD takes from its data
    MsPerSecond,        \* 1000
    MaxTimeMs,          \* iTimeMsBetweenCalls is clamped to 1 .. 100
    UintRange,          \* 2^32
    ReceiverIsServer,
    LatePackets         \* does a remote's input outlive its leaving?

Positive == Nat \ {0}

ASSUME TransfersType ==
    /\ IsFiniteSet(Transfers)
    /\ SizeOf \in [Transfers -> Positive] /\ RateOf \in [Transfers -> Nat]
    /\ \A t \in Transfers : SizeOf[t] <= LATENT_PACKET_MAX_SIZE
    /\ VMOf \in [Transfers -> VMs \cup {NoVM}]
ASSUME SizesType ==
    /\ IdRange \in Positive /\ Deltas \subseteq Nat
    /\ MIN_SEND_RATE \in Positive /\ MIN_DATA_SIZE \in Positive
    /\ MIN_PACKET_SIZE \in Positive /\ MAX_PACKET_SIZE \in Nat
    /\ 10 * MIN_PACKET_SIZE < 15 * MAX_PACKET_SIZE /\ MIN_PACKET_SIZE <= MAX_PACKET_SIZE
    /\ HeadSize \in Nat /\ LATENT_PACKET_MAX_SIZE \in Nat
    /\ MsPerSecond \in Positive /\ MaxTimeMs \in Positive /\ UintRange \in Positive
\* Only the server queues input (CNetServerBuffer::m_InResultQueue).
ASSUME SidesType ==
    /\ ReceiverIsServer \in BOOLEAN /\ LatePackets \in BOOLEAN
    /\ LatePackets => ReceiverIsServer

VARIABLES
    txQueue,                \* CLatentSendQueue::m_TxQueue
    uiNextSendId, uiCurrentRate, iBytesOwing,
    iTimeMsBetweenCalls,    \* of the sender's manager
    net,                    \* packets on their way
    joined,                 \* is the remote connected?
    hasReceiver,            \* is the remote in the receiver's m_ReceiverMap?
    activeRx,               \* its CLatentReceiver::activeRx
    bInside, bDeferredDelete,
    receiveError,           \* history: OnReceiveError dropped a connected remote
    fate                    \* history: what became of each transfer

sendVars == <<txQueue, uiNextSendId, uiCurrentRate, iBytesOwing>>
receiveVars == <<hasReceiver, activeRx, bInside, bDeferredDelete>>
vars == <<sendVars, iTimeMsBetweenCalls, net, joined, receiveVars, receiveError, fate>>

-----------------------------------------------------------------------------
Fates == {"unsent", "sending", "handled", "ignored", "corrupt", "cancelled", "lost"}
Flags == {"HEAD", "TAIL", "CANCEL", "NONE"}

\* SSendItem: `of` is its buffer and arguments, pos is uiReadPosition.
SSendItem == [of : Transfers, uiId : Nat, pos : Nat, bSendStarted : BOOLEAN,
              bSendFinishing : BOOLEAN]

\* A byte of a transfer is its place in it.
Byte == Transfers \X Positive
BytesOf(t, first, last) == [k \in 1 .. last - first + 1 |-> <<t, first + k - 1>>]
Payload(t) == BytesOf(t, 1, SizeOf[t])

\* `of` is not on the wire: it says which transfer a packet belongs to.
Packet == [flag : Flags, id : 0 .. IdRange - 1, of : Transfers, data : Seq(Byte)]

\* SReceiveItem: uiFinalSize is the buffer's size, uiWritePosition is Len(data).
SReceiveItem == [bReceiveStarted : BOOLEAN, usId : 0 .. IdRange - 1,
                 uiFinalSize : Nat, data : Seq(Byte), persistent : BOOLEAN]
NewReceiveItem == [bReceiveStarted |-> FALSE, usId |-> 0, uiFinalSize |-> 0,
                   data |-> <<>>, persistent |-> TRUE]

\* A transfer that no VM owns carries usResourceNetId 0xFFFF.
Persistent(t) == VMOf[t] = NoVM

Highest(queue) == Max({MIN_SEND_RATE} \cup {RateOf[queue[i].of] : i \in DOMAIN queue})
InQueue == {txQueue[i].of : i \in DOMAIN txQueue}
SetFate(S, f) == fate' = [t \in Transfers |-> IF t \in S THEN f ELSE fate[t]]

Init ==
    /\ txQueue = <<>> /\ uiNextSendId = 0 /\ uiCurrentRate = 0 /\ iBytesOwing = 0
    /\ iTimeMsBetweenCalls = 0
    /\ net = <<>> /\ joined = TRUE
    /\ hasReceiver = FALSE /\ activeRx = NewReceiveItem
    /\ bInside = FALSE /\ bDeferredDelete = FALSE
    /\ receiveError = FALSE
    /\ fate = [t \in Transfers |-> "unsent"]

-----------------------------------------------------------------------------
\* CLatentSendQueue::AddSend
AddSend(t) ==
    /\ joined /\ fate[t] = "unsent"
    /\ txQueue' = Append(txQueue, [of |-> t, uiId |-> uiNextSendId, pos |-> 0,
                                   bSendStarted |-> FALSE, bSendFinishing |-> FALSE])
    /\ uiNextSendId' = uiNextSendId + 1
    /\ uiCurrentRate' = Max({uiCurrentRate, RateOf[t]})
    /\ SetFate({t}, "sending")
    /\ UNCHANGED <<iBytesOwing, iTimeMsBetweenCalls, net, joined, receiveVars, receiveError>>

\* DoPulse of the manager: follow the time between calls, slower when it rises.
Smoothed(ms, delta) ==
    LET change == delta - ms
        next == IF change > 0 THEN ms + Min({change, Max({1, ms \div 10})})
                              ELSE ms - Min({-change, Max({1, ms \div 5})})
    IN  Max({1, Min({next, MaxTimeMs})})

\* The size of the packets rises with the rate.
MaxPacketSize(rate) ==
    LET from == MIN_PACKET_SIZE * 10
        to == MAX_PACKET_SIZE * 15
        weight == Max({0, Min({rate - from, to - from})})
    IN  MIN_PACKET_SIZE + ((MAX_PACKET_SIZE - MIN_PACKET_SIZE) * weight) \div (to - from)

FlagOf(t, pos) == IF pos = 0 THEN "HEAD" ELSE IF pos = SizeOf[t] THEN "TAIL" ELSE "NONE"

\* The data a packet can carry.  Only the header of a HEAD is worth modelling.
MaxDataSize(flag, size) == Max({MIN_DATA_SIZE, IF flag = "HEAD" THEN size - HeadSize ELSE size})

\* Where the read position is when k more packets of tx have been sent.
PosAfter(tx, k, size) ==
    IF k = 0 THEN tx.pos
    ELSE Min({SizeOf[tx.of],
              tx.pos + MaxDataSize(FlagOf(tx.of, tx.pos), size) + (k - 1) * MaxDataSize("NONE", size)})

\* How many packets tx still needs: its tail follows the one that empties the buffer.
PacketsLeft(tx, size) ==
    1 + Min({k \in 0 .. SizeOf[tx.of] : PosAfter(tx, k, size) = SizeOf[tx.of]})

PacketAt(tx, k, size) ==
    LET from == PosAfter(tx, k - 1, size)
    IN  [flag |-> FlagOf(tx.of, from), id |-> tx.uiId % IdRange, of |-> tx.of,
         data |-> BytesOf(tx.of, from + 1, PosAfter(tx, k, size))]

\* The item after some more of its packets were sent.
SentItem(tx, sent, left, size) ==
    [tx EXCEPT !.pos = PosAfter(tx, sent, size),
               !.bSendStarted = tx.bSendStarted \/ sent > 0,
               !.bSendFinishing = (sent = left)]

\* Mutant: bytes that did not fill a packet are not carried over.
SendPacketsForget(queue, bytes, size) ==
    \E tx \in {Head(queue)} : \E left \in {PacketsLeft(tx, size)} :
    \E sent \in {Min({bytes \div size, left})} :
        /\ iBytesOwing' = 0
        /\ net' = net \o [k \in 1 .. sent |-> PacketAt(tx, k, size)]
        /\ txQueue' = [queue EXCEPT ![1] = SentItem(tx, sent, left, size)]

\* The part of CLatentSendQueue::DoPulse that sends: as many packets of the item at
\* the front as the time since the last pulse allows, up to and including its tail.
\* (What is computed once is bound by \E: TLC would compute a LET at every use.)
SendPackets(queue, bytes, size) ==
    \E tx \in {Head(queue)} : \E left \in {PacketsLeft(tx, size)} :
    \E sent \in {Min({bytes \div size, left})} :
        /\ iBytesOwing' = bytes % size
        /\ net' = net \o [k \in 1 .. sent |-> PacketAt(tx, k, size)]
        /\ txQueue' = [queue EXCEPT ![1] = SentItem(tx, sent, left, size)]

\* An item whose tail was sent is removed at the next pulse, with PostQueueRemove.
Completed == txQueue # <<>> /\ Head(txQueue).bSendFinishing
             /\ Head(txQueue).pos = SizeOf[Head(txQueue).of]
QueueLeft == IF Completed THEN Tail(txQueue) ELSE txQueue
\* Mutant: no PostQueueRemove.
RateLeftAsWas == uiCurrentRate
RateLeft == IF Completed THEN Highest(QueueLeft) ELSE uiCurrentRate

\* CLatentTransferManager::DoPulse and CLatentSendQueue::DoPulse
Pulse(delta) ==
    /\ \E ms \in {Smoothed(iTimeMsBetweenCalls, delta)} :
        /\ iTimeMsBetweenCalls' = ms
        /\ IF QueueLeft = <<>>
           THEN /\ txQueue' = <<>> /\ uiCurrentRate' = RateLeft /\ iBytesOwing' = 0
                /\ UNCHANGED net
           ELSE \E rate \in {Max({MIN_SEND_RATE, RateLeft})} :
                \E size \in {MaxPacketSize(rate)} :
                    /\ uiCurrentRate' = rate
                    /\ SendPackets(QueueLeft, iBytesOwing
                                   + ((ms * rate) % UintRange) \div MsPerSecond, size)
    /\ UNCHANGED <<uiNextSendId, joined, receiveVars, receiveError, fate>>

\* The items at the positions I of the queue that were started, in its order.
Started(I) == Subsequence(txQueue, {i \in I : txQueue[i].bSendStarted})

\* Mutants: the remote is told nothing, or the id is not cut to its 15 bits.
CancelsForNone(I) == <<>>
CancelsForHandle(I) ==
    [k \in DOMAIN Started(I) |-> [flag |-> "CANCEL", id |-> Started(I)[k].uiId,
                                  of |-> Started(I)[k].of, data |-> <<>>]]

\* SendCancelNotification for the items that were started.
CancelsFor(I) ==
    [k \in DOMAIN Started(I) |-> [flag |-> "CANCEL", id |-> Started(I)[k].uiId % IdRange,
                                  of |-> Started(I)[k].of, data |-> <<>>]]

\* Erase the items of S from the queue, tell the remote, PostQueueRemove.
Erase(S) ==
    LET gone == {i \in DOMAIN txQueue : txQueue[i].of \in S}
        queue == Subsequence(txQueue, DOMAIN txQueue \ gone)
    IN  /\ S # {}
        /\ txQueue' = queue
        /\ net' = net \o CancelsFor(gone)
        /\ uiCurrentRate' = Highest(queue)
        /\ SetFate(S, "cancelled")
        /\ UNCHANGED <<uiNextSendId, iBytesOwing, iTimeMsBetweenCalls, joined, receiveVars,
                       receiveError>>

\* Mutant: an item whose tail was sent can be cancelled.
CancellableAlways == InQueue

\* It is too late to cancel an item whose tail was sent.
Cancellable == {txQueue[i].of : i \in {k \in DOMAIN txQueue : ~txQueue[k].bSendFinishing}}

\* CLatentSendQueue::CancelSend, for a handle in the queue
CancelSend(t) == t \in Cancellable /\ Erase({t})

\* CLatentSendQueue::OnLuaMainDestroy
OnLuaMainDestroy(vm) == Erase({t \in Cancellable : VMOf[t] = vm})
-----------------------------------------------------------------------------
\* Mutant: deleted also when its handler runs.
RemoveReceiverNow ==
    /\ hasReceiver' = FALSE /\ activeRx' = NewReceiveItem
    /\ UNCHANGED <<bInside, bDeferredDelete>>

\* RemoveRemote on the receiver's side: inside the receiver's handler the deletion
\* is deferred.  A client that leaves drops its whole manager.
RemoveReceiver ==
    IF bInside
    THEN bDeferredDelete' = TRUE /\ UNCHANGED <<hasReceiver, activeRx, bInside>>
    ELSE /\ hasReceiver' = FALSE /\ activeRx' = NewReceiveItem
         /\ UNCHANGED <<bInside, bDeferredDelete>>

\* RemoveRemote on the sender's side, a client's whole manager again.
RemoveSender ==
    /\ txQueue' = <<>> /\ uiNextSendId' = 0 /\ uiCurrentRate' = 0 /\ iBytesOwing' = 0
    /\ iTimeMsBetweenCalls' = IF ReceiverIsServer THEN 0 ELSE iTimeMsBetweenCalls

\* The connection is gone, and with it the packets that were not received: queued
\* input of the server stays.
Disconnected(rest) ==
    /\ joined' = FALSE
    /\ \E k \in IF LatePackets THEN 0 .. Len(rest) ELSE {0} : net' = SubSeq(rest, 1, k)
    /\ RemoveSender
    /\ fate' = [t \in Transfers |-> IF fate[t] = "sending" THEN "lost" ELSE fate[t]]

\* The remote quits, times out or is kicked, on the server also by the handler:
\* CGame::QuitPlayer calls RemoveRemote, a client deletes its manager.
Leave ==
    /\ joined
    /\ bInside => ReceiverIsServer
    /\ Disconnected(net)
    /\ RemoveReceiver
    /\ UNCHANGED receiveError

\* A player joins with the id of the remote: its join comes behind what was queued.
Join ==
    /\ ~joined /\ net = <<>> /\ ~bInside
    /\ joined' = TRUE
    /\ UNCHANGED <<sendVars, iTimeMsBetweenCalls, net, receiveVars, receiveError, fate>>
-----------------------------------------------------------------------------
\* A HEAD begins a new item, unless one is being received or it is too large.
HeadRefused(p) ==
    p.flag = "HEAD" /\ (activeRx.bReceiveStarted \/ SizeOf[p.of] > LATENT_PACKET_MAX_SIZE)
RxAfterHead(p) ==
    IF p.flag = "HEAD"
    THEN [bReceiveStarted |-> TRUE, usId |-> p.id, uiFinalSize |-> SizeOf[p.of],
          data |-> <<>>, persistent |-> Persistent(p.of)]
    ELSE activeRx

\* What CLatentReceiver::OnReceive checks after the head: the id, the room left in the
\* buffer, and at the tail that the buffer is full.
Accepted(rx, p) ==
    LET size == Len(rx.data) + Len(p.data)
    IN  /\ rx.usId = p.id
        /\ p.flag # "CANCEL" => size <= rx.uiFinalSize
        /\ p.flag = "TAIL" => size = rx.uiFinalSize

\* OnReceiveError is fatal for the connection, if there still is one: the receiver
\* is removed when OnReceive returns.
ReceiveError(rx, rest) ==
    IF joined
    THEN /\ receiveError' = TRUE
         /\ hasReceiver' = FALSE /\ activeRx' = NewReceiveItem
         /\ Disconnected(rest)
    ELSE /\ hasReceiver' = TRUE /\ activeRx' = rx
         /\ net' = rest
         /\ UNCHANGED <<sendVars, iTimeMsBetweenCalls, joined, receiveError, fate>>

\* DoStaticProcessPacket: may the packet go on to its handler?  A server refuses
\* 0xFFFF; any other id must be that of a resource the receiver knows.
Dispatched(rx) == IF rx.persistent THEN {~ReceiverIsServer} ELSE {TRUE, FALSE}

\* A whole packet was received.  Its handler runs until HandlerReturn; a packet of a
\* remote that left has no player to be handled for.
ReceiveTail(rx, t) ==
    \E handle \in IF joined THEN Dispatched(rx) ELSE {FALSE} :
        /\ hasReceiver' = TRUE
        /\ bInside' = handle
        /\ activeRx' = IF handle THEN rx ELSE NewReceiveItem
        /\ IF joined
           THEN SetFate({t}, IF rx.data # Payload(t) THEN "corrupt"
                             ELSE IF handle THEN "handled" ELSE "ignored")
           ELSE UNCHANGED fate

\* CLatentTransferManager::OnReceive and CLatentReceiver::OnReceive
Receive ==
    /\ net # <<>> /\ ~bInside
    /\ LET p == Head(net)
           head == RxAfterHead(p)
           rx == [head EXCEPT !.data = @ \o p.data]
       IN  IF HeadRefused(p) \/ ~Accepted(head, p)
           THEN /\ ReceiveError(IF HeadRefused(p) THEN activeRx ELSE head, Tail(net))
                /\ UNCHANGED bInside
           ELSE /\ IF p.flag = "TAIL"
                   THEN ReceiveTail(rx, p.of)
                   ELSE /\ hasReceiver' = TRUE
                        /\ activeRx' = IF p.flag = "CANCEL" THEN NewReceiveItem ELSE rx
                        /\ UNCHANGED <<bInside, fate>>
                /\ net' = Tail(net)
                /\ UNCHANGED <<sendVars, iTimeMsBetweenCalls, joined, receiveError>>
    /\ UNCHANGED bDeferredDelete

\* The handler returns to OnReceive: a deferred deletion is done now.
HandlerReturn ==
    /\ bInside
    /\ bInside' = FALSE /\ bDeferredDelete' = FALSE
    /\ hasReceiver' = (hasReceiver /\ ~bDeferredDelete)
    /\ activeRx' = NewReceiveItem
    /\ UNCHANGED <<sendVars, iTimeMsBetweenCalls, net, joined, receiveError, fate>>
-----------------------------------------------------------------------------
PulseSome == \E delta \in Deltas : Pulse(delta)

Next ==
    \/ \E t \in Transfers : AddSend(t) \/ CancelSend(t)
    \/ \E vm \in VMs : OnLuaMainDestroy(vm)
    \/ PulseSome
    \/ Receive \/ HandlerReturn
    \/ Leave \/ Join

\* The sender pulses again and again, the channel delivers, a handler returns.
Fairness == WF_vars(PulseSome) /\ WF_vars(Receive) /\ WF_vars(HandlerReturn)

Spec == Init /\ [][Next]_vars
FairSpec == Spec /\ Fairness
-----------------------------------------------------------------------------
TypeOK ==
    /\ txQueue \in Seq(SSendItem)
    /\ uiNextSendId \in Nat /\ uiCurrentRate \in Nat /\ iBytesOwing \in Nat
    /\ iTimeMsBetweenCalls \in 0 .. MaxTimeMs
    /\ net \in Seq(Packet)
    /\ joined \in BOOLEAN /\ hasReceiver \in BOOLEAN /\ activeRx \in SReceiveItem
    /\ bInside \in BOOLEAN /\ bDeferredDelete \in BOOLEAN
    /\ receiveError \in BOOLEAN
    /\ fate \in [Transfers -> Fates]

\* "Receive error is fatal for the connection": whatever is queued, cancelled or
\* destroyed in whatever order, a connected remote never makes one.
NoReceiveError == ~receiveError

\* While a handler runs inside OnReceive its receiver is not deleted, also when the
\* handler kicks the remote; and no deletion stays deferred when none runs.
HandlerKeepsReceiver ==
    /\ bInside => hasReceiver
    /\ bDeferredDelete => bInside /\ ~joined

\* "Current rate is highest queued item": never that of one that completed or was
\* cancelled, never less than a waiting one asks for.
CurrentRateIsHighest ==
    txQueue # <<>> => Max({MIN_SEND_RATE, uiCurrentRate}) = Highest(txQueue)

\* What a sender is promised: see TransferService.  A transfer is pending until its
\* tail is received or the remote leaves.
TailsOf(packets) ==
    Subsequence(packets, {i \in DOMAIN packets : packets[i].flag = "TAIL"})
Unfinished(queue) == Subsequence(queue, {i \in DOMAIN queue : ~queue[i].bSendFinishing})
Ofs(s) == [k \in DOMAIN s |-> s[k].of]

PendingOf(packets, queue) == Ofs(TailsOf(packets)) \o Ofs(Unfinished(queue))

Service == INSTANCE TransferService WITH
    pending <- IF joined THEN PendingOf(net, txQueue) ELSE <<>>

\* Transfers arrive whole, once, in the order they were queued, or not at all.
ImplementsTransferService == Service!Spec

\* Every transfer ends: it is handled, refused, cancelled, or lost with its remote.
TransferCompletes == \A t \in Transfers : fate[t] = "sending" ~> fate[t] # "sending"

\* "Remove from any latent transfers": nothing is kept for a remote that has left.
LeftRemoteForgotten == ~joined /\ ~bInside => ~hasReceiver

\* "Only allow packet if this resource is running (ignored if 0xFFFF)": a transfer
\* sent with 0xFFFF is not refused for the sake of its resource.
PersistentNotRefused == \A t \in Transfers : Persistent(t) => fate[t] # "ignored"
=============================================================================
