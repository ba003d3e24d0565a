------------------------ MODULE LatentTransferProofs ------------------------
(***************************************************************************)
(* Theorems about LatentTransfer, for any transfers, sizes, bandwidths and *)
(* times between pulses, in either direction.                              *)
(***************************************************************************)
EXTENDS LatentTransfer, SequenceLemmas

-----------------------------------------------------------------------------
(* The inductive invariant.                                                *)

\* Only the item at the front is being sent, and no transfer is queued twice.
ItemOK(tx) ==
    /\ tx.pos <= SizeOf[tx.of]
    /\ tx.bSendStarted <=> tx.pos > 0
    /\ tx.bSendFinishing => tx.pos = SizeOf[tx.of]
QueueGood(queue) ==
    /\ \A i \in DOMAIN queue : ItemOK(queue[i]) /\ (i # 1 => queue[i].pos = 0)
    /\ \A i, k \in DOMAIN queue : queue[i].of = queue[k].of => i = k
QueueOK == QueueGood(txQueue)

\* The rate also follows an empty queue.
RateOK == Max({MIN_SEND_RATE, uiCurrentRate}) = Highest(txQueue)

\* A transfer that is being sent waits for its tail to be sent, or the tail is on its
\* way; and only such a transfer does.
TailPlaces(packets, t) == {k \in DOMAIN packets : packets[k].flag = "TAIL" /\ packets[k].of = t}
QueuePlaces(queue, t) == {k \in DOMAIN queue : ~queue[k].bSendFinishing /\ queue[k].of = t}
PendingOK ==
    /\ \A i \in DOMAIN txQueue : fate[txQueue[i].of] # "unsent"
    /\ joined => \A t \in Transfers :
         /\ fate[t] = "sending" <=> TailPlaces(net, t) # {} \/ QueuePlaces(txQueue, t) # {}
         /\ TailPlaces(net, t) = {} \/ QueuePlaces(txQueue, t) = {}
         /\ \A k, l \in TailPlaces(net, t) : k = l
    /\ ~joined => txQueue = <<>> /\ \A t \in Transfers : fate[t] # "sending"

\* How far a side is with a transfer, between two packets.
Idle == [pos |-> 0]
Stage == {Idle} \cup [of : Transfers, id : 0 .. IdRange - 1, pos : 1 .. LATENT_PACKET_MAX_SIZE]

\* A packet goes on from there.
Follows(s, p) ==
    /\ p.flag = "HEAD" <=> s = Idle
    /\ p.flag # "HEAD" => p.of = s.of /\ p.id = s.id
    /\ p.flag \in {"HEAD", "NONE"} =>
         \E n \in s.pos + 1 .. SizeOf[p.of] : p.data = BytesOf(p.of, s.pos + 1, n)
    /\ p.flag \in {"TAIL", "CANCEL"} => p.data = <<>>
    /\ p.flag = "TAIL" => s.pos = SizeOf[p.of]
After(p) ==
    IF p.flag \in {"TAIL", "CANCEL"} THEN Idle
    ELSE [of |-> p.of, id |-> p.id, pos |-> p.data[Len(p.data)][2]]

\* The packets lead from stage s to stage e.
Chained(s, packets, e) ==
    /\ \A k \in DOMAIN packets :
         Follows(IF k = 1 THEN s ELSE After(packets[k - 1]), packets[k])
    /\ e = IF packets = <<>> THEN s ELSE After(packets[Len(packets)])

StageAt(tx, pos) ==
    IF pos = 0 THEN Idle ELSE [of |-> tx.of, id |-> tx.uiId % IdRange, pos |-> pos]

\* The stage of the sender, and whether the receiver is at one.
Sending(queue) ==
    IF queue = <<>> \/ Head(queue).bSendFinishing THEN Idle
    ELSE StageAt(Head(queue), Head(queue).pos)
Receiving(s) ==
    IF s = Idle THEN bInside \/ activeRx = NewReceiveItem
    ELSE /\ ~bInside
         /\ activeRx = [bReceiveStarted |-> TRUE, usId |-> s.id, uiFinalSize |-> SizeOf[s.of],
                        data |-> BytesOf(s.of, 1, s.pos), persistent |-> Persistent(s.of)]

\* What late packets of an earlier remote have left: the next HEAD is refused.
Stale == LatePackets /\ ~bInside /\ activeRx.bReceiveStarted

\* What is on its way leads from the receiver's stage to the sender's.
ChannelOK ==
    /\ joined => \E s \in Stage : /\ Chained(s, net, Sending(txQueue))
                                  /\ Receiving(s) \/ (s = Idle /\ Stale)
    /\ ~joined => Receiving(Idle) \/ Stale
    /\ ~joined /\ ~LatePackets => net = <<>>

NoError == ~LatePackets => ~receiveError

IInv ==
    /\ TypeOK /\ HandlerKeepsReceiver /\ QueueOK /\ RateOK /\ PendingOK /\ ChannelOK /\ NoError

-----------------------------------------------------------------------------
(* Numbers.                                                                *)

\* The larger and the smaller of two numbers.
LEMMA MaxOfTwo ==
    \A a, b \in Int : Max({a, b}) = IF a >= b THEN a ELSE b
<1> SUFFICES ASSUME NEW a \in Int, NEW b \in Int
             PROVE  Max({a, b}) = IF a >= b THEN a ELSE b
  OBVIOUS
<1>1. \E x \in {a, b} : \A y \in {a, b} : x >= y
  OBVIOUS
<1>2. Max({a, b}) \in {a, b} /\ \A y \in {a, b} : Max({a, b}) >= y
  BY <1>1 DEF Max
<1> QED
  BY <1>2

\* The minimum and the maximum of two numbers, which clamp times, sizes and rates.
LEMMA MinOfTwo ==
    \A a, b \in Int : Min({a, b}) = IF a <= b THEN a ELSE b
<1> SUFFICES ASSUME NEW a \in Int, NEW b \in Int
             PROVE  Min({a, b}) = IF a <= b THEN a ELSE b
  OBVIOUS
<1>1. \E x \in {a, b} : \A y \in {a, b} : x =< y
  OBVIOUS
<1>2. Min({a, b}) \in {a, b} /\ \A y \in {a, b} : Min({a, b}) =< y
  BY <1>1 DEF Min
<1> QED
  BY <1>2

\* How many packets are sent.
LEMMA PacketsToSend ==
    \A a \in Nat, b \in Nat \ {0}, n \in Nat :
        a \div b \in Nat /\ a % b \in Nat /\ Min({a \div b, n}) \in 0 .. n
<1> SUFFICES ASSUME NEW a \in Nat, NEW b \in Nat \ {0}, NEW n \in Nat
             PROVE  a \div b \in Nat /\ a % b \in Nat /\ Min({a \div b, n}) \in 0 .. n
  OBVIOUS
<1>1. a \div b \in Nat /\ a % b \in Nat
  OBVIOUS
<1>2. \A m \in Nat : Min({m, n}) \in 0 .. n
  <2> SUFFICES ASSUME NEW m \in Nat PROVE Min({m, n}) \in 0 .. n
    OBVIOUS
  <2>1. Min({m, n}) = IF m <= n THEN m ELSE n
    BY MinOfTwo
  <2> QED
    BY <2>1
<1> QED
  BY <1>1, <1>2

\* A set of natural numbers that is not empty has a minimum, and Min finds it.
LEMMA MinFinds ==
    ASSUME NEW T, T \subseteq Nat, T # {}
    PROVE  Min(T) \in T /\ \A y \in T : Min(T) <= y
<1>1. \E x \in T : \A y \in T : x =< y
  BY LeastNumber
<1> QED
  BY <1>1 DEF Min

\* A number that is the largest of a set is its Max.
LEMMA MaxIs ==
    ASSUME NEW T, T \subseteq Int, NEW m \in T, \A y \in T : m >= y
    PROVE  Max(T) = m
<1>1. Max(T) \in T /\ \A y \in T : Max(T) >= y
  BY DEF Max
<1>2. Max(T) >= m /\ m >= Max(T) /\ Max(T) \in Int /\ m \in Int
  BY <1>1
<1> QED
  BY <1>2

\* The sizes and rates that the assumptions allow.
LEMMA Sizes ==
    /\ IdRange \in Nat \ {0} /\ MIN_SEND_RATE \in Nat \ {0} /\ MIN_DATA_SIZE \in Nat \ {0}
    /\ MIN_PACKET_SIZE \in Nat \ {0} /\ MAX_PACKET_SIZE \in Nat /\ HeadSize \in Nat
    /\ LATENT_PACKET_MAX_SIZE \in Nat /\ MsPerSecond \in Nat \ {0} /\ MaxTimeMs \in Nat \ {0}
    /\ UintRange \in Nat \ {0} /\ MIN_PACKET_SIZE <= MAX_PACKET_SIZE
    /\ 10 * MIN_PACKET_SIZE < 15 * MAX_PACKET_SIZE /\ Deltas \subseteq Nat
    /\ \A t \in Transfers : /\ SizeOf[t] \in Nat \ {0} /\ SizeOf[t] <= LATENT_PACKET_MAX_SIZE
                            /\ RateOf[t] \in Nat /\ VMOf[t] \in VMs \cup {NoVM}
BY TransfersType, SizesType DEF Positive

\* The time between calls, the size of packets and what they carry.
LEMMA ClampedTime ==
    \A n \in Int : Max({1, Min({n, MaxTimeMs})}) \in 0 .. MaxTimeMs
<1> SUFFICES ASSUME NEW n \in Int PROVE Max({1, Min({n, MaxTimeMs})}) \in 0 .. MaxTimeMs
  OBVIOUS
<1>0. MaxTimeMs \in Int /\ MaxTimeMs >= 1
  BY Sizes
<1> PICK low : low = Min({n, MaxTimeMs})
  OBVIOUS
<1>1. low = IF n <= MaxTimeMs THEN n ELSE MaxTimeMs
  BY <1>0, MinOfTwo
<1>2. low \in Int /\ low <= MaxTimeMs
  BY <1>1, <1>0
<1>3. Max({1, low}) = IF 1 >= low THEN 1 ELSE low
  BY <1>2, MaxOfTwo
<1> QED
  BY <1>3, <1>2, <1>0

\* The smoothed time between calls stays within its clamp.
LEMMA SmoothedIsTime ==
    \A ms \in 0 .. MaxTimeMs, delta \in Nat : Smoothed(ms, delta) \in 0 .. MaxTimeMs
<1> SUFFICES ASSUME NEW ms \in 0 .. MaxTimeMs, NEW delta \in Nat
             PROVE  Smoothed(ms, delta) \in 0 .. MaxTimeMs
  OBVIOUS
<1>0. ms \in Int /\ MaxTimeMs \in Int /\ MaxTimeMs >= 1
  BY Sizes
<1>1. ms \div 10 \in Int /\ ms \div 5 \in Int
  BY <1>0
<1> PICK c : c = delta - ms
  OBVIOUS
<1>2. c \in Int /\ -c \in Int
  BY <1>0
<1> PICK up : up = Max({1, ms \div 10})
  OBVIOUS
<1> PICK down : down = Max({1, ms \div 5})
  OBVIOUS
<1>3. up \in Int /\ down \in Int
  BY <1>1, MaxOfTwo
<1>4. Min({c, up}) \in Int /\ Min({-c, down}) \in Int
  BY <1>2, <1>3, MinOfTwo
<1> PICK next : next = IF c > 0 THEN ms + Min({c, up}) ELSE ms - Min({-c, down})
  OBVIOUS
<1>5. next \in Int
  BY <1>0, <1>4
<1>7. Max({1, Min({next, MaxTimeMs})}) \in 0 .. MaxTimeMs
  BY <1>5, ClampedTime
<1> QED
  BY <1>7 DEF Smoothed

\* The packet size is positive at every rate, so that packets can be counted.
LEMMA PacketSizeIsPositive ==
    \A rate \in Nat : MaxPacketSize(rate) \in Nat \ {0}
<1> SUFFICES ASSUME NEW rate \in Nat PROVE MaxPacketSize(rate) \in Nat \ {0}
  OBVIOUS
<1> PICK from : from = MIN_PACKET_SIZE * 10
  OBVIOUS
<1> PICK to : to = MAX_PACKET_SIZE * 15
  OBVIOUS
<1>1. from \in Nat /\ to \in Nat /\ to - from \in Nat \ {0} /\ rate - from \in Int
  BY Sizes
<1> PICK low : low = Min({rate - from, to - from})
  OBVIOUS
<1> PICK weight : weight = Max({0, low})
  OBVIOUS
<1>2. low \in Int
  BY <1>1, MinOfTwo
<1>3. weight \in Nat
  BY <1>2, MaxOfTwo
<1> PICK d : d = MAX_PACKET_SIZE - MIN_PACKET_SIZE
  OBVIOUS
<1>4. d \in Nat
  BY Sizes
<1>5. d * weight \in Nat
  BY <1>3, <1>4
<1> PICK n : n = d * weight
  OBVIOUS
<1> PICK w : w = to - from
  OBVIOUS
<1>6. n \div w \in Nat
  BY <1>5, <1>1
<1>7. MIN_PACKET_SIZE + n \div w \in Nat \ {0}
  BY <1>6, Sizes
<1> QED
  BY <1>7 DEF MaxPacketSize

\* Every packet carries at least one byte, whatever its header takes.
LEMMA DataSizeIsPositive ==
    \A flag, size : size \in Nat => MaxDataSize(flag, size) \in Nat \ {0}
<1> SUFFICES ASSUME NEW flag, NEW size \in Nat PROVE MaxDataSize(flag, size) \in Nat \ {0}
  OBVIOUS
<1> PICK n : n = IF flag = "HEAD" THEN size - HeadSize ELSE size
  OBVIOUS
<1>1. n \in Int /\ MIN_DATA_SIZE \in Int /\ MIN_DATA_SIZE > 0
  BY Sizes
<1>2. Max({MIN_DATA_SIZE, n}) \in Nat \ {0}
  BY <1>1, MaxOfTwo
<1> QED
  BY <1>2 DEF MaxDataSize

\* The bytes of a transfer from one place to another.
LEMMA BytesProperties ==
    ASSUME NEW t \in Transfers, NEW m \in Nat, NEW n \in Nat, m <= n
    PROVE  /\ BytesOf(t, m + 1, n) \in Seq(Byte)
           /\ Len(BytesOf(t, m + 1, n)) = n - m
           /\ \A k \in 1 .. n - m : BytesOf(t, m + 1, n)[k] = <<t, m + k>>
           /\ m = n => BytesOf(t, m + 1, n) = <<>>
           /\ m < n => BytesOf(t, m + 1, n)[n - m][2] = n
<1> PICK d : d = n - m
  OBVIOUS
<1>1. d \in Nat /\ n - (m + 1) + 1 = d
  OBVIOUS
<1> DEFINE b == [k \in 1 .. d |-> <<t, (m + 1) + k - 1>>]
<1>2. BytesOf(t, m + 1, n) = b
  BY <1>1 DEF BytesOf
<1>3. \A k \in 1 .. d : /\ m + k \in Nat \ {0} /\ (m + 1) + k - 1 = m + k
                        /\ <<t, m + k>> \in Byte
  BY DEF Byte, Positive
<1>4. b \in Seq(Byte) /\ Len(b) = d /\ \A k \in 1 .. d : b[k] = <<t, m + k>>
  <2>1. \A k \in 1 .. d : b[k] = <<t, m + k>>
    BY <1>3
  <2>2. b \in [1 .. d -> Byte]
    BY <1>3
  <2> QED
    BY <2>1, <2>2, <1>1
<1> HIDE DEF b
<1>5. m = n => b = <<>>
  <2> SUFFICES ASSUME m = n PROVE b = <<>>
    OBVIOUS
  <2>1. Len(b) = 0
    BY <1>4
  <2> QED
    BY <2>1, <1>4, EmptySeq
<1>6. m < n => b[n - m][2] = n
  <2> SUFFICES ASSUME m < n PROVE b[n - m][2] = n
    OBVIOUS
  <2>1. d \in 1 .. d /\ m + d = n
    OBVIOUS
  <2>2. b[d] = <<t, n>>
    BY <2>1, <1>4
  <2> QED
    BY <2>2
<1> QED
  BY <1>1, <1>2, <1>4, <1>5, <1>6

\* Adjacent parts joined.
LEMMA BytesJoined ==
    ASSUME NEW t \in Transfers, NEW m \in Nat, NEW n \in Nat, m <= n
    PROVE  BytesOf(t, 1, m) \o BytesOf(t, m + 1, n) = BytesOf(t, 1, n)
<1> PICK a : a = BytesOf(t, 1, m)
  OBVIOUS
<1> PICK b : b = BytesOf(t, m + 1, n)
  OBVIOUS
<1> PICK c : c = BytesOf(t, 1, n)
  OBVIOUS
<1>0. \A j, k \in Nat : j <= k =>
        /\ BytesOf(t, j + 1, k) \in Seq(Byte)
        /\ Len(BytesOf(t, j + 1, k)) = k - j
        /\ \A i \in 1 .. k - j : BytesOf(t, j + 1, k)[i] = <<t, j + i>>
  BY BytesProperties
<1>1. a \in Seq(Byte) /\ Len(a) = m /\ \A i \in 1 .. m : a[i] = <<t, i>>
  <2>1. 0 \in Nat /\ 0 <= m /\ 0 + 1 = 1 /\ m - 0 = m
    OBVIOUS
  <2>2. /\ BytesOf(t, 0 + 1, m) \in Seq(Byte) /\ Len(BytesOf(t, 0 + 1, m)) = m - 0
        /\ \A i \in 1 .. m - 0 : BytesOf(t, 0 + 1, m)[i] = <<t, 0 + i>>
    BY <1>0, <2>1
  <2>3. BytesOf(t, 0 + 1, m) = a
    BY <2>1
  <2>4. \A i \in 1 .. m : 0 + i = i
    OBVIOUS
  <2> QED
    BY <2>1, <2>2, <2>3, <2>4
<1>2. c \in Seq(Byte) /\ Len(c) = n /\ \A i \in 1 .. n : c[i] = <<t, i>>
  <2>1. 0 \in Nat /\ 0 <= n /\ 0 + 1 = 1 /\ n - 0 = n
    OBVIOUS
  <2>2. /\ BytesOf(t, 0 + 1, n) \in Seq(Byte) /\ Len(BytesOf(t, 0 + 1, n)) = n - 0
        /\ \A i \in 1 .. n - 0 : BytesOf(t, 0 + 1, n)[i] = <<t, 0 + i>>
    BY <1>0, <2>1
  <2>3. BytesOf(t, 0 + 1, n) = c
    BY <2>1
  <2>4. \A i \in 1 .. n : 0 + i = i
    OBVIOUS
  <2> QED
    BY <2>1, <2>2, <2>3, <2>4
<1>3. b \in Seq(Byte) /\ Len(b) = n - m /\ \A i \in 1 .. n - m : b[i] = <<t, m + i>>
  BY <1>0
<1>4. /\ a \o b \in Seq(Byte) /\ Len(a \o b) = Len(a) + Len(b)
      /\ \A i \in 1 .. Len(a) + Len(b) :
           (a \o b)[i] = IF i <= Len(a) THEN a[i] ELSE b[i - Len(a)]
  BY <1>1, <1>3, ConcatProperties
<1>5. Len(a \o b) = Len(c) /\ Len(c) = n
  BY <1>1, <1>2, <1>3, <1>4
<1>6. ASSUME NEW i \in 1 .. n PROVE (a \o b)[i] = c[i]
  <2>1. i \in 1 .. Len(a) + Len(b)
    BY <1>1, <1>3
  <2>2. CASE i <= m
    <3>1. i \in 1 .. m
      BY <2>2
    <3> QED
      BY <3>1, <2>1, <2>2, <1>1, <1>2, <1>4
  <2>3. CASE ~(i <= m)
    <3>1. i - m \in 1 .. n - m /\ m + (i - m) = i
      BY <2>3
    <3>2. b[i - m] = <<t, i>>
      BY <3>1, <1>3
    <3> QED
      BY <3>2, <2>1, <2>3, <1>1, <1>2, <1>4
  <2> QED
    BY <2>2, <2>3
<1> QED
  BY <1>2, <1>4, <1>5, <1>6, SeqEqual

\* The rate asked for by the items of a queue: their highest exists.
LEMMA HighestIs ==
    ASSUME NEW q \in Seq(SSendItem)
    PROVE  /\ Highest(q) \in Nat /\ Highest(q) >= MIN_SEND_RATE
           /\ \A i \in DOMAIN q : Highest(q) >= RateOf[q[i].of]
           /\ Highest(q) = MIN_SEND_RATE \/ \E i \in DOMAIN q : Highest(q) = RateOf[q[i].of]
<1> DEFINE Rates(n) == {MIN_SEND_RATE} \cup {RateOf[q[i].of] : i \in 1 .. n}
           HasMax(n) == \E m \in Rates(n) : \A y \in Rates(n) : m >= y
           Bad == {n \in 0 .. Len(q) : ~HasMax(n)}
<1>1. Len(q) \in Nat /\ DOMAIN q = 1 .. Len(q) /\ \A i \in 1 .. Len(q) : q[i].of \in Transfers
  <2>1. Len(q) \in Nat /\ DOMAIN q = 1 .. Len(q) /\ \A i \in 1 .. Len(q) : q[i] \in SSendItem
    BY LenProperties
  <2>2. \A tx \in SSendItem : tx.of \in Transfers
    BY DEF SSendItem
  <2> QED
    BY <2>1, <2>2
<1>2. \A i \in 1 .. Len(q) : RateOf[q[i].of] \in Nat
  BY <1>1, Sizes
<1>3. \A n \in 0 .. Len(q) : Rates(n) \subseteq Nat
  BY <1>1, <1>2, Sizes
<1>4. HasMax(0)
  <2>1. Rates(0) = {MIN_SEND_RATE}
    OBVIOUS
  <2> QED
    BY <2>1, Sizes
<1>5. ASSUME NEW n \in 1 .. Len(q), HasMax(n - 1) PROVE HasMax(n)
  <2> DEFINE r == RateOf[q[n].of]
  <2>1. n - 1 \in 0 .. Len(q) /\ n \in 0 .. Len(q)
    BY <1>1
  <2>2. Rates(n) = Rates(n - 1) \cup {r}
    <3>1. \A i : i \in 1 .. n <=> i \in 1 .. n - 1 \/ i = n
      BY <1>1
    <3> QED
      BY <3>1
  <2> HIDE DEF Rates, r
  <2> PICK m \in Rates(n - 1) : \A y \in Rates(n - 1) : m >= y
    BY <1>5
  <2>3. m \in Nat /\ r \in Nat /\ \A y \in Rates(n - 1) : y \in Nat
    BY <2>1, <1>2, <1>3 DEF r
  <2>4. CASE m >= r
    BY <2>2, <2>4
  <2>5. CASE ~(m >= r)
    <3>1. \A y \in Rates(n) : r >= y
      BY <2>2, <2>3, <2>5
    <3> QED
      BY <3>1, <2>2
  <2> QED
    BY <2>4, <2>5
<1> HIDE DEF HasMax
<1>6. Bad = {}
  <2> SUFFICES ASSUME Bad # {} PROVE FALSE
    OBVIOUS
  <2>1. Bad \subseteq Nat
    OBVIOUS
  <2> PICK n \in Bad : \A k \in Bad : n <= k
    <3> HIDE DEF Bad
    <3> QED
      BY <2>1, LeastNumber
  <2>2. n \in 0 .. Len(q) /\ ~HasMax(n)
    OBVIOUS
  <2>3. n # 0
    BY <2>2, <1>4
  <2>4. n \in 1 .. Len(q) /\ n - 1 \in 0 .. Len(q) /\ ~(n <= n - 1)
    BY <2>2, <2>3, <1>1
  <2>5. HasMax(n - 1)
    BY <2>4
  <2> QED
    BY <2>2, <2>4, <2>5, <1>5
<1>7. HasMax(Len(q))
  <2>1. Len(q) \in 0 .. Len(q)
    BY <1>1
  <2> QED
    BY <2>1, <1>6
<1>8. Highest(q) = Max(Rates(Len(q)))
  BY <1>1 DEF Highest
<1> PICK m \in Rates(Len(q)) : \A y \in Rates(Len(q)) : m >= y
  BY <1>7 DEF HasMax
<1>9. Rates(Len(q)) \subseteq Int
  <2>1. Len(q) \in 0 .. Len(q)
    BY <1>1
  <2> QED
    BY <2>1, <1>3
<1>10. Max(Rates(Len(q))) = m
  <2> HIDE DEF Rates
  <2> QED
    BY <1>9, MaxIs
<1> QED
  BY <1>1, <1>2, <1>8, <1>10, Sizes

\* It depends only on which transfers are queued.
LEMMA HighestSame ==
    ASSUME NEW q, NEW r,
           \A i \in DOMAIN q : \E k \in DOMAIN r : r[k].of = q[i].of,
           \A i \in DOMAIN r : \E k \in DOMAIN q : q[k].of = r[i].of
    PROVE  Highest(q) = Highest(r)
<1>1. {RateOf[q[i].of] : i \in DOMAIN q} = {RateOf[r[i].of] : i \in DOMAIN r}
  OBVIOUS
<1> QED
  BY <1>1 DEF Highest

-----------------------------------------------------------------------------
(* The packets of one pulse.                                               *)

\* How far the item gets with each packet.
LEMMA PosAfterRises ==
    ASSUME NEW tx \in SSendItem, tx.pos <= SizeOf[tx.of], NEW size \in Nat
    PROVE  /\ tx.of \in Transfers /\ tx.pos \in Nat /\ SizeOf[tx.of] \in Nat \ {0}
           /\ PosAfter(tx, 0, size) = tx.pos
           /\ PosAfter(tx, SizeOf[tx.of], size) = SizeOf[tx.of]
           /\ \A k \in Nat :
                /\ PosAfter(tx, k, size) \in 0 .. SizeOf[tx.of]
                /\ PosAfter(tx, k, size) <= PosAfter(tx, k + 1, size)
                /\ PosAfter(tx, k, size) < SizeOf[tx.of] =>
                     PosAfter(tx, k, size) < PosAfter(tx, k + 1, size)
<1> PICK S : S = SizeOf[tx.of]
  OBVIOUS
<1> PICK A : A = MaxDataSize(FlagOf(tx.of, tx.pos), size)
  OBVIOUS
<1> PICK B : B = MaxDataSize("NONE", size)
  OBVIOUS
<1> PICK pos : pos = tx.pos
  OBVIOUS
<1>1. tx.of \in Transfers /\ pos \in Nat /\ S \in Nat \ {0} /\ pos <= S
  BY Sizes DEF SSendItem
<1>2. A \in Nat \ {0} /\ B \in Nat \ {0}
  BY DataSizeIsPositive
<1>3. \A k : PosAfter(tx, k, size) = IF k = 0 THEN pos ELSE Min({S, pos + A + (k - 1) * B})
  BY DEF PosAfter
<1>4. \A k \in Nat \ {0} :
        /\ (k - 1) * B \in Nat /\ k * B = (k - 1) * B + B /\ (k - 1) * B >= k - 1
  <2> SUFFICES ASSUME NEW k \in Nat \ {0}
               PROVE  (k - 1) * B \in Nat /\ k * B = (k - 1) * B + B /\ (k - 1) * B >= k - 1
    OBVIOUS
  <2> PICK j : j = k - 1
    OBVIOUS
  <2>1. j \in Nat /\ k = j + 1
    OBVIOUS
  <2>2. j * B \in Nat /\ (j + 1) * B = j * B + B
    BY <2>1, <1>2
  <2>3. j * B >= j
    <3> PICK c : c = B - 1
      OBVIOUS
    <3>1. c \in Nat /\ B = c + 1
      BY <1>2
    <3>2. j * c \in Nat /\ j * (c + 1) = j * c + j
      BY <2>1, <3>1
    <3> QED
      BY <3>1, <3>2, <2>1
  <2> QED
    BY <2>1, <2>2, <2>3
<1>5. \A k \in Nat \ {0} :
        PosAfter(tx, k, size) =
          IF S <= pos + A + (k - 1) * B THEN S ELSE pos + A + (k - 1) * B
  <2> SUFFICES ASSUME NEW k \in Nat \ {0}
               PROVE  PosAfter(tx, k, size) =
                        IF S <= pos + A + (k - 1) * B THEN S ELSE pos + A + (k - 1) * B
    OBVIOUS
  <2> PICK n : n = pos + A + (k - 1) * B
    OBVIOUS
  <2>1. n \in Int /\ S \in Int
    BY <1>1, <1>2, <1>4
  <2>2. Min({S, n}) = IF S <= n THEN S ELSE n
    BY <2>1, MinOfTwo
  <2> QED
    BY <2>2, <1>3
<1>6. PosAfter(tx, 0, size) = pos
  BY <1>3
<1>7. PosAfter(tx, S, size) = S
  <2> PICK n : n = (S - 1) * B
    OBVIOUS
  <2>1. n \in Nat /\ n >= S - 1
    BY <1>1, <1>4
  <2>2. S <= pos + A + n
    BY <2>1, <1>1, <1>2
  <2> QED
    BY <2>2, <1>1, <1>5
<1>8. ASSUME NEW k \in Nat
      PROVE  /\ PosAfter(tx, k, size) \in 0 .. S
             /\ PosAfter(tx, k, size) <= PosAfter(tx, k + 1, size)
             /\ PosAfter(tx, k, size) < S => PosAfter(tx, k, size) < PosAfter(tx, k + 1, size)
  <2> PICK a : a = PosAfter(tx, k, size)
    OBVIOUS
  <2> PICK b : b = PosAfter(tx, k + 1, size)
    OBVIOUS
  <2>1. k + 1 \in Nat \ {0} /\ k + 1 - 1 = k
    OBVIOUS
  <2> PICK m : m = k * B
    OBVIOUS
  <2>2. m \in Nat /\ b = IF S <= pos + A + m THEN S ELSE pos + A + m
    <3>1. (k + 1 - 1) * B \in Nat
      BY <2>1, <1>4
    <3> QED
      BY <3>1, <2>1, <1>5
  <2>3. CASE k = 0
    <3>1. a = pos
      BY <2>3, <1>6
    <3> QED
      BY <3>1, <2>2, <1>1, <1>2
  <2>4. CASE k # 0
    <3> PICK l : l = (k - 1) * B
      OBVIOUS
    <3>1. l \in Nat /\ m = l + B
      BY <2>4, <1>4
    <3>2. a = IF S <= pos + A + l THEN S ELSE pos + A + l
      BY <2>4, <1>5
    <3> QED
      BY <3>1, <3>2, <2>2, <1>1, <1>2
  <2> QED
    BY <2>3, <2>4
<1> QED
  BY <1>1, <1>6, <1>7, <1>8

\* The packet after the one that empties the buffer is the last.
LEMMA LastPacket ==
    ASSUME NEW tx \in SSendItem, tx.pos <= SizeOf[tx.of], NEW size \in Nat
    PROVE  /\ PacketsLeft(tx, size) \in Nat \ {0}
           /\ PosAfter(tx, PacketsLeft(tx, size) - 1, size) = SizeOf[tx.of]
           /\ PosAfter(tx, PacketsLeft(tx, size), size) = SizeOf[tx.of]
           /\ \A k \in Nat : k < PacketsLeft(tx, size) - 1 =>
                PosAfter(tx, k, size) < SizeOf[tx.of]
<1> PICK S : S = SizeOf[tx.of]
  OBVIOUS
<1> DEFINE T == {k \in 0 .. S : PosAfter(tx, k, size) = S}
<1>1. /\ S \in Nat \ {0} /\ PosAfter(tx, S, size) = S
      /\ \A k \in Nat : /\ PosAfter(tx, k, size) \in 0 .. S
                        /\ PosAfter(tx, k, size) <= PosAfter(tx, k + 1, size)
  BY PosAfterRises
<1>2. T \subseteq Nat /\ S \in T
  BY <1>1
<1> PICK n : n = Min(T)
  OBVIOUS
<1>3. n \in T /\ \A k \in T : n <= k
  <2> HIDE DEF T
  <2> QED
    BY <1>2, MinFinds
<1>4. PacketsLeft(tx, size) = 1 + n
  BY DEF PacketsLeft
<1>5. n \in 0 .. S /\ PosAfter(tx, n, size) = S
  BY <1>3
<1>6. n \in Nat /\ 1 + n - 1 = n /\ n + 1 = 1 + n
  BY <1>5
<1>7. PosAfter(tx, n + 1, size) = S
  <2>1. n + 1 \in Nat
    BY <1>6
  <2>2. PosAfter(tx, n + 1, size) \in 0 .. S /\ S <= PosAfter(tx, n + 1, size)
    BY <2>1, <1>1, <1>5, <1>6
  <2> QED
    BY <2>2, <1>1
<1>8. ASSUME NEW k \in Nat, k < n PROVE PosAfter(tx, k, size) < S
  <2>1. k \in 0 .. S /\ ~(n <= k)
    BY <1>5, <1>8, <1>1
  <2>2. PosAfter(tx, k, size) # S
    BY <2>1, <1>3
  <2> QED
    BY <2>2, <1>1
<1> HIDE DEF T
<1> QED
  BY <1>4, <1>5, <1>6, <1>7, <1>8

\* A packet of the pulse goes on from where the one before it got to.
LEMMA PacketFollows ==
    ASSUME NEW tx \in SSendItem, tx.pos <= SizeOf[tx.of], NEW size \in Nat,
           NEW k \in 1 .. PacketsLeft(tx, size)
    PROVE  /\ PacketAt(tx, k, size) \in Packet
           /\ PacketAt(tx, k, size).of = tx.of
           /\ PacketAt(tx, k, size).flag = "TAIL" <=> k = PacketsLeft(tx, size)
           /\ PacketAt(tx, k, size).flag # "CANCEL"
           /\ Follows(StageAt(tx, PosAfter(tx, k - 1, size)), PacketAt(tx, k, size))
           /\ After(PacketAt(tx, k, size)) =
                IF k = PacketsLeft(tx, size) THEN Idle
                ELSE StageAt(tx, PosAfter(tx, k, size))
           /\ k < PacketsLeft(tx, size) => PosAfter(tx, k, size) > 0
<1> PICK t : t = tx.of
  OBVIOUS
<1> PICK S : S = SizeOf[t]
  OBVIOUS
<1> PICK left : left = PacketsLeft(tx, size)
  OBVIOUS
<1> PICK from : from = PosAfter(tx, k - 1, size)
  OBVIOUS
<1> PICK to : to = PosAfter(tx, k, size)
  OBVIOUS
<1> PICK p : p = PacketAt(tx, k, size)
  OBVIOUS
<1> PICK id : id = tx.uiId % IdRange
  OBVIOUS
<1>1. t \in Transfers /\ S \in Nat \ {0} /\ tx.uiId \in Nat
  BY PosAfterRises DEF SSendItem
<1>2. left \in Nat \ {0} /\ k \in Nat \ {0} /\ k - 1 \in Nat /\ k - 1 + 1 = k /\ k <= left
  BY LastPacket
<1>3. from \in 0 .. S /\ to \in 0 .. S /\ from <= to /\ (from < S => from < to)
  <2>1. \A j \in Nat :
          /\ PosAfter(tx, j, size) \in 0 .. S
          /\ PosAfter(tx, j, size) <= PosAfter(tx, j + 1, size)
          /\ PosAfter(tx, j, size) < S => PosAfter(tx, j, size) < PosAfter(tx, j + 1, size)
    BY PosAfterRises
  <2> QED
    BY <2>1, <1>2
<1>4. k = left => from = S /\ to = S
  BY LastPacket
<1>5. k < left => from < S
  <2>1. \A j \in Nat : j < left - 1 => PosAfter(tx, j, size) < S
    BY LastPacket
  <2>2. k < left => k - 1 < left - 1
    BY <1>2
  <2> QED
    BY <2>1, <2>2, <1>2
<1>6. id \in 0 .. IdRange - 1
  BY <1>1, Sizes
<1>7. /\ BytesOf(t, from + 1, to) \in Seq(Byte)
      /\ Len(BytesOf(t, from + 1, to)) = to - from
      /\ from = to => BytesOf(t, from + 1, to) = <<>>
      /\ from < to => BytesOf(t, from + 1, to)[to - from][2] = to
  <2>1. \A m, n \in Nat : m <= n =>
          /\ BytesOf(t, m + 1, n) \in Seq(Byte)
          /\ Len(BytesOf(t, m + 1, n)) = n - m
          /\ m = n => BytesOf(t, m + 1, n) = <<>>
          /\ m < n => BytesOf(t, m + 1, n)[n - m][2] = n
    BY <1>1, BytesProperties, SMTT(30), ZenonT(40)
  <2>2. from \in Nat /\ to \in Nat /\ from <= to
    BY <1>3, <1>1
  <2> QED
    BY <2>1, <2>2
<1> PICK data : data = BytesOf(t, from + 1, to)
  OBVIOUS
<1> PICK flag : flag = FlagOf(t, from)
  OBVIOUS
<1>8. p = [flag |-> flag, id |-> id, of |-> t, data |-> data]
  BY DEF PacketAt
<1>9. flag = IF from = 0 THEN "HEAD" ELSE IF from = S THEN "TAIL" ELSE "NONE"
  BY DEF FlagOf
<1>10. flag = "TAIL" <=> k = left
  BY <1>9, <1>4, <1>5, <1>2, <1>1, <1>3
<1>11. flag \in {"HEAD", "NONE", "TAIL"} /\ (flag = "HEAD" <=> from = 0)
  BY <1>9
<1>12. p \in Packet /\ p.of = t /\ p.flag = flag /\ p.id = id /\ p.data = data
  BY <1>8, <1>11, <1>6, <1>7, <1>1 DEF Packet, Flags
<1> PICK s : s = StageAt(tx, from)
  OBVIOUS
<1>13. s = IF from = 0 THEN Idle ELSE [of |-> t, id |-> id, pos |-> from]
  BY DEF StageAt
<1>14. s.pos = from /\ (from # 0 => s # Idle /\ s.of = t /\ s.id = id)
  <2>1. CASE from = 0
    BY <2>1, <1>13 DEF Idle
  <2>2. CASE from # 0
    <3>1. s.pos = from /\ s.of = t /\ s.id = id
      BY <2>2, <1>13
    <3>2. Idle.pos = 0
      BY DEF Idle
    <3> QED
      BY <3>1, <3>2, <2>2
  <2> QED
    BY <2>1, <2>2
<1>15. Follows(s, p)
  <2>1. p.flag = "HEAD" <=> s = Idle
    BY <1>11, <1>12, <1>13, <1>14
  <2>2. p.flag # "HEAD" => p.of = s.of /\ p.id = s.id
    BY <1>11, <1>12, <1>14
  <2>3. p.flag \in {"HEAD", "NONE"} =>
          \E n \in s.pos + 1 .. SizeOf[p.of] : p.data = BytesOf(p.of, s.pos + 1, n)
    <3> SUFFICES ASSUME p.flag \in {"HEAD", "NONE"}
                 PROVE  \E n \in s.pos + 1 .. SizeOf[p.of] : p.data = BytesOf(p.of, s.pos + 1, n)
      OBVIOUS
    <3>1. k < left
      BY <1>2, <1>10, <1>12
    <3>2. to \in from + 1 .. S
      BY <3>1, <1>3, <1>5
    <3> QED
      BY <3>2, <1>12, <1>14
  <2>4. p.flag \in {"TAIL", "CANCEL"} => p.data = <<>> /\ s.pos = SizeOf[p.of]
    BY <1>4, <1>7, <1>10, <1>11, <1>12, <1>14
  <2> QED
    BY <2>1, <2>2, <2>3, <2>4 DEF Follows
<1>16. k < left => to > 0 /\ data[Len(data)][2] = to
  BY <1>3, <1>5, <1>7
<1>17. After(p) = IF k = left THEN Idle ELSE StageAt(tx, to)
  <2>1. CASE k = left
    BY <2>1, <1>10, <1>12 DEF After
  <2>2. CASE k # left
    <3>1. k < left
      BY <2>2, <1>2
    <3>2. After(p) = [of |-> t, id |-> id, pos |-> to]
      BY <2>2, <3>1, <1>10, <1>11, <1>12, <1>16 DEF After
    <3>3. StageAt(tx, to) = [of |-> t, id |-> id, pos |-> to]
      BY <3>1, <1>16, <1>3 DEF StageAt
    <3> QED
      BY <2>2, <3>2, <3>3
  <2> QED
    BY <2>1, <2>2
<1> QED
  BY <1>10, <1>11, <1>12, <1>15, <1>16, <1>17

-----------------------------------------------------------------------------
(* Chains of packets.                                                      *)

\* No packets lead nowhere.
LEMMA NoneChained ==
    \A s : Chained(s, <<>>, s)
BY DEF Chained

\* Two chains joined.
LEMMA ChainsJoined ==
    ASSUME NEW P \in Seq(Packet), NEW Q \in Seq(Packet), NEW s, NEW m, NEW e,
           Chained(s, P, m), Chained(m, Q, e)
    PROVE  Chained(s, P \o Q, e)
<1> PICK R : R = P \o Q
  OBVIOUS
<1>1. /\ Len(P) \in Nat /\ DOMAIN P = 1 .. Len(P) /\ (P = <<>> <=> Len(P) = 0)
      /\ Len(Q) \in Nat /\ DOMAIN Q = 1 .. Len(Q) /\ (Q = <<>> <=> Len(Q) = 0)
  BY LenProperties, EmptySeq
<1>2. /\ R \in Seq(Packet) /\ Len(R) = Len(P) + Len(Q) /\ DOMAIN R = 1 .. Len(R)
      /\ \A k \in 1 .. Len(P) + Len(Q) : R[k] = IF k <= Len(P) THEN P[k] ELSE Q[k - Len(P)]
      /\ (R = <<>> <=> Len(R) = 0)
  BY ConcatProperties, LenProperties, EmptySeq
<1>3. \A k \in DOMAIN P : Follows(IF k = 1 THEN s ELSE After(P[k - 1]), P[k])
  BY DEF Chained
<1>4. \A k \in DOMAIN Q : Follows(IF k = 1 THEN m ELSE After(Q[k - 1]), Q[k])
  BY DEF Chained
<1>5. m = (IF P = <<>> THEN s ELSE After(P[Len(P)])) /\ e = IF Q = <<>> THEN m ELSE After(Q[Len(Q)])
  BY DEF Chained
<1>6. ASSUME NEW k \in DOMAIN R PROVE Follows(IF k = 1 THEN s ELSE After(R[k - 1]), R[k])
  <2>1. CASE k <= Len(P)
    <3>1. k \in DOMAIN P /\ R[k] = P[k]
      BY <2>1, <1>1, <1>2
    <3>2. k # 1 => R[k - 1] = P[k - 1]
      BY <2>1, <1>1, <1>2
    <3> QED
      BY <3>1, <3>2, <1>3
  <2>2. CASE ~(k <= Len(P))
    <3> PICK j : j = k - Len(P)
      OBVIOUS
    <3>1. j \in DOMAIN Q /\ R[k] = Q[j]
      BY <2>2, <1>1, <1>2
    <3>2. Follows(IF j = 1 THEN m ELSE After(Q[j - 1]), Q[j])
      BY <3>1, <1>4
    <3>3. CASE j # 1
      <4>1. k # 1 /\ R[k - 1] = Q[j - 1]
        BY <3>3, <3>1, <2>2, <1>1, <1>2
      <4> QED
        BY <3>2, <3>3, <4>1, <3>1
    <3>4. CASE j = 1
      <4>1. k = Len(P) + 1
        BY <3>4, <1>1, <2>2, <1>2
      <4>2. CASE P = <<>>
        BY <4>1, <4>2, <1>1, <1>5, <3>1, <3>2, <3>4
      <4>3. CASE P # <<>>
        <5>1. k # 1 /\ R[k - 1] = P[Len(P)]
          BY <4>1, <4>3, <1>1, <1>2
        <5> QED
          BY <5>1, <4>3, <1>5, <3>1, <3>2, <3>4
      <4> QED
        BY <4>2, <4>3
    <3> QED
      BY <3>3, <3>4
  <2> QED
    BY <2>1, <2>2
<1>7. e = IF R = <<>> THEN s ELSE After(R[Len(R)])
  <2>1. CASE Q = <<>>
    <3>1. Len(R) = Len(P) /\ (R = <<>> <=> P = <<>>)
      BY <2>1, <1>1, <1>2
    <3>2. P # <<>> => R[Len(R)] = P[Len(P)]
      BY <3>1, <1>1, <1>2
    <3> QED
      BY <2>1, <3>1, <3>2, <1>5
  <2>2. CASE Q # <<>>
    <3>1. R # <<>> /\ R[Len(R)] = Q[Len(Q)]
      BY <2>2, <1>1, <1>2
    <3> QED
      BY <2>2, <3>1, <1>5
  <2> QED
    BY <2>1, <2>2
<1> QED
  BY <1>6, <1>7 DEF Chained

\* The first packet of a chain taken.
LEMMA ChainTaken ==
    ASSUME NEW P \in Seq(Packet), NEW s, NEW e, P # <<>>, Chained(s, P, e)
    PROVE  Follows(s, Head(P)) /\ Chained(After(Head(P)), Tail(P), e)
<1> PICK T : T = Tail(P)
  OBVIOUS
<1>1. /\ Len(P) \in Nat \ {0} /\ DOMAIN P = 1 .. Len(P) /\ Head(P) = P[1]
      /\ T \in Seq(Packet) /\ Len(T) = Len(P) - 1 /\ DOMAIN T = 1 .. Len(P) - 1
      /\ \A k \in 1 .. Len(P) - 1 : T[k] = P[k + 1]
      /\ (T = <<>> <=> Len(T) = 0)
  <2>1. Len(P) \in Nat \ {0} /\ DOMAIN P = 1 .. Len(P)
    BY LenProperties, EmptySeq
  <2>2. Head(P) = P[1]
    OBVIOUS
  <2>3. /\ T \in Seq(Packet) /\ Len(T) = Len(P) - 1
        /\ \A k \in 1 .. Len(T) : T[k] = P[k + 1]
    BY HeadTailProperties
  <2>4. DOMAIN T = 1 .. Len(T) /\ (T = <<>> <=> Len(T) = 0)
    BY <2>3, LenProperties, EmptySeq
  <2> QED
    BY <2>1, <2>2, <2>3, <2>4
<1>2. \A k \in DOMAIN P : Follows(IF k = 1 THEN s ELSE After(P[k - 1]), P[k])
  BY DEF Chained
<1>3. e = After(P[Len(P)])
  BY DEF Chained
<1>4. Follows(s, Head(P))
  <2>1. 1 \in DOMAIN P
    BY <1>1
  <2> QED
    BY <2>1, <1>1, <1>2
<1>5. ASSUME NEW k \in DOMAIN T
      PROVE  Follows(IF k = 1 THEN After(Head(P)) ELSE After(T[k - 1]), T[k])
  <2>1. k + 1 \in DOMAIN P /\ k + 1 # 1 /\ k + 1 - 1 = k /\ T[k] = P[k + 1]
    BY <1>1
  <2>2. Follows(After(P[k]), T[k])
    <3> PICK j \in DOMAIN P : j = k + 1
      BY <2>1
    <3>1. Follows(After(P[j - 1]), P[j])
      BY <2>1, <1>2
    <3> QED
      BY <3>1, <2>1
  <2>3. k # 1 => T[k - 1] = P[k]
    BY <1>1
  <2> QED
    BY <2>2, <2>3, <1>1
<1>6. e = IF T = <<>> THEN After(Head(P)) ELSE After(T[Len(T)])
  <2>1. CASE T = <<>>
    BY <2>1, <1>1, <1>3
  <2>2. CASE T # <<>>
    <3>1. T[Len(T)] = P[Len(P)]
      BY <2>2, <1>1
    <3> QED
      BY <2>2, <3>1, <1>3
  <2> QED
    BY <2>1, <2>2
<1> QED
  BY <1>4, <1>5, <1>6 DEF Chained

\* A single packet.
LEMMA OneChained ==
    ASSUME NEW p, NEW s, Follows(s, p)
    PROVE  Chained(s, <<p>>, After(p))
<1>1. DOMAIN <<p>> = {1} /\ <<p>>[1] = p /\ Len(<<p>>) = 1 /\ <<p>> # <<>>
  OBVIOUS
<1> QED
  BY <1>1 DEF Chained

\* The packets of a pulse lead from where the item was to where it is now.
LEMMA PulseChained ==
    ASSUME NEW tx \in SSendItem, tx.pos <= SizeOf[tx.of], NEW size \in Nat,
           NEW sent \in 0 .. PacketsLeft(tx, size),
           NEW P, P = [k \in 1 .. sent |-> PacketAt(tx, k, size)]
    PROVE  /\ P \in Seq(Packet) /\ Len(P) = sent
           /\ Chained(StageAt(tx, tx.pos), P,
                      IF sent = PacketsLeft(tx, size) THEN Idle
                      ELSE StageAt(tx, PosAfter(tx, sent, size)))
           /\ \A k \in DOMAIN P : P[k].of = tx.of
           /\ \A k \in DOMAIN P : P[k].flag = "TAIL" <=> k = PacketsLeft(tx, size)
<1> PICK left : left = PacketsLeft(tx, size)
  OBVIOUS
<1>1. left \in Nat \ {0} /\ sent \in Nat /\ sent <= left
  BY LastPacket
<1>2. \A k \in 1 .. left :
        /\ PacketAt(tx, k, size) \in Packet
        /\ PacketAt(tx, k, size).of = tx.of
        /\ PacketAt(tx, k, size).flag = "TAIL" <=> k = left
        /\ Follows(StageAt(tx, PosAfter(tx, k - 1, size)), PacketAt(tx, k, size))
        /\ After(PacketAt(tx, k, size)) =
             IF k = left THEN Idle ELSE StageAt(tx, PosAfter(tx, k, size))
  BY PacketFollows
<1>3. PosAfter(tx, 0, size) = tx.pos
  BY PosAfterRises
<1>4. \A k \in 1 .. sent : k \in 1 .. left /\ P[k] = PacketAt(tx, k, size)
  BY <1>1
<1>5. P \in Seq(Packet) /\ Len(P) = sent /\ DOMAIN P = 1 .. sent
  <2>1. P \in [1 .. sent -> Packet]
    BY <1>2, <1>4
  <2> QED
    BY <2>1, <1>1
<1>6. ASSUME NEW k \in DOMAIN P
      PROVE  Follows(IF k = 1 THEN StageAt(tx, tx.pos) ELSE After(P[k - 1]), P[k])
  <2>1. k \in 1 .. left /\ P[k] = PacketAt(tx, k, size)
    BY <1>4, <1>5
  <2>2. Follows(StageAt(tx, PosAfter(tx, k - 1, size)), P[k])
    BY <2>1, <1>2
  <2>3. CASE k = 1
    BY <2>2, <2>3, <1>3
  <2>4. CASE k # 1
    <3> PICK j : j = k - 1
      OBVIOUS
    <3>1. j \in 1 .. sent /\ j \in 1 .. left /\ j # left
      BY <2>4, <1>1, <1>5
    <3>2. After(P[j]) = StageAt(tx, PosAfter(tx, j, size))
      BY <3>1, <1>2, <1>4
    <3> QED
      BY <2>2, <2>4, <3>2
  <2> QED
    BY <2>3, <2>4
<1> PICK e : e = IF sent = left THEN Idle ELSE StageAt(tx, PosAfter(tx, sent, size))
  OBVIOUS
<1>7. e = IF P = <<>> THEN StageAt(tx, tx.pos) ELSE After(P[Len(P)])
  <2>1. CASE sent = 0
    <3>1. P = <<>>
      BY <2>1, <1>5, EmptySeq
    <3> QED
      BY <2>1, <3>1, <1>1, <1>3
  <2>2. CASE sent # 0
    <3>1. P # <<>> /\ sent \in 1 .. sent
      BY <2>2, <1>1, <1>5, EmptySeq
    <3>2. After(P[sent]) = e
      BY <3>1, <1>2, <1>4
    <3> QED
      BY <3>1, <3>2, <1>5
  <2> QED
    BY <2>1, <2>2
<1>8. Chained(StageAt(tx, tx.pos), P, e)
  BY <1>6, <1>7 DEF Chained
<1> QED
  BY <1>2, <1>4, <1>5, <1>8

\* What sending does to the queue and the net.
Sent(queue, P, new) ==
    /\ P \in Seq(Packet) /\ new \in SSendItem /\ new.of = queue[1].of /\ ItemOK(new)
    /\ net' = net \o P
    /\ txQueue' \in Seq(SSendItem) /\ Len(txQueue') = Len(queue)
    /\ txQueue'[1] = new /\ \A i \in 2 .. Len(queue) : txQueue'[i] = queue[i]
    /\ Chained(Sending(queue), P, Sending(txQueue'))
    /\ \A k \in DOMAIN P : P[k].flag = "TAIL" <=> new.bSendFinishing /\ k = Len(P)
    /\ \A k \in DOMAIN P : P[k].of = new.of
    /\ new.bSendFinishing => P # <<>>
    /\ iBytesOwing' \in Nat

\* SendPackets sends such packets, and what it leaves of the item agrees with them.
LEMMA PacketsSent ==
    ASSUME NEW queue \in Seq(SSendItem), queue # <<>>, ItemOK(queue[1]),
           ~queue[1].bSendFinishing, NEW bytes \in Nat, NEW size \in Nat \ {0},
           SendPackets(queue, bytes, size)
    PROVE  \E P, new : Sent(queue, P, new)
<1> PICK tx : tx = Head(queue)
  OBVIOUS
<1> PICK left : left = PacketsLeft(tx, size)
  OBVIOUS
<1> PICK sent : sent = Min({bytes \div size, left})
  OBVIOUS
<1> PICK P : P = [k \in 1 .. sent |-> PacketAt(tx, k, size)]
  OBVIOUS
<1> PICK new : new = SentItem(tx, sent, left, size)
  OBVIOUS
<1>1. /\ iBytesOwing' = bytes % size
      /\ net' = net \o P
      /\ txQueue' = [queue EXCEPT ![1] = new]
  BY DEF SendPackets
<1>2. /\ tx = queue[1] /\ Len(queue) \in Nat \ {0} /\ DOMAIN queue = 1 .. Len(queue)
      /\ \A i \in 1 .. Len(queue) : queue[i] \in SSendItem
  BY LenProperties, EmptySeq
<1>3. tx \in SSendItem /\ tx.pos <= SizeOf[tx.of] /\ ~tx.bSendFinishing
      /\ (tx.bSendStarted <=> tx.pos > 0)
  <2>1. 1 \in 1 .. Len(queue)
    BY <1>2
  <2> QED
    BY <2>1, <1>2 DEF ItemOK
<1>4. left \in Nat \ {0} /\ iBytesOwing' \in Nat
  <2>1. left \in Nat \ {0}
    BY <1>3, LastPacket
  <2>2. bytes % size \in Nat
    BY PacketsToSend
  <2> QED
    BY <2>1, <2>2, <1>1
<1>5. sent \in 0 .. left
  BY <1>4, PacketsToSend
<1>6. /\ P \in Seq(Packet) /\ Len(P) = sent
      /\ Chained(StageAt(tx, tx.pos), P,
                 IF sent = left THEN Idle ELSE StageAt(tx, PosAfter(tx, sent, size)))
      /\ \A k \in DOMAIN P : P[k].of = tx.of
      /\ \A k \in DOMAIN P : P[k].flag = "TAIL" <=> k = left
  <2>1. sent \in 0 .. PacketsLeft(tx, size) /\ size \in Nat
    BY <1>5
  <2>2. \A Q : Q = [k \in 1 .. sent |-> PacketAt(tx, k, size)] =>
          /\ Q \in Seq(Packet) /\ Len(Q) = sent
          /\ Chained(StageAt(tx, tx.pos), Q,
                     IF sent = PacketsLeft(tx, size) THEN Idle
                     ELSE StageAt(tx, PosAfter(tx, sent, size)))
          /\ \A k \in DOMAIN Q : Q[k].of = tx.of
          /\ \A k \in DOMAIN Q : Q[k].flag = "TAIL" <=> k = PacketsLeft(tx, size)
    BY <2>1, <1>3, PulseChained
  <2> QED
    BY <2>2, ZenonT(40)
<1> PICK pos : pos = PosAfter(tx, sent, size)
  OBVIOUS
<1>7. /\ tx.of \in Transfers /\ tx.pos \in Nat /\ SizeOf[tx.of] \in Nat \ {0}
      /\ pos \in 0 .. SizeOf[tx.of]
      /\ sent = 0 => pos = tx.pos
      /\ sent = left => pos = SizeOf[tx.of]
      /\ sent # 0 => pos > 0
  <2>1. /\ tx.of \in Transfers /\ tx.pos \in Nat /\ SizeOf[tx.of] \in Nat \ {0}
        /\ PosAfter(tx, 0, size) = tx.pos
        /\ \A k \in Nat : PosAfter(tx, k, size) \in 0 .. SizeOf[tx.of]
    BY <1>3, PosAfterRises
  <2>2. PosAfter(tx, left, size) = SizeOf[tx.of]
    BY <1>3, LastPacket
  <2>3. \A k \in 1 .. left : k < left => PosAfter(tx, k, size) > 0
    BY <1>3, PacketFollows
  <2>4. sent # 0 /\ sent # left => pos > 0
    <3>1. sent # 0 /\ sent # left => sent \in 1 .. left /\ sent < left
      BY <1>5, <1>4
    <3> QED
      BY <3>1, <2>3
  <2>5. sent \in Nat
    BY <1>5
  <2>6. pos \in 0 .. SizeOf[tx.of]
    BY <2>1, <2>5
  <2>7. sent = 0 => pos = tx.pos
    BY <2>1
  <2>8. sent = left => pos = SizeOf[tx.of]
    BY <2>2
  <2> QED
    BY <2>1, <2>4, <2>6, <2>7, <2>8
<1>8. new = [of |-> tx.of, uiId |-> tx.uiId, pos |-> pos,
             bSendStarted |-> tx.bSendStarted \/ sent > 0, bSendFinishing |-> sent = left]
  BY <1>3 DEF SentItem, SSendItem
<1>9. /\ new \in SSendItem /\ new.of = tx.of /\ new.uiId = tx.uiId /\ new.pos = pos
      /\ new.bSendFinishing <=> sent = left
      /\ new.bSendStarted <=> tx.bSendStarted \/ sent > 0
  <2>1. pos \in Nat /\ (tx.bSendStarted \/ sent > 0) \in BOOLEAN /\ (sent = left) \in BOOLEAN
    BY <1>3, <1>7 DEF SSendItem
  <2>2. tx.of \in Transfers /\ tx.uiId \in Nat
    BY <1>3 DEF SSendItem
  <2> PICK t : t = tx.of
    OBVIOUS
  <2> PICK i : i = tx.uiId
    OBVIOUS
  <2> PICK a \in BOOLEAN : a <=> tx.bSendStarted \/ sent > 0
    BY <2>1
  <2> PICK b \in BOOLEAN : b <=> sent = left
    BY <2>1
  <2>3. new = [of |-> t, uiId |-> i, pos |-> pos, bSendStarted |-> a, bSendFinishing |-> b]
    BY <1>8
  <2> QED
    BY <2>1, <2>2, <2>3 DEF SSendItem
<1>10. ItemOK(new)
  <2>1. new.pos <= SizeOf[new.of]
    BY <1>7, <1>9
  <2>2. new.bSendStarted <=> new.pos > 0
    <3>1. sent = 0 \/ sent > 0
      BY <1>5
    <3>2. CASE sent = 0
      BY <3>2, <1>3, <1>7, <1>9
    <3>3. CASE sent > 0
      BY <3>3, <1>7, <1>9
    <3> QED
      BY <3>1, <3>2, <3>3
  <2>3. new.bSendFinishing => new.pos = SizeOf[new.of]
    BY <1>7, <1>9
  <2> QED
    BY <2>1, <2>2, <2>3 DEF ItemOK
<1>11. /\ txQueue' \in Seq(SSendItem) /\ Len(txQueue') = Len(queue)
       /\ txQueue'[1] = new /\ \A i \in 2 .. Len(queue) : txQueue'[i] = queue[i]
  <2>1. 1 \in 1 .. Len(queue)
    BY <1>2
  <2>2. txQueue' \in [1 .. Len(queue) -> SSendItem]
    BY <1>1, <1>2, <1>9
  <2>3. txQueue' \in Seq(SSendItem) /\ Len(txQueue') = Len(queue)
    BY <2>2, <1>2
  <2>4. txQueue'[1] = new
    BY <2>1, <1>1, <1>2
  <2>5. \A i \in 2 .. Len(queue) : txQueue'[i] = queue[i]
    BY <1>1, <1>2
  <2> QED
    BY <2>3, <2>4, <2>5
<1>12. Sending(queue) = StageAt(tx, tx.pos)
  BY <1>2, <1>3 DEF Sending
<1>13. Sending(txQueue') = IF sent = left THEN Idle ELSE StageAt(tx, pos)
  <2> PICK q : q = txQueue'
    OBVIOUS
  <2>1. q # <<>> /\ Head(q) = new
    BY <1>2, <1>11, EmptySeq
  <2>2. StageAt(new, pos) = StageAt(tx, pos)
    BY <1>9 DEF StageAt
  <2> QED
    BY <2>1, <2>2, <1>9 DEF Sending
<1>14. \A k \in DOMAIN P : k = left <=> new.bSendFinishing /\ k = Len(P)
  <2>1. DOMAIN P = 1 .. sent
    BY <1>6, LenProperties
  <2> QED
    BY <2>1, <1>5, <1>6, <1>9, <1>4
<1>15. new.bSendFinishing => P # <<>>
  BY <1>4, <1>6, <1>9, EmptySeq
<1>16. Chained(Sending(queue), P, Sending(txQueue'))
  BY <1>6, <1>12, <1>13
<1>17. Sent(queue, P, new)
  BY <1>1, <1>2, <1>4, <1>6, <1>9, <1>10, <1>11, <1>14, <1>15, <1>16 DEF Sent
<1> QED
  BY <1>17

-----------------------------------------------------------------------------
(* The order in which transfers are pending.                               *)

\* The place of a transfer among all that is on its way or still to be sent.
Places(packets, queue, t) ==
    TailPlaces(packets, t) \cup {Len(packets) + k : k \in QueuePlaces(queue, t)}
Placed(packets, queue) ==
    \A t \in Transfers : \A a, b \in Places(packets, queue, t) : a = b
Before(packets, queue, x, y) ==
    \E a \in Places(packets, queue, x), b \in Places(packets, queue, y) : a < b

\* The sequence lists all transfers that have a place, in the order of their places.
Lists(packets, queue, r) ==
    /\ r \in Seq(Transfers)
    /\ \A t \in Transfers :
         (\E i \in DOMAIN r : r[i] = t) <=> Places(packets, queue, t) # {}
    /\ \A i, j \in DOMAIN r : i < j => Before(packets, queue, r[i], r[j])

\* Places are numbers.
LEMMA PlacesAreNumbers ==
    ASSUME NEW N \in Seq(Packet), NEW Q \in Seq(SSendItem)
    PROVE  /\ \A t : /\ TailPlaces(N, t) \subseteq 1 .. Len(N)
                     /\ QueuePlaces(Q, t) \subseteq 1 .. Len(Q)
                     /\ Places(N, Q, t) \subseteq 1 .. Len(N) + Len(Q)
                     /\ Places(N, Q, t) = {} <=> TailPlaces(N, t) = {} /\ QueuePlaces(Q, t) = {}
           /\ Len(N) \in Nat /\ Len(Q) \in Nat
<1>1. DOMAIN N = 1 .. Len(N) /\ DOMAIN Q = 1 .. Len(Q) /\ Len(N) \in Nat /\ Len(Q) \in Nat
  BY LenProperties
<1> SUFFICES ASSUME NEW t
             PROVE  /\ TailPlaces(N, t) \subseteq 1 .. Len(N)
                    /\ QueuePlaces(Q, t) \subseteq 1 .. Len(Q)
                    /\ Places(N, Q, t) \subseteq 1 .. Len(N) + Len(Q)
                    /\ Places(N, Q, t) = {} <=> TailPlaces(N, t) = {} /\ QueuePlaces(Q, t) = {}
  BY <1>1
<1>2. TailPlaces(N, t) \subseteq 1 .. Len(N) /\ QueuePlaces(Q, t) \subseteq 1 .. Len(Q)
  BY <1>1 DEF TailPlaces, QueuePlaces
<1>3. \A k \in 1 .. Len(N) : k \in 1 .. Len(N) + Len(Q)
  BY <1>1
<1>4. \A k \in 1 .. Len(Q) : Len(N) + k \in 1 .. Len(N) + Len(Q)
  BY <1>1
<1>5. Places(N, Q, t) \subseteq 1 .. Len(N) + Len(Q)
  BY <1>2, <1>3, <1>4 DEF Places
<1>6. Places(N, Q, t) = {} <=> TailPlaces(N, t) = {} /\ QueuePlaces(Q, t) = {}
  BY DEF Places
<1> QED
  BY <1>2, <1>5, <1>6

\* No transfer has two places.
LEMMA PlacedOnce ==
    ASSUME NEW N \in Seq(Packet), NEW Q \in Seq(SSendItem), QueueGood(Q),
           \A t \in Transfers : /\ TailPlaces(N, t) = {} \/ QueuePlaces(Q, t) = {}
                                /\ \A k, l \in TailPlaces(N, t) : k = l
    PROVE  Placed(N, Q)
<1> SUFFICES ASSUME NEW t \in Transfers, NEW a \in Places(N, Q, t), NEW b \in Places(N, Q, t)
             PROVE  a = b
  BY DEF Placed
<1>1. \A k, l \in QueuePlaces(Q, t) : k = l
  <2>1. \A k \in QueuePlaces(Q, t) : k \in DOMAIN Q /\ Q[k].of = t
    BY DEF QueuePlaces
  <2> QED
    BY <2>1 DEF QueueGood
<1> QED
  BY <1>1 DEF Places

\* There is only one such list.
LEMMA ListedOnce ==
    ASSUME NEW N \in Seq(Packet), NEW Q \in Seq(SSendItem), Placed(N, Q),
           NEW r, NEW s, Lists(N, Q, r), Lists(N, Q, s)
    PROVE  r = s
<1>1. /\ r \in Seq(Transfers) /\ s \in Seq(Transfers)
      /\ Len(r) \in Nat /\ DOMAIN r = 1 .. Len(r) /\ Len(s) \in Nat /\ DOMAIN s = 1 .. Len(s)
      /\ \A i \in DOMAIN r : r[i] \in Transfers
      /\ \A i \in DOMAIN s : s[i] \in Transfers
  BY LenProperties DEF Lists
<1>2. \A t \in Transfers : ~Before(N, Q, t, t)
  <2> SUFFICES ASSUME NEW t \in Transfers, NEW a \in Places(N, Q, t), NEW b \in Places(N, Q, t)
               PROVE  ~(a < b)
    BY DEF Before
  <2>1. a = b /\ a \in Int
    BY PlacesAreNumbers DEF Placed
  <2> QED
    BY <2>1
<1>3. \A t, u \in Transfers : ~(Before(N, Q, t, u) /\ Before(N, Q, u, t))
  <2> SUFFICES ASSUME NEW t \in Transfers, NEW u \in Transfers,
                      NEW a \in Places(N, Q, t), NEW b \in Places(N, Q, u), a < b,
                      NEW c \in Places(N, Q, u), NEW d \in Places(N, Q, t), c < d
               PROVE  FALSE
    BY DEF Before
  <2>1. a = d /\ b = c /\ a \in Int /\ b \in Int
    BY PlacesAreNumbers DEF Placed
  <2> QED
    BY <2>1
<1>4. /\ \A i, j \in DOMAIN r : i < j => Before(N, Q, r[i], r[j])
      /\ \A i, j \in DOMAIN s : i < j => Before(N, Q, s[i], s[j])
  BY DEF Lists
<1>5. /\ \A i \in DOMAIN r : \E j \in DOMAIN s : s[j] = r[i]
      /\ \A i \in DOMAIN s : \E j \in DOMAIN r : r[j] = s[i]
  BY <1>1 DEF Lists
<1>6. /\ \A i, j \in DOMAIN r : i < j => r[i] # r[j]
      /\ \A i, j \in DOMAIN s : i < j => s[i] # s[j]
  BY <1>1, <1>2, <1>4
<1> DEFINE Differ == {n \in Nat \ {0} : /\ n <= Len(r) \/ n <= Len(s)
                                        /\ ~(n <= Len(r) /\ n <= Len(s) /\ r[n] = s[n])}
<1>7. Differ = {}
  <2> SUFFICES ASSUME Differ # {} PROVE FALSE
    OBVIOUS
  <2>1. Differ \subseteq Nat
    OBVIOUS
  <2> PICK n \in Differ : \A k \in Differ : n <= k
    <3> HIDE DEF Differ
    <3> QED
      BY <2>1, LeastNumber
  <2>0. \A a, b \in Nat : a < b \/ a = b \/ b < a
    OBVIOUS
  <2>2. /\ n \in Nat \ {0} /\ (n <= Len(r) \/ n <= Len(s))
        /\ ~(n <= Len(r) /\ n <= Len(s) /\ r[n] = s[n])
    OBVIOUS
  <2>3. \A k \in Nat \ {0} : k < n => k \in DOMAIN r /\ k \in DOMAIN s /\ r[k] = s[k]
    <3> SUFFICES ASSUME NEW k \in Nat \ {0}, k < n
                 PROVE  k \in DOMAIN r /\ k \in DOMAIN s /\ r[k] = s[k]
      OBVIOUS
    <3>1. k \notin Differ /\ (k <= Len(r) \/ k <= Len(s))
      BY <2>2, <1>1
    <3> QED
      BY <3>1, <1>1
  <2> HIDE DEF Differ
  \* An element of one that the other has not before n comes later in it.
  <2>4. ASSUME n \in DOMAIN r PROVE \E m \in DOMAIN s : s[m] = r[n] /\ (m = n \/ n < m)
    <3> PICK m \in DOMAIN s : s[m] = r[n]
      BY <2>4, <1>5
    <3>1. m \in Nat \ {0}
      BY <1>1
    <3>2. ~(m < n)
      BY <3>1, <2>3, <2>4, <1>6
    <3>3. m = n \/ n < m
      BY <3>1, <3>2, <2>2, <2>0
    <3> QED
      BY <3>3
  <2>5. ASSUME n \in DOMAIN s PROVE \E m \in DOMAIN r : r[m] = s[n] /\ (m = n \/ n < m)
    <3> PICK m \in DOMAIN r : r[m] = s[n]
      BY <2>5, <1>5
    <3>1. m \in Nat \ {0}
      BY <1>1
    <3>2. ~(m < n)
      BY <3>1, <2>3, <2>5, <1>6
    <3>3. m = n \/ n < m
      BY <3>1, <3>2, <2>2, <2>0
    <3> QED
      BY <3>3
  <2>6. n \in DOMAIN r /\ n \in DOMAIN s /\ r[n] # s[n]
    <3>1. n \in DOMAIN r => n \in DOMAIN s
      <4> SUFFICES ASSUME n \in DOMAIN r PROVE n \in DOMAIN s
        OBVIOUS
      <4> PICK m \in DOMAIN s : m = n \/ n < m
        BY <2>4
      <4> QED
        BY <1>1, <2>2
    <3>2. n \in DOMAIN s => n \in DOMAIN r
      <4> SUFFICES ASSUME n \in DOMAIN s PROVE n \in DOMAIN r
        OBVIOUS
      <4> PICK m \in DOMAIN r : m = n \/ n < m
        BY <2>5
      <4> QED
        BY <1>1, <2>2
    <3>3. (n <= Len(r) => n \in DOMAIN r) /\ (n <= Len(s) => n \in DOMAIN s)
      BY <2>2, <1>1
    <3>4. n \in DOMAIN r /\ n \in DOMAIN s
      BY <3>1, <3>2, <3>3, <2>2
    <3> QED
      BY <3>4, <2>2, <1>1
  <2> PICK m \in DOMAIN s : s[m] = r[n] /\ n < m
    BY <2>4, <2>6
  <2> PICK l \in DOMAIN r : r[l] = s[n] /\ n < l
    BY <2>5, <2>6
  <2>7. Before(N, Q, s[n], r[n])
    <3>1. Before(N, Q, s[n], s[m])
      BY <2>6, <1>4
    <3> QED
      BY <3>1
  <2>8. Before(N, Q, r[n], s[n])
    <3>1. Before(N, Q, r[n], r[l])
      BY <2>6, <1>4
    <3> QED
      BY <3>1
  <2>9. r[n] \in Transfers /\ s[n] \in Transfers
    BY <2>6, <1>1
  <2> QED
    BY <2>7, <2>8, <2>9, <1>3
<1>8. \A n \in Nat \ {0} : (n <= Len(r) <=> n <= Len(s)) /\ (n <= Len(r) => r[n] = s[n])
  BY <1>7
<1>9. Len(r) = Len(s)
  <2> HIDE DEF Differ
  <2>1. Len(r) <= Len(s)
    <3>1. CASE Len(r) = 0
      BY <3>1, <1>1
    <3>2. CASE Len(r) # 0
      BY <3>2, <1>1, <1>8
    <3> QED
      BY <3>1, <3>2
  <2>2. Len(s) <= Len(r)
    <3>1. CASE Len(s) = 0
      BY <3>1, <1>1
    <3>2. CASE Len(s) # 0
      BY <3>2, <1>1, <1>8
    <3> QED
      BY <3>1, <3>2
  <2>3. \A a, b \in Nat : a <= b /\ b <= a => a = b
    OBVIOUS
  <2> QED
    BY <2>1, <2>2, <2>3, <1>1
<1>10. \A i \in 1 .. Len(r) : r[i] = s[i]
  BY <1>1, <1>8
<1> QED
  BY <1>1, <1>9, <1>10, SeqEqual

\* The elements of s at the places I, in their order: at says where they were.
Picks(s, I, r, at) ==
    /\ \A k \in 1 .. Len(r) : at[k] \in I /\ r[k] = s[at[k]]
    /\ \A k, l \in 1 .. Len(r) : k < l => at[k] < at[l]
    /\ \A i \in I : \E k \in 1 .. Len(r) : at[k] = i

\* Subsequence picks the elements at the places it is given.
LEMMA PickedAt ==
    ASSUME NEW S, NEW s \in Seq(S), NEW I, I \subseteq 1 .. Len(s),
           NEW r, r = Subsequence(s, I)
    PROVE  r \in Seq(S) /\ \E at : Picks(s, I, r, at)
<1>1. r \in Seq(S) /\ IsPicked(s, I, r)
  BY SubsequenceProperties
<1>2. Len(r) = Cardinality(I)
  BY <1>1 DEF IsPicked
<1> PICK at \in [1 .. Cardinality(I) -> I] :
      /\ \A n \in 1 .. Cardinality(I) : r[n] = s[at[n]]
      /\ \A k, n \in 1 .. Cardinality(I) : k < n => at[k] < at[n]
      /\ \A i \in I : \E n \in 1 .. Cardinality(I) : at[n] = i
  BY <1>1 DEF IsPicked
<1>3. Picks(s, I, r, at)
  BY <1>2 DEF Picks
<1> QED
  BY <1>1, <1>3

\* The transfers whose tails are on their way, and those in the queue, with places.
ListsTails(N, c, at) ==
    /\ \A k \in 1 .. Len(c) : at[k] \in TailPlaces(N, c[k])
    /\ \A k, l \in 1 .. Len(c) : k < l => at[k] < at[l]
    /\ \A t : \A i \in TailPlaces(N, t) : \E k \in 1 .. Len(c) : at[k] = i /\ c[k] = t
ListsQueue(Q, c, at) ==
    /\ \A k \in 1 .. Len(c) : at[k] \in QueuePlaces(Q, c[k])
    /\ \A k, l \in 1 .. Len(c) : k < l => at[k] < at[l]
    /\ \A t : \A i \in QueuePlaces(Q, t) : \E k \in 1 .. Len(c) : at[k] = i /\ c[k] = t

\* TailsOf lists the transfers whose tails are on their way.
LEMMA TailsListed ==
    ASSUME NEW N \in Seq(Packet), NEW c, c = Ofs(TailsOf(N))
    PROVE  c \in Seq(Transfers) /\ \E at : ListsTails(N, c, at)
<1> PICK I : I = {i \in DOMAIN N : N[i].flag = "TAIL"}
  OBVIOUS
<1> PICK a : a = Subsequence(N, I)
  OBVIOUS
<1>1. I \subseteq 1 .. Len(N)
  BY LenProperties
<1>2. a \in Seq(Packet) /\ \E at : Picks(N, I, a, at)
  BY <1>1, PickedAt
<1> PICK at : Picks(N, I, a, at)
  BY <1>2
<1>3. c = Ofs(a)
  BY DEF TailsOf
<1>4. c \in Seq(Transfers) /\ Len(c) = Len(a) /\ \A k \in 1 .. Len(a) : c[k] = a[k].of
  <2> PICK m : m = Len(a)
    OBVIOUS
  <2>1. m \in Nat /\ DOMAIN a = 1 .. m /\ \A k \in 1 .. m : a[k] \in Packet
    BY <1>2, LenProperties
  <2>2. \A k \in 1 .. m : a[k].of \in Transfers
    BY <2>1 DEF Packet
  <2>3. c = [k \in 1 .. m |-> a[k].of]
    BY <2>1, <1>3 DEF Ofs
  <2>4. c \in [1 .. m -> Transfers]
    BY <2>2, <2>3
  <2>5. c \in Seq(Transfers) /\ Len(c) = m
    BY ONLY <2>4, <2>1
  <2>6. \A k \in 1 .. m : c[k] = a[k].of
    BY <2>3
  <2> QED
    BY <2>5, <2>6
<1>5. \A k \in 1 .. Len(a) : at[k] \in I /\ a[k] = N[at[k]]
  BY DEF Picks
<1>6. ASSUME NEW k \in 1 .. Len(c) PROVE at[k] \in TailPlaces(N, c[k])
  BY <1>4, <1>5 DEF TailPlaces
<1>7. ASSUME NEW t, NEW i \in TailPlaces(N, t)
      PROVE  \E k \in 1 .. Len(c) : at[k] = i /\ c[k] = t
  <2>1. i \in I /\ N[i].of = t
    BY DEF TailPlaces
  <2> PICK k \in 1 .. Len(a) : at[k] = i
    BY <2>1 DEF Picks
  <2>2. k \in 1 .. Len(c) /\ c[k] = t
    BY <2>1, <1>4, <1>5
  <2> QED
    BY <2>2
<1>8. \A k, l \in 1 .. Len(c) : k < l => at[k] < at[l]
  BY <1>4 DEF Picks
<1>9. ListsTails(N, c, at)
  BY <1>6, <1>7, <1>8 DEF ListsTails
<1> QED
  BY <1>4, <1>9

\* Unfinished lists those whose tails are still to be sent.
LEMMA UnfinishedListed ==
    ASSUME NEW Q \in Seq(SSendItem), NEW c, c = Ofs(Unfinished(Q))
    PROVE  c \in Seq(Transfers) /\ \E at : ListsQueue(Q, c, at)
<1> PICK I : I = {i \in DOMAIN Q : ~Q[i].bSendFinishing}
  OBVIOUS
<1> PICK a : a = Subsequence(Q, I)
  OBVIOUS
<1>1. I \subseteq 1 .. Len(Q)
  BY LenProperties
<1>2. a \in Seq(SSendItem) /\ \E at : Picks(Q, I, a, at)
  BY <1>1, PickedAt
<1> PICK at : Picks(Q, I, a, at)
  BY <1>2
<1>3. c = Ofs(a)
  BY DEF Unfinished
<1>4. c \in Seq(Transfers) /\ Len(c) = Len(a) /\ \A k \in 1 .. Len(a) : c[k] = a[k].of
  <2> PICK m : m = Len(a)
    OBVIOUS
  <2>1. m \in Nat /\ DOMAIN a = 1 .. m /\ \A k \in 1 .. m : a[k] \in SSendItem
    BY <1>2, LenProperties
  <2>2. \A k \in 1 .. m : a[k].of \in Transfers
    BY <2>1 DEF SSendItem
  <2>3. c = [k \in 1 .. m |-> a[k].of]
    BY <2>1, <1>3 DEF Ofs
  <2>4. c \in [1 .. m -> Transfers]
    BY <2>2, <2>3
  <2>5. c \in Seq(Transfers) /\ Len(c) = m
    BY ONLY <2>4, <2>1
  <2>6. \A k \in 1 .. m : c[k] = a[k].of
    BY <2>3
  <2> QED
    BY <2>5, <2>6
<1>5. \A k \in 1 .. Len(a) : at[k] \in I /\ a[k] = Q[at[k]]
  BY DEF Picks
<1>6. ASSUME NEW k \in 1 .. Len(c) PROVE at[k] \in QueuePlaces(Q, c[k])
  BY <1>4, <1>5 DEF QueuePlaces
<1>7. ASSUME NEW t, NEW i \in QueuePlaces(Q, t)
      PROVE  \E k \in 1 .. Len(c) : at[k] = i /\ c[k] = t
  <2>1. i \in I /\ Q[i].of = t
    BY DEF QueuePlaces
  <2> PICK k \in 1 .. Len(a) : at[k] = i
    BY <2>1 DEF Picks
  <2>2. k \in 1 .. Len(c) /\ c[k] = t
    BY <2>1, <1>4, <1>5
  <2> QED
    BY <2>2
<1>8. \A k, l \in 1 .. Len(c) : k < l => at[k] < at[l]
  BY <1>4 DEF Picks
<1>9. ListsQueue(Q, c, at)
  BY <1>6, <1>7, <1>8 DEF ListsQueue
<1> QED
  BY <1>4, <1>9

\* PendingOf is that list.
LEMMA PendingLists ==
    ASSUME NEW N \in Seq(Packet), NEW Q \in Seq(SSendItem)
    PROVE  Lists(N, Q, PendingOf(N, Q))
<1> PICK c : c = Ofs(TailsOf(N))
  OBVIOUS
<1> PICK d : d = Ofs(Unfinished(Q))
  OBVIOUS
<1>a. c \in Seq(Transfers) /\ \E at : ListsTails(N, c, at)
  BY TailsListed
<1>b. d \in Seq(Transfers) /\ \E at : ListsQueue(Q, d, at)
  BY UnfinishedListed
<1> PICK at : ListsTails(N, c, at)
  BY <1>a
<1> PICK bt : ListsQueue(Q, d, bt)
  BY <1>b
<1> PICK r : r = PendingOf(N, Q)
  OBVIOUS
<1> PICK m : m = Len(c)
  OBVIOUS
<1> PICK n : n = Len(d)
  OBVIOUS
<1> PICK L : L = Len(N)
  OBVIOUS
<1>0. m \in Nat /\ n \in Nat /\ L \in Nat
  BY <1>a, <1>b, LenProperties
<1>1. /\ r \in Seq(Transfers) /\ DOMAIN r = 1 .. m + n
      /\ \A i \in 1 .. m + n : r[i] = IF i <= m THEN c[i] ELSE d[i - m]
  <2>1. r = c \o d
    BY DEF PendingOf
  <2>2. /\ r \in Seq(Transfers) /\ Len(r) = Len(c) + Len(d)
        /\ \A i \in 1 .. Len(c) + Len(d) : r[i] = IF i <= Len(c) THEN c[i] ELSE d[i - Len(c)]
    BY <2>1, <1>a, <1>b, ConcatProperties
  <2> QED
    BY <2>2, LenProperties
<1> DEFINE Pos(i) == IF i <= m THEN at[i] ELSE L + bt[i - m]
<1>2. ASSUME NEW i \in 1 .. m + n PROVE Pos(i) \in Places(N, Q, r[i])
  <2>1. CASE i <= m
    <3>1. i \in 1 .. m /\ r[i] = c[i]
      BY <2>1, <1>0, <1>1
    <3>2. at[i] \in TailPlaces(N, r[i])
      BY <3>1 DEF ListsTails
    <3> QED
      BY <2>1, <3>2 DEF Places
  <2>2. CASE ~(i <= m)
    <3>1. i - m \in 1 .. n /\ r[i] = d[i - m]
      <4>1. i - m \in 1 .. n
        BY <2>2, <1>0
      <4>2. r[i] = d[i - m]
        BY <2>2, <1>1
      <4> QED
        BY <4>1, <4>2
    <3>2. bt[i - m] \in QueuePlaces(Q, r[i])
      BY <3>1 DEF ListsQueue
    <3> QED
      BY <2>2, <3>2 DEF Places
  <2> QED
    BY <2>1, <2>2
<1>3. /\ \A k \in 1 .. m : at[k] \in 1 .. L
      /\ \A k \in 1 .. n : bt[k] \in Nat \ {0}
  <2>1. \A t : TailPlaces(N, t) \subseteq 1 .. L /\ QueuePlaces(Q, t) \subseteq 1 .. Len(Q)
    BY PlacesAreNumbers
  <2>2. Len(Q) \in Nat
    BY LenProperties
  <2>3. ASSUME NEW k \in 1 .. m PROVE at[k] \in 1 .. L
    <3>1. at[k] \in TailPlaces(N, c[k])
      BY DEF ListsTails
    <3> QED
      BY <3>1, <2>1
  <2>4. ASSUME NEW k \in 1 .. n PROVE bt[k] \in Nat \ {0}
    <3>1. bt[k] \in QueuePlaces(Q, d[k])
      BY DEF ListsQueue
    <3> QED
      BY <3>1, <2>1, <2>2
  <2> QED
    BY <2>3, <2>4
<1>4. ASSUME NEW i \in 1 .. m + n, NEW j \in 1 .. m + n, i < j PROVE Pos(i) < Pos(j)
  <2>1. CASE j <= m
    <3>1. i \in 1 .. m /\ j \in 1 .. m /\ i <= m
      BY <2>1, <1>0, <1>4
    <3> QED
      BY <2>1, <3>1, <1>4 DEF ListsTails
  <2>2. CASE i <= m /\ ~(j <= m)
    <3>1. i \in 1 .. m /\ j - m \in 1 .. n
      BY <2>2, <1>0
    <3>2. at[i] \in 1 .. L /\ bt[j - m] \in Nat \ {0}
      BY <3>1, <1>3
    <3>3. at[i] < L + bt[j - m]
      BY <3>2, <1>0
    <3> QED
      BY <2>2, <3>3
  <2>3. CASE ~(i <= m)
    <3>1. i - m \in 1 .. n /\ j - m \in 1 .. n /\ i - m < j - m /\ ~(j <= m)
      BY <2>3, <1>0, <1>4
    <3>2. bt[i - m] < bt[j - m]
      BY <3>1 DEF ListsQueue
    <3>3. bt[i - m] \in Nat /\ bt[j - m] \in Nat
      BY <3>1, <1>3
    <3>4. L + bt[i - m] < L + bt[j - m]
      BY <3>2, <3>3, <1>0
    <3> QED
      BY <2>3, <3>1, <3>4
  <2> QED
    BY <2>1, <2>2, <2>3, <1>0
<1> HIDE DEF Pos
<1>5. ASSUME NEW t \in Transfers, Places(N, Q, t) # {} PROVE \E i \in DOMAIN r : r[i] = t
  <2>1. CASE TailPlaces(N, t) # {}
    <3> PICK k \in 1 .. m : c[k] = t
      BY <2>1 DEF ListsTails
    <3>2. k \in 1 .. m + n /\ k <= m
      BY <1>0
    <3> QED
      BY <3>2, <1>1
  <2>2. CASE QueuePlaces(Q, t) # {}
    <3> PICK k \in 1 .. n : d[k] = t
      BY <2>2 DEF ListsQueue
    <3> PICK j : j = m + k
      OBVIOUS
    <3>2. j \in 1 .. m + n /\ ~(j <= m) /\ j - m = k
      BY <1>0
    <3> QED
      BY <3>2, <1>1
  <2> QED
    BY <2>1, <2>2, <1>5 DEF Places
<1>6. ASSUME NEW t \in Transfers, NEW i \in DOMAIN r, r[i] = t PROVE Places(N, Q, t) # {}
  BY <1>1, <1>2, <1>6
<1>7. ASSUME NEW i \in DOMAIN r, NEW j \in DOMAIN r, i < j PROVE Before(N, Q, r[i], r[j])
  <2>1. Pos(i) \in Places(N, Q, r[i]) /\ Pos(j) \in Places(N, Q, r[j]) /\ Pos(i) < Pos(j)
    BY <1>1, <1>2, <1>4, <1>7
  <2> QED
    BY <2>1 DEF Before
<1>8. Lists(N, Q, r)
  BY <1>1, <1>5, <1>6, <1>7 DEF Lists
<1> QED
  BY <1>8

\* If transfers keep their places in the same order, the same are pending.
LEMMA SamePending ==
    ASSUME NEW N \in Seq(Packet), NEW Q \in Seq(SSendItem),
           NEW N2 \in Seq(Packet), NEW Q2 \in Seq(SSendItem), Placed(N2, Q2),
           \A t \in Transfers : Places(N2, Q2, t) # {} <=> Places(N, Q, t) # {},
           \A x, y \in Transfers : Before(N, Q, x, y) => Before(N2, Q2, x, y)
    PROVE  PendingOf(N2, Q2) = PendingOf(N, Q)
<1> PICK r : r = PendingOf(N, Q)
  OBVIOUS
<1>1. Lists(N, Q, r)
  BY PendingLists
<1>2. \A i \in DOMAIN r : r[i] \in Transfers
  BY <1>1, LenProperties DEF Lists
<1>3. Lists(N2, Q2, r)
  BY <1>1, <1>2 DEF Lists
<1>4. Lists(N2, Q2, PendingOf(N2, Q2))
  BY PendingLists
<1> QED
  BY <1>3, <1>4, ListedOnce

\* One transfer is before another if its tail is, if its tail was sent and the other's
\* was not, or if it is first in the queue.
TailsBefore(N, x, y) == \E k \in TailPlaces(N, x), l \in TailPlaces(N, y) : k < l
QueueBefore(Q, x, y) == \E k \in QueuePlaces(Q, x), l \in QueuePlaces(Q, y) : k < l

\* These are the ways in which one transfer is before another.
LEMMA BeforeIs ==
    ASSUME NEW N \in Seq(Packet), NEW Q \in Seq(SSendItem), NEW x, NEW y
    PROVE  Before(N, Q, x, y) <=> \/ TailsBefore(N, x, y)
                                  \/ TailPlaces(N, x) # {} /\ QueuePlaces(Q, y) # {}
                                  \/ QueueBefore(Q, x, y)
<1> PICK L : L = Len(N)
  OBVIOUS
<1>1. /\ L \in Nat /\ Len(Q) \in Nat
      /\ \A t : TailPlaces(N, t) \subseteq 1 .. L /\ QueuePlaces(Q, t) \subseteq 1 .. Len(Q)
  BY PlacesAreNumbers
<1>2. \A t : /\ \A k \in TailPlaces(N, t) : k \in Nat /\ k <= L
             /\ \A k \in QueuePlaces(Q, t) : k \in Nat \ {0}
  BY <1>1
<1>3. \A t : /\ \A k \in TailPlaces(N, t) : k \in Places(N, Q, t)
             /\ \A k \in QueuePlaces(Q, t) : L + k \in Places(N, Q, t)
             /\ \A a \in Places(N, Q, t) :
                  a \in TailPlaces(N, t) \/ \E k \in QueuePlaces(Q, t) : a = L + k
  BY DEF Places
<1>4. ASSUME TailsBefore(N, x, y) PROVE Before(N, Q, x, y)
  BY <1>3, <1>4 DEF TailsBefore, Before
<1>5. ASSUME NEW k \in TailPlaces(N, x), NEW l \in QueuePlaces(Q, y) PROVE Before(N, Q, x, y)
  <2>1. k < L + l
    BY <1>1, <1>2
  <2> QED
    BY <2>1, <1>3 DEF Before
<1>6. ASSUME QueueBefore(Q, x, y) PROVE Before(N, Q, x, y)
  <2> PICK k \in QueuePlaces(Q, x), l \in QueuePlaces(Q, y) : k < l
    BY <1>6 DEF QueueBefore
  <2>1. L + k < L + l
    BY <1>1, <1>2
  <2> QED
    BY <2>1, <1>3 DEF Before
<1>7. ASSUME Before(N, Q, x, y)
      PROVE  \/ TailsBefore(N, x, y)
             \/ TailPlaces(N, x) # {} /\ QueuePlaces(Q, y) # {}
             \/ QueueBefore(Q, x, y)
  <2> PICK a \in Places(N, Q, x), b \in Places(N, Q, y) : a < b
    BY <1>7 DEF Before
  <2>1. CASE a \in TailPlaces(N, x) /\ b \in TailPlaces(N, y)
    BY <2>1 DEF TailsBefore
  <2>2. CASE a \in TailPlaces(N, x) /\ b \notin TailPlaces(N, y)
    BY <2>2, <1>3
  <2>3. CASE a \notin TailPlaces(N, x)
    <3> PICK k \in QueuePlaces(Q, x) : a = L + k
      BY <2>3, <1>3
    <3>1. CASE b \in TailPlaces(N, y)
      <4>1. b <= L /\ b \in Nat /\ k \in Nat
        BY <3>1, <1>2
      <4> QED
        BY <4>1, <1>1
    <3>2. CASE b \notin TailPlaces(N, y)
      <4> PICK l \in QueuePlaces(Q, y) : b = L + l
        BY <3>2, <1>3
      <4>1. k < l
        BY <1>1, <1>2
      <4> QED
        BY <4>1 DEF QueueBefore
    <3> QED
      BY <3>1, <3>2
  <2> QED
    BY <2>1, <2>2, <2>3
<1> QED
  BY <1>4, <1>5, <1>6, <1>7

\* What is queued comes last.
LEMMA AppendPending ==
    ASSUME NEW N \in Seq(Packet), NEW Q \in Seq(SSendItem), NEW new \in SSendItem,
           ~new.bSendFinishing, NEW R, R = Append(Q, new), Placed(N, R),
           Places(N, Q, new.of) = {}
    PROVE  PendingOf(N, R) = Append(PendingOf(N, Q), new.of)
<1> PICK t : t = new.of
  OBVIOUS
<1> PICK p : p = PendingOf(N, Q)
  OBVIOUS
<1> PICK s : s = Append(p, t)
  OBVIOUS
<1>0. t \in Transfers
  BY DEF SSendItem
<1>1. /\ R \in Seq(SSendItem) /\ Len(R) = Len(Q) + 1 /\ Len(Q) \in Nat
      /\ DOMAIN Q = 1 .. Len(Q) /\ DOMAIN R = 1 .. Len(Q) + 1
      /\ \A i \in 1 .. Len(Q) : R[i] = Q[i]
      /\ R[Len(Q) + 1] = new
  BY AppendProperties, LenProperties
<1>2. ASSUME NEW u
      PROVE  /\ QueuePlaces(Q, u) \subseteq QueuePlaces(R, u)
             /\ \A k \in QueuePlaces(R, u) : k \in QueuePlaces(Q, u) \/ u = t
  <2>1. \A i : i \in QueuePlaces(Q, u) => i \in QueuePlaces(R, u)
    BY <1>1 DEF QueuePlaces
  <2>2. \A i : i # Len(Q) + 1 /\ i \in QueuePlaces(R, u) => i \in QueuePlaces(Q, u)
    BY <1>1 DEF QueuePlaces
  <2>3. Len(Q) + 1 \in QueuePlaces(R, u) => u = t
    BY <1>1 DEF QueuePlaces
  <2> QED
    BY <2>1, <2>2, <2>3
<1>3. Len(Q) + 1 \in QueuePlaces(R, t)
  BY <1>1 DEF QueuePlaces
<1>4. \A u : /\ Places(N, Q, u) = {} <=> TailPlaces(N, u) = {} /\ QueuePlaces(Q, u) = {}
             /\ Places(N, R, u) = {} <=> TailPlaces(N, u) = {} /\ QueuePlaces(R, u) = {}
             /\ QueuePlaces(Q, u) \subseteq 1 .. Len(Q)
  BY <1>1, PlacesAreNumbers
<1>5. Lists(N, Q, p)
  BY PendingLists
<1>6. /\ p \in Seq(Transfers) /\ Len(p) \in Nat /\ DOMAIN p = 1 .. Len(p)
      /\ s \in Seq(Transfers) /\ DOMAIN s = 1 .. Len(p) + 1
      /\ \A i \in 1 .. Len(p) : s[i] = p[i]
      /\ s[Len(p) + 1] = t
  <2>1. p \in Seq(Transfers)
    BY <1>5 DEF Lists
  <2> QED
    BY <2>1, <1>0, AppendProperties, LenProperties
<1>7. ASSUME NEW u \in Transfers
      PROVE  (\E i \in DOMAIN s : s[i] = u) <=> Places(N, R, u) # {}
  <2>1. (\E i \in DOMAIN p : p[i] = u) <=> Places(N, Q, u) # {}
    BY <1>5 DEF Lists
  <2>2. (\E i \in DOMAIN s : s[i] = u) <=> u = t \/ \E i \in DOMAIN p : p[i] = u
    <3>1. \A i \in DOMAIN s : s[i] = t \/ (i \in DOMAIN p /\ p[i] = s[i])
      BY <1>6
    <3>2. \A i \in DOMAIN p : i \in DOMAIN s /\ s[i] = p[i]
      BY <1>6
    <3>3. Len(p) + 1 \in DOMAIN s
      BY <1>6
    <3> QED
      BY <3>1, <3>2, <3>3, <1>6
  <2>3. Places(N, R, u) # {} <=> u = t \/ Places(N, Q, u) # {}
    BY <1>2, <1>3, <1>4
  <2> QED
    BY <2>1, <2>2, <2>3
<1>8. ASSUME NEW i \in DOMAIN s, NEW j \in DOMAIN s, i < j PROVE Before(N, R, s[i], s[j])
  <2>1. i \in DOMAIN p /\ s[i] = p[i] /\ p[i] \in Transfers
    BY <1>6, <1>8, LenProperties
  <2>2. CASE j \in DOMAIN p
    <3>1. s[j] = p[j] /\ Before(N, Q, p[i], p[j])
      BY <2>1, <2>2, <1>5, <1>6, <1>8 DEF Lists
    <3>2. \A x, y : QueueBefore(Q, x, y) => QueueBefore(R, x, y)
      BY <1>2 DEF QueueBefore
    <3>3. \/ TailsBefore(N, p[i], p[j])
          \/ TailPlaces(N, p[i]) # {} /\ QueuePlaces(Q, p[j]) # {}
          \/ QueueBefore(Q, p[i], p[j])
      BY <3>1, BeforeIs
    <3>4. \/ TailsBefore(N, p[i], p[j])
          \/ TailPlaces(N, p[i]) # {} /\ QueuePlaces(R, p[j]) # {}
          \/ QueueBefore(R, p[i], p[j])
      BY <3>2, <3>3, <1>2
    <3> QED
      BY <3>1, <3>4, <2>1, <1>1, BeforeIs
  <2>3. CASE j \notin DOMAIN p
    <3>1. s[j] = t
      BY <2>3, <1>6
    <3>2. Places(N, Q, p[i]) # {}
      BY <2>1, <1>5 DEF Lists
    <3>3. CASE TailPlaces(N, p[i]) # {}
      <4>1. TailPlaces(N, p[i]) # {} /\ QueuePlaces(R, t) # {}
        BY <3>3, <1>3
      <4> QED
        BY <4>1, <3>1, <2>1, <1>1, BeforeIs
    <3>4. CASE QueuePlaces(Q, p[i]) # {}
      <4> PICK k \in QueuePlaces(Q, p[i]) : TRUE
        BY <3>4
      <4>1. k \in QueuePlaces(R, p[i]) /\ k < Len(Q) + 1
        BY <1>1, <1>2, <1>4
      <4>2. QueueBefore(R, p[i], t)
        BY <4>1, <1>3 DEF QueueBefore
      <4> QED
        BY <4>2, <3>1, <2>1, <1>1, BeforeIs
    <3> QED
      BY <3>2, <3>3, <3>4, <1>4
  <2> QED
    BY <2>2, <2>3
<1>9. Lists(N, R, s)
  BY <1>6, <1>7, <1>8 DEF Lists
<1>10. Lists(N, R, PendingOf(N, R))
  BY <1>1, PendingLists
<1> QED
  BY <1>1, <1>9, <1>10, ListedOnce

\* A packet is taken: if it is a tail, its transfer was the first and is not any more.
LEMMA TakenPending ==
    ASSUME NEW N \in Seq(Packet), NEW Q \in Seq(SSendItem), N # <<>>, Placed(N, Q),
           NEW M, M = Tail(N), Placed(M, Q)
    PROVE  IF Head(N).flag = "TAIL"
           THEN /\ PendingOf(N, Q) # <<>> /\ Head(PendingOf(N, Q)) = Head(N).of
                /\ PendingOf(M, Q) = Tail(PendingOf(N, Q))
           ELSE PendingOf(M, Q) = PendingOf(N, Q)
<1> PICK p : p = PendingOf(N, Q)
  OBVIOUS
<1> PICK L : L = Len(N)
  OBVIOUS
<1>1. /\ L \in Nat \ {0} /\ DOMAIN N = 1 .. L /\ Head(N) = N[1]
      /\ M \in Seq(Packet) /\ Len(M) = L - 1 /\ DOMAIN M = 1 .. L - 1
      /\ \A i \in 1 .. L - 1 : M[i] = N[i + 1]
  <2>1. M \in Seq(Packet) /\ Len(M) = L - 1 /\ \A i \in 1 .. Len(M) : M[i] = N[i + 1]
    BY HeadTailProperties
  <2> QED
    BY <2>1, LenProperties, EmptySeq
<1>2. ASSUME NEW t, NEW k \in TailPlaces(N, t), k # 1 PROVE k - 1 \in TailPlaces(M, t)
  <2>1. k \in 1 .. L /\ N[k].flag = "TAIL" /\ N[k].of = t
    BY <1>1 DEF TailPlaces
  <2>2. k - 1 \in 1 .. L - 1 /\ (k - 1) + 1 = k
    BY <2>1, <1>1, <1>2
  <2>3. M[k - 1] = N[k]
    BY <2>2, <1>1
  <2> QED
    BY <2>1, <2>2, <2>3, <1>1 DEF TailPlaces
<1>3. ASSUME NEW t, NEW i \in TailPlaces(M, t) PROVE i + 1 \in TailPlaces(N, t) /\ i + 1 # 1
  <2>1. i \in 1 .. L - 1 /\ M[i].flag = "TAIL" /\ M[i].of = t
    BY <1>1 DEF TailPlaces
  <2>2. i + 1 \in 1 .. L /\ i + 1 # 1 /\ M[i] = N[i + 1]
    BY <2>1, <1>1
  <2> QED
    BY <2>1, <2>2, <1>1 DEF TailPlaces
<1>4. \A t : 1 \in TailPlaces(N, t) <=> Head(N).flag = "TAIL" /\ Head(N).of = t
  BY <1>1 DEF TailPlaces
<1>5. \A t : /\ TailPlaces(N, t) \subseteq 1 .. L
             /\ Places(N, Q, t) = {} <=> TailPlaces(N, t) = {} /\ QueuePlaces(Q, t) = {}
             /\ Places(M, Q, t) = {} <=> TailPlaces(M, t) = {} /\ QueuePlaces(Q, t) = {}
  BY <1>1, PlacesAreNumbers
\* All but the head's transfer stay where they are to each other.
<1>6. ASSUME NEW x, NEW y, 1 \notin TailPlaces(N, x), 1 \notin TailPlaces(N, y),
             Before(N, Q, x, y)
      PROVE  Before(M, Q, x, y)
  <2>1. TailsBefore(N, x, y) => TailsBefore(M, x, y)
    <3> SUFFICES ASSUME NEW k \in TailPlaces(N, x), NEW l \in TailPlaces(N, y), k < l
                 PROVE  TailsBefore(M, x, y)
      BY DEF TailsBefore
    <3>1. k - 1 \in TailPlaces(M, x) /\ l - 1 \in TailPlaces(M, y)
      BY <1>2, <1>6
    <3>2. k - 1 < l - 1
      BY <1>5, <1>1
    <3> QED
      BY <3>1, <3>2 DEF TailsBefore
  <2>2. TailPlaces(N, x) # {} => TailPlaces(M, x) # {}
    BY <1>2, <1>6
  <2>3. \/ TailsBefore(N, x, y)
        \/ TailPlaces(N, x) # {} /\ QueuePlaces(Q, y) # {}
        \/ QueueBefore(Q, x, y)
    BY <1>6, BeforeIs
  <2>4. \/ TailsBefore(M, x, y)
        \/ TailPlaces(M, x) # {} /\ QueuePlaces(Q, y) # {}
        \/ QueueBefore(Q, x, y)
    BY <2>1, <2>2, <2>3
  <2> QED
    BY <2>4, <1>1, BeforeIs
<1>7. \A t \in Transfers : 1 \notin TailPlaces(N, t) =>
        (Places(M, Q, t) # {} <=> Places(N, Q, t) # {})
  BY <1>2, <1>3, <1>5
<1>8. CASE Head(N).flag # "TAIL"
  <2>1. \A t : 1 \notin TailPlaces(N, t)
    BY <1>4, <1>8
  <2>2. PendingOf(M, Q) = PendingOf(N, Q)
    <3>1. \A t \in Transfers : Places(M, Q, t) # {} <=> Places(N, Q, t) # {}
      BY <2>1, <1>7
    <3>2. \A x, y \in Transfers : Before(N, Q, x, y) => Before(M, Q, x, y)
      BY <2>1, <1>6
    <3> QED
      BY <3>1, <3>2, <1>1, SamePending
  <2> QED
    BY <2>2, <1>8
<1>9. CASE Head(N).flag = "TAIL"
  <2> PICK h : h = Head(N).of
    OBVIOUS
  <2>0. h \in Transfers
    <3>1. N[1] \in Packet
      BY <1>1, LenProperties
    <3> QED
      BY <3>1, <1>1 DEF Packet
  <2>1. 1 \in TailPlaces(N, h) /\ \A t : t # h => 1 \notin TailPlaces(N, t)
    BY <1>4, <1>9
  <2>2. 1 \in Places(N, Q, h) /\ \A a \in Places(N, Q, h) : a = 1
    <3>1. 1 \in Places(N, Q, h)
      BY <2>1 DEF Places
    <3> QED
      BY <3>1, <2>0 DEF Placed
  <2>3. Places(M, Q, h) = {}
    <3>1. TailPlaces(M, h) = {}
      <4> SUFFICES ASSUME NEW i \in TailPlaces(M, h) PROVE FALSE
        OBVIOUS
      <4>1. i + 1 \in TailPlaces(N, h) /\ i + 1 # 1
        BY <1>3
      <4>2. i + 1 \in Places(N, Q, h)
        BY <4>1 DEF Places
      <4> QED
        BY <4>1, <4>2, <2>2
    <3>2. QueuePlaces(Q, h) = {}
      <4> SUFFICES ASSUME NEW i \in QueuePlaces(Q, h) PROVE FALSE
        OBVIOUS
      <4>1. L + i \in Places(N, Q, h)
        BY DEF Places
      <4>2. i \in 1 .. Len(Q) /\ Len(Q) \in Nat
        BY PlacesAreNumbers
      <4> QED
        BY <4>1, <4>2, <2>2, <1>1
    <3> QED
      BY <3>1, <3>2, <1>5
  <2>4. Lists(N, Q, p)
    BY PendingLists
  <2>5. p \in Seq(Transfers) /\ DOMAIN p = 1 .. Len(p) /\ Len(p) \in Nat
        /\ \A i \in DOMAIN p : p[i] \in Transfers
    BY <2>4, LenProperties DEF Lists
  <2> PICK n \in DOMAIN p : p[n] = h
    BY <2>0, <2>2, <2>4 DEF Lists
  <2>6. n = 1
    <3> SUFFICES ASSUME n # 1 PROVE FALSE
      OBVIOUS
    <3>1. 1 \in DOMAIN p /\ 1 < n
      BY <2>5
    <3>2. Before(N, Q, p[1], h)
      BY <3>1, <2>4 DEF Lists
    <3> PICK a \in Places(N, Q, p[1]), b \in Places(N, Q, h) : a < b
      BY <3>2 DEF Before
    <3>3. b = 1 /\ a \in 1 .. L + Len(Q)
      BY <2>2, PlacesAreNumbers
    <3> QED
      BY <3>3
  <2> PICK s : s = Tail(p)
    OBVIOUS
  <2>7. p # <<>> /\ Head(p) = h
    <3>1. p # <<>>
      BY <2>5, EmptySeq
    <3>2. Head(p) = p[1]
      OBVIOUS
    <3> QED
      BY <3>1, <3>2, <2>6
  <2>8. /\ s \in Seq(Transfers) /\ DOMAIN s = 1 .. Len(p) - 1
        /\ \A i \in 1 .. Len(p) - 1 : s[i] = p[i + 1]
    <3>1. s \in Seq(Transfers) /\ Len(s) = Len(p) - 1 /\ \A i \in 1 .. Len(s) : s[i] = p[i + 1]
      BY <2>5, <2>7, HeadTailProperties
    <3> QED
      BY <3>1, LenProperties
  <2>9. \A i \in DOMAIN p : i # 1 => p[i] # h
    <3> SUFFICES ASSUME NEW i \in DOMAIN p, i # 1, p[i] = h PROVE FALSE
      OBVIOUS
    <3>1. 1 \in DOMAIN p /\ 1 < i
      BY <2>5
    <3>2. Before(N, Q, h, h)
      BY <3>1, <2>4, <2>6 DEF Lists
    <3> PICK a \in Places(N, Q, h), b \in Places(N, Q, h) : a < b
      BY <3>2 DEF Before
    <3>3. a = 1 /\ b = 1
      BY <2>2
    <3> QED
      BY <3>3
  <2>10. ASSUME NEW t \in Transfers
         PROVE  (\E i \in DOMAIN s : s[i] = t) <=> Places(M, Q, t) # {}
    <3>1. (\E i \in DOMAIN s : s[i] = t) <=> t # h /\ \E i \in DOMAIN p : p[i] = t
      <4>1. \A i \in DOMAIN s : i + 1 \in DOMAIN p /\ i + 1 # 1 /\ s[i] = p[i + 1]
        BY <2>5, <2>8
      <4>2. \A i \in DOMAIN p : i # 1 => i - 1 \in DOMAIN s /\ s[i - 1] = p[i]
        <5> SUFFICES ASSUME NEW i \in DOMAIN p, i # 1
                     PROVE  i - 1 \in DOMAIN s /\ s[i - 1] = p[i]
          OBVIOUS
        <5>1. i - 1 \in 1 .. Len(p) - 1 /\ (i - 1) + 1 = i
          BY <2>5
        <5> QED
          BY <5>1, <2>8
      <4>3. ASSUME NEW i \in DOMAIN s, s[i] = t
            PROVE  t # h /\ \E k \in DOMAIN p : p[k] = t
        <5>1. i + 1 \in DOMAIN p /\ i + 1 # 1 /\ p[i + 1] = t
          BY <4>1, <4>3
        <5> QED
          BY <5>1, <2>9
      <4>4. ASSUME t # h, NEW i \in DOMAIN p, p[i] = t PROVE \E k \in DOMAIN s : s[k] = t
        <5>1. i # 1
          BY <4>4, <2>6
        <5>2. i - 1 \in DOMAIN s /\ s[i - 1] = t
          BY <5>1, <4>2, <4>4
        <5> QED
          BY <5>2
      <4> QED
        BY <4>3, <4>4
    <3>2. (\E i \in DOMAIN p : p[i] = t) <=> Places(N, Q, t) # {}
      BY <2>4 DEF Lists
    <3>3. t # h => (Places(M, Q, t) # {} <=> Places(N, Q, t) # {})
      BY <2>1, <1>7
    <3> QED
      BY <3>1, <3>2, <3>3, <2>3
  <2>11. ASSUME NEW i \in DOMAIN s, NEW j \in DOMAIN s, i < j PROVE Before(M, Q, s[i], s[j])
    <3>1. /\ i + 1 \in DOMAIN p /\ j + 1 \in DOMAIN p /\ i + 1 < j + 1
          /\ i + 1 # 1 /\ j + 1 # 1 /\ s[i] = p[i + 1] /\ s[j] = p[j + 1]
      BY <2>5, <2>8, <2>11
    <3>2. Before(N, Q, s[i], s[j])
      BY <3>1, <2>4 DEF Lists
    <3>3. s[i] # h /\ s[j] # h
      BY <3>1, <2>9
    <3> QED
      BY <3>2, <3>3, <2>1, <1>6
  <2>12. Lists(M, Q, s)
    BY <2>8, <2>10, <2>11 DEF Lists
  <2>13. Lists(M, Q, PendingOf(M, Q))
    BY <1>1, PendingLists
  <2>14. s = PendingOf(M, Q)
    BY <2>12, <2>13, <1>1, ListedOnce
  <2> QED
    BY <2>7, <2>14, <1>9
<1> QED
  BY <1>8, <1>9

\* The elements of s that are not in gone are where they were, to each other.
Staying(s, gone) == {i \in DOMAIN s : s[i] \notin gone}

\* Without keeps those that are not in gone.
LEMMA WithoutPicks ==
    ASSUME NEW S, NEW s \in Seq(S), NEW gone, NEW w, w = Without(s, gone)
    PROVE  w \in Seq(S) /\ \E at : Picks(s, Staying(s, gone), w, at)
<1> PICK I : I = Staying(s, gone)
  OBVIOUS
<1>1. I \subseteq 1 .. Len(s) /\ w = Subsequence(s, I)
  BY LenProperties DEF Without, Staying
<1> QED
  BY <1>1, PickedAt

\* If only the transfers of S lose their places, only they are not pending any more.
Dropped(N, Q, S, N2, Q2) ==
    /\ \A t \in Transfers : Places(N2, Q2, t) # {} <=> t \notin S /\ Places(N, Q, t) # {}
    /\ \A x, y \in Transfers :
         x \notin S /\ y \notin S /\ Before(N, Q, x, y) => Before(N2, Q2, x, y)

\* Then what is pending is what was, without them.
LEMMA KeptPending ==
    ASSUME NEW N \in Seq(Packet), NEW Q \in Seq(SSendItem), NEW S,
           NEW N2 \in Seq(Packet), NEW Q2 \in Seq(SSendItem), Placed(N2, Q2),
           Dropped(N, Q, S, N2, Q2)
    PROVE  PendingOf(N2, Q2) = Without(PendingOf(N, Q), S)
<1> PICK p : p = PendingOf(N, Q)
  OBVIOUS
<1> PICK w : w = Without(p, S)
  OBVIOUS
<1>1. Lists(N, Q, p)
  BY PendingLists
<1>2. p \in Seq(Transfers) /\ \A i \in DOMAIN p : p[i] \in Transfers
  BY <1>1, LenProperties DEF Lists
<1>3. w \in Seq(Transfers) /\ \E at : Picks(p, Staying(p, S), w, at)
  BY <1>2, WithoutPicks
<1> PICK at : Picks(p, Staying(p, S), w, at)
  BY <1>3
<1>4. DOMAIN w = 1 .. Len(w)
  BY <1>3, LenProperties
<1>5. /\ \A k \in DOMAIN w : at[k] \in DOMAIN p /\ p[at[k]] \notin S /\ w[k] = p[at[k]]
      /\ \A k, l \in DOMAIN w : k < l => at[k] < at[l]
      /\ \A i \in DOMAIN p : p[i] \notin S => \E k \in DOMAIN w : at[k] = i
  BY <1>4 DEF Picks, Staying
<1>6. ASSUME NEW t \in Transfers
      PROVE  (\E k \in DOMAIN w : w[k] = t) <=> Places(N2, Q2, t) # {}
  <2>1. (\E i \in DOMAIN p : p[i] = t) <=> Places(N, Q, t) # {}
    BY <1>1 DEF Lists
  <2>2. ASSUME NEW k \in DOMAIN w, w[k] = t
        PROVE  t \notin S /\ \E i \in DOMAIN p : p[i] = t
    BY <2>2, <1>5
  <2>3. ASSUME t \notin S, NEW i \in DOMAIN p, p[i] = t PROVE \E k \in DOMAIN w : w[k] = t
    <3> PICK k \in DOMAIN w : at[k] = i
      BY <2>3, <1>5
    <3>1. w[k] = t
      BY <2>3, <1>5
    <3> QED
      BY <3>1
  <2> QED
    BY <2>1, <2>2, <2>3 DEF Dropped
<1>7. ASSUME NEW k \in DOMAIN w, NEW l \in DOMAIN w, k < l PROVE Before(N2, Q2, w[k], w[l])
  <2>1. at[k] \in DOMAIN p /\ at[l] \in DOMAIN p /\ at[k] < at[l]
        /\ w[k] = p[at[k]] /\ w[l] = p[at[l]] /\ w[k] \notin S /\ w[l] \notin S
    BY <1>5, <1>7
  <2>2. Before(N, Q, w[k], w[l]) /\ w[k] \in Transfers /\ w[l] \in Transfers
    BY <2>1, <1>1, <1>2 DEF Lists
  <2> QED
    BY <2>1, <2>2 DEF Dropped
<1>8. Lists(N2, Q2, w)
  BY <1>3, <1>6, <1>7 DEF Lists
<1>9. Lists(N2, Q2, PendingOf(N2, Q2))
  BY PendingLists
<1> QED
  BY <1>8, <1>9, ListedOnce

\* What is in the queue of a connected remote or on its way has one place.
LEMMA PlacedWhenJoined ==
    ASSUME IInv, joined
    PROVE  Placed(net, txQueue)
<1>1. net \in Seq(Packet) /\ txQueue \in Seq(SSendItem) /\ QueueGood(txQueue)
  BY DEF IInv, TypeOK, QueueOK
<1>2. \A t \in Transfers : /\ TailPlaces(net, t) = {} \/ QueuePlaces(txQueue, t) = {}
                           /\ \A k, l \in TailPlaces(net, t) : k = l
  BY DEF IInv, PendingOK
<1> QED
  BY <1>1, <1>2, PlacedOnce

-----------------------------------------------------------------------------
(* The pulse.                                                              *)

\* The queue without the item that was completed: its transfer no longer waits.
LEMMA LeftOfQueue ==
    ASSUME TypeOK, QueueOK
    PROVE  /\ QueueLeft \in Seq(SSendItem) /\ QueueGood(QueueLeft)
           /\ QueueLeft # <<>> => ~QueueLeft[1].bSendFinishing
           /\ Sending(QueueLeft) = Sending(txQueue)
           /\ \A i \in DOMAIN QueueLeft : \E k \in DOMAIN txQueue : txQueue[k] = QueueLeft[i]
           /\ \A t : QueuePlaces(QueueLeft, t) # {} <=> QueuePlaces(txQueue, t) # {}
           /\ \A x, y : QueueBefore(txQueue, x, y) => QueueBefore(QueueLeft, x, y)
           /\ RateLeft \in Nat
           /\ RateOK => Max({MIN_SEND_RATE, RateLeft}) = Highest(QueueLeft)
<1> PICK q : q = txQueue
  OBVIOUS
<1> PICK r : r = QueueLeft
  OBVIOUS
<1>0. q \in Seq(SSendItem) /\ QueueGood(q) /\ uiCurrentRate \in Nat
  BY DEF TypeOK, QueueOK
<1>1. /\ Len(q) \in Nat /\ DOMAIN q = 1 .. Len(q) /\ (q = <<>> <=> Len(q) = 0)
      /\ \A i \in 1 .. Len(q) : q[i] \in SSendItem
  BY <1>0, LenProperties, EmptySeq
<1>2. CASE ~Completed
  <2>1. r = q /\ RateLeft = uiCurrentRate
    BY <1>2 DEF QueueLeft, RateLeft
  <2>2. q # <<>> => ~q[1].bSendFinishing
    <3> SUFFICES ASSUME q # <<>>, q[1].bSendFinishing PROVE FALSE
      OBVIOUS
    <3>1. Head(q) = q[1] /\ 1 \in DOMAIN q
      BY <1>1
    <3>2. q[1].pos = SizeOf[q[1].of]
      BY <3>1, <1>0 DEF QueueGood, ItemOK
    <3> QED
      BY <3>1, <3>2, <1>2 DEF Completed
  <2>3. RateOK => Max({MIN_SEND_RATE, RateLeft}) = Highest(r)
    BY <2>1 DEF RateOK
  <2> QED
    BY <2>1, <2>2, <2>3, <1>0
<1>3. CASE Completed
  <2>1. r = Tail(q) /\ RateLeft = Highest(r) /\ q # <<>> /\ Head(q).bSendFinishing
        /\ Head(q) = q[1]
    BY <1>3 DEF QueueLeft, RateLeft, Completed
  <2>2. /\ r \in Seq(SSendItem) /\ Len(r) = Len(q) - 1 /\ DOMAIN r = 1 .. Len(r)
        /\ \A i \in 1 .. Len(r) : r[i] = q[i + 1]
        /\ (r = <<>> <=> Len(r) = 0)
    <3>1. /\ r \in Seq(SSendItem) /\ Len(r) = Len(q) - 1
          /\ \A i \in 1 .. Len(r) : r[i] = q[i + 1]
      BY <2>1, <1>0, HeadTailProperties
    <3> QED
      BY <3>1, LenProperties, EmptySeq
  <2>3. \A i \in DOMAIN r : i + 1 \in DOMAIN q /\ i + 1 # 1 /\ r[i] = q[i + 1]
    BY <2>2, <1>1
  <2>4. \A i \in DOMAIN r : r[i].pos = 0 /\ ItemOK(r[i])
    BY <2>3, <1>0 DEF QueueGood
  <2>5. \A i \in DOMAIN r : ~r[i].bSendFinishing
    <3> SUFFICES ASSUME NEW i \in DOMAIN r, r[i].bSendFinishing PROVE FALSE
      OBVIOUS
    <3>1. r[i] \in SSendItem
      BY <2>3, <1>1
    <3>2. SizeOf[r[i].of] \in Nat \ {0}
      BY <3>1, Sizes DEF SSendItem
    <3> QED
      BY <3>2, <2>4 DEF ItemOK
  <2>6. \A i, k \in DOMAIN r : r[i].of = r[k].of => i = k
    <3> SUFFICES ASSUME NEW i \in DOMAIN r, NEW k \in DOMAIN r, r[i].of = r[k].of PROVE i = k
      OBVIOUS
    <3>1. i + 1 = k + 1
      BY <2>3, <1>0 DEF QueueGood
    <3> QED
      BY <3>1, <2>2, <1>1
  <2>7. QueueGood(r)
    BY <2>4, <2>6 DEF QueueGood
  <2>8. Sending(q) = Idle /\ Sending(r) = Idle
    <3>1. Sending(q) = Idle
      BY <2>1 DEF Sending
    <3>2. CASE r = <<>>
      BY <3>1, <3>2 DEF Sending
    <3>3. CASE r # <<>>
      <4>1. Head(r) = r[1] /\ 1 \in DOMAIN r
        BY <3>3, <2>2, <1>1
      <4>2. Head(r).pos = 0
        BY <4>1, <2>4
      <4> QED
        BY <4>2, <3>1 DEF Sending, StageAt
    <3> QED
      BY <3>2, <3>3
  <2>9. ASSUME NEW t
        PROVE  /\ \A i \in QueuePlaces(r, t) : i + 1 \in QueuePlaces(q, t)
               /\ \A i \in QueuePlaces(q, t) : i - 1 \in QueuePlaces(r, t) /\ i \in Nat
    <3>1. ASSUME NEW i \in QueuePlaces(r, t) PROVE i + 1 \in QueuePlaces(q, t)
      BY <2>3 DEF QueuePlaces
    <3>2. ASSUME NEW i \in QueuePlaces(q, t) PROVE i - 1 \in QueuePlaces(r, t) /\ i \in Nat
      <4>1. i \in 1 .. Len(q) /\ i # 1
        BY <1>1, <2>1 DEF QueuePlaces
      <4>2. i - 1 \in DOMAIN r /\ r[i - 1] = q[i]
        <5>1. i - 1 \in 1 .. Len(r) /\ (i - 1) + 1 = i
          BY <4>1, <2>2, <1>1
        <5> QED
          BY <5>1, <2>2
      <4> QED
        BY <4>1, <4>2 DEF QueuePlaces
    <3> QED
      BY <3>1, <3>2
  <2>14. ASSUME NEW t PROVE QueuePlaces(r, t) # {} <=> QueuePlaces(q, t) # {}
    BY <2>9
  <2>15. ASSUME NEW x, NEW y, QueueBefore(q, x, y) PROVE QueueBefore(r, x, y)
    <3> PICK k \in QueuePlaces(q, x), l \in QueuePlaces(q, y) : k < l
      BY <2>15 DEF QueueBefore
    <3>1. k - 1 \in QueuePlaces(r, x) /\ l - 1 \in QueuePlaces(r, y) /\ k - 1 < l - 1
      BY <2>9
    <3> QED
      BY <3>1 DEF QueueBefore
  <2>10. Highest(r) \in Nat /\ Highest(r) >= MIN_SEND_RATE
    BY <2>2, HighestIs
  <2>11. Max({MIN_SEND_RATE, Highest(r)}) = Highest(r)
    BY <2>10, MaxOfTwo, Sizes
  <2>12. r # <<>> => ~r[1].bSendFinishing
    <3>1. r # <<>> => 1 \in DOMAIN r
      BY <2>2, <1>1
    <3> QED
      BY <3>1, <2>5
  <2>13. \A i \in DOMAIN r : \E k \in DOMAIN q : q[k] = r[i]
    BY <2>3
  <2> QED
    BY <2>1, <2>2, <2>7, <2>8, <2>10, <2>11, <2>12, <2>13, <2>14, <2>15
<1> QED
  BY <1>2, <1>3

\* A pulse with packets to send.
LEMMA SendingPulse ==
    ASSUME IInv, NEW queue \in Seq(SSendItem), queue # <<>>, QueueGood(queue),
           ~queue[1].bSendFinishing, Sending(queue) = Sending(txQueue),
           \A i \in DOMAIN queue : \E k \in DOMAIN txQueue : txQueue[k] = queue[i],
           \A t : QueuePlaces(queue, t) # {} <=> QueuePlaces(txQueue, t) # {},
           \A x, y : QueueBefore(txQueue, x, y) => QueueBefore(queue, x, y),
           uiCurrentRate' = Highest(queue),
           NEW P, NEW new, Sent(queue, P, new),
           UNCHANGED <<joined, receiveVars, fate>>
    PROVE  /\ txQueue' \in Seq(SSendItem) /\ net' \in Seq(Packet)
           /\ uiCurrentRate' \in Nat /\ iBytesOwing' \in Nat
           /\ QueueOK' /\ RateOK' /\ PendingOK' /\ ChannelOK'
           /\ PendingOf(net', txQueue') = PendingOf(net, txQueue)
<1> PICK q : q = txQueue'
  OBVIOUS
<1> PICK N : N = net'
  OBVIOUS
<1>1. /\ P \in Seq(Packet) /\ new \in SSendItem /\ new.of = queue[1].of /\ ItemOK(new)
      /\ N = net \o P
      /\ q \in Seq(SSendItem) /\ Len(q) = Len(queue)
      /\ q[1] = new /\ \A i \in 2 .. Len(queue) : q[i] = queue[i]
      /\ Chained(Sending(queue), P, Sending(q))
      /\ \A k \in DOMAIN P : P[k].flag = "TAIL" <=> new.bSendFinishing /\ k = Len(P)
      /\ \A k \in DOMAIN P : P[k].of = new.of
      /\ new.bSendFinishing => P # <<>>
      /\ iBytesOwing' \in Nat
  BY DEF Sent
<1>2. net \in Seq(Packet) /\ txQueue \in Seq(SSendItem)
  BY DEF IInv, TypeOK
<1>3. /\ DOMAIN q = 1 .. Len(q) /\ DOMAIN queue = 1 .. Len(q) /\ Len(q) \in Nat \ {0}
      /\ \A i \in 1 .. Len(q) : queue[i] \in SSendItem
  BY <1>1, LenProperties, EmptySeq
<1>4. /\ Len(net) \in Nat /\ DOMAIN net = 1 .. Len(net)
      /\ Len(P) \in Nat /\ DOMAIN P = 1 .. Len(P) /\ (P = <<>> <=> Len(P) = 0)
      /\ N \in Seq(Packet) /\ DOMAIN N = 1 .. Len(net) + Len(P)
      /\ \A k \in 1 .. Len(net) + Len(P) :
           N[k] = IF k <= Len(net) THEN net[k] ELSE P[k - Len(net)]
  <2>1. /\ N \in Seq(Packet) /\ Len(N) = Len(net) + Len(P)
        /\ \A k \in 1 .. Len(net) + Len(P) :
             N[k] = IF k <= Len(net) THEN net[k] ELSE P[k - Len(net)]
    BY <1>1, <1>2, ConcatProperties
  <2> QED
    BY <2>1, <1>1, <1>2, LenProperties, EmptySeq
<1>5. \A i \in DOMAIN q : q[i].of = queue[i].of /\ (i # 1 => q[i] = queue[i])
  BY <1>1, <1>3
<1>6. QueueGood(q)
  <2>1. ASSUME NEW i \in DOMAIN q PROVE ItemOK(q[i]) /\ (i # 1 => q[i].pos = 0)
    <3>1. i \in DOMAIN queue
      BY <1>3
    <3> QED
      BY <3>1, <1>1, <1>5 DEF QueueGood
  <2>2. ASSUME NEW i \in DOMAIN q, NEW k \in DOMAIN q, q[i].of = q[k].of PROVE i = k
    <3>1. i \in DOMAIN queue /\ k \in DOMAIN queue /\ queue[i].of = queue[k].of
      BY <1>3, <1>5, <2>2
    <3> QED
      BY <3>1 DEF QueueGood
  <2> QED
    BY <2>1, <2>2 DEF QueueGood
<1>7. Highest(q) = Highest(queue) /\ Highest(q) \in Nat /\ Highest(q) >= MIN_SEND_RATE
  <2>1. \A i \in DOMAIN q : \E k \in DOMAIN queue : queue[k].of = q[i].of
    BY <1>3, <1>5
  <2>2. \A i \in DOMAIN queue : \E k \in DOMAIN q : q[k].of = queue[i].of
    BY <1>3, <1>5
  <2>3. Highest(q) = Highest(queue)
    BY <2>1, <2>2, HighestSame
  <2> QED
    BY <2>3, <1>1, HighestIs
<1>8. RateOK'
  <2>1. Max({MIN_SEND_RATE, Highest(q)}) = Highest(q)
    BY <1>7, MaxOfTwo, Sizes
  <2>2. uiCurrentRate' = Highest(q)
    BY <1>7
  <2> QED
    BY <2>1, <2>2 DEF RateOK
<1>9. ASSUME NEW t
      PROVE  /\ new.bSendFinishing /\ t = new.of => Len(net) + Len(P) \in TailPlaces(N, t)
             /\ TailPlaces(N, t) # {} <=>
                  TailPlaces(net, t) # {} \/ (new.bSendFinishing /\ t = new.of)
             /\ TailPlaces(net, t) \subseteq TailPlaces(N, t)
             /\ ~(new.bSendFinishing /\ t = new.of) => TailPlaces(N, t) = TailPlaces(net, t)
             /\ TailPlaces(net, t) = {} => \A k, l \in TailPlaces(N, t) : k = l
  <2>1. ASSUME NEW k \in TailPlaces(N, t), k \notin TailPlaces(net, t)
        PROVE  new.bSendFinishing /\ t = new.of /\ k = Len(net) + Len(P)
    <3>1. k \in 1 .. Len(net) + Len(P) /\ N[k].flag = "TAIL" /\ N[k].of = t
      BY <1>4 DEF TailPlaces
    <3>2. ~(k <= Len(net))
      BY <3>1, <1>4, <2>1 DEF TailPlaces
    <3> PICK j : j = k - Len(net)
      OBVIOUS
    <3>3. j \in DOMAIN P /\ N[k] = P[j] /\ k = Len(net) + j
      BY <3>1, <3>2, <1>4
    <3> QED
      BY <3>1, <3>3, <1>1
  <2>2. TailPlaces(net, t) \subseteq TailPlaces(N, t)
    BY <1>4 DEF TailPlaces
  <2>3. ASSUME new.bSendFinishing, t = new.of PROVE Len(net) + Len(P) \in TailPlaces(N, t)
    <3>1. Len(P) \in DOMAIN P /\ P[Len(P)].flag = "TAIL" /\ P[Len(P)].of = t
      BY <2>3, <1>1, <1>4
    <3>2. Len(net) + Len(P) \in 1 .. Len(net) + Len(P) /\ ~(Len(net) + Len(P) <= Len(net))
          /\ Len(net) + Len(P) - Len(net) = Len(P)
      BY <3>1, <1>4
    <3>3. N[Len(net) + Len(P)] = P[Len(P)]
      BY <3>2, <1>4
    <3> QED
      BY <3>1, <3>2, <3>3, <1>4 DEF TailPlaces
  <2> QED
    BY <2>1, <2>2, <2>3
<1>10. ASSUME NEW t
       PROVE  /\ QueuePlaces(q, t) # {} <=>
                   QueuePlaces(queue, t) # {} /\ ~(new.bSendFinishing /\ t = new.of)
              /\ 1 \in QueuePlaces(queue, t) <=> t = new.of
              /\ 1 \in QueuePlaces(q, t) <=> t = new.of /\ ~new.bSendFinishing
              /\ \A i : i # 1 => (i \in QueuePlaces(q, t) <=> i \in QueuePlaces(queue, t))
              /\ \A i \in QueuePlaces(queue, t) : i \in Nat \ {0}
  <2>1. 1 \in DOMAIN q /\ 1 \in DOMAIN queue
    BY <1>3
  <2>2. 1 \in QueuePlaces(queue, t) <=> t = new.of
    BY <2>1, <1>1 DEF QueuePlaces
  <2>3. 1 \in QueuePlaces(q, t) <=> t = new.of /\ ~new.bSendFinishing
    BY <2>1, <1>1 DEF QueuePlaces
  <2>4. \A i : i # 1 => (i \in QueuePlaces(q, t) <=> i \in QueuePlaces(queue, t))
    BY <1>3, <1>5 DEF QueuePlaces
  <2>5. \A i \in QueuePlaces(queue, t) : t = new.of => i = 1
    <3>1. \A i \in QueuePlaces(queue, t) : i \in DOMAIN queue /\ queue[i].of = t
      BY DEF QueuePlaces
    <3> QED
      BY <3>1, <2>1, <1>1 DEF QueueGood
  <2>6. \A i \in QueuePlaces(queue, t) : i \in Nat \ {0}
    BY <1>3 DEF QueuePlaces
  <2> QED
    BY <2>2, <2>3, <2>4, <2>5, <2>6
<1>11. PendingOK'
  <2>1. \A i \in DOMAIN q : fate'[q[i].of] # "unsent"
    <3> SUFFICES ASSUME NEW i \in DOMAIN q PROVE fate[q[i].of] # "unsent"
      OBVIOUS
    <3>1. i \in DOMAIN queue /\ q[i].of = queue[i].of
      BY <1>3, <1>5
    <3> PICK k \in DOMAIN txQueue : txQueue[k] = queue[i]
      BY <3>1
    <3> QED
      BY <3>1 DEF IInv, PendingOK
  <2>2. new.of \in Transfers /\ QueuePlaces(queue, new.of) # {}
    <3>1. 1 \in QueuePlaces(queue, new.of)
      BY <1>1, <1>3 DEF QueuePlaces
    <3> QED
      BY <3>1, <1>1 DEF SSendItem
  <2>3. txQueue # <<>>
    <3>1. 1 \in DOMAIN queue
      BY <1>3
    <3> PICK k \in DOMAIN txQueue : txQueue[k] = queue[1]
      BY <3>1
    <3> QED
      BY <1>2, EmptySeq
  <2>4. joined
    BY <2>3 DEF IInv, PendingOK
  <2>5. ASSUME NEW t \in Transfers
        PROVE  /\ fate'[t] = "sending" <=> TailPlaces(N, t) # {} \/ QueuePlaces(q, t) # {}
               /\ TailPlaces(N, t) = {} \/ QueuePlaces(q, t) = {}
               /\ \A k, l \in TailPlaces(N, t) : k = l
    <3>1. /\ fate[t] = "sending" <=> TailPlaces(net, t) # {} \/ QueuePlaces(txQueue, t) # {}
          /\ TailPlaces(net, t) = {} \/ QueuePlaces(txQueue, t) = {}
          /\ \A k, l \in TailPlaces(net, t) : k = l
      BY <2>4 DEF IInv, PendingOK
    <3>2. QueuePlaces(queue, t) # {} <=> QueuePlaces(txQueue, t) # {}
      OBVIOUS
    <3>3. CASE new.bSendFinishing /\ t = new.of
      <4>1. TailPlaces(net, t) = {}
        BY <3>1, <3>2, <3>3, <2>2
      <4> QED
        BY <4>1, <3>1, <3>2, <3>3, <1>9, <1>10, <2>2
    <3>4. CASE ~(new.bSendFinishing /\ t = new.of)
      <4>1. TailPlaces(N, t) = TailPlaces(net, t)
        BY <3>4, <1>9
      <4>2. QueuePlaces(q, t) # {} <=> QueuePlaces(txQueue, t) # {}
        BY <3>2, <3>4, <1>10
      <4> QED
        BY <4>1, <4>2, <3>1
    <3> QED
      BY <3>3, <3>4
  <2> QED
    BY <2>1, <2>4, <2>5 DEF PendingOK
<1>12. ChannelOK'
  <2>1. joined
    <3>1. 1 \in DOMAIN queue
      BY <1>3
    <3> PICK k \in DOMAIN txQueue : txQueue[k] = queue[1]
      BY <3>1
    <3>2. txQueue # <<>>
      BY <1>2, EmptySeq
    <3> QED
      BY <3>2 DEF IInv, PendingOK
  <2> PICK s \in Stage : /\ Chained(s, net, Sending(txQueue))
                         /\ Receiving(s) \/ (s = Idle /\ Stale)
    BY <2>1 DEF IInv, ChannelOK
  <2>2. Chained(Sending(txQueue), P, Sending(q))
    BY <1>1
  <2>3. Chained(s, N, Sending(q))
    BY <2>2, <1>1, <1>2, ChainsJoined
  <2>4. (Receiving(s) <=> Receiving(s)') /\ (Stale <=> Stale')
    BY DEF receiveVars, Receiving, Stale
  <2> QED
    BY <2>1, <2>3, <2>4 DEF ChannelOK
\* The packets of the front, its tail among them, are sent before what follows it.
<1>13. PendingOf(N, q) = PendingOf(net, txQueue)
  <2>1. joined
    <3>1. 1 \in DOMAIN queue
      BY <1>3
    <3> PICK k \in DOMAIN txQueue : txQueue[k] = queue[1]
      BY <3>1
    <3>2. txQueue # <<>>
      BY <1>2, EmptySeq
    <3> QED
      BY <3>2 DEF IInv, PendingOK
  <2>2. Placed(N, q)
    <3>1. \A t \in Transfers : /\ TailPlaces(N, t) = {} \/ QueuePlaces(q, t) = {}
                               /\ \A k, l \in TailPlaces(N, t) : k = l
      BY <2>1, <1>11 DEF PendingOK
    <3> QED
      BY <3>1, <1>1, <1>4, <1>6, PlacedOnce
  <2>3. \A t : /\ Places(N, q, t) = {} <=> TailPlaces(N, t) = {} /\ QueuePlaces(q, t) = {}
               /\ Places(net, txQueue, t) = {} <=>
                    TailPlaces(net, t) = {} /\ QueuePlaces(txQueue, t) = {}
               /\ TailPlaces(net, t) \subseteq 1 .. Len(net)
    BY <1>1, <1>2, <1>4, PlacesAreNumbers
  <2>4. QueuePlaces(queue, new.of) # {}
    BY <1>10
  <2>5. ASSUME NEW t \in Transfers
        PROVE  Places(N, q, t) # {} <=> Places(net, txQueue, t) # {}
    <3>1. QueuePlaces(queue, t) # {} <=> QueuePlaces(txQueue, t) # {}
      OBVIOUS
    <3>2. QueuePlaces(q, t) # {} <=>
            QueuePlaces(queue, t) # {} /\ ~(new.bSendFinishing /\ t = new.of)
      BY <1>10
    <3>3. TailPlaces(N, t) # {} <=>
            TailPlaces(net, t) # {} \/ (new.bSendFinishing /\ t = new.of)
      BY <1>9
    <3> QED
      BY <3>1, <3>2, <3>3, <2>3, <2>4
  <2>6. ASSUME NEW x, NEW y, TailsBefore(net, x, y) PROVE Before(N, q, x, y)
    <3>1. TailsBefore(N, x, y)
      BY <2>6, <1>9 DEF TailsBefore
    <3> QED
      BY <3>1, <1>1, <1>4, BeforeIs
  <2>7. ASSUME NEW x, NEW y, TailPlaces(net, x) # {}, QueuePlaces(txQueue, y) # {}
        PROVE  Before(N, q, x, y)
    <3> PICK k \in TailPlaces(net, x) : TRUE
      BY <2>7
    <3>1. k \in TailPlaces(N, x)
      BY <1>9
    <3>2. CASE new.bSendFinishing /\ y = new.of
      <4>1. Len(net) + Len(P) \in TailPlaces(N, y)
        BY <3>2, <1>9
      <4>2. k < Len(net) + Len(P)
        <5>1. k \in 1 .. Len(net) /\ Len(P) \in Nat /\ Len(P) # 0
          BY <3>2, <2>3, <1>1, <1>4
        <5> QED
          BY <5>1, <1>4
      <4>3. TailsBefore(N, x, y)
        BY <3>1, <4>1, <4>2 DEF TailsBefore
      <4> QED
        BY <4>3, <1>1, <1>4, BeforeIs
    <3>3. CASE ~(new.bSendFinishing /\ y = new.of)
      <4>1. QueuePlaces(queue, y) # {}
        BY <2>7
      <4>2. QueuePlaces(q, y) # {} /\ TailPlaces(N, x) # {}
        BY <3>1, <3>3, <4>1, <1>10
      <4> QED
        BY <4>2, <1>1, <1>4, BeforeIs
    <3> QED
      BY <3>2, <3>3
  <2>8. ASSUME NEW x, NEW y, QueueBefore(txQueue, x, y) PROVE Before(N, q, x, y)
    <3>1. QueueBefore(queue, x, y)
      BY <2>8
    <3> PICK k \in QueuePlaces(queue, x), l \in QueuePlaces(queue, y) : k < l
      BY <3>1 DEF QueueBefore
    <3>2. k \in Nat \ {0} /\ l \in Nat /\ l # 1
      BY <1>10
    <3>3. l \in QueuePlaces(q, y)
      BY <3>2, <1>10
    <3>4. CASE k \in QueuePlaces(q, x)
      <4>1. QueueBefore(q, x, y)
        BY <3>3, <3>4 DEF QueueBefore
      <4> QED
        BY <4>1, <1>1, <1>4, BeforeIs
    <3>5. CASE k \notin QueuePlaces(q, x)
      <4>1. x = new.of /\ new.bSendFinishing
        <5>1. k = 1
          BY <3>5, <1>10
        <5> QED
          BY <5>1, <3>5, <1>10
      <4>2. TailPlaces(N, x) # {} /\ QueuePlaces(q, y) # {}
        BY <4>1, <3>3, <1>9
      <4> QED
        BY <4>2, <1>1, <1>4, BeforeIs
    <3> QED
      BY <3>4, <3>5
  <2>9. \A x, y \in Transfers : Before(net, txQueue, x, y) => Before(N, q, x, y)
    BY <2>6, <2>7, <2>8, <1>2, BeforeIs
  <2>10. /\ N \in Seq(Packet) /\ q \in Seq(SSendItem)
         /\ net \in Seq(Packet) /\ txQueue \in Seq(SSendItem)
    BY <1>1, <1>2, <1>4
  <2>11. \A t \in Transfers : Places(N, q, t) # {} <=> Places(net, txQueue, t) # {}
    BY <2>5
  <2> QED
    BY ONLY <2>2, <2>9, <2>10, <2>11, SamePending
<1> QED
  BY <1>1, <1>4, <1>6, <1>7, <1>8, <1>11, <1>12, <1>13 DEF QueueOK

\* DoPulse of the manager, for one remote.
LEMMA PulseStep ==
    ASSUME IInv, NEW delta \in Deltas, Pulse(delta)
    PROVE  /\ IInv' /\ UNCHANGED <<joined, fate>>
           /\ joined => PendingOf(net', txQueue') = PendingOf(net, txQueue)
<1> PICK queue : queue = QueueLeft
  OBVIOUS
<1> PICK left : left = RateLeft
  OBVIOUS
<1>1. TypeOK /\ QueueOK /\ RateOK
  BY DEF IInv
<1>2. /\ queue \in Seq(SSendItem) /\ QueueGood(queue)
      /\ queue # <<>> => ~queue[1].bSendFinishing
      /\ Sending(queue) = Sending(txQueue)
      /\ \A i \in DOMAIN queue : \E k \in DOMAIN txQueue : txQueue[k] = queue[i]
      /\ \A t : QueuePlaces(queue, t) # {} <=> QueuePlaces(txQueue, t) # {}
      /\ \A x, y : QueueBefore(txQueue, x, y) => QueueBefore(queue, x, y)
      /\ left \in Nat
      /\ Max({MIN_SEND_RATE, left}) = Highest(queue)
  BY <1>1, LeftOfQueue
<1> PICK ms : ms = Smoothed(iTimeMsBetweenCalls, delta)
  OBVIOUS
<1>3. ms \in 0 .. MaxTimeMs
  BY <1>1, SmoothedIsTime, Sizes DEF TypeOK
<1>4. /\ iTimeMsBetweenCalls' = ms
      /\ UNCHANGED <<uiNextSendId, joined, receiveVars, receiveError, fate>>
  BY DEF Pulse
<1>5. /\ txQueue' \in Seq(SSendItem) /\ net' \in Seq(Packet)
      /\ uiCurrentRate' \in Nat /\ iBytesOwing' \in Nat
      /\ QueueOK' /\ RateOK' /\ PendingOK' /\ ChannelOK'
      /\ joined => PendingOf(net', txQueue') = PendingOf(net, txQueue)
  <2>1. CASE queue = <<>>
    <3>1. /\ txQueue' = <<>> /\ uiCurrentRate' = left /\ iBytesOwing' = 0 /\ net' = net
      BY <2>1 DEF Pulse
    <3>2. DOMAIN <<>> = {} /\ <<>> \in Seq(SSendItem)
      OBVIOUS
    <3>3. QueueOK'
      BY <3>1, <3>2 DEF QueueOK, QueueGood
    <3>4. RateOK'
      BY <3>1, <2>1, <1>2 DEF RateOK
    <3>5. \A t : QueuePlaces(txQueue, t) = {} /\ QueuePlaces(txQueue', t) = {}
      BY <3>1, <3>2, <2>1, <1>2 DEF QueuePlaces
    <3>6. PendingOK'
      BY <3>1, <3>2, <3>5, <1>4 DEF IInv, PendingOK
    <3>7. Sending(txQueue') = Sending(txQueue)
      BY <3>1, <2>1, <1>2
    <3>8. \A s : (Receiving(s) <=> Receiving(s)') /\ (Stale <=> Stale')
      BY <1>4 DEF receiveVars, Receiving, Stale
    <3>9. ChannelOK'
      BY <3>1, <3>7, <3>8, <1>4 DEF IInv, ChannelOK
    <3>10. ASSUME joined PROVE PendingOf(net', txQueue') = PendingOf(net, txQueue)
      <4>1. Placed(net, txQueue)
        BY <3>10, PlacedWhenJoined
      <4> PICK q : q = txQueue'
        OBVIOUS
      <4>2. q \in Seq(SSendItem) /\ net' = net /\ net \in Seq(Packet) /\ txQueue \in Seq(SSendItem)
        BY <3>1, <3>2, <1>1 DEF TypeOK
      <4>3. \A t : QueuePlaces(q, t) = {} /\ QueuePlaces(txQueue, t) = {}
        BY <3>5
      <4>4. \A t : Places(net, q, t) = Places(net, txQueue, t)
        BY <4>3 DEF Places
      <4>5. Placed(net, q)
        BY <4>1, <4>4 DEF Placed
      <4>6. \A x, y \in Transfers : Before(net, txQueue, x, y) => Before(net, q, x, y)
        BY <4>4 DEF Before
      <4>7. \A t \in Transfers : Places(net, q, t) # {} <=> Places(net, txQueue, t) # {}
        BY <4>4
      <4>8. PendingOf(net, q) = PendingOf(net, txQueue)
        BY <4>2, <4>5, <4>6, <4>7, SamePending
      <4> QED
        BY <4>2, <4>8
    <3> QED
      BY <3>1, <3>2, <3>3, <3>4, <3>6, <3>9, <3>10, <1>1, <1>2 DEF TypeOK
  <2>2. CASE queue # <<>>
    <3> PICK rate : rate = Max({MIN_SEND_RATE, left})
      OBVIOUS
    <3> PICK size : size = MaxPacketSize(rate)
      OBVIOUS
    <3> PICK bytes : bytes = iBytesOwing + ((ms * rate) % UintRange) \div MsPerSecond
      OBVIOUS
    <3>1. uiCurrentRate' = rate /\ SendPackets(queue, bytes, size)
      BY <2>2 DEF Pulse
    <3>2. rate \in Nat
      BY <1>2, HighestIs
    <3>3. size \in Nat \ {0}
      BY <3>2, PacketSizeIsPositive
    <3>4. bytes \in Nat
      <4> PICK a : a = ms * rate
        OBVIOUS
      <4>1. a \in Nat
        <5>1. ms \in Nat
          BY <1>3, Sizes
        <5> QED
          BY <5>1, <3>2
      <4> PICK b : b = a % UintRange
        OBVIOUS
      <4>2. b \in Nat
        BY <4>1, PacketsToSend, Sizes
      <4> PICK c : c = b \div MsPerSecond
        OBVIOUS
      <4>3. c \in Nat
        BY <4>2, PacketsToSend, Sizes
      <4>4. iBytesOwing \in Nat
        BY <1>1 DEF TypeOK
      <4> QED
        BY <4>3, <4>4
    <3>5. ItemOK(queue[1])
      <4>1. 1 \in DOMAIN queue
        BY <1>2, <2>2, LenProperties, EmptySeq
      <4> QED
        BY <4>1, <1>2 DEF QueueGood
    <3> PICK P, new : Sent(queue, P, new)
      BY <1>2, <2>2, <3>1, <3>3, <3>4, <3>5, PacketsSent
    <3>6. uiCurrentRate' = Highest(queue) /\ UNCHANGED <<joined, receiveVars, fate>>
      BY <1>2, <1>4, <3>1
    <3> QED
      BY <1>2, <2>2, <3>6, SendingPulse
  <2> QED
    BY <2>1, <2>2
<1>6. TypeOK'
  BY <1>1, <1>3, <1>4, <1>5 DEF TypeOK, receiveVars
<1>7. HandlerKeepsReceiver' /\ NoError'
  BY <1>4 DEF IInv, HandlerKeepsReceiver, NoError, receiveVars
<1> QED
  BY <1>4, <1>5, <1>6, <1>7 DEF IInv

-----------------------------------------------------------------------------
(* The other actions of the sender.                                        *)

\* CLatentSendQueue::AddSend.
LEMMA AddSendStep ==
    ASSUME IInv, NEW t \in Transfers, AddSend(t)
    PROVE  IInv'
<1> PICK q : q = txQueue
  OBVIOUS
<1> PICK r : r = txQueue'
  OBVIOUS
<1> PICK new : new = [of |-> t, uiId |-> uiNextSendId, pos |-> 0,
                      bSendStarted |-> FALSE, bSendFinishing |-> FALSE]
  OBVIOUS
<1>0. TypeOK /\ QueueGood(q) /\ RateOK /\ PendingOK /\ ChannelOK
  BY DEF IInv, QueueOK
<1>1. /\ joined /\ fate[t] = "unsent" /\ r = Append(q, new)
      /\ uiNextSendId' = uiNextSendId + 1
      /\ uiCurrentRate' = Max({uiCurrentRate, RateOf[t]})
      /\ fate' = [u \in Transfers |-> IF u \in {t} THEN "sending" ELSE fate[u]]
      /\ UNCHANGED <<iBytesOwing, iTimeMsBetweenCalls, net, joined, receiveVars, receiveError>>
  BY DEF AddSend, SetFate
<1>2. new \in SSendItem /\ new.of = t /\ new.pos = 0 /\ ~new.bSendStarted /\ ~new.bSendFinishing
  BY <1>0 DEF SSendItem, TypeOK
<1>3. /\ q \in Seq(SSendItem) /\ r \in Seq(SSendItem) /\ Len(q) \in Nat
      /\ DOMAIN q = 1 .. Len(q) /\ DOMAIN r = 1 .. Len(q) + 1
      /\ \A i \in 1 .. Len(q) : r[i] = q[i]
      /\ r[Len(q) + 1] = new
      /\ (q = <<>> <=> Len(q) = 0) /\ r # <<>>
  <2>1. q \in Seq(SSendItem)
    BY <1>0 DEF TypeOK
  <2>2. /\ r \in Seq(SSendItem) /\ Len(r) = Len(q) + 1
        /\ \A i \in 1 .. Len(q) : r[i] = q[i]
        /\ r[Len(q) + 1] = new
    BY <2>1, <1>1, <1>2, AppendProperties
  <2> QED
    BY <2>1, <2>2, LenProperties, EmptySeq
<1>4. \A i \in DOMAIN q : q[i].of # t
  BY <1>0, <1>1 DEF PendingOK
<1>5. QueueGood(r)
  <2>1. ItemOK(new)
    BY <1>2, Sizes DEF ItemOK
  <2>2. ASSUME NEW i \in DOMAIN r PROVE ItemOK(r[i]) /\ (i # 1 => r[i].pos = 0)
    <3>1. CASE i = Len(q) + 1
      BY <3>1, <2>1, <1>2, <1>3
    <3>2. CASE i # Len(q) + 1
      <4>1. i \in DOMAIN q /\ r[i] = q[i]
        BY <3>2, <1>3
      <4> QED
        BY <4>1, <1>0 DEF QueueGood
    <3> QED
      BY <3>1, <3>2
  <2>3. ASSUME NEW i \in DOMAIN r, NEW k \in DOMAIN r, r[i].of = r[k].of PROVE i = k
    <3>1. \A j \in DOMAIN r : j = Len(q) + 1 \/ (j \in DOMAIN q /\ r[j] = q[j])
      BY <1>3
    <3>2. r[Len(q) + 1].of = t
      BY <1>2, <1>3
    <3> QED
      BY <2>3, <3>1, <3>2, <1>0, <1>4 DEF QueueGood
  <2> QED
    BY <2>2, <2>3 DEF QueueGood
<1>6. RateOK' /\ uiCurrentRate' \in Nat
  <2> PICK a : a = RateOf[t]
    OBVIOUS
  <2> PICK c : c = uiCurrentRate
    OBVIOUS
  <2> PICK h : h = Highest(q)
    OBVIOUS
  <2>1. a \in Nat /\ c \in Nat /\ MIN_SEND_RATE \in Nat
    BY <1>0, Sizes DEF TypeOK
  <2>2. h = IF MIN_SEND_RATE >= c THEN MIN_SEND_RATE ELSE c
    BY <1>0, <2>1, MaxOfTwo DEF RateOK
  <2>3. /\ \A i \in DOMAIN q : h >= RateOf[q[i].of]
        /\ h = MIN_SEND_RATE \/ \E i \in DOMAIN q : h = RateOf[q[i].of]
    BY <1>3, HighestIs
  <2>4. uiCurrentRate' = IF c >= a THEN c ELSE a
    BY <1>1, <2>1, MaxOfTwo
  <2> PICK m : m = IF h >= a THEN h ELSE a
    OBVIOUS
  <2>5. m \in Nat
    BY <2>1, <2>2
  <2> DEFINE T == {MIN_SEND_RATE} \cup {RateOf[r[i].of] : i \in DOMAIN r}
  <2>6. T \subseteq Int
    <3>1. \A i \in DOMAIN r : r[i].of \in Transfers
      <4>1. \A i \in DOMAIN r : r[i] \in SSendItem
        BY <1>3, LenProperties
      <4> QED
        BY <4>1 DEF SSendItem
    <3> QED
      BY <3>1, Sizes
  <2>7. \A i \in DOMAIN r : m >= RateOf[r[i].of]
    <3> SUFFICES ASSUME NEW i \in DOMAIN r PROVE m >= RateOf[r[i].of]
      OBVIOUS
    <3>1. CASE i = Len(q) + 1
      BY <3>1, <1>2, <1>3, <2>1, <2>2
    <3>2. CASE i # Len(q) + 1
      <4>1. i \in DOMAIN q /\ r[i] = q[i]
        BY <3>2, <1>3
      <4>2. RateOf[q[i].of] \in Int
        <5>1. q[i] \in SSendItem
          BY <4>1, <1>3, LenProperties
        <5> QED
          BY <5>1, Sizes DEF SSendItem
      <4> QED
        BY <4>1, <4>2, <2>1, <2>2, <2>3
    <3> QED
      BY <3>1, <3>2
  <2>8. m \in T
    <3>1. CASE m = a
      <4>1. Len(q) + 1 \in DOMAIN r /\ RateOf[r[Len(q) + 1].of] = a
        BY <1>2, <1>3
      <4> QED
        BY <3>1, <4>1
    <3>2. CASE m = h /\ h = MIN_SEND_RATE
      BY <3>2
    <3>3. CASE m = h /\ h # MIN_SEND_RATE
      <4> PICK i \in DOMAIN q : h = RateOf[q[i].of]
        BY <3>3, <2>3
      <4>1. i \in DOMAIN r /\ r[i] = q[i]
        BY <1>3
      <4> QED
        BY <4>1, <3>3
    <3> QED
      BY <3>1, <3>2, <3>3
  <2>9. m >= MIN_SEND_RATE
    BY <2>1, <2>2
  <2>10. \A y \in T : m >= y
    BY <2>7, <2>9
  <2>11. Max(T) = m
    <3> HIDE DEF T
    <3> QED
      BY <2>6, <2>8, <2>10, MaxIs
  <2>12. Highest(r) = m
    BY <2>11 DEF Highest
  <2>13. uiCurrentRate' \in Nat
    BY <2>1, <2>4
  <2>14. Max({MIN_SEND_RATE, uiCurrentRate'}) = m
    <3> PICK d : d = uiCurrentRate'
      OBVIOUS
    <3>1. Max({MIN_SEND_RATE, d}) = IF MIN_SEND_RATE >= d THEN MIN_SEND_RATE ELSE d
      BY <2>1, <2>13, MaxOfTwo
    <3> QED
      BY <3>1, <2>1, <2>2, <2>4
  <2> QED
    BY <2>12, <2>13, <2>14 DEF RateOK
<1>7. ASSUME NEW u
      PROVE  QueuePlaces(r, u) # {} <=> u = t \/ QueuePlaces(q, u) # {}
  <2>1. Len(q) + 1 \in QueuePlaces(r, u) <=> u = t
    BY <1>2, <1>3 DEF QueuePlaces
  <2>2. \A i : i # Len(q) + 1 => (i \in QueuePlaces(r, u) <=> i \in QueuePlaces(q, u))
    BY <1>3 DEF QueuePlaces
  <2>3. Len(q) + 1 \notin QueuePlaces(q, u)
    BY <1>3 DEF QueuePlaces
  <2> QED
    BY <2>1, <2>2, <2>3
<1>8. PendingOK'
  <2>1. ASSUME NEW i \in DOMAIN r PROVE fate'[r[i].of] # "unsent"
    <3>1. CASE i = Len(q) + 1
      BY <3>1, <1>1, <1>2, <1>3
    <3>2. CASE i # Len(q) + 1
      <4>1. i \in DOMAIN q /\ r[i] = q[i]
        BY <3>2, <1>3
      <4>2. fate[q[i].of] # "unsent" /\ q[i].of # t
        BY <4>1, <1>0, <1>4 DEF PendingOK
      <4>3. q[i].of \in Transfers
        <5>1. q[i] \in SSendItem
          BY <4>1, <1>3, LenProperties
        <5> QED
          BY <5>1 DEF SSendItem
      <4> QED
        BY <4>1, <4>2, <4>3, <1>1
    <3> QED
      BY <3>1, <3>2
  <2>2. ASSUME NEW u \in Transfers
        PROVE  /\ fate'[u] = "sending" <=> TailPlaces(net, u) # {} \/ QueuePlaces(r, u) # {}
               /\ TailPlaces(net, u) = {} \/ QueuePlaces(r, u) = {}
               /\ \A k, l \in TailPlaces(net, u) : k = l
    <3>1. /\ fate[u] = "sending" <=> TailPlaces(net, u) # {} \/ QueuePlaces(q, u) # {}
          /\ TailPlaces(net, u) = {} \/ QueuePlaces(q, u) = {}
          /\ \A k, l \in TailPlaces(net, u) : k = l
      BY <1>0, <1>1 DEF PendingOK
    <3>2. fate'[u] = IF u = t THEN "sending" ELSE fate[u]
      BY <1>1
    <3> QED
      BY <3>1, <3>2, <1>1, <1>7
  <2> QED
    BY <2>1, <2>2, <1>1 DEF PendingOK
<1>9. Sending(r) = Sending(q)
  <2>1. CASE q = <<>>
    <3>1. Head(r) = new
      BY <2>1, <1>3
    <3> QED
      BY <3>1, <2>1, <1>2, <1>3 DEF Sending, StageAt
  <2>2. CASE q # <<>>
    <3>1. Head(r) = Head(q)
      BY <2>2, <1>3
    <3> QED
      BY <3>1, <2>2, <1>3 DEF Sending
  <2> QED
    BY <2>1, <2>2
<1>10. ChannelOK'
  <2>1. \A s : (Receiving(s) <=> Receiving(s)') /\ (Stale <=> Stale')
    BY <1>1 DEF receiveVars, Receiving, Stale
  <2> QED
    BY <2>1, <1>0, <1>1, <1>9 DEF ChannelOK
<1>11. TypeOK'
  <2>1. fate' \in [Transfers -> Fates]
    BY <1>0, <1>1 DEF TypeOK, Fates
  <2>2. uiNextSendId' \in Nat
    BY <1>0, <1>1 DEF TypeOK
  <2> QED
    BY <2>1, <2>2, <1>0, <1>1, <1>3, <1>6 DEF TypeOK, receiveVars
<1>12. HandlerKeepsReceiver' /\ NoError'
  BY <1>1 DEF IInv, HandlerKeepsReceiver, NoError, receiveVars
<1> QED
  BY <1>5, <1>6, <1>8, <1>10, <1>11, <1>12 DEF IInv, QueueOK

\* What remains of the queue when the transfers of S are erased.
Kept(q, S) == Subsequence(q, DOMAIN q \ {i \in DOMAIN q : q[i].of \in S})

\* What is kept is a good queue, with its front if that is kept.
LEMMA KeptOfQueue ==
    ASSUME NEW q \in Seq(SSendItem), QueueGood(q), NEW S
    PROVE  \E r : /\ r = Kept(q, S) /\ r \in Seq(SSendItem) /\ QueueGood(r)
                  /\ \A i \in DOMAIN r : \E k \in DOMAIN q : r[i] = q[k]
                  /\ \A t : QueuePlaces(r, t) # {} <=> t \notin S /\ QueuePlaces(q, t) # {}
                  /\ q # <<>> /\ q[1].of \notin S => r # <<>> /\ r[1] = q[1]
                  /\ q # <<>> /\ q[1].of \in S => \A i \in DOMAIN r : r[i].pos = 0
<1> PICK I : I = DOMAIN q \ {i \in DOMAIN q : q[i].of \in S}
  OBVIOUS
<1> PICK r : r = Subsequence(q, I)
  OBVIOUS
<1>0. Kept(q, S) = r
  BY DEF Kept
<1>1. Len(q) \in Nat /\ DOMAIN q = 1 .. Len(q) /\ I \subseteq 1 .. Len(q)
  BY LenProperties
<1>2. r \in Seq(SSendItem) /\ IsPicked(q, I, r)
  BY <1>1, SubsequenceProperties
<1>3. Len(r) = Cardinality(I) /\ DOMAIN r = 1 .. Cardinality(I) /\ Cardinality(I) \in Nat
  BY <1>2, LenProperties DEF IsPicked
<1> PICK at \in [1 .. Cardinality(I) -> I] :
      /\ \A n \in 1 .. Cardinality(I) : r[n] = q[at[n]]
      /\ \A m, n \in 1 .. Cardinality(I) : m < n => at[m] < at[n]
      /\ \A i \in I : \E n \in 1 .. Cardinality(I) : at[n] = i
  BY <1>2 DEF IsPicked
<1>4. \A n \in DOMAIN r : at[n] \in I /\ at[n] \in DOMAIN q /\ r[n] = q[at[n]] /\ q[at[n]].of \notin S
  BY <1>1, <1>3
<1>5. \A n \in DOMAIN r : n # 1 => at[n] # 1
  <2> SUFFICES ASSUME NEW n \in DOMAIN r, n # 1 PROVE at[n] # 1
    OBVIOUS
  <2>1. 1 \in 1 .. Cardinality(I) /\ 1 < n
    BY <1>3
  <2>2. at[1] < at[n] /\ at[1] \in 1 .. Len(q) /\ at[n] \in 1 .. Len(q)
    BY <2>1, <1>1, <1>3
  <2> QED
    BY <2>2
<1>6. QueueGood(r)
  <2>1. ASSUME NEW n \in DOMAIN r PROVE ItemOK(r[n]) /\ (n # 1 => r[n].pos = 0)
    BY <1>4, <1>5 DEF QueueGood
  <2>2. ASSUME NEW m \in DOMAIN r, NEW n \in DOMAIN r, r[m].of = r[n].of PROVE m = n
    <3>1. at[m] = at[n]
      BY <2>2, <1>4 DEF QueueGood
    <3>2. ~(m < n) /\ ~(n < m)
      <4>1. at[m] \in Int /\ at[n] \in Int
        BY <1>1, <1>4
      <4> QED
        BY <3>1, <4>1, <1>3
    <3> QED
      BY <3>2, <1>3
  <2> QED
    BY <2>1, <2>2 DEF QueueGood
<1>7. ASSUME NEW t
      PROVE  QueuePlaces(r, t) # {} <=> t \notin S /\ QueuePlaces(q, t) # {}
  <2>1. ASSUME NEW n \in QueuePlaces(r, t) PROVE t \notin S /\ at[n] \in QueuePlaces(q, t)
    BY <1>4 DEF QueuePlaces
  <2>2. ASSUME t \notin S, NEW i \in QueuePlaces(q, t)
        PROVE  \E n \in DOMAIN r : n \in QueuePlaces(r, t)
    <3>1. i \in I
      BY <2>2 DEF QueuePlaces
    <3> PICK n \in 1 .. Cardinality(I) : at[n] = i
      BY <3>1
    <3>2. n \in DOMAIN r /\ r[n] = q[i]
      BY <1>3, <1>4
    <3> QED
      BY <3>2, <2>2 DEF QueuePlaces
  <2> QED
    BY <2>1, <2>2
<1>8. ASSUME q # <<>>, q[1].of \notin S PROVE r # <<>> /\ r[1] = q[1]
  <2>1. 1 \in I
    BY <1>8, <1>1, EmptySeq
  <2> PICK n \in 1 .. Cardinality(I) : at[n] = 1
    BY <2>1
  <2>2. n = 1
    BY <1>3, <1>5
  <2>3. r # <<>>
    BY <1>2, <1>3, EmptySeq
  <2> QED
    BY <2>2, <2>3, <1>3, <1>4
<1>9. ASSUME q # <<>>, q[1].of \in S, NEW n \in DOMAIN r PROVE r[n].pos = 0
  <2>1. at[n] # 1
    BY <1>4, <1>9
  <2> QED
    BY <2>1, <1>4 DEF QueueGood
<1>10. \A i \in DOMAIN r : \E k \in DOMAIN q : r[i] = q[k]
  BY <1>4
<1> QED
  BY <1>0, <1>2, <1>6, <1>7, <1>8, <1>9, <1>10

\* They are in the same order.
LEMMA KeptInOrder ==
    ASSUME NEW q \in Seq(SSendItem), NEW S, NEW r, r = Kept(q, S),
           NEW x, NEW y, x \notin S, y \notin S, QueueBefore(q, x, y)
    PROVE  QueueBefore(r, x, y)
<1> PICK I : I = DOMAIN q \ {i \in DOMAIN q : q[i].of \in S}
  OBVIOUS
<1>1. I \subseteq 1 .. Len(q) /\ r = Subsequence(q, I)
  BY LenProperties DEF Kept
<1>2. r \in Seq(SSendItem) /\ \E at : Picks(q, I, r, at)
  BY <1>1, PickedAt
<1> PICK at : Picks(q, I, r, at)
  BY <1>2
<1> PICK k \in QueuePlaces(q, x), l \in QueuePlaces(q, y) : k < l
  BY DEF QueueBefore
<1>3. k \in I /\ l \in I
  BY DEF QueuePlaces
<1> PICK n \in 1 .. Len(r) : at[n] = k
  BY <1>3 DEF Picks
<1> PICK m \in 1 .. Len(r) : at[m] = l
  BY <1>3 DEF Picks
<1>4. r[n] = q[k] /\ r[m] = q[l] /\ DOMAIN r = 1 .. Len(r) /\ Len(r) \in Nat
  BY <1>2, LenProperties DEF Picks
<1>5. n \in QueuePlaces(r, x) /\ m \in QueuePlaces(r, y)
  BY <1>4 DEF QueuePlaces
<1>6. n < m
  <2>1. k \in Int /\ l \in Int
    BY <1>1, <1>3
  <2>2. m < n => l < k
    BY DEF Picks
  <2>3. m = n => l = k
    OBVIOUS
  <2>4. m < n \/ m = n \/ n < m
    BY <1>4
  <2> QED
    BY <2>1, <2>2, <2>3, <2>4
<1> QED
  BY <1>5, <1>6 DEF QueueBefore

\* The remote is told of the item at the front only, if it was started.
LEMMA CancelsOfFront ==
    ASSUME TypeOK, QueueOK, NEW I, I \subseteq DOMAIN txQueue
    PROVE  IF 1 \in I /\ txQueue[1].pos > 0
           THEN CancelsFor(I) = <<[flag |-> "CANCEL", id |-> txQueue[1].uiId % IdRange,
                                   of |-> txQueue[1].of, data |-> <<>>]>>
           ELSE CancelsFor(I) = <<>>
<1> PICK q : q = txQueue
  OBVIOUS
<1> DEFINE J == {i \in I : q[i].bSendStarted}
<1> PICK s : s = Started(I)
  OBVIOUS
<1> PICK c : c = [k \in DOMAIN s |-> [flag |-> "CANCEL", id |-> s[k].uiId % IdRange,
                                     of |-> s[k].of, data |-> <<>>]]
  OBVIOUS
<1>1. c = CancelsFor(I)
  BY DEF CancelsFor
<1>2. q \in Seq(SSendItem) /\ DOMAIN q = 1 .. Len(q) /\ Len(q) \in Nat
  BY LenProperties DEF TypeOK
<1>3. \A i \in DOMAIN q : (q[i].bSendStarted <=> q[i].pos > 0) /\ (i # 1 => q[i].pos = 0)
  BY DEF QueueOK, QueueGood, ItemOK
<1>4. J = IF 1 \in I /\ q[1].pos > 0 THEN {1} ELSE {}
  BY <1>2, <1>3
<1> HIDE DEF J
<1>5. s = Subsequence(q, J)
  BY DEF Started, J
<1>6. s \in Seq(SSendItem) /\ IsPicked(q, J, s)
  <2>1. J \subseteq 1 .. Len(q)
    BY <1>2 DEF J
  <2> QED
    BY <2>1, <1>2, <1>5, SubsequenceProperties
<1>7. Len(s) = Cardinality(J) /\ DOMAIN s = 1 .. Len(s)
  BY <1>6, LenProperties DEF IsPicked
<1>8. CASE 1 \in I /\ q[1].pos > 0
  <2>0. J = {1}
    BY <1>4, <1>8
  <2>a. Cardinality({1}) = 1
    BY FS_Singleton
  <2>1. J = {1} /\ Len(s) = 1 /\ DOMAIN s = {1}
    BY <2>0, <2>a, <1>7
  <2>2. s[1] = q[1]
    <3>1. Cardinality(J) = 1
      BY <2>0, <2>a
    <3> PICK at \in [1 .. 1 -> J] : \A n \in 1 .. 1 : s[n] = q[at[n]]
      BY <3>1, <1>6 DEF IsPicked
    <3>2. at[1] = 1
      BY <2>1
    <3> QED
      BY <3>2
  <2> PICK p : p = [flag |-> "CANCEL", id |-> q[1].uiId % IdRange, of |-> q[1].of, data |-> <<>>]
    OBVIOUS
  <2>3. c = [k \in {1} |-> p]
    BY <2>1, <2>2
  <2>4. c = <<p>>
    BY <2>3
  <2> QED
    BY <2>4, <1>1, <1>8
<1>9. CASE ~(1 \in I /\ q[1].pos > 0)
  <2>1. J = {}
    BY <1>4, <1>9
  <2>2. Cardinality(J) = 0
    BY <2>1, FS_EmptySet
  <2>3. DOMAIN s = {}
    BY <2>2, <1>7
  <2>4. c = <<>>
    BY <2>3
  <2> QED
    BY <2>4, <1>1, <1>9
<1> QED
  BY <1>8, <1>9

\* CancelSend and OnLuaMainDestroy.
LEMMA EraseStep ==
    ASSUME IInv, NEW S, S \subseteq Cancellable, Erase(S)
    PROVE  /\ IInv' /\ joined /\ txQueue' = Kept(txQueue, S)
           /\ \A t : TailPlaces(net', t) = TailPlaces(net, t)
           /\ \A t \in S : t \in Transfers /\ QueuePlaces(txQueue, t) # {}
           /\ \A t : QueuePlaces(txQueue', t) # {} <=> t \notin S /\ QueuePlaces(txQueue, t) # {}
           /\ fate' = [t \in Transfers |-> IF t \in S THEN "cancelled" ELSE fate[t]]
<1> PICK q : q = txQueue
  OBVIOUS
<1> PICK gone : gone = {i \in DOMAIN q : q[i].of \in S}
  OBVIOUS
<1> PICK P : P = CancelsFor(gone)
  OBVIOUS
<1>0. TypeOK /\ QueueOK /\ QueueGood(q) /\ RateOK /\ PendingOK /\ ChannelOK
  BY DEF IInv, QueueOK
<1> PICK r :
      /\ r = Kept(q, S) /\ r \in Seq(SSendItem) /\ QueueGood(r)
      /\ \A i \in DOMAIN r : \E k \in DOMAIN q : r[i] = q[k]
      /\ \A t : QueuePlaces(r, t) # {} <=> t \notin S /\ QueuePlaces(q, t) # {}
      /\ q # <<>> /\ q[1].of \notin S => r # <<>> /\ r[1] = q[1]
      /\ q # <<>> /\ q[1].of \in S => \A i \in DOMAIN r : r[i].pos = 0
  <2>1. q \in Seq(SSendItem)
    BY <1>0 DEF TypeOK
  <2> QED
    BY <2>1, <1>0, KeptOfQueue
<1>1. /\ S # {} /\ txQueue' = r /\ net' = net \o P /\ uiCurrentRate' = Highest(r)
      /\ fate' = [t \in Transfers |-> IF t \in S THEN "cancelled" ELSE fate[t]]
      /\ UNCHANGED <<uiNextSendId, iBytesOwing, iTimeMsBetweenCalls, joined, receiveVars,
                     receiveError>>
  BY DEF Erase, SetFate, Kept
<1>2. q \in Seq(SSendItem) /\ net \in Seq(Packet) /\ Len(q) \in Nat /\ DOMAIN q = 1 .. Len(q)
  BY <1>0, LenProperties DEF TypeOK
<1>4. \A t \in S : t \in Transfers /\ QueuePlaces(q, t) # {}
  <2> SUFFICES ASSUME NEW t \in S PROVE t \in Transfers /\ QueuePlaces(q, t) # {}
    OBVIOUS
  <2> PICK i \in DOMAIN q : ~q[i].bSendFinishing /\ q[i].of = t
    BY DEF Cancellable
  <2>1. q[i] \in SSendItem
    BY <1>2, LenProperties
  <2> QED
    BY <2>1 DEF QueuePlaces, SSendItem
<1>5. q # <<>> /\ joined
  <2> PICK t \in S : QueuePlaces(q, t) # {}
    BY <1>1, <1>4
  <2> PICK i \in DOMAIN q : TRUE
    BY DEF QueuePlaces
  <2>1. q # <<>>
    BY EmptySeq
  <2> QED
    BY <2>1, <1>0 DEF PendingOK
<1>6. 1 \in DOMAIN q /\ q[1] \in SSendItem /\ Head(q) = q[1]
  BY <1>2, <1>5, LenProperties, EmptySeq
<1>7. q[1].of \in S => ~q[1].bSendFinishing
  <2> SUFFICES ASSUME q[1].of \in S PROVE ~q[1].bSendFinishing
    OBVIOUS
  <2> PICK i \in DOMAIN q : ~q[i].bSendFinishing /\ q[i].of = q[1].of
    BY DEF Cancellable
  <2>1. i = 1
    BY <1>0, <1>6 DEF QueueGood
  <2> QED
    BY <2>1
<1> PICK p : p = [flag |-> "CANCEL", id |-> q[1].uiId % IdRange, of |-> q[1].of, data |-> <<>>]
  OBVIOUS
<1>8. IF q[1].of \in S /\ q[1].pos > 0 THEN P = <<p>> ELSE P = <<>>
  <2>1. gone \subseteq DOMAIN txQueue /\ (1 \in gone <=> q[1].of \in S)
    BY <1>6
  <2>2. IF 1 \in gone /\ q[1].pos > 0 THEN CancelsFor(gone) = <<p>> ELSE CancelsFor(gone) = <<>>
    BY <2>1, <1>0, CancelsOfFront
  <2> QED
    BY <2>1, <2>2
<1>9. p \in Packet /\ p.flag = "CANCEL" /\ p.data = <<>> /\ p.of = q[1].of
      /\ p.id = q[1].uiId % IdRange
  <2>1. q[1].uiId \in Nat /\ q[1].of \in Transfers
    BY <1>6 DEF SSendItem
  <2> PICK id : id = q[1].uiId % IdRange
    OBVIOUS
  <2>2. id \in 0 .. IdRange - 1
    BY <2>1, Sizes
  <2>3. <<>> \in Seq(Byte)
    OBVIOUS
  <2>4. p = [flag |-> "CANCEL", id |-> id, of |-> q[1].of, data |-> <<>>]
    OBVIOUS
  <2> QED
    BY <2>1, <2>2, <2>3, <2>4 DEF Packet, Flags
<1>10. P \in Seq(Packet) /\ \A k \in DOMAIN P : P[k].flag # "TAIL"
  <2>1. CASE P = <<>>
    <3>1. <<>> \in Seq(Packet) /\ DOMAIN <<>> = {}
      OBVIOUS
    <3> QED
      BY <2>1, <3>1
  <2>2. CASE P = <<p>>
    <3>1. <<p>> \in Seq(Packet) /\ DOMAIN <<p>> = {1} /\ <<p>>[1] = p
      BY <1>9
    <3>2. P \in Seq(Packet)
      BY <3>1, <2>2
    <3>3. \A k \in DOMAIN P : P[k] = p
      BY <3>1, <2>2
    <3> QED
      BY <3>2, <3>3, <1>9
  <2> QED
    BY <2>1, <2>2, <1>8
<1> PICK N : N = net'
  OBVIOUS
<1>11. N \in Seq(Packet) /\ \A t : TailPlaces(N, t) = TailPlaces(net, t)
  <2>1. /\ N \in Seq(Packet) /\ Len(N) = Len(net) + Len(P)
        /\ \A k \in 1 .. Len(net) + Len(P) :
             N[k] = IF k <= Len(net) THEN net[k] ELSE P[k - Len(net)]
    BY <1>1, <1>2, <1>10, ConcatProperties
  <2>2. /\ DOMAIN N = 1 .. Len(net) + Len(P) /\ DOMAIN net = 1 .. Len(net)
        /\ DOMAIN P = 1 .. Len(P) /\ Len(net) \in Nat /\ Len(P) \in Nat
    BY <2>1, <1>2, <1>10, LenProperties
  <2>3. ASSUME NEW k \in DOMAIN N, N[k].flag = "TAIL"
        PROVE  k \in DOMAIN net /\ N[k] = net[k]
    <3>1. k <= Len(net)
      <4> SUFFICES ASSUME ~(k <= Len(net)) PROVE FALSE
        OBVIOUS
      <4>1. k - Len(net) \in DOMAIN P /\ N[k] = P[k - Len(net)]
        BY <2>1, <2>2
      <4> QED
        BY <4>1, <2>3, <1>10
    <3>2. k \in 1 .. Len(net) + Len(P) /\ k \in DOMAIN net
      BY <3>1, <2>2
    <3> QED
      BY <3>1, <3>2, <2>1
  <2>4. ASSUME NEW k \in DOMAIN net PROVE k \in DOMAIN N /\ N[k] = net[k]
    <3>1. k \in 1 .. Len(net) + Len(P) /\ k <= Len(net)
      BY <2>2
    <3> QED
      BY <3>1, <2>1, <2>2
  <2> QED
    BY <2>1, <2>3, <2>4 DEF TailPlaces
<1>12. RateOK' /\ uiCurrentRate' \in Nat
  <2>1. Highest(r) \in Nat /\ Highest(r) >= MIN_SEND_RATE
    BY HighestIs
  <2>2. Max({MIN_SEND_RATE, Highest(r)}) = Highest(r)
    BY <2>1, MaxOfTwo, Sizes
  <2> QED
    BY <2>1, <2>2, <1>1 DEF RateOK
<1>13. PendingOK'
  <2>1. ASSUME NEW i \in DOMAIN r PROVE fate'[r[i].of] # "unsent"
    <3> PICK k \in DOMAIN q : r[i] = q[k]
      OBVIOUS
    <3>1. fate[q[k].of] # "unsent"
      BY <1>0 DEF PendingOK
    <3>2. q[k].of \in Transfers
      <4>1. q[k] \in SSendItem
        BY <1>2, LenProperties
      <4> QED
        BY <4>1 DEF SSendItem
    <3> QED
      BY <3>1, <3>2, <1>1
  <2>2. ASSUME NEW t \in Transfers
        PROVE  /\ fate'[t] = "sending" <=> TailPlaces(N, t) # {} \/ QueuePlaces(r, t) # {}
               /\ TailPlaces(N, t) = {} \/ QueuePlaces(r, t) = {}
               /\ \A k, l \in TailPlaces(N, t) : k = l
    <3>1. /\ fate[t] = "sending" <=> TailPlaces(net, t) # {} \/ QueuePlaces(q, t) # {}
          /\ TailPlaces(net, t) = {} \/ QueuePlaces(q, t) = {}
          /\ \A k, l \in TailPlaces(net, t) : k = l
      BY <1>0, <1>5 DEF PendingOK
    <3>2. TailPlaces(N, t) = TailPlaces(net, t)
      BY <1>11
    <3>3. QueuePlaces(r, t) # {} <=> t \notin S /\ QueuePlaces(q, t) # {}
      OBVIOUS
    <3>4. fate'[t] = IF t \in S THEN "cancelled" ELSE fate[t]
      BY <1>1
    <3>5. t \in S => QueuePlaces(q, t) # {}
      BY <1>4
    <3> QED
      BY <3>1, <3>2, <3>3, <3>4, <3>5
  <2>3. joined' = joined /\ txQueue' = r /\ net' = N
    BY <1>1
  <2> QED
    BY <2>1, <2>2, <2>3, <1>5 DEF PendingOK
<1>14. Chained(Sending(q), P, Sending(r))
  <2>1. CASE q[1].of \notin S
    <3>1. r # <<>> /\ Head(r) = Head(q) /\ P = <<>>
      <4>1. r # <<>> /\ r[1] = q[1] /\ P = <<>>
        BY <2>1, <1>5, <1>8
      <4> QED
        BY <4>1, <1>6
    <3>2. Sending(r) = Sending(q)
      BY <3>1, <1>5 DEF Sending
    <3> QED
      BY <3>1, <3>2, NoneChained
  <2>2. CASE q[1].of \in S
    <3>1. Sending(q) = StageAt(q[1], q[1].pos)
      BY <2>2, <1>5, <1>6, <1>7 DEF Sending
    <3>2. Sending(r) = Idle
      <4>1. CASE r = <<>>
        BY <4>1 DEF Sending
      <4>2. CASE r # <<>>
        <5>1. 1 \in DOMAIN r /\ Head(r) = r[1]
          BY <4>2, LenProperties, EmptySeq
        <5>2. r[1].pos = 0
          BY <5>1, <2>2, <1>5
        <5> QED
          BY <5>1, <5>2 DEF Sending, StageAt
      <4> QED
        BY <4>1, <4>2
    <3>3. CASE q[1].pos > 0
      <4>1. P = <<p>>
        BY <2>2, <3>3, <1>8
      <4>2. q[1].pos # 0
        BY <3>3, <1>6 DEF SSendItem
      <4>3. Sending(q) = [of |-> q[1].of, id |-> q[1].uiId % IdRange, pos |-> q[1].pos]
        BY <3>1, <4>2 DEF StageAt
      <4>4. Sending(q) # Idle
        <5>1. Sending(q).pos # Idle.pos
          BY <4>2, <4>3 DEF Idle
        <5> QED
          BY <5>1
      <4>5. Follows(Sending(q), p)
        BY <4>3, <4>4, <1>9 DEF Follows
      <4>6. After(p) = Idle
        BY <1>9 DEF After
      <4> QED
        BY <4>1, <4>5, <4>6, <3>2, OneChained
    <3>4. CASE ~(q[1].pos > 0)
      <4>1. P = <<>>
        BY <3>4, <1>8
      <4>2. q[1].pos = 0
        BY <3>4, <1>6 DEF SSendItem
      <4>3. Sending(q) = Idle
        BY <3>1, <4>2 DEF StageAt
      <4> QED
        BY <4>1, <4>3, <3>2, NoneChained
    <3> QED
      BY <3>3, <3>4
  <2> QED
    BY <2>1, <2>2
<1>15. ChannelOK'
  <2> PICK s \in Stage : /\ Chained(s, net, Sending(q))
                         /\ Receiving(s) \/ (s = Idle /\ Stale)
    BY <1>0, <1>5 DEF ChannelOK
  <2>1. Chained(s, N, Sending(r))
    BY <1>1, <1>2, <1>10, <1>14, ChainsJoined
  <2>2. (Receiving(s) <=> Receiving(s)') /\ (Stale <=> Stale')
    BY <1>1 DEF receiveVars, Receiving, Stale
  <2> QED
    BY <2>1, <2>2, <1>1, <1>5 DEF ChannelOK
<1>16. TypeOK'
  <2>1. fate' \in [Transfers -> Fates]
    BY <1>0, <1>1 DEF TypeOK, Fates
  <2> QED
    BY <2>1, <1>0, <1>1, <1>11, <1>12 DEF TypeOK, receiveVars
<1>17. HandlerKeepsReceiver' /\ NoError'
  BY <1>1 DEF IInv, HandlerKeepsReceiver, NoError, receiveVars
<1>18. IInv'
  BY <1>1, <1>12, <1>13, <1>15, <1>16, <1>17 DEF IInv, QueueOK
<1> QED
  BY <1>1, <1>4, <1>5, <1>11, <1>18

-----------------------------------------------------------------------------
(* Leaving, and what is received.                                          *)

\* The remote is gone: nothing is sent to it any more, and of what was on its way
\* only queued input is left.
LEMMA DisconnectedStep ==
    ASSUME TypeOK, PendingOK, NEW rest \in Seq(Packet), Disconnected(rest)
    PROVE  /\ joined' = FALSE /\ txQueue' = <<>> /\ txQueue' \in Seq(SSendItem)
           /\ uiNextSendId' \in Nat /\ uiCurrentRate' \in Nat /\ iBytesOwing' \in Nat
           /\ iTimeMsBetweenCalls' \in 0 .. MaxTimeMs
           /\ net' \in Seq(Packet) /\ (~LatePackets => net' = <<>>)
           /\ fate' \in [Transfers -> Fates]
           /\ QueueOK' /\ RateOK' /\ PendingOK'
<1>0. <<>> \in Seq(SSendItem) /\ DOMAIN <<>> = {}
  OBVIOUS
<1>1. /\ joined' = FALSE /\ txQueue' = <<>> /\ uiNextSendId' = 0 /\ uiCurrentRate' = 0
      /\ iBytesOwing' = 0
      /\ fate' = [t \in Transfers |-> IF fate[t] = "sending" THEN "lost" ELSE fate[t]]
  BY DEF Disconnected, RemoveSender
<1>2. iTimeMsBetweenCalls' \in 0 .. MaxTimeMs
  <2>1. iTimeMsBetweenCalls' = IF ReceiverIsServer THEN 0 ELSE iTimeMsBetweenCalls
    BY DEF Disconnected, RemoveSender
  <2> QED
    BY <2>1, Sizes DEF TypeOK
<1>3. net' \in Seq(Packet) /\ (~LatePackets => net' = <<>>)
  <2> PICK k \in IF LatePackets THEN 0 .. Len(rest) ELSE {0} : net' = SubSeq(rest, 1, k)
    BY DEF Disconnected
  <2>1. Len(rest) \in Nat
    BY LenProperties
  <2>2. k \in 0 .. Len(rest) /\ (~LatePackets => k = 0)
    BY <2>1
  <2>3. SubSeq(rest, 1, k) \in Seq(Packet) /\ Len(SubSeq(rest, 1, k)) = k
    <3>1. \A i \in 1 .. k : rest[i] \in Packet
      BY <2>1, <2>2, LenProperties
    <3> QED
      BY <3>1, <2>1, <2>2
  <2>4. k = 0 => SubSeq(rest, 1, k) = <<>>
    BY <2>3, EmptySeq
  <2> QED
    BY <2>2, <2>3, <2>4
<1>4. fate' \in [Transfers -> Fates] /\ \A t \in Transfers : fate'[t] # "sending"
  <2>1. \A t \in Transfers : fate[t] \in Fates
    BY DEF TypeOK
  <2> QED
    BY <2>1, <1>1 DEF Fates
<1>5. QueueOK'
  BY <1>0, <1>1 DEF QueueOK, QueueGood
<1>6. RateOK'
  <2> PICK q : q = <<>> /\ q \in Seq(SSendItem)
    BY <1>0
  <2>1. Highest(q) = MIN_SEND_RATE
    <3>1. DOMAIN q = {}
      OBVIOUS
    <3> QED
      BY <3>1, HighestIs
  <2>2. Max({MIN_SEND_RATE, 0}) = MIN_SEND_RATE
    BY MaxOfTwo, Sizes
  <2> QED
    BY <2>1, <2>2, <1>1 DEF RateOK
<1>7. PendingOK'
  BY <1>0, <1>1, <1>4 DEF PendingOK
<1> QED
  BY <1>0, <1>1, <1>2, <1>3, <1>4, <1>5, <1>6, <1>7, 0 \in Nat

\* The first packet is taken: only a tail makes a difference to what is pending.
LEMMA PendingTaken ==
    ASSUME PendingOK, net \in Seq(Packet), net # <<>>, net' = Tail(net),
           UNCHANGED <<txQueue, joined>>,
           IF joined /\ Head(net).flag = "TAIL"
           THEN \E f \in Fates \ {"unsent", "sending"} :
                  fate' = [t \in Transfers |-> IF t = Head(net).of THEN f ELSE fate[t]]
           ELSE fate' = fate,
           \A i \in DOMAIN txQueue : txQueue[i].of \in Transfers
    PROVE  PendingOK'
<1> PICK N : N = net'
  OBVIOUS
<1>1. /\ N \in Seq(Packet) /\ Len(N) = Len(net) - 1
      /\ \A i \in 1 .. Len(N) : N[i] = net[i + 1]
  BY HeadTailProperties
<1>2. /\ DOMAIN N = 1 .. Len(N) /\ DOMAIN net = 1 .. Len(net) /\ Len(net) \in Nat \ {0}
      /\ Head(net) = net[1]
  BY <1>1, LenProperties, EmptySeq
<1>3. \A t, i : i \in TailPlaces(N, t) => i + 1 \in TailPlaces(net, t) /\ i + 1 # 1
  <2> SUFFICES ASSUME NEW t, NEW i \in TailPlaces(N, t)
               PROVE  i + 1 \in TailPlaces(net, t) /\ i + 1 # 1
    OBVIOUS
  <2>1. i \in 1 .. Len(N) /\ N[i].flag = "TAIL" /\ N[i].of = t
    BY <1>2 DEF TailPlaces
  <2>2. i + 1 \in 1 .. Len(net) /\ i + 1 # 1 /\ N[i] = net[i + 1]
    BY <2>1, <1>1, <1>2
  <2> QED
    BY <2>1, <2>2, <1>2 DEF TailPlaces
<1>4. \A t, k : k \in TailPlaces(net, t) /\ k # 1 => k - 1 \in TailPlaces(N, t)
  <2> SUFFICES ASSUME NEW t, NEW k \in TailPlaces(net, t), k # 1
               PROVE  k - 1 \in TailPlaces(N, t)
    OBVIOUS
  <2>1. k \in 1 .. Len(net) /\ net[k].flag = "TAIL" /\ net[k].of = t
    BY <1>2 DEF TailPlaces
  <2>2. k - 1 \in 1 .. Len(N) /\ (k - 1) + 1 = k
    BY <2>1, <1>1, <1>2
  <2>3. N[k - 1] = net[k]
    BY <2>2, <1>1
  <2> QED
    BY <2>1, <2>2, <2>3, <1>2 DEF TailPlaces
<1>5. \A t : 1 \in TailPlaces(net, t) <=> Head(net).flag = "TAIL" /\ Head(net).of = t
  BY <1>2 DEF TailPlaces
<1>6. ASSUME NEW i \in DOMAIN txQueue' PROVE fate'[txQueue'[i].of] # "unsent"
  <2>1. fate[txQueue[i].of] # "unsent" /\ txQueue[i].of \in Transfers
    BY DEF PendingOK
  <2> QED
    BY <2>1
<1>7. ASSUME joined, NEW t \in Transfers
      PROVE  /\ fate'[t] = "sending" <=> TailPlaces(N, t) # {} \/ QueuePlaces(txQueue, t) # {}
             /\ TailPlaces(N, t) = {} \/ QueuePlaces(txQueue, t) = {}
             /\ \A k, l \in TailPlaces(N, t) : k = l
  <2>1. /\ fate[t] = "sending" <=> TailPlaces(net, t) # {} \/ QueuePlaces(txQueue, t) # {}
        /\ TailPlaces(net, t) = {} \/ QueuePlaces(txQueue, t) = {}
        /\ \A k, l \in TailPlaces(net, t) : k = l
    BY <1>7 DEF PendingOK
  <2>2. \A k, l \in TailPlaces(N, t) : k = l
    <3> SUFFICES ASSUME NEW k \in TailPlaces(N, t), NEW l \in TailPlaces(N, t) PROVE k = l
      OBVIOUS
    <3>1. k \in Int /\ l \in Int
      BY <1>1, <1>2 DEF TailPlaces
    <3>2. k + 1 = l + 1
      BY <2>1, <1>3
    <3> QED
      BY <3>1, <3>2
  <2>3. CASE 1 \in TailPlaces(net, t)
    <3>1. TailPlaces(N, t) = {}
      BY <2>1, <2>3, <1>3
    <3>2. QueuePlaces(txQueue, t) = {}
      BY <2>1, <2>3
    <3>3. Head(net).flag = "TAIL" /\ Head(net).of = t
      BY <2>3, <1>5
    <3>4. fate'[t] # "sending"
      BY <3>3, <1>7
    <3> QED
      BY <3>1, <3>2, <3>4
  <2>4. CASE 1 \notin TailPlaces(net, t)
    <3>1. TailPlaces(N, t) # {} <=> TailPlaces(net, t) # {}
      BY <2>4, <1>3, <1>4
    <3>2. ~(Head(net).flag = "TAIL" /\ Head(net).of = t)
      BY <2>4, <1>5
    <3>3. fate'[t] = fate[t]
      BY <3>2
    <3> QED
      BY <3>1, <3>3, <2>1, <2>2
  <2> QED
    BY <2>3, <2>4
<1>8. ~joined => txQueue = <<>> /\ fate' = fate /\ \A t \in Transfers : fate[t] # "sending"
  BY DEF PendingOK
<1> QED
  BY <1>6, <1>7, <1>8 DEF PendingOK

\* A packet that goes on from a stage, and the stage after it.
LEMMA FollowsOn ==
    ASSUME NEW s \in Stage, NEW p \in Packet, Follows(s, p)
    PROVE  /\ After(p) \in Stage
           /\ p.flag = "HEAD" <=> s = Idle
           /\ p.flag # "HEAD" => /\ s.of = p.of /\ s.id = p.id
                                 /\ s.pos \in 1 .. LATENT_PACKET_MAX_SIZE
           /\ p.flag \in {"HEAD", "NONE"} =>
                \E n \in s.pos + 1 .. SizeOf[p.of] :
                  /\ s.pos \in Nat /\ p.data = BytesOf(p.of, s.pos + 1, n)
                  /\ After(p) = [of |-> p.of, id |-> p.id, pos |-> n] /\ After(p) # Idle
           /\ p.flag \in {"TAIL", "CANCEL"} => p.data = <<>> /\ After(p) = Idle
           /\ p.flag = "TAIL" => s.pos = SizeOf[p.of]
<1>0. p.flag \in Flags /\ p.id \in 0 .. IdRange - 1 /\ p.of \in Transfers
  BY DEF Packet
<1>1. /\ p.flag = "HEAD" <=> s = Idle
      /\ p.flag # "HEAD" => p.of = s.of /\ p.id = s.id
      /\ p.flag \in {"TAIL", "CANCEL"} => p.data = <<>>
      /\ p.flag = "TAIL" => s.pos = SizeOf[p.of]
  BY DEF Follows
<1>2. p.flag # "HEAD" => s.pos \in 1 .. LATENT_PACKET_MAX_SIZE
  BY <1>1 DEF Stage
<1>3. s.pos \in Nat
  BY Sizes DEF Stage, Idle
<1>4. SizeOf[p.of] \in Nat /\ SizeOf[p.of] <= LATENT_PACKET_MAX_SIZE
  BY <1>0, Sizes
<1>5. ASSUME p.flag \in {"HEAD", "NONE"}
      PROVE  \E n \in s.pos + 1 .. SizeOf[p.of] :
                  /\ p.data = BytesOf(p.of, s.pos + 1, n)
                  /\ After(p) = [of |-> p.of, id |-> p.id, pos |-> n]
                  /\ After(p) # Idle /\ After(p) \in Stage
  <2> PICK n \in s.pos + 1 .. SizeOf[p.of] : p.data = BytesOf(p.of, s.pos + 1, n)
    BY <1>5 DEF Follows
  <2>1. n \in Nat /\ s.pos < n /\ s.pos <= n /\ n \in 1 .. LATENT_PACKET_MAX_SIZE
    BY <1>3, <1>4, Sizes
  <2>2. Len(p.data) = n - s.pos /\ p.data[n - s.pos][2] = n
    <3> PICK m : m = s.pos
      OBVIOUS
    <3>1. Len(BytesOf(p.of, m + 1, n)) = n - m /\ BytesOf(p.of, m + 1, n)[n - m][2] = n
      BY <2>1, <1>0, <1>3, BytesProperties
    <3> QED
      BY <3>1
  <2>3. After(p) = [of |-> p.of, id |-> p.id, pos |-> n]
    BY <2>2, <1>5 DEF After
  <2>4. After(p).pos = n /\ Idle.pos = 0
    BY <2>3 DEF Idle
  <2>5. After(p) # Idle
    BY <2>1, <2>4
  <2>6. After(p) \in Stage
    BY <2>1, <2>3, <1>0 DEF Stage
  <2> QED
    BY <2>3, <2>5, <2>6
<1>6. p.flag \in {"TAIL", "CANCEL"} => After(p) = Idle /\ After(p) \in Stage
  BY DEF After, Stage
<1>7. p.flag \in {"HEAD", "NONE", "TAIL", "CANCEL"}
  BY <1>0 DEF Flags
<1>8. After(p) \in Stage
  BY <1>5, <1>6, <1>7
<1> QED
  BY <1>1, <1>2, <1>3, <1>5, <1>6, <1>8

\* What a step of Receive does with the packet p: h is the receiver's item after its
\* head, rx after its data.
Taken(p, rest, h, rx) ==
    /\ net # <<>> /\ ~bInside /\ p = Head(net) /\ rest = Tail(net)
    /\ p \in Packet /\ rest \in Seq(Packet)
    /\ h = RxAfterHead(p) /\ h \in SReceiveItem /\ rx \in SReceiveItem
    /\ rx.bReceiveStarted = h.bReceiveStarted /\ rx.usId = h.usId
    /\ rx.uiFinalSize = h.uiFinalSize /\ rx.persistent = h.persistent
    /\ rx.data = h.data \o p.data
    /\ bDeferredDelete' = bDeferredDelete
Refuses(h, rest) ==
    ReceiveError(h, rest) /\ UNCHANGED bInside
Accepts(p, rest, rx) ==
    /\ net' = rest
    /\ UNCHANGED <<sendVars, iTimeMsBetweenCalls, joined, receiveError>>
    /\ \/ p.flag = "TAIL" /\ ReceiveTail(rx, p.of)
       \/ /\ p.flag # "TAIL" /\ hasReceiver' = TRUE
          /\ activeRx' = IF p.flag = "CANCEL" THEN NewReceiveItem ELSE rx
          /\ UNCHANGED <<bInside, fate>>

\* A new item, and the item after the head of a packet.
LEMMA NewItem ==
    /\ NewReceiveItem \in SReceiveItem /\ NewReceiveItem.bReceiveStarted = FALSE
    /\ NewReceiveItem.usId = 0 /\ NewReceiveItem.uiFinalSize = 0
    /\ NewReceiveItem.data = <<>> /\ NewReceiveItem.persistent = TRUE
<1>1. <<>> \in Seq(Byte) /\ 0 \in 0 .. IdRange - 1
  BY Sizes
<1> QED
  BY <1>1 DEF NewReceiveItem, SReceiveItem

\* The item after the head of a packet has its type.
LEMMA ItemAfterHead ==
    ASSUME activeRx \in SReceiveItem, NEW p \in Packet
    PROVE  RxAfterHead(p) \in SReceiveItem
<1>1. <<>> \in Seq(Byte) /\ Persistent(p.of) \in BOOLEAN
  BY DEF Persistent
<1>2. p.id \in 0 .. IdRange - 1 /\ SizeOf[p.of] \in Nat
  BY Sizes DEF Packet
<1> QED
  BY <1>1, <1>2 DEF RxAfterHead, SReceiveItem

\* A step of Receive refuses the packet or accepts it.
LEMMA ReceiveCases ==
    ASSUME TypeOK, Receive
    PROVE  \E p, rest, h, rx :
             /\ Taken(p, rest, h, rx)
             /\ \/ HeadRefused(p) /\ Refuses(activeRx, rest)
                \/ ~HeadRefused(p) /\ ~Accepted(h, p) /\ Refuses(h, rest)
                \/ ~HeadRefused(p) /\ Accepted(h, p) /\ Accepts(p, rest, rx)
<1> PICK p : p = Head(net)
  OBVIOUS
<1> PICK rest : rest = Tail(net)
  OBVIOUS
<1> PICK h : h = RxAfterHead(p)
  OBVIOUS
<1> PICK rx : rx = [h EXCEPT !.data = @ \o p.data]
  OBVIOUS
<1>0. activeRx \in SReceiveItem /\ net \in Seq(Packet)
  BY DEF TypeOK
<1>1. /\ net # <<>> /\ ~bInside /\ bDeferredDelete' = bDeferredDelete
      /\ IF HeadRefused(p) \/ ~Accepted(h, p)
         THEN ReceiveError(IF HeadRefused(p) THEN activeRx ELSE h, rest) /\ UNCHANGED bInside
         ELSE /\ IF p.flag = "TAIL"
                 THEN ReceiveTail(rx, p.of)
                 ELSE /\ hasReceiver' = TRUE
                      /\ activeRx' = IF p.flag = "CANCEL" THEN NewReceiveItem ELSE rx
                      /\ UNCHANGED <<bInside, fate>>
              /\ net' = rest
              /\ UNCHANGED <<sendVars, iTimeMsBetweenCalls, joined, receiveError>>
  BY DEF Receive
<1>2. p \in Packet /\ rest \in Seq(Packet)
  BY <1>0, <1>1, HeadTailProperties
<1>3. h \in SReceiveItem /\ p.data \in Seq(Byte)
  BY <1>0, <1>2, ItemAfterHead DEF Packet
<1>4. /\ rx \in SReceiveItem
      /\ rx.bReceiveStarted = h.bReceiveStarted /\ rx.usId = h.usId
      /\ rx.uiFinalSize = h.uiFinalSize /\ rx.persistent = h.persistent
      /\ rx.data = h.data \o p.data
  <2> PICK e : e = h.data \o p.data
    OBVIOUS
  <2>1. e \in Seq(Byte)
    BY <1>3 DEF SReceiveItem
  <2>2. rx = [h EXCEPT !.data = e]
    OBVIOUS
  <2> QED
    BY <2>1, <2>2, <1>3 DEF SReceiveItem
<1>5. Taken(p, rest, h, rx)
  BY <1>1, <1>2, <1>3, <1>4 DEF Taken
<1>6. CASE HeadRefused(p)
  BY <1>1, <1>5, <1>6 DEF Refuses
<1>7. CASE ~HeadRefused(p) /\ ~Accepted(h, p)
  BY <1>1, <1>5, <1>7 DEF Refuses
<1>8. CASE ~HeadRefused(p) /\ Accepted(h, p)
  BY <1>1, <1>5, <1>8 DEF Accepts
<1> QED
  BY <1>6, <1>7, <1>8

\* A packet of a connected remote that goes on from the receiver's stage is accepted.
LEMMA StageAccepts ==
    ASSUME TypeOK, NEW p, NEW rest, NEW h, NEW rx, Taken(p, rest, h, rx),
           NEW s \in Stage, Follows(s, p), Receiving(s)
    PROVE  /\ ~HeadRefused(p) /\ Accepted(h, p)
           /\ p.flag \in {"HEAD", "NONE"} =>
                rx = [bReceiveStarted |-> TRUE, usId |-> After(p).id,
                      uiFinalSize |-> SizeOf[After(p).of],
                      data |-> BytesOf(After(p).of, 1, After(p).pos),
                      persistent |-> Persistent(After(p).of)]
           /\ p.flag = "TAIL" => rx.data = Payload(p.of) /\ rx.persistent = Persistent(p.of)
<1>0. /\ ~bInside /\ p \in Packet /\ h = RxAfterHead(p) /\ h \in SReceiveItem
      /\ rx \in SReceiveItem /\ rx.bReceiveStarted = h.bReceiveStarted /\ rx.usId = h.usId
      /\ rx.uiFinalSize = h.uiFinalSize /\ rx.persistent = h.persistent
      /\ rx.data = h.data \o p.data
  BY DEF Taken
<1>1. /\ p.flag = "HEAD" <=> s = Idle
      /\ p.flag # "HEAD" => /\ s.of = p.of /\ s.id = p.id
                            /\ s.pos \in 1 .. LATENT_PACKET_MAX_SIZE
      /\ p.flag \in {"HEAD", "NONE"} =>
           \E n \in s.pos + 1 .. SizeOf[p.of] :
             /\ s.pos \in Nat /\ p.data = BytesOf(p.of, s.pos + 1, n)
             /\ After(p) = [of |-> p.of, id |-> p.id, pos |-> n] /\ After(p) # Idle
      /\ p.flag \in {"TAIL", "CANCEL"} => p.data = <<>> /\ After(p) = Idle
      /\ p.flag = "TAIL" => s.pos = SizeOf[p.of]
  BY <1>0, FollowsOn
<1> PICK t : t = p.of
  OBVIOUS
<1> PICK S : S = SizeOf[t]
  OBVIOUS
<1>2. t \in Transfers /\ S \in Nat \ {0} /\ S <= LATENT_PACKET_MAX_SIZE /\ p.flag \in Flags
  BY <1>0, Sizes DEF Packet
<1> PICK m : m = s.pos
  OBVIOUS
\* The receiver has the first m bytes.
<1>3. /\ h.usId = p.id /\ h.uiFinalSize = S /\ h.data = BytesOf(t, 1, m) /\ m \in Nat
      /\ h.bReceiveStarted = TRUE /\ h.persistent = Persistent(t) /\ ~HeadRefused(p)
  <2>1. CASE p.flag = "HEAD"
    <3>1. activeRx = NewReceiveItem
      BY <2>1, <1>0, <1>1 DEF Receiving
    <3>2. ~HeadRefused(p)
      BY <2>1, <3>1, <1>2, NewItem, Sizes DEF HeadRefused
    <3>3. h = [bReceiveStarted |-> TRUE, usId |-> p.id, uiFinalSize |-> S,
               data |-> <<>>, persistent |-> Persistent(t)]
      BY <2>1, <1>0 DEF RxAfterHead
    <3>4. m = 0 /\ BytesOf(t, 1, 0) = <<>>
      <4>1. m = 0
        BY <2>1, <1>1 DEF Idle
      <4>2. BytesOf(t, 0 + 1, 0) = <<>>
        <5>1. 0 \in Nat /\ 0 <= 0
          OBVIOUS
        <5> QED
          BY <5>1, <1>2, BytesProperties, ZenonT(40)
      <4> QED
        BY <4>1, <4>2
    <3> QED
      BY <3>2, <3>3, <3>4
  <2>2. CASE p.flag # "HEAD"
    <3>1. h = activeRx
      BY <2>2, <1>0 DEF RxAfterHead
    <3>2. activeRx = [bReceiveStarted |-> TRUE, usId |-> s.id, uiFinalSize |-> SizeOf[s.of],
                      data |-> BytesOf(s.of, 1, s.pos), persistent |-> Persistent(s.of)]
      BY <2>2, <1>1 DEF Receiving
    <3>3. ~HeadRefused(p)
      BY <2>2 DEF HeadRefused
    <3>4. m \in Nat /\ s.of = t /\ s.id = p.id
      BY <2>2, <1>1
    <3> QED
      BY <3>1, <3>2, <3>3, <3>4
  <2> QED
    BY <2>1, <2>2
<1>4. Len(h.data) = m /\ h.data \in Seq(Byte) /\ p.data \in Seq(Byte)
  <2>1. m - 0 = m /\ 0 \in Nat /\ 0 <= m /\ 0 + 1 = 1
    BY <1>3
  <2>2. Len(BytesOf(t, 0 + 1, m)) = m - 0
    BY <2>1, <1>2, <1>3, BytesProperties, ZenonT(40)
  <2> QED
    BY <2>1, <2>2, <1>0, <1>3 DEF SReceiveItem, Packet
<1>5. CASE p.flag \in {"HEAD", "NONE"}
  <2> PICK n \in m + 1 .. S :
        /\ p.data = BytesOf(t, m + 1, n)
        /\ After(p) = [of |-> p.of, id |-> p.id, pos |-> n]
    BY <1>1, <1>5
  <2>1. n \in Nat /\ m <= n /\ n <= S
    BY <1>2, <1>3
  <2>2. Len(p.data) = n - m
    BY <2>1, <1>2, <1>3, BytesProperties, SMTT(30)
  <2>3. rx.data = BytesOf(t, 1, n)
    <3>1. BytesOf(t, 1, m) \o BytesOf(t, m + 1, n) = BytesOf(t, 1, n)
      BY <2>1, <1>2, <1>3, BytesJoined
    <3> QED
      BY <3>1, <1>0, <1>3
  <2>4. Len(h.data) + Len(p.data) = n
    BY <2>1, <2>2, <1>3, <1>4
  <2>5. Accepted(h, p)
    BY <2>1, <2>4, <1>3, <1>5 DEF Accepted
  <2>6. After(p).of = t /\ After(p).id = p.id /\ After(p).pos = n
    OBVIOUS
  <2>7. rx = [bReceiveStarted |-> TRUE, usId |-> p.id, uiFinalSize |-> S,
              data |-> BytesOf(t, 1, n), persistent |-> Persistent(t)]
    <3>1. rx = [bReceiveStarted |-> rx.bReceiveStarted, usId |-> rx.usId,
                uiFinalSize |-> rx.uiFinalSize, data |-> rx.data, persistent |-> rx.persistent]
      BY <1>0 DEF SReceiveItem
    <3> QED
      BY <3>1, <2>3, <1>0, <1>3
  <2> QED
    BY <2>5, <2>6, <2>7, <1>3, <1>5
<1>6. CASE p.flag \in {"TAIL", "CANCEL"}
  <2>1. p.data = <<>> /\ Len(p.data) = 0
    BY <1>1, <1>6
  <2>2. rx.data = h.data
    BY <2>1, <1>0, <1>4
  <2>3. p.flag = "TAIL" => m = S
    BY <1>1
  <2>4. Len(h.data) + Len(p.data) = m
    BY <2>1, <1>3, <1>4
  <2>5. Accepted(h, p)
    <3>1. p.flag = "TAIL" => Len(h.data) + Len(p.data) = h.uiFinalSize
      BY <2>3, <2>4, <1>3
    <3>2. p.flag # "CANCEL" => Len(h.data) + Len(p.data) <= h.uiFinalSize
      <4>1. h.uiFinalSize \in Nat /\ h.uiFinalSize <= h.uiFinalSize
        BY <1>2, <1>3
      <4>2. p.flag # "CANCEL" => p.flag = "TAIL"
        BY <1>6
      <4> QED
        BY <4>1, <4>2, <3>1
    <3> QED
      BY <3>1, <3>2, <1>3 DEF Accepted
  <2>6. p.flag = "TAIL" => rx.data = Payload(t) /\ rx.persistent = Persistent(t)
    BY <2>2, <2>3, <1>0, <1>3 DEF Payload
  <2> QED
    BY <2>5, <2>6, <1>3, <1>6
<1> QED
  BY <1>2, <1>5, <1>6 DEF Flags

\* A connected remote's packet is accepted, or it is the HEAD that follows what late
\* packets have left.
LEMMA ReceiveJoined ==
    ASSUME IInv, joined, Receive
    PROVE  /\ IInv'
           /\ \/ /\ joined' = joined /\ txQueue' = txQueue /\ net' = Tail(net)
                 /\ IF Head(net).flag = "TAIL"
                    THEN \E f \in {"handled", "ignored"} :
                           fate' = [t \in Transfers |-> IF t = Head(net).of THEN f ELSE fate[t]]
                    ELSE fate' = fate
              \/ /\ joined' = FALSE
                 /\ fate' = [t \in Transfers |-> IF fate[t] = "sending" THEN "lost" ELSE fate[t]]
<1>0. TypeOK /\ HandlerKeepsReceiver /\ QueueOK /\ RateOK /\ PendingOK /\ ChannelOK /\ NoError
  BY DEF IInv
<1> PICK p, rest, h, rx :
      /\ Taken(p, rest, h, rx)
      /\ \/ HeadRefused(p) /\ Refuses(activeRx, rest)
         \/ ~HeadRefused(p) /\ ~Accepted(h, p) /\ Refuses(h, rest)
         \/ ~HeadRefused(p) /\ Accepted(h, p) /\ Accepts(p, rest, rx)
  BY <1>0, ReceiveCases
<1>1. /\ net # <<>> /\ ~bInside /\ p = Head(net) /\ rest = Tail(net)
      /\ p \in Packet /\ rest \in Seq(Packet) /\ rx \in SReceiveItem
      /\ bDeferredDelete' = bDeferredDelete /\ net \in Seq(Packet)
  BY <1>0 DEF Taken, TypeOK
<1> PICK s \in Stage : /\ Chained(s, net, Sending(txQueue))
                       /\ Receiving(s) \/ (s = Idle /\ Stale)
  BY <1>0 DEF ChannelOK
<1>2. Follows(s, p) /\ Chained(After(p), rest, Sending(txQueue))
  BY <1>1, ChainTaken
<1>3. After(p) \in Stage /\ (p.flag = "HEAD" <=> s = Idle)
      /\ (p.flag \in {"HEAD", "NONE"} => After(p) # Idle)
      /\ (p.flag \in {"TAIL", "CANCEL"} => After(p) = Idle)
  BY <1>1, <1>2, FollowsOn
<1>4. ~bDeferredDelete
  BY <1>0, <1>1 DEF HandlerKeepsReceiver
<1>5. CASE Receiving(s)
  <2>1. /\ ~HeadRefused(p) /\ Accepted(h, p)
        /\ p.flag \in {"HEAD", "NONE"} =>
             rx = [bReceiveStarted |-> TRUE, usId |-> After(p).id,
                   uiFinalSize |-> SizeOf[After(p).of],
                   data |-> BytesOf(After(p).of, 1, After(p).pos),
                   persistent |-> Persistent(After(p).of)]
        /\ p.flag = "TAIL" => rx.data = Payload(p.of)
    BY <1>0, <1>2, <1>5, StageAccepts
  <2>2. Accepts(p, rest, rx)
    BY <2>1
  <2>3. /\ net' = rest /\ UNCHANGED <<sendVars, iTimeMsBetweenCalls, joined, receiveError>>
        /\ p.flag = "TAIL" => ReceiveTail(rx, p.of)
        /\ p.flag # "TAIL" => /\ hasReceiver' = TRUE
                              /\ activeRx' = IF p.flag = "CANCEL" THEN NewReceiveItem ELSE rx
                              /\ UNCHANGED <<bInside, fate>>
    BY <2>2 DEF Accepts
  <2>4. p.flag = "TAIL" =>
          \E handle \in BOOLEAN, f \in {"handled", "ignored"} :
            /\ hasReceiver' = TRUE /\ bInside' = handle
            /\ activeRx' = IF handle THEN rx ELSE NewReceiveItem
            /\ fate' = [t \in Transfers |-> IF t = p.of THEN f ELSE fate[t]]
    <3> SUFFICES ASSUME p.flag = "TAIL"
                 PROVE  \E handle \in BOOLEAN, f \in {"handled", "ignored"} :
                          /\ hasReceiver' = TRUE /\ bInside' = handle
                          /\ activeRx' = IF handle THEN rx ELSE NewReceiveItem
                          /\ fate' = [t \in Transfers |-> IF t = p.of THEN f ELSE fate[t]]
      OBVIOUS
    <3> PICK handle \in Dispatched(rx) :
          /\ hasReceiver' = TRUE /\ bInside' = handle
          /\ activeRx' = IF handle THEN rx ELSE NewReceiveItem
          /\ SetFate({p.of}, IF rx.data # Payload(p.of) THEN "corrupt"
                             ELSE IF handle THEN "handled" ELSE "ignored")
      BY <2>3 DEF ReceiveTail
    <3>1. handle \in BOOLEAN
      BY SidesType DEF Dispatched
    <3> PICK f : f = IF handle THEN "handled" ELSE "ignored"
      OBVIOUS
    <3>2. fate' = [t \in Transfers |-> IF t = p.of THEN f ELSE fate[t]]
      BY <2>1 DEF SetFate
    <3>3. f \in {"handled", "ignored"}
      OBVIOUS
    <3> QED
      BY <3>1, <3>2, <3>3
  <2>5. bInside' \in BOOLEAN /\ hasReceiver' = TRUE /\ activeRx' \in SReceiveItem
    <3>1. CASE p.flag = "TAIL"
      BY <3>1, <2>4, <1>1, NewItem
    <3>2. CASE p.flag # "TAIL"
      <4>1. bInside' \in BOOLEAN /\ hasReceiver' = TRUE
        BY <3>2, <2>3, <1>0 DEF TypeOK
      <4>2. activeRx' \in SReceiveItem
        BY <3>2, <2>3, <1>1, NewItem
      <4> QED
        BY <4>1, <4>2
    <3> QED
      BY <3>1, <3>2
  <2>6. IF p.flag = "TAIL"
        THEN \E f \in Fates \ {"unsent", "sending"} :
               fate' = [t \in Transfers |-> IF t = p.of THEN f ELSE fate[t]]
        ELSE fate' = fate
    BY <2>3, <2>4 DEF Fates
  <2>7. fate' \in [Transfers -> Fates]
    <3>1. fate \in [Transfers -> Fates]
      BY <1>0 DEF TypeOK
    <3> QED
      BY <3>1, <2>6
  <2>8. PendingOK'
    <3>1. UNCHANGED <<txQueue, joined>>
      BY <2>3 DEF sendVars
    <3>2. \A i \in DOMAIN txQueue : txQueue[i].of \in Transfers
      <4>1. \A i \in DOMAIN txQueue : txQueue[i] \in SSendItem
        BY <1>0, LenProperties DEF TypeOK
      <4> QED
        BY <4>1 DEF SSendItem
    <3> QED
      BY <3>1, <3>2, <2>3, <2>6, <1>0, <1>1, PendingTaken
  <2>9. Receiving(After(p))'
    <3>0. After(p)' = After(p)
      OBVIOUS
    <3>1. CASE p.flag \in {"HEAD", "NONE"}
      BY <3>1, <2>1, <2>3, <1>1, <1>3 DEF Receiving
    <3>2. CASE p.flag = "TAIL"
      BY <3>2, <2>4, <1>3 DEF Receiving
    <3>3. CASE p.flag = "CANCEL"
      BY <3>3, <2>3, <1>1, <1>3 DEF Receiving
    <3> QED
      BY <3>1, <3>2, <3>3, <1>1 DEF Packet, Flags
  <2>10. ChannelOK'
    <3>1. joined' /\ Chained(After(p), net', Sending(txQueue'))
      BY <2>3, <1>2 DEF sendVars
    <3> QED
      BY <3>1, <2>9, <1>3 DEF ChannelOK
  <2>11. TypeOK'
    BY <1>0, <1>1, <2>3, <2>5, <2>7 DEF TypeOK, sendVars
  <2>12. QueueOK' /\ RateOK' /\ NoError'
    BY <1>0, <2>3 DEF QueueOK, RateOK, NoError, sendVars
  <2>13. HandlerKeepsReceiver'
    BY <1>1, <1>4, <2>5 DEF HandlerKeepsReceiver
  <2>14. IInv'
    BY <2>8, <2>10, <2>11, <2>12, <2>13 DEF IInv
  <2>15. IF p.flag = "TAIL"
         THEN \E f \in {"handled", "ignored"} :
                fate' = [t \in Transfers |-> IF t = p.of THEN f ELSE fate[t]]
         ELSE fate' = fate
    BY <2>3, <2>4
  <2>16. joined' = joined /\ txQueue' = txQueue /\ net' = Tail(net)
    BY <2>3, <1>1 DEF sendVars
  <2> QED
    BY <2>14, <2>15, <2>16, <1>1
<1>6. CASE ~Receiving(s)
  <2>1. s = Idle /\ LatePackets /\ activeRx.bReceiveStarted /\ p.flag = "HEAD"
    BY <1>3, <1>6 DEF Stale
  <2>2. HeadRefused(p) /\ Refuses(activeRx, rest)
    <3>1. HeadRefused(p)
      BY <2>1 DEF HeadRefused
    <3> QED
      BY <3>1
  <2>3. /\ receiveError' = TRUE /\ hasReceiver' = FALSE /\ activeRx' = NewReceiveItem
        /\ Disconnected(rest) /\ bInside' = bInside
    BY <2>2 DEF Refuses, ReceiveError
  <2>4. /\ joined' = FALSE /\ txQueue' \in Seq(SSendItem)
        /\ uiNextSendId' \in Nat /\ uiCurrentRate' \in Nat /\ iBytesOwing' \in Nat
        /\ iTimeMsBetweenCalls' \in 0 .. MaxTimeMs
        /\ net' \in Seq(Packet) /\ (~LatePackets => net' = <<>>)
        /\ fate' \in [Transfers -> Fates]
        /\ QueueOK' /\ RateOK' /\ PendingOK'
    BY <1>0, <1>1, <2>3, DisconnectedStep
  <2>5. ChannelOK'
    <3>1. Receiving(Idle)'
      BY <2>3 DEF Receiving
    <3> QED
      BY <3>1, <2>4, <2>1 DEF ChannelOK
  <2>6. TypeOK'
    BY <1>0, <1>1, <2>3, <2>4, NewItem DEF TypeOK
  <2>7. HandlerKeepsReceiver' /\ NoError'
    BY <1>1, <1>4, <2>1, <2>3 DEF HandlerKeepsReceiver, NoError
  <2>8. IInv'
    BY <2>4, <2>5, <2>6, <2>7 DEF IInv
  <2>9. fate' = [t \in Transfers |-> IF fate[t] = "sending" THEN "lost" ELSE fate[t]]
    BY <2>3 DEF Disconnected
  <2> QED
    BY <2>4, <2>8, <2>9
<1> QED
  BY <1>5, <1>6

\* Late packets of a remote that has left are put together, or refused, for nobody.
LEMMA ReceiveLate ==
    ASSUME IInv, ~joined, Receive
    PROVE  IInv' /\ UNCHANGED <<joined, fate>>
<1>0. TypeOK /\ HandlerKeepsReceiver /\ QueueOK /\ RateOK /\ PendingOK /\ ChannelOK /\ NoError
  BY DEF IInv
<1> PICK p, rest, h, rx :
      /\ Taken(p, rest, h, rx)
      /\ \/ HeadRefused(p) /\ Refuses(activeRx, rest)
         \/ ~HeadRefused(p) /\ ~Accepted(h, p) /\ Refuses(h, rest)
         \/ ~HeadRefused(p) /\ Accepted(h, p) /\ Accepts(p, rest, rx)
  BY <1>0, ReceiveCases
<1>1. /\ net # <<>> /\ ~bInside /\ p = Head(net) /\ rest = Tail(net)
      /\ p \in Packet /\ rest \in Seq(Packet) /\ h = RxAfterHead(p)
      /\ h \in SReceiveItem /\ rx \in SReceiveItem /\ rx.data = h.data \o p.data
      /\ rx.bReceiveStarted = h.bReceiveStarted /\ rx.usId = h.usId
      /\ rx.uiFinalSize = h.uiFinalSize /\ rx.persistent = h.persistent
      /\ bDeferredDelete' = bDeferredDelete /\ net \in Seq(Packet)
      /\ activeRx \in SReceiveItem
  BY <1>0 DEF Taken, TypeOK
<1>2. LatePackets /\ (activeRx = NewReceiveItem \/ activeRx.bReceiveStarted)
  BY <1>0, <1>1 DEF ChannelOK, Receiving, Stale
<1>3. ~bDeferredDelete
  BY <1>0, <1>1 DEF HandlerKeepsReceiver
<1>4. h.bReceiveStarted \/ h = NewReceiveItem
  <2>1. CASE p.flag = "HEAD"
    BY <2>1, <1>1 DEF RxAfterHead
  <2>2. CASE p.flag # "HEAD"
    BY <2>2, <1>1, <1>2 DEF RxAfterHead
  <2> QED
    BY <2>1, <2>2
<1>5. ASSUME Accepted(h, p), p.flag # "CANCEL"
      PROVE  rx.bReceiveStarted \/ rx = NewReceiveItem
  <2>1. CASE h.bReceiveStarted
    BY <2>1, <1>1
  <2>2. CASE h = NewReceiveItem
    <3>1. Len(h.data) + Len(p.data) <= 0
      BY <2>2, <1>5, NewItem DEF Accepted
    <3>2. Len(p.data) = 0 /\ p.data \in Seq(Byte) /\ h.data = <<>>
      <4>1. h.data = <<>> /\ Len(h.data) = 0
        BY <2>2, NewItem
      <4>2. p.data \in Seq(Byte)
        BY <1>1 DEF Packet
      <4>3. Len(p.data) \in Nat
        BY <4>2, LenProperties
      <4> QED
        BY <4>1, <4>2, <4>3, <3>1
    <3>3. p.data = <<>>
      BY <3>2, EmptySeq
    <3>4. rx.data = <<>>
      BY <3>2, <3>3, <1>1
    <3>5. rx = [bReceiveStarted |-> rx.bReceiveStarted, usId |-> rx.usId,
                uiFinalSize |-> rx.uiFinalSize, data |-> rx.data, persistent |-> rx.persistent]
      BY <1>1 DEF SReceiveItem
    <3> QED
      BY <3>4, <3>5, <2>2, <1>1, NewItem DEF NewReceiveItem
  <2> QED
    BY <2>1, <2>2, <1>4
<1>6. /\ hasReceiver' = TRUE /\ bInside' = FALSE /\ activeRx' \in SReceiveItem
      /\ activeRx' = NewReceiveItem \/ activeRx'.bReceiveStarted
      /\ net' = rest /\ fate' = fate
      /\ UNCHANGED <<sendVars, iTimeMsBetweenCalls, joined, receiveError>>
  <2>0. bInside = FALSE
    BY <1>0, <1>1 DEF TypeOK
  <2>1. CASE Refuses(activeRx, rest)
    BY <2>0, <2>1, <1>1, <1>2 DEF Refuses, ReceiveError
  <2>2. CASE Refuses(h, rest)
    BY <2>0, <2>2, <1>1, <1>4 DEF Refuses, ReceiveError
  <2>3. CASE Accepted(h, p) /\ Accepts(p, rest, rx)
    <3>1. net' = rest /\ UNCHANGED <<sendVars, iTimeMsBetweenCalls, joined, receiveError>>
      BY <2>3 DEF Accepts
    <3>2. CASE p.flag = "TAIL"
      <4>1. ReceiveTail(rx, p.of)
        BY <2>3, <3>2 DEF Accepts
      <4>2. hasReceiver' = TRUE /\ bInside' = FALSE /\ activeRx' = NewReceiveItem /\ fate' = fate
        BY <4>1 DEF ReceiveTail
      <4> QED
        BY <3>1, <4>2, NewItem
    <3>3. CASE p.flag # "TAIL"
      <4>1. /\ hasReceiver' = TRUE /\ bInside' = bInside /\ fate' = fate
            /\ activeRx' = IF p.flag = "CANCEL" THEN NewReceiveItem ELSE rx
        BY <2>3, <3>3 DEF Accepts
      <4>2. CASE p.flag = "CANCEL"
        BY <3>1, <4>1, <4>2, <2>0, NewItem
      <4>3. CASE p.flag # "CANCEL"
        <5>1. rx.bReceiveStarted \/ rx = NewReceiveItem
          BY <2>3, <4>3, <1>5
        <5> QED
          BY <3>1, <4>1, <4>3, <5>1, <2>0, <1>1
      <4> QED
        BY <4>2, <4>3
    <3> QED
      BY <3>2, <3>3
  <2> QED
    BY <2>1, <2>2, <2>3
<1>7. PendingOK'
  <2>1. txQueue' = <<>> /\ ~joined' /\ \A t \in Transfers : fate'[t] # "sending"
    BY <1>0, <1>6 DEF PendingOK, sendVars
  <2>2. DOMAIN <<>> = {}
    OBVIOUS
  <2> QED
    BY <2>1, <2>2 DEF PendingOK
<1>8. ChannelOK'
  <2>1. ~joined'
    BY <1>6
  <2>2. Receiving(Idle)' \/ Stale'
    BY <1>2, <1>6 DEF Receiving, Stale
  <2> QED
    BY <2>1, <2>2, <1>2 DEF ChannelOK
<1>9. TypeOK'
  BY <1>0, <1>1, <1>6 DEF TypeOK, sendVars
<1>10. QueueOK' /\ RateOK' /\ NoError'
  BY <1>0, <1>6 DEF QueueOK, RateOK, NoError, sendVars
<1>11. HandlerKeepsReceiver'
  BY <1>1, <1>3, <1>6 DEF HandlerKeepsReceiver
<1> QED
  BY <1>6, <1>7, <1>8, <1>9, <1>10, <1>11 DEF IInv

\* The handler returns: the receiver has nothing, whether it is kept or not.
LEMMA HandlerReturnStep ==
    ASSUME IInv, HandlerReturn
    PROVE  IInv'
<1>0. TypeOK /\ HandlerKeepsReceiver /\ QueueOK /\ RateOK /\ PendingOK /\ ChannelOK /\ NoError
  BY DEF IInv
<1>1. /\ bInside /\ bInside' = FALSE /\ bDeferredDelete' = FALSE
      /\ hasReceiver' = (hasReceiver /\ ~bDeferredDelete)
      /\ activeRx' = NewReceiveItem
      /\ UNCHANGED <<sendVars, iTimeMsBetweenCalls, net, joined, receiveError, fate>>
  BY DEF HandlerReturn
<1>2. ChannelOK'
  <2>1. ASSUME joined
        PROVE  \E s \in Stage : Chained(s, net, Sending(txQueue)) /\ Receiving(s)'
    <3> PICK s \in Stage : /\ Chained(s, net, Sending(txQueue))
                           /\ Receiving(s) \/ (s = Idle /\ Stale)
      BY <2>1, <1>0 DEF ChannelOK
    <3>1. s = Idle
      BY <1>1 DEF Receiving
    <3>2. Receiving(s)'
      BY <3>1, <1>1 DEF Receiving
    <3> QED
      BY <3>2
  <2>2. Receiving(Idle)'
    BY <1>1 DEF Receiving
  <2>3. ~joined /\ ~LatePackets => net = <<>>
    BY <1>0 DEF ChannelOK
  <2>4. joined' = joined /\ net' = net /\ txQueue' = txQueue
    BY <1>1 DEF sendVars
  <2> QED
    BY <2>1, <2>2, <2>3, <2>4 DEF ChannelOK
<1>3. TypeOK'
  <2>1. hasReceiver' \in BOOLEAN
    BY <1>1
  <2> QED
    BY <2>1, <1>0, <1>1, NewItem DEF TypeOK, sendVars
<1>4. QueueOK' /\ RateOK' /\ NoError' /\ HandlerKeepsReceiver'
  BY <1>0, <1>1 DEF QueueOK, RateOK, NoError, HandlerKeepsReceiver, sendVars
<1>5. PendingOK'
  BY <1>0, <1>1 DEF PendingOK, sendVars
<1> QED
  BY <1>2, <1>3, <1>4, <1>5 DEF IInv

\* The remote leaves: inside its handler the receiver stays until the handler returns.
LEMMA LeaveStep ==
    ASSUME IInv, Leave
    PROVE  IInv'
<1>0. TypeOK /\ HandlerKeepsReceiver /\ QueueOK /\ RateOK /\ PendingOK /\ ChannelOK /\ NoError
  BY DEF IInv
<1>1. joined /\ Disconnected(net) /\ RemoveReceiver /\ receiveError' = receiveError
  BY DEF Leave
<1>2. /\ joined' = FALSE /\ txQueue' \in Seq(SSendItem)
      /\ uiNextSendId' \in Nat /\ uiCurrentRate' \in Nat /\ iBytesOwing' \in Nat
      /\ iTimeMsBetweenCalls' \in 0 .. MaxTimeMs
      /\ net' \in Seq(Packet) /\ (~LatePackets => net' = <<>>)
      /\ fate' \in [Transfers -> Fates]
      /\ QueueOK' /\ RateOK' /\ PendingOK'
  <2>1. net \in Seq(Packet)
    BY <1>0 DEF TypeOK
  <2> QED
    BY <2>1, <1>0, <1>1, DisconnectedStep
<1>3. bInside' = bInside
  BY <1>1 DEF RemoveReceiver
<1>4. Receiving(Idle)'
  <2>1. CASE bInside
    BY <2>1, <1>3 DEF Receiving
  <2>2. CASE ~bInside
    BY <2>2, <1>1 DEF RemoveReceiver, Receiving
  <2> QED
    BY <2>1, <2>2
<1>5. ChannelOK'
  BY <1>2, <1>4 DEF ChannelOK
<1>6. TypeOK'
  <2>1. /\ hasReceiver' \in BOOLEAN /\ bDeferredDelete' \in BOOLEAN
        /\ activeRx' \in SReceiveItem
    <3>1. CASE bInside
      BY <3>1, <1>0, <1>1 DEF TypeOK, RemoveReceiver
    <3>2. CASE ~bInside
      BY <3>2, <1>0, <1>1, NewItem DEF TypeOK, RemoveReceiver
    <3> QED
      BY <3>1, <3>2
  <2> QED
    BY <2>1, <1>0, <1>1, <1>2, <1>3 DEF TypeOK
<1>7. HandlerKeepsReceiver'
  <2>1. CASE bInside
    <3>1. hasReceiver' = hasReceiver /\ bDeferredDelete' = TRUE
      BY <2>1, <1>1 DEF RemoveReceiver
    <3> QED
      BY <2>1, <3>1, <1>0, <1>2, <1>3 DEF HandlerKeepsReceiver
  <2>2. CASE ~bInside
    <3>1. bDeferredDelete' = bDeferredDelete
      BY <2>2, <1>1 DEF RemoveReceiver
    <3> QED
      BY <2>2, <3>1, <1>0, <1>3 DEF HandlerKeepsReceiver
  <2> QED
    BY <2>1, <2>2
<1>8. NoError'
  BY <1>0, <1>1 DEF NoError
<1> QED
  BY <1>2, <1>5, <1>6, <1>7, <1>8 DEF IInv

\* A new remote: nothing is on its way, and nothing was asked for.
LEMMA JoinStep ==
    ASSUME IInv, Join
    PROVE  IInv'
<1>0. TypeOK /\ HandlerKeepsReceiver /\ QueueOK /\ RateOK /\ PendingOK /\ ChannelOK /\ NoError
  BY DEF IInv
<1>1. /\ ~joined /\ net = <<>> /\ ~bInside /\ joined' = TRUE
      /\ UNCHANGED <<sendVars, iTimeMsBetweenCalls, net, receiveVars, receiveError, fate>>
  BY DEF Join
<1>2. txQueue = <<>> /\ \A t \in Transfers : fate[t] # "sending"
  BY <1>0, <1>1 DEF PendingOK
<1>3. DOMAIN <<>> = {}
  OBVIOUS
<1>4. PendingOK'
  <2>1. \A t : TailPlaces(<<>>, t) = {} /\ QueuePlaces(<<>>, t) = {}
    BY <1>3 DEF TailPlaces, QueuePlaces
  <2>2. net' = <<>> /\ txQueue' = <<>> /\ fate' = fate /\ joined' = TRUE
    BY <1>1, <1>2 DEF sendVars
  <2> QED
    BY <2>1, <2>2, <1>2, <1>3 DEF PendingOK
<1>5. ChannelOK'
  <2>1. Sending(txQueue') = Idle /\ net' = <<>>
    BY <1>1, <1>2 DEF Sending, sendVars
  <2>2. Chained(Idle, net', Sending(txQueue'))
    BY <2>1, NoneChained
  <2>3. Receiving(Idle)' \/ Stale'
    <3>1. Receiving(Idle) \/ Stale
      BY <1>0, <1>1 DEF ChannelOK
    <3> QED
      BY <3>1, <1>1 DEF Receiving, Stale, receiveVars
  <2>4. Idle \in Stage
    BY DEF Stage
  <2> QED
    BY <2>2, <2>3, <2>4, <1>1 DEF ChannelOK
<1>6. TypeOK'
  BY <1>0, <1>1 DEF TypeOK, sendVars, receiveVars
<1>7. QueueOK' /\ RateOK' /\ NoError'
  BY <1>0, <1>1 DEF QueueOK, RateOK, NoError, sendVars
<1>8. HandlerKeepsReceiver'
  BY <1>0, <1>1 DEF HandlerKeepsReceiver, receiveVars
<1> QED
  BY <1>4, <1>5, <1>6, <1>7, <1>8 DEF IInv

-----------------------------------------------------------------------------
(* The invariant is inductive.                                             *)

\* It holds at first.
LEMMA InitOK ==
    ASSUME Init PROVE IInv
<1>0. /\ txQueue = <<>> /\ uiNextSendId = 0 /\ uiCurrentRate = 0 /\ iBytesOwing = 0
      /\ iTimeMsBetweenCalls = 0 /\ net = <<>> /\ joined = TRUE
      /\ hasReceiver = FALSE /\ activeRx = NewReceiveItem
      /\ bInside = FALSE /\ bDeferredDelete = FALSE /\ receiveError = FALSE
      /\ fate = [t \in Transfers |-> "unsent"]
  BY DEF Init
<1>1. <<>> \in Seq(SSendItem) /\ <<>> \in Seq(Packet) /\ DOMAIN <<>> = {}
  OBVIOUS
<1>2. TypeOK
  <2>1. 0 \in 0 .. MaxTimeMs
    BY Sizes
  <2>2. fate \in [Transfers -> Fates]
    BY <1>0 DEF Fates
  <2> QED
    BY <2>1, <2>2, <1>0, <1>1, NewItem DEF TypeOK
<1>3. HandlerKeepsReceiver /\ QueueOK /\ NoError
  BY <1>0, <1>1 DEF HandlerKeepsReceiver, QueueOK, QueueGood, NoError
<1>4. RateOK
  <2> PICK q : q = <<>> /\ q \in Seq(SSendItem) /\ DOMAIN q = {}
    BY <1>1
  <2>1. Highest(q) = MIN_SEND_RATE
    BY HighestIs
  <2>2. Max({MIN_SEND_RATE, 0}) = MIN_SEND_RATE
    BY MaxOfTwo, Sizes
  <2> QED
    BY <2>1, <2>2, <1>0 DEF RateOK
<1>5. PendingOK
  <2>1. \A t : TailPlaces(<<>>, t) = {} /\ QueuePlaces(<<>>, t) = {}
    BY <1>1 DEF TailPlaces, QueuePlaces
  <2> QED
    BY <2>1, <1>0, <1>1 DEF PendingOK
<1>6. ChannelOK
  <2>1. Sending(txQueue) = Idle /\ Receiving(Idle) /\ Idle \in Stage
    BY <1>0 DEF Sending, Receiving, Stage
  <2>2. Chained(Idle, net, Sending(txQueue))
    BY <2>1, <1>0, NoneChained
  <2> QED
    BY <2>1, <2>2, <1>0 DEF ChannelOK
<1> QED
  BY <1>2, <1>3, <1>4, <1>5, <1>6 DEF IInv

\* Every step keeps it.
LEMMA NextOK ==
    ASSUME IInv, [Next]_vars PROVE IInv'
<1>1. ASSUME NEW t \in Transfers, AddSend(t) PROVE IInv'
  BY <1>1, AddSendStep
<1>2. ASSUME NEW t \in Transfers, CancelSend(t) PROVE IInv'
  <2>1. {t} \subseteq Cancellable /\ Erase({t})
    BY <1>2 DEF CancelSend
  <2> QED
    BY <2>1, EraseStep
<1>3. ASSUME NEW vm \in VMs, OnLuaMainDestroy(vm) PROVE IInv'
  <2> PICK S : S = {t \in Cancellable : VMOf[t] = vm}
    OBVIOUS
  <2>1. S \subseteq Cancellable /\ Erase(S)
    BY <1>3 DEF OnLuaMainDestroy
  <2> QED
    BY <2>1, EraseStep
<1>4. ASSUME PulseSome PROVE IInv'
  <2> PICK delta \in Deltas : Pulse(delta)
    BY <1>4 DEF PulseSome
  <2> QED
    BY PulseStep
<1>5. ASSUME Receive PROVE IInv'
  BY <1>5, ReceiveJoined, ReceiveLate
<1>6. CASE UNCHANGED vars
  <2>1. UNCHANGED <<txQueue, uiNextSendId, uiCurrentRate, iBytesOwing, iTimeMsBetweenCalls, net,
                    joined, hasReceiver, activeRx, bInside, bDeferredDelete, receiveError, fate>>
    BY <1>6 DEF vars, sendVars, receiveVars
  <2>2. TypeOK' /\ HandlerKeepsReceiver'
    BY <2>1 DEF IInv, TypeOK, HandlerKeepsReceiver
  <2>3. QueueOK' /\ RateOK' /\ PendingOK' /\ NoError'
    BY <2>1 DEF IInv, QueueOK, RateOK, PendingOK, NoError
  <2>4. ChannelOK'
    BY <2>1 DEF IInv, ChannelOK, Receiving, Stale
  <2> QED
    BY <2>2, <2>3, <2>4 DEF IInv
<1> QED
  BY <1>1, <1>2, <1>3, <1>4, <1>5, <1>6, HandlerReturnStep, LeaveStep, JoinStep DEF Next

\* So it holds of every reachable state.
LEMMA Invariance ==
    Spec => []IInv
<1>1. Init => IInv
  BY InitOK
<1>2. IInv /\ [Next]_vars => IInv'
  BY NextOK
<1> QED
  BY <1>1, <1>2, PTL DEF Spec

-----------------------------------------------------------------------------
(* What a transfer relies on.                                              *)

\* Every reachable state of the sender, the channel and the receiver has its type.
THEOREM TypeCorrect ==
    Spec => []TypeOK
<1>1. IInv => TypeOK
  BY DEF IInv
<1> QED
  BY <1>1, Invariance, PTL

\* A receiver is never deleted while its handler runs, and a deferred deletion never
\* outlives the handler.
THEOREM HandlerKeepsItsReceiver ==
    Spec => []HandlerKeepsReceiver
<1>1. IInv => HandlerKeepsReceiver
  BY DEF IInv
<1> QED
  BY <1>1, Invariance, PTL

\* The rate a queue is sent with is the highest that one of its items asks for.
THEOREM RateIsHighest ==
    Spec => []CurrentRateIsHighest
<1>1. IInv => CurrentRateIsHighest
  BY DEF IInv, RateOK, CurrentRateIsHighest
<1> QED
  BY <1>1, Invariance, PTL

\* Whatever is queued, cancelled and destroyed in whatever order, and however the
\* remote leaves and joins: the receiver accepts every packet, if no input of a remote
\* outlives its leaving.  (If some does, the server refuses the first transfer of the
\* next player with the same id, as LeftRemoteForgotten shows.)
THEOREM NoErrorReceived ==
    ~LatePackets => (Spec => []NoReceiveError)
<1> SUFFICES ASSUME ~LatePackets PROVE Spec => []NoReceiveError
  OBVIOUS
<1>1. IInv => NoReceiveError
  BY DEF IInv, NoError, NoReceiveError
<1> QED
  BY <1>1, Invariance, PTL

-----------------------------------------------------------------------------
(* The transfers implement their service.                                  *)

\* What is pending, in the order in which it will arrive.
Pending == IF joined THEN PendingOf(net, txQueue) ELSE <<>>

\* The transfers that are pending are those that are being sent.
LEMMA PendingAreSent ==
    ASSUME IInv
    PROVE  /\ Pending \in Seq(Transfers)
           /\ \A t : (\E i \in DOMAIN Pending : Pending[i] = t)
                       <=> t \in Transfers /\ fate[t] = "sending"
<1> PICK p : p = Pending
  OBVIOUS
<1>1. CASE joined
  <2>1. p = PendingOf(net, txQueue)
    BY <1>1 DEF Pending
  <2>2. net \in Seq(Packet) /\ txQueue \in Seq(SSendItem)
    BY DEF IInv, TypeOK
  <2>3. Lists(net, txQueue, p)
    BY <2>1, <2>2, PendingLists
  <2>4. p \in Seq(Transfers) /\ \A i \in DOMAIN p : p[i] \in Transfers
    BY <2>3, LenProperties DEF Lists
  <2>5. \A t : Places(net, txQueue, t) = {} <=>
                 TailPlaces(net, t) = {} /\ QueuePlaces(txQueue, t) = {}
    BY <2>2, PlacesAreNumbers
  <2>6. \A t \in Transfers :
          fate[t] = "sending" <=> TailPlaces(net, t) # {} \/ QueuePlaces(txQueue, t) # {}
    BY <1>1 DEF IInv, PendingOK
  <2>7. \A t \in Transfers : (\E i \in DOMAIN p : p[i] = t) <=> fate[t] = "sending"
    BY <2>3, <2>5, <2>6 DEF Lists
  <2> QED
    BY <2>4, <2>7
<1>2. CASE ~joined
  <2>1. p = <<>> /\ DOMAIN <<>> = {} /\ <<>> \in Seq(Transfers)
    BY <1>2 DEF Pending
  <2>2. \A t \in Transfers : fate[t] # "sending"
    BY <1>2 DEF IInv, PendingOK
  <2> QED
    BY <2>1, <2>2
<1> QED
  BY <1>1, <1>2

\* After a step too what is queued or on its way has one place.
LEMMA PlacedAfter ==
    ASSUME IInv', joined'
    PROVE  Placed(net', txQueue')
<1> PICK N : N = net'
  OBVIOUS
<1> PICK Q : Q = txQueue'
  OBVIOUS
<1>1. N \in Seq(Packet) /\ Q \in Seq(SSendItem) /\ QueueGood(Q)
  BY DEF IInv, TypeOK, QueueOK
<1>2. \A t \in Transfers : /\ TailPlaces(N, t) = {} \/ QueuePlaces(Q, t) = {}
                           /\ \A k, l \in TailPlaces(N, t) : k = l
  BY DEF IInv, PendingOK
<1>3. Placed(N, Q)
  BY <1>1, <1>2, PlacedOnce
<1> QED
  BY <1>3

\* What AddSend queues is accepted.
LEMMA AddSendAccepts ==
    ASSUME IInv, IInv', NEW t \in Transfers, AddSend(t)
    PROVE  Service!Accept(t)
<1> PICK new : new = [of |-> t, uiId |-> uiNextSendId, pos |-> 0,
                      bSendStarted |-> FALSE, bSendFinishing |-> FALSE]
  OBVIOUS
<1> PICK R : R = txQueue'
  OBVIOUS
<1>1. /\ joined /\ fate[t] = "unsent" /\ R = Append(txQueue, new)
      /\ joined' = joined /\ net' = net
      /\ fate' = [u \in Transfers |-> IF u \in {t} THEN "sending" ELSE fate[u]]
  BY DEF AddSend, SetFate
<1>2. net \in Seq(Packet) /\ txQueue \in Seq(SSendItem) /\ uiNextSendId \in Nat
  BY DEF IInv, TypeOK
<1>3. new \in SSendItem /\ ~new.bSendFinishing /\ new.of = t
  BY <1>2 DEF SSendItem
<1>4. Placed(net, R)
  BY <1>1, PlacedAfter
<1>5. Places(net, txQueue, t) = {}
  <2>1. TailPlaces(net, t) = {} /\ QueuePlaces(txQueue, t) = {}
    BY <1>1 DEF IInv, PendingOK
  <2> QED
    BY <2>1, <1>2, PlacesAreNumbers
<1>6. PendingOf(net, R) = Append(PendingOf(net, txQueue), t)
  <2>1. Places(net, txQueue, new.of) = {}
    BY <1>3, <1>5
  <2>2. PendingOf(net, R) = Append(PendingOf(net, txQueue), new.of)
    BY ONLY <2>1, <1>1, <1>2, <1>3, <1>4, AppendPending
  <2> QED
    BY <2>2, <1>3
<1> QED
  BY <1>1, <1>6 DEF Service!Accept, Service!SetFate

\* What is erased from the queue is cancelled.
LEMMA EraseCancels ==
    ASSUME IInv, NEW S, S \subseteq Cancellable, Erase(S)
    PROVE  Service!Next
<1> PICK N : N = net'
  OBVIOUS
<1> PICK R : R = txQueue'
  OBVIOUS
<1>1. /\ IInv' /\ joined /\ R = Kept(txQueue, S)
      /\ \A t : TailPlaces(N, t) = TailPlaces(net, t)
      /\ \A t \in S : t \in Transfers /\ QueuePlaces(txQueue, t) # {}
      /\ \A t : QueuePlaces(R, t) # {} <=> t \notin S /\ QueuePlaces(txQueue, t) # {}
      /\ fate' = [t \in Transfers |-> IF t \in S THEN "cancelled" ELSE fate[t]]
  BY EraseStep
<1>2. joined' = joined
  BY DEF Erase
<1>3. /\ net \in Seq(Packet) /\ txQueue \in Seq(SSendItem)
      /\ N \in Seq(Packet) /\ R \in Seq(SSendItem)
  BY <1>1 DEF IInv, TypeOK
<1>4. Placed(N, R)
  BY <1>1, <1>2, PlacedAfter
<1>5. \A t : /\ Places(N, R, t) = {} <=> TailPlaces(N, t) = {} /\ QueuePlaces(R, t) = {}
             /\ Places(net, txQueue, t) = {} <=>
                  TailPlaces(net, t) = {} /\ QueuePlaces(txQueue, t) = {}
  BY <1>3, PlacesAreNumbers
<1>6. ASSUME NEW t \in Transfers
      PROVE  Places(N, R, t) # {} <=> t \notin S /\ Places(net, txQueue, t) # {}
  <2>1. TailPlaces(net, t) = {} \/ QueuePlaces(txQueue, t) = {}
    BY <1>1 DEF IInv, PendingOK
  <2>2. t \in S => QueuePlaces(txQueue, t) # {}
    BY <1>1
  <2> QED
    BY <2>1, <2>2, <1>1, <1>5
<1>7. ASSUME NEW x, NEW y, x \notin S, y \notin S, Before(net, txQueue, x, y)
      PROVE  Before(N, R, x, y)
  <2>1. TailsBefore(net, x, y) => TailsBefore(N, x, y)
    BY <1>1 DEF TailsBefore
  <2>2. QueueBefore(txQueue, x, y) => QueueBefore(R, x, y)
    BY <1>1, <1>3, <1>7, KeptInOrder
  <2>3. \/ TailsBefore(net, x, y)
        \/ TailPlaces(net, x) # {} /\ QueuePlaces(txQueue, y) # {}
        \/ QueueBefore(txQueue, x, y)
    BY <1>3, <1>7, BeforeIs
  <2>4. \/ TailsBefore(N, x, y)
        \/ TailPlaces(N, x) # {} /\ QueuePlaces(R, y) # {}
        \/ QueueBefore(R, x, y)
    BY <2>1, <2>2, <2>3, <1>1, <1>7
  <2> QED
    BY <2>4, <1>3, BeforeIs
<1>8. PendingOf(N, R) = Without(PendingOf(net, txQueue), S)
  <2>1. Dropped(net, txQueue, S, N, R)
    BY <1>6, <1>7 DEF Dropped
  <2> QED
    BY ONLY <2>1, <1>3, <1>4, KeptPending
<1>9. S \subseteq {Pending[i] : i \in DOMAIN Pending}
  <2> SUFFICES ASSUME NEW t \in S PROVE \E i \in DOMAIN Pending : Pending[i] = t
    OBVIOUS
  <2>1. t \in Transfers /\ fate[t] = "sending"
    BY <1>1 DEF IInv, PendingOK
  <2> QED
    BY <2>1, PendingAreSent
<1>10. Service!Cancel(S)
  \* The same definitions, seen through the service.
  <2>1. ASSUME NEW p PROVE Service!Without(p, S) = Without(p, S)
    <3>1. ASSUME NEW I PROVE Service!Subsequence(p, I) = Subsequence(p, I)
      BY Zenon DEF Subsequence, Service!Subsequence, Rank, Service!Rank,
                   Cardinality, Service!Cardinality
    <3> QED
      BY <3>1 DEF Without, Service!Without
  <2> QED
    BY <2>1, <1>1, <1>2, <1>8 DEF Service!Cancel, Service!SetFate
<1>11. S \in SUBSET Service!Pending
  BY <1>1, <1>9 DEF Service!Pending, Pending
<1> QED
  BY <1>10, <1>11 DEF Service!Next

\* When the remote leaves, all that is pending is lost.
LEMMA LeavingLoses ==
    ASSUME IInv, joined' = FALSE,
           fate' = [t \in Transfers |-> IF fate[t] = "sending" THEN "lost" ELSE fate[t]]
    PROVE  Service!Leave
<1>1. \A t \in Transfers : t \in {Pending[i] : i \in DOMAIN Pending} <=> fate[t] = "sending"
  BY PendingAreSent
<1>2. fate' = [t \in Transfers |-> IF t \in {Pending[i] : i \in DOMAIN Pending}
                                   THEN "lost" ELSE fate[t]]
  BY <1>1
<1> QED
  BY <1>2 DEF Service!Leave, Service!SetFate, Service!Pending, Pending

\* A tail that is received makes the oldest transfer arrive; other packets change nothing.
LEMMA ReceiveArrives ==
    ASSUME IInv, Receive
    PROVE  [Service!Next]_(Service!vars)
<1>1. CASE ~joined
  <2>1. UNCHANGED <<joined, fate>>
    BY <1>1, ReceiveLate
  <2> QED
    BY <2>1, <1>1 DEF Service!vars
<1>2. CASE joined /\ joined' = FALSE
  <2>1. fate' = [t \in Transfers |-> IF fate[t] = "sending" THEN "lost" ELSE fate[t]]
    BY <1>2, ReceiveJoined
  <2> QED
    BY <2>1, <1>2, LeavingLoses DEF Service!Next
<1>3. CASE joined /\ joined' # FALSE
  <2> PICK N : N = net'
    OBVIOUS
  <2>1. /\ IInv' /\ joined' = joined /\ txQueue' = txQueue /\ N = Tail(net)
        /\ IF Head(net).flag = "TAIL"
           THEN \E f \in {"handled", "ignored"} :
                  fate' = [t \in Transfers |-> IF t = Head(net).of THEN f ELSE fate[t]]
           ELSE fate' = fate
    BY <1>3, ReceiveJoined
  <2>2. net \in Seq(Packet) /\ txQueue \in Seq(SSendItem) /\ net # <<>>
    BY DEF IInv, TypeOK, Receive
  <2>3. Placed(net, txQueue) /\ Placed(N, txQueue)
    BY <1>3, <2>1, PlacedWhenJoined, PlacedAfter
  <2>4. IF Head(net).flag = "TAIL"
        THEN /\ PendingOf(net, txQueue) # <<>> /\ Head(PendingOf(net, txQueue)) = Head(net).of
             /\ PendingOf(N, txQueue) = Tail(PendingOf(net, txQueue))
        ELSE PendingOf(N, txQueue) = PendingOf(net, txQueue)
    BY ONLY <2>1, <2>2, <2>3, TakenPending
  <2>5. CASE Head(net).flag = "TAIL"
    <3> PICK f \in {"handled", "ignored"} :
          fate' = [t \in Transfers |-> IF t = Head(net).of THEN f ELSE fate[t]]
      BY <2>1, <2>5
    <3>1. fate' = [t \in Transfers |-> IF t \in {Head(PendingOf(net, txQueue))}
                                       THEN f ELSE fate[t]]
      BY <2>4, <2>5
    <3>2. Service!Arrive
      BY <3>1, <2>1, <2>4, <2>5, <1>3 DEF Service!Arrive, Service!SetFate
    <3> QED
      BY <3>2 DEF Service!Next
  <2>6. CASE Head(net).flag # "TAIL"
    BY <2>1, <2>4, <2>6, <1>3 DEF Service!vars
  <2> QED
    BY <2>5, <2>6
<1> QED
  BY <1>1, <1>2, <1>3

\* Transfers arrive whole, once and in the order in which they were queued, unless they
\* are cancelled before their end is received or the remote leaves: however they are cut
\* into packets, paced and cancelled, whatever late packets a left remote has queued, and
\* whatever the handler of one does.
THEOREM TransfersImplementService == Spec => ImplementsTransferService
<1>1. Init => Service!Init
  <2> SUFFICES ASSUME Init PROVE Service!Init
    OBVIOUS
  <2>1. IInv /\ fate = [t \in Transfers |-> "unsent"]
    BY InitOK DEF Init
  <2>2. Pending = <<>>
    <3> PICK p : p = Pending
      OBVIOUS
    <3>1. p \in Seq(Transfers) /\ DOMAIN p = 1 .. Len(p) /\ Len(p) \in Nat
      BY <2>1, PendingAreSent, LenProperties
    <3>2. \A i \in DOMAIN p : FALSE
      BY <2>1, PendingAreSent
    <3>3. Len(p) = 0
      <4>1. 1 \notin 1 .. Len(p)
        BY <3>1, <3>2
      <4> QED
        BY <4>1, <3>1
    <3> QED
      BY <3>1, <3>3, EmptySeq
  <2> QED
    BY <2>1, <2>2 DEF Service!Init, Pending
<1>2. IInv /\ [Next]_vars => [Service!Next]_(Service!vars)
  <2> SUFFICES ASSUME IInv, [Next]_vars PROVE [Service!Next]_(Service!vars)
    OBVIOUS
  <2>1. ASSUME NEW t \in Transfers, AddSend(t) PROVE Service!Next
    <3>1. IInv'
      BY <2>1, AddSendStep
    <3>2. Service!Accept(t)
      BY <2>1, <3>1, AddSendAccepts
    <3> QED
      BY <3>2 DEF Service!Next
  <2>2. ASSUME NEW t \in Transfers, CancelSend(t) PROVE Service!Next
    <3>1. {t} \subseteq Cancellable /\ Erase({t})
      BY <2>2 DEF CancelSend
    <3> QED
      BY <3>1, EraseCancels
  <2>3. ASSUME NEW vm \in VMs, OnLuaMainDestroy(vm) PROVE Service!Next
    <3> PICK S : S = {t \in Cancellable : VMOf[t] = vm}
      OBVIOUS
    <3>1. S \subseteq Cancellable /\ Erase(S)
      BY <2>3 DEF OnLuaMainDestroy
    <3> QED
      BY <3>1, EraseCancels
  <2>4. ASSUME PulseSome PROVE UNCHANGED Service!vars
    <3> PICK delta \in Deltas : Pulse(delta)
      BY <2>4 DEF PulseSome
    <3>1. UNCHANGED <<joined, fate>> /\ (joined => PendingOf(net', txQueue') = PendingOf(net, txQueue))
      BY PulseStep
    <3> QED
      BY <3>1 DEF Service!vars
  <2>5. ASSUME HandlerReturn PROVE UNCHANGED Service!vars
    BY <2>5 DEF HandlerReturn, sendVars, Service!vars
  <2>6. ASSUME Leave PROVE Service!Next
    <3>1. joined' = FALSE
          /\ fate' = [t \in Transfers |-> IF fate[t] = "sending" THEN "lost" ELSE fate[t]]
      BY <2>6 DEF Leave, Disconnected
    <3> QED
      BY <3>1, LeavingLoses DEF Service!Next
  <2>7. ASSUME Join PROVE UNCHANGED Service!vars
    <3>1. ~joined /\ IInv' /\ joined' = TRUE /\ fate' = fate
      BY <2>7, JoinStep DEF Join
    <3>2. PendingOf(net', txQueue') = <<>>
      <4>1. net' = <<>> /\ txQueue' = <<>>
        BY <2>7, <3>1 DEF Join, sendVars, IInv, PendingOK
      <4> PICK p : p = PendingOf(<<>>, <<>>)
        OBVIOUS
      <4>2. <<>> \in Seq(Packet) /\ <<>> \in Seq(SSendItem) /\ DOMAIN <<>> = {}
        OBVIOUS
      <4>3. Lists(<<>>, <<>>, p)
        BY <4>2, PendingLists
      <4>4. \A t : Places(<<>>, <<>>, t) = {}
        BY <4>2 DEF Places, TailPlaces, QueuePlaces
      <4>5. p \in Seq(Transfers) /\ DOMAIN p = {}
        <5>1. p \in Seq(Transfers) /\ \A i \in DOMAIN p : p[i] \in Transfers
          BY <4>3, LenProperties DEF Lists
        <5>2. \A i \in DOMAIN p : FALSE
          BY <5>1, <4>3, <4>4 DEF Lists
        <5> QED
          BY <5>1, <5>2
      <4>6. p = <<>>
        BY <4>5, LenProperties, EmptySeq
      <4> QED
        BY <4>1, <4>6
    <3> QED
      BY <3>1, <3>2 DEF Service!vars
  <2>8. CASE UNCHANGED vars
    BY <2>8 DEF vars, sendVars, Service!vars
  <2> QED
    BY <2>1, <2>2, <2>3, <2>4, <2>5, <2>6, <2>7, <2>8, ReceiveArrives DEF Next
<1> QED
  BY <1>1, <1>2, Invariance, PTL DEF Spec, ImplementsTransferService, Service!Spec
=============================================================================
