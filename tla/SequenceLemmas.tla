--------------------------- MODULE SequenceLemmas ---------------------------
(***************************************************************************)
(* Lemmas about sequences that the proofs of several components need: the  *)
(* queues of jobs are sequences without repetition (IsInjective) from      *)
(* which an element is taken at the front or in the middle.                *)
(***************************************************************************)
EXTENDS Integers, SequencesExt, Subsequences, SequenceTheorems, FiniteSetTheorems,
        WellFoundedInduction, TLAPS

\* Taking an element out of a sequence leaves one without it, with all the others in
\* their order.
LEMMA RemoveAtProperties ==
    ASSUME NEW S, NEW s \in Seq(S), NEW i \in 1 .. Len(s)
    PROVE  /\ RemoveAt(s, i) \in Seq(S)
           /\ Len(RemoveAt(s, i)) = Len(s) - 1
           /\ \A k \in 1 .. Len(s) - 1 :
                RemoveAt(s, i)[k] = IF k < i THEN s[k] ELSE s[k + 1]
<1> DEFINE front == SubSeq(s, 1, i - 1)
           back == SubSeq(s, i + 1, Len(s))
<1>1. Len(s) \in Nat /\ \A k \in 1 .. Len(s) : s[k] \in S
  BY LenProperties
<1>2. /\ front \in Seq(S) /\ Len(front) = i - 1
      /\ \A k \in 1 .. i - 1 : front[k] = s[k]
  <2>1. \A k \in 1 .. i - 1 : s[k] \in S
    BY <1>1
  <2>2. 1 \in Int /\ i - 1 \in Int
    BY <1>1
  <2> HIDE DEF front
  <2>3. /\ front \in Seq(S) /\ Len(front) = (IF 1 <= i - 1 THEN (i - 1) - 1 + 1 ELSE 0)
        /\ \A k \in 1 .. (i - 1) - 1 + 1 : front[k] = s[1 + k - 1]
    BY <2>1, <2>2, SubSeqProperties DEF front
  <2> QED
    BY <1>1, <2>3
<1>3. /\ back \in Seq(S) /\ Len(back) = Len(s) - i
      /\ \A k \in 1 .. Len(s) - i : back[k] = s[i + k]
  <2>1. \A k \in i + 1 .. Len(s) : s[k] \in S
    BY <1>1
  <2>2. i + 1 \in Int /\ Len(s) \in Int
    BY <1>1
  <2> HIDE DEF back
  <2>3. /\ back \in Seq(S)
        /\ Len(back) = (IF i + 1 <= Len(s) THEN Len(s) - (i + 1) + 1 ELSE 0)
        /\ \A k \in 1 .. Len(s) - (i + 1) + 1 : back[k] = s[(i + 1) + k - 1]
    BY <2>1, <2>2, SubSeqProperties DEF back
  <2> QED
    BY <1>1, <2>3
<1> HIDE DEF front, back
<1>4. /\ front \o back \in Seq(S)
      /\ Len(front \o back) = Len(front) + Len(back)
      /\ \A k \in 1 .. Len(front) + Len(back) :
            (front \o back)[k] = IF k <= Len(front) THEN front[k] ELSE back[k - Len(front)]
  BY <1>2, <1>3, ConcatProperties
<1>5. RemoveAt(s, i) = front \o back
  BY DEF RemoveAt, front, back
<1>6. ASSUME NEW k \in 1 .. Len(s) - 1
      PROVE  (front \o back)[k] = IF k < i THEN s[k] ELSE s[k + 1]
  <2>1. CASE k < i
    <3>1. k \in 1 .. i - 1 /\ k <= Len(front) /\ k \in 1 .. Len(front) + Len(back)
      BY <2>1, <1>1, <1>2, <1>3
    <3> QED
      BY <2>1, <3>1, <1>2, <1>4
  <2>2. CASE ~(k < i)
    <3>1. /\ k \in 1 .. Len(front) + Len(back) /\ ~(k <= Len(front))
          /\ k - Len(front) \in 1 .. Len(s) - i /\ i + (k - Len(front)) = k + 1
      BY <2>2, <1>1, <1>2, <1>3
    <3>2. (front \o back)[k] = back[k - Len(front)]
      BY <3>1, <1>4
    <3>3. back[k - Len(front)] = s[i + (k - Len(front))]
      BY <3>1, <1>3
    <3> QED
      BY <2>2, <3>1, <3>2, <3>3, <1>1
  <2> QED
    BY <2>1, <2>2
<1>7. Len(front \o back) = Len(s) - 1
  BY <1>1, <1>2, <1>3, <1>4
<1> QED
  BY <1>4, <1>5, <1>6, <1>7

\* Appending what is not in it to a queue without repetition.
LEMMA AppendDistinct ==
    ASSUME NEW S, NEW q \in Seq(S), IsInjective(q), NEW j \in S \ ToSet(q)
    PROVE  /\ IsInjective(Append(q, j))
           /\ ToSet(Append(q, j)) = ToSet(q) \cup {j}
           /\ q # <<>> => Head(Append(q, j)) = Head(q)
<1> DEFINE r == Append(q, j)
<1>1. /\ Len(q) \in Nat /\ DOMAIN q = 1 .. Len(q) /\ DOMAIN r = 1 .. Len(q) + 1
      /\ \A i \in 1 .. Len(q) : r[i] = q[i]
      /\ r[Len(q) + 1] = j
  BY AppendProperties, LenProperties
<1>2. q # <<>> => Head(r) = Head(q)
  BY HeadTailAppend
<1> HIDE DEF r
<1>3. ToSet(r) = ToSet(q) \cup {j}
  <2>1. ToSet(r) \subseteq ToSet(q) \cup {j}
    BY <1>1 DEF ToSet
  <2>2. ToSet(q) \cup {j} \subseteq ToSet(r)
    BY <1>1 DEF ToSet
  <2> QED
    BY <2>1, <2>2
<1>4. IsInjective(r)
  BY <1>1 DEF IsInjective, ToSet
<1> QED
  BY <1>2, <1>3, <1>4 DEF r

\* Taking the front of such a queue.
LEMMA TailDistinct ==
    ASSUME NEW S, NEW q \in Seq(S), IsInjective(q), q # <<>>
    PROVE  IsInjective(Tail(q)) /\ ToSet(Tail(q)) = ToSet(q) \ {Head(q)}
<1> DEFINE r == Tail(q)
<1>1. /\ Len(q) \in Nat \ {0} /\ DOMAIN q = 1 .. Len(q) /\ DOMAIN r = 1 .. Len(q) - 1
      /\ \A i \in 1 .. Len(q) - 1 : r[i] = q[i + 1]
  BY HeadTailProperties, LenProperties, EmptySeq
<1>2. Head(q) = q[1]
  OBVIOUS
<1> HIDE DEF r
<1>3. IsInjective(r)
  BY <1>1 DEF IsInjective
<1>4. ToSet(r) \subseteq ToSet(q) \ {q[1]}
  BY <1>1 DEF ToSet, IsInjective
<1>5. ToSet(q) \ {q[1]} \subseteq ToSet(r)
  <2>1. ASSUME NEW i \in 1 .. Len(q), i # 1
        PROVE  i - 1 \in 1 .. Len(q) - 1 /\ r[i - 1] = q[i]
    BY <1>1, <2>1
  <2> QED
    BY <1>1, <2>1 DEF ToSet
<1> QED
  BY <1>2, <1>3, <1>4, <1>5 DEF r

\* Taking an element out of the middle of it.
LEMMA RemoveDistinct ==
    ASSUME NEW S, NEW q \in Seq(S), IsInjective(q), NEW i \in 1 .. Len(q)
    PROVE  IsInjective(RemoveAt(q, i)) /\ ToSet(RemoveAt(q, i)) = ToSet(q) \ {q[i]}
<1> DEFINE r == RemoveAt(q, i)
<1>1. /\ Len(q) \in Nat /\ DOMAIN q = 1 .. Len(q) /\ DOMAIN r = 1 .. Len(q) - 1
      /\ \A k \in 1 .. Len(q) - 1 : r[k] = IF k < i THEN q[k] ELSE q[k + 1]
  BY RemoveAtProperties, LenProperties
<1> HIDE DEF r
<1>2. IsInjective(r)
  <2> SUFFICES ASSUME NEW k \in 1 .. Len(q) - 1, NEW l \in 1 .. Len(q) - 1, r[k] = r[l]
               PROVE  k = l
    BY <1>1 DEF IsInjective
  <2>1. k \in 1 .. Len(q) /\ k + 1 \in 1 .. Len(q) /\ l \in 1 .. Len(q) /\ l + 1 \in 1 .. Len(q)
    BY <1>1
  <2> QED
    BY <1>1, <2>1 DEF IsInjective
<1>3. ToSet(r) \subseteq ToSet(q) \ {q[i]}
  <2> SUFFICES ASSUME NEW k \in 1 .. Len(q) - 1
               PROVE  r[k] \in ToSet(q) /\ r[k] # q[i]
    BY <1>1 DEF ToSet
  <2>1. k \in 1 .. Len(q) /\ k + 1 \in 1 .. Len(q) /\ k + 1 # k
    BY <1>1
  <2> QED
    BY <1>1, <2>1 DEF IsInjective, ToSet
<1>4. ToSet(q) \ {q[i]} \subseteq ToSet(r)
  <2> SUFFICES ASSUME NEW k \in 1 .. Len(q), k # i
               PROVE  q[k] \in ToSet(r)
    BY <1>1 DEF ToSet
  <2>1. CASE k < i
    <3>1. k \in 1 .. Len(q) - 1
      BY <1>1, <2>1
    <3> QED
      BY <1>1, <2>1, <3>1 DEF ToSet
  <2>2. CASE ~(k < i)
    <3>1. k - 1 \in 1 .. Len(q) - 1 /\ ~(k - 1 < i) /\ (k - 1) + 1 = k
      BY <1>1, <2>2
    <3> QED
      BY <1>1, <3>1 DEF ToSet
  <2> QED
    BY <2>1, <2>2
<1> QED
  BY <1>2, <1>3, <1>4 DEF r
-----------------------------------------------------------------------------
(* Subsequences.  Induction on numbers is done by the least number for     *)
(* which a claim fails.                                                    *)

\* The natural numbers are well-founded.
LEMMA LessWellFounded == IsWellFoundedOn({p \in Nat \X Nat : p[1] < p[2]}, Nat)
  BY NatLessThanWellFounded DEF OpToRel

\* A set of natural numbers that is not empty has a least one.
LEMMA LeastNumber ==
    ASSUME NEW T, T \subseteq Nat, T # {}
    PROVE  \E n \in T : \A k \in T : n <= k
<1> DEFINE R == {p \in Nat \X Nat : p[1] < p[2]}
<1>1. IsWellFoundedOn(R, Nat)
  BY LessWellFounded
<1>2. \A a, b \in Nat : a < b => <<a, b>> \in R
  OBVIOUS
<1> HIDE DEF R
<1>3. PICK x \in T : \A y \in T : ~ (<<y, x>> \in R)
  BY <1>1, WFMin
<1>4. ASSUME NEW k \in T PROVE x <= k
  <2>1. k \in Nat /\ x \in Nat
    OBVIOUS
  <2>2. ~(k < x)
    BY <1>2, <1>3, <2>1
  <2> QED
    BY <2>1, <2>2
<1> QED
  BY <1>4

\* The rank of a position counts the positions up to it.
LEMMA RankCounts ==
    ASSUME NEW N \in Nat, NEW I, I \subseteq 1 .. N
    PROVE  /\ IsFiniteSet(I) /\ Cardinality(I) \in Nat
           /\ \A i \in 0 .. N : Rank(I, i) \in Nat
           /\ Rank(I, 0) = 0 /\ Rank(I, N) = Cardinality(I)
           /\ \A i \in 1 .. N :
                Rank(I, i) = IF i \in I THEN Rank(I, i - 1) + 1 ELSE Rank(I, i - 1)
<1>0. \A x \in I : x \in Int /\ 1 <= x /\ x <= N
  OBVIOUS
<1>1. IsFiniteSet(1 .. N)
  BY FS_Interval
<1>2. IsFiniteSet(I) /\ Cardinality(I) \in Nat
  BY <1>1, FS_Subset, FS_CardinalityType
<1>3. ASSUME NEW i \in Int
      PROVE  IsFiniteSet({k \in I : k <= i}) /\ Rank(I, i) \in Nat
  <2>1. {k \in I : k <= i} \in SUBSET I
    OBVIOUS
  <2>2. IsFiniteSet({k \in I : k <= i})
    BY <2>1, <1>2, FS_Subset
  <2> QED
    BY <2>2, FS_CardinalityType DEF Rank
<1>4. {k \in I : k <= 0} = {} /\ {k \in I : k <= N} = I
  <2>1. \A x \in I : ~(x <= 0) /\ x <= N
    BY <1>0
  <2> QED
    BY <2>1
<1>5. Rank(I, 0) = 0 /\ Rank(I, N) = Cardinality(I)
  BY <1>4, FS_EmptySet DEF Rank
<1>6. ASSUME NEW i \in 1 .. N
      PROVE  Rank(I, i) = IF i \in I THEN Rank(I, i - 1) + 1 ELSE Rank(I, i - 1)
  <2> DEFINE before == {k \in I : k <= i - 1}
  <2>0. i - 1 \in Int /\ i \in Int /\ ~(i <= i - 1) /\ i <= i
    OBVIOUS
  <2>1. IsFiniteSet(before) /\ Cardinality(before) = Rank(I, i - 1)
    BY <2>0, <1>3 DEF Rank
  <2>a. i \notin before
    BY <2>0
  <2>b. \A k \in I : k <= i <=> k <= i - 1 \/ k = i
    BY <2>0, <1>0
  <2>2. {k \in I : k <= i} = IF i \in I THEN before \cup {i} ELSE before
    BY <2>b, <2>0
  <2> HIDE DEF before
  <2>3. Cardinality(before \cup {i}) = Cardinality(before) + 1
    BY <2>1, <2>a, FS_AddElement
  <2> QED
    BY <2>1, <2>2, <2>3 DEF Rank
<1>7. \A i \in 0 .. N : Rank(I, i) \in Nat
  <2>1. \A i \in 0 .. N : i \in Int
    OBVIOUS
  <2> QED
    BY <1>3, <2>1
<1> QED
  BY <1>2, <1>5, <1>6, <1>7

\* Each rank is that of a position.
LEMMA RankReached ==
    ASSUME NEW N \in Nat, NEW I, I \subseteq 1 .. N, NEW n \in 1 .. Cardinality(I)
    PROVE  \E i \in I : Rank(I, i) = n
<1> DEFINE T == {i \in 0 .. N : n <= Rank(I, i)}
<1>0. /\ Cardinality(I) \in Nat /\ \A i \in 0 .. N : Rank(I, i) \in Nat
      /\ Rank(I, 0) = 0 /\ Rank(I, N) = Cardinality(I)
      /\ \A i \in 1 .. N :
           Rank(I, i) = IF i \in I THEN Rank(I, i - 1) + 1 ELSE Rank(I, i - 1)
  BY RankCounts
<1>a. n \in Nat /\ 1 <= n /\ n <= Cardinality(I)
  BY <1>0
<1>1. T \subseteq Nat /\ N \in T
  BY <1>0, <1>a
<1>2. PICK i \in T : \A k \in T : i <= k
  <2> HIDE DEF T
  <2> QED
    BY <1>1, LeastNumber
<1>b. i \in 0 .. N /\ n <= Rank(I, i)
  OBVIOUS
<1>c. i # 0
  BY <1>b, <1>0, <1>a
<1>d. i \in 1 .. N /\ i - 1 \in 0 .. N
  BY <1>b, <1>c
<1>3. i \in 1 .. N /\ Rank(I, i) \in Nat /\ Rank(I, i - 1) \in Nat
  BY <1>0, <1>d, <1>b
<1>4. i - 1 \in 0 .. N /\ i - 1 \notin T
  <2>1. ~(i <= i - 1)
    BY <1>d
  <2> QED
    BY <2>1, <1>d, <1>2
<1>5. ~(n <= Rank(I, i - 1))
  BY <1>4
<1>6. n <= Rank(I, i)
  BY <1>b
<1>7. Rank(I, i) = IF i \in I THEN Rank(I, i - 1) + 1 ELSE Rank(I, i - 1)
  BY <1>3, <1>0
<1>8. i \in I
  BY <1>5, <1>6, <1>7
<1>9. Rank(I, i) = n
  BY <1>3, <1>5, <1>6, <1>7, <1>8, <1>a
<1> QED
  BY <1>8, <1>9

\* A later position has a higher rank.
LEMMA RankRises ==
    ASSUME NEW N \in Nat, NEW I, I \subseteq 1 .. N, NEW i \in I, NEW k \in I, i < k
    PROVE  Rank(I, i) < Rank(I, k)
<1> DEFINE low == {x \in I : x <= i}
           high == {x \in I : x <= k}
<1>1. IsFiniteSet(I)
  BY RankCounts
<1>2. IsFiniteSet(low) /\ IsFiniteSet(high)
  BY <1>1, FS_Subset
<1>0. \A x \in I : x \in Int
  OBVIOUS
<1>a. i \in Int /\ k \in Int /\ ~(k <= i) /\ k <= k /\ \A x \in I : x <= i => x <= k
  BY <1>0
<1>3. low \cup {k} \subseteq high /\ k \notin low
  BY <1>a
<1> HIDE DEF low, high
<1>4. Cardinality(low \cup {k}) <= Cardinality(high)
  BY <1>2, <1>3, FS_Subset
<1>5. Cardinality(low \cup {k}) = Cardinality(low) + 1
  BY <1>2, <1>3, FS_AddElement
<1>6. Cardinality(low) \in Nat /\ Cardinality(high) \in Nat
  BY <1>2, FS_CardinalityType
<1>7. Cardinality(low) < Cardinality(high)
  BY <1>4, <1>5, <1>6
<1> QED
  BY <1>7 DEF low, high, Rank

\* t has the elements of s at the positions I, each once, in their order.
IsPicked(s, I, t) ==
    /\ Cardinality(I) \in Nat /\ Len(t) = Cardinality(I)
    /\ \E at \in [1 .. Cardinality(I) -> I] :
         /\ \A n \in 1 .. Cardinality(I) : t[n] = s[at[n]]
         /\ \A m, n \in 1 .. Cardinality(I) : m < n => at[m] < at[n]
         /\ \A i \in I : \E n \in 1 .. Cardinality(I) : at[n] = i

\* That is what Subsequence takes.
LEMMA SubsequenceProperties ==
    ASSUME NEW S, NEW s \in Seq(S), NEW I, I \subseteq 1 .. Len(s)
    PROVE  Subsequence(s, I) \in Seq(S) /\ IsPicked(s, I, Subsequence(s, I))
<1>0. Len(s) \in Nat /\ \A i \in 1 .. Len(s) : s[i] \in S
  BY LenProperties
<1>1. Cardinality(I) \in Nat
  BY <1>0, RankCounts
<1>a. \A x \in I : x \in 1 .. Len(s) /\ x \in Int
  BY <1>0
<1>b. \A x, y \in I : x < y => Rank(I, x) < Rank(I, y)
  BY <1>0, RankRises
<1>c. /\ \A i \in 0 .. Len(s) : Rank(I, i) \in Nat
      /\ \A i \in 1 .. Len(s) :
           Rank(I, i) = IF i \in I THEN Rank(I, i - 1) + 1 ELSE Rank(I, i - 1)
  BY <1>0, RankCounts
<1> DEFINE pos(n) == CHOOSE i \in I : Rank(I, i) = n
           at == [n \in 1 .. Cardinality(I) |-> pos(n)]
<1>2. ASSUME NEW n \in 1 .. Cardinality(I)
      PROVE  pos(n) \in I /\ Rank(I, pos(n)) = n
  BY <1>0, RankReached
<1>3. \A n \in 1 .. Cardinality(I) : Subsequence(s, I)[n] = s[pos(n)]
  BY DEF Subsequence
<1>4. Subsequence(s, I) \in [1 .. Cardinality(I) -> S]
  <2>1. \A n \in 1 .. Cardinality(I) : s[pos(n)] \in S
    BY <1>0, <1>2
  <2>2. Subsequence(s, I) = [n \in 1 .. Cardinality(I) |-> s[pos(n)]]
    BY DEF Subsequence
  <2> HIDE DEF pos
  <2> QED
    BY <2>1, <2>2
<1>5. Subsequence(s, I) \in Seq(S) /\ Len(Subsequence(s, I)) = Cardinality(I)
  BY <1>1, <1>4, LenProperties, IsASeq
<1>6. ASSUME NEW m \in 1 .. Cardinality(I), NEW n \in 1 .. Cardinality(I), m < n
      PROVE  pos(m) < pos(n)
  <2>1. pos(m) \in I /\ pos(n) \in I /\ Rank(I, pos(m)) = m /\ Rank(I, pos(n)) = n
    BY <1>2
  <2> HIDE DEF pos
  <2>a. m \in Int /\ n \in Int /\ m < n
    BY <1>1, <1>6
  <2>b. pos(m) \in Int /\ pos(n) \in Int
    BY <2>1, <1>a
  <2>2. pos(m) # pos(n)
    BY <2>1, <2>a
  <2>3. ~(pos(n) < pos(m))
    <3>1. SUFFICES ASSUME pos(n) < pos(m) PROVE FALSE
      OBVIOUS
    <3>2. Rank(I, pos(n)) < Rank(I, pos(m))
      BY <2>1, <3>1, <1>b
    <3> QED
      BY <3>2, <2>1, <2>a
  <2> QED
    BY <2>b, <2>2, <2>3
<1>7. ASSUME NEW i \in I
      PROVE  \E n \in 1 .. Cardinality(I) : pos(n) = i
  <2>0. i \in 1 .. Len(s)
    OBVIOUS
  <2>1. Rank(I, i) \in Nat /\ Rank(I, i - 1) \in Nat /\ Rank(I, i) = Rank(I, i - 1) + 1
    <3>1. i \in 0 .. Len(s) /\ i - 1 \in 0 .. Len(s)
      BY <2>0, <1>0
    <3> QED
      BY <3>1, <2>0, <1>c
  <2>2. Rank(I, i) <= Cardinality(I)
    <3>1. {k \in I : k <= i} \in SUBSET I /\ IsFiniteSet(I)
      BY <1>0, RankCounts
    <3> QED
      BY <3>1, FS_Subset DEF Rank
  <2>3. Rank(I, i) \in 1 .. Cardinality(I)
    BY <2>1, <2>2, <1>1
  <2>4. pos(Rank(I, i)) \in I /\ Rank(I, pos(Rank(I, i))) = Rank(I, i)
    BY <2>3, <1>2
  <2> HIDE DEF pos
  <2> PICK p \in I : p = pos(Rank(I, i))
    BY <2>4
  <2>a. Rank(I, p) = Rank(I, i)
    BY <2>4
  <2>b. Rank(I, i) \in Nat
    BY <2>1
  <2>5. ~(p < i) /\ ~(i < p)
    <3>1. ~(Rank(I, p) < Rank(I, i)) /\ ~(Rank(I, i) < Rank(I, p))
      BY <2>a, <2>b
    <3> QED
      BY <3>1, <1>b
  <2>c. p \in Int /\ i \in Int
    BY <1>a
  <2>6. pos(Rank(I, i)) = i
    BY <2>c, <2>5
  <2> QED
    BY <2>3, <2>6
<1>8. at \in [1 .. Cardinality(I) -> I]
  BY <1>2
<1>9. \A n \in 1 .. Cardinality(I) : at[n] = pos(n)
  OBVIOUS
<1> HIDE DEF pos, at
<1> QED
  BY <1>1, <1>3, <1>5, <1>6, <1>7, <1>8, <1>9 DEF IsPicked

\* Without leaves all but the elements that are gone, in their order.
LEMMA WithoutProperties ==
    ASSUME NEW S, NEW s \in Seq(S), NEW gone
    PROVE  /\ Without(s, gone) \in Seq(S)
           /\ Range(Without(s, gone)) = Range(s) \ gone
           /\ IsInjective(s) => IsInjective(Without(s, gone))
<1> DEFINE I == {i \in DOMAIN s : s[i] \notin gone}
<1> DEFINE t == Subsequence(s, I)
<1>1. DOMAIN s = 1 .. Len(s) /\ I \subseteq 1 .. Len(s)
  BY LenProperties
<1> HIDE DEF I
<1>2. t \in Seq(S) /\ IsPicked(s, I, t)
  BY <1>1, SubsequenceProperties
<1> HIDE DEF t
<1>3. DOMAIN t = 1 .. Cardinality(I) /\ Cardinality(I) \in Nat
  BY <1>2, LenProperties DEF IsPicked
<1> PICK at \in [1 .. Cardinality(I) -> I] :
      /\ \A n \in 1 .. Cardinality(I) : t[n] = s[at[n]]
      /\ \A m, n \in 1 .. Cardinality(I) : m < n => at[m] < at[n]
      /\ \A i \in I : \E n \in 1 .. Cardinality(I) : at[n] = i
  BY <1>2 DEF IsPicked
<1>4. \A n \in DOMAIN t : at[n] \in I /\ t[n] = s[at[n]]
  BY <1>3
<1>5. Range(t) = Range(s) \ gone
  <2>1. ASSUME NEW x \in Range(t) PROVE x \in Range(s) \ gone
    <3> PICK n \in DOMAIN t : x = t[n]
      BY <2>1 DEF Range
    <3> QED
      BY <1>4 DEF Range, I
  <2>2. ASSUME NEW x \in Range(s) \ gone PROVE x \in Range(t)
    <3> PICK i \in DOMAIN s : x = s[i]
      BY <2>2 DEF Range
    <3>1. i \in I
      BY <2>2 DEF I
    <3> PICK n \in 1 .. Cardinality(I) : at[n] = i
      BY <3>1
    <3> QED
      BY <1>3 DEF Range
  <2> QED
    BY <2>1, <2>2
<1>6. ASSUME IsInjective(s) PROVE IsInjective(t)
  <2> SUFFICES ASSUME NEW m \in DOMAIN t, NEW n \in DOMAIN t, t[m] = t[n]
               PROVE  m = n
    BY DEF IsInjective
  <2>1. at[m] = at[n]
    BY <1>4, <1>6 DEF IsInjective, I
  <2>2. at[m] \in Int /\ at[n] \in Int
    BY <1>4, <1>1
  <2>3. ~(m < n) /\ ~(n < m)
    BY <2>1, <2>2, <1>3
  <2> QED
    BY <2>3, <1>3
<1> QED
  BY <1>2, <1>5, <1>6 DEF t, I, Without

-----------------------------------------------------------------------------
(* A stack is a sequence with its top first.                               *)

\* Pushing one entry.
LEMMA PushProperties ==
    ASSUME NEW S, NEW s \in Seq(S), NEW a \in S
    PROVE  /\ <<a>> \o s \in Seq(S) /\ <<a>> \o s # <<>>
           /\ Head(<<a>> \o s) = a /\ Tail(<<a>> \o s) = s
           /\ Len(<<a>> \o s) = Len(s) + 1 /\ Len(s) \in Nat
           /\ (<<a>> \o s)[1] = a
           /\ \A k \in 1 .. Len(s) : (<<a>> \o s)[k + 1] = s[k]
           /\ Range(<<a>> \o s) = Range(s) \cup {a}
<1>1. <<a>> \in Seq(S) /\ Len(<<a>>) = 1 /\ <<a>>[1] = a
  OBVIOUS
<1> DEFINE t == <<a>> \o s
<1>2. Len(s) \in Nat /\ DOMAIN s = 1 .. Len(s)
  BY LenProperties
<1>3. /\ t \in Seq(S) /\ Len(t) = 1 + Len(s)
      /\ \A k \in 1 .. 1 + Len(s) : t[k] = IF k <= 1 THEN <<a>>[k] ELSE s[k - 1]
  BY <1>1, <1>2, ConcatProperties
<1>4. DOMAIN t = 1 .. Len(s) + 1
  BY <1>2, <1>3, LenProperties
<1> HIDE DEF t
<1>5. t[1] = a /\ \A k \in 1 .. Len(s) : t[k + 1] = s[k]
  <2>1. 1 \in 1 .. 1 + Len(s)
    BY <1>2
  <2>2. \A k \in 1 .. Len(s) : k + 1 \in 1 .. 1 + Len(s) /\ ~(k + 1 <= 1) /\ k + 1 - 1 = k
    BY <1>2
  <2> QED
    BY <2>1, <2>2, <1>1, <1>3
<1>6. Range(t) = Range(s) \cup {a}
  <2>1. ASSUME NEW i \in DOMAIN t PROVE t[i] \in Range(s) \cup {a}
    <3>1. CASE i = 1
      BY <3>1, <1>5
    <3>2. CASE i # 1
      <4>1. i - 1 \in 1 .. Len(s) /\ (i - 1) + 1 = i
        BY <3>2, <1>4, <1>2
      <4>2. t[i] = s[i - 1]
        BY <4>1, <1>5
      <4> QED
        BY <4>1, <4>2, <1>2 DEF Range
    <3> QED
      BY <3>1, <3>2
  <2>2. ASSUME NEW i \in DOMAIN s PROVE s[i] \in Range(t)
    <3>1. i + 1 \in DOMAIN t /\ t[i + 1] = s[i]
      BY <1>2, <1>4, <1>5
    <3> QED
      BY <3>1 DEF Range
  <2>3. a \in Range(t)
    <3>1. 1 \in DOMAIN t
      BY <1>2, <1>4
    <3> QED
      BY <3>1, <1>5 DEF Range
  <2> QED
    BY <2>1, <2>2, <2>3 DEF Range
<1>7. t # <<>> /\ Head(t) = a
  <2>1. Len(t) # 0
    BY <1>2, <1>3
  <2> QED
    BY <2>1, <1>3, <1>5
<1>8. Tail(t) = s
  <2>1. /\ Tail(t) \in Seq(S) /\ Len(Tail(t)) = Len(t) - 1
        /\ \A k \in 1 .. Len(Tail(t)) : Tail(t)[k] = t[k + 1]
    BY <1>3, <1>7, HeadTailProperties
  <2>2. Len(Tail(t)) = Len(s)
    BY <2>1, <1>2, <1>3
  <2>3. \A k \in 1 .. Len(s) : Tail(t)[k] = s[k]
    BY <2>1, <2>2, <1>5
  <2> QED
    BY <2>1, <2>2, <2>3, SeqEqual
<1> QED
  BY <1>2, <1>3, <1>5, <1>6, <1>7, <1>8 DEF t

\* Every sequence that is not empty is its head pushed on its tail.
LEMMA TopProperties ==
    ASSUME NEW S, NEW s \in Seq(S), s # <<>>
    PROVE  /\ Head(s) \in S /\ Tail(s) \in Seq(S) /\ s = <<Head(s)>> \o Tail(s)
           /\ Range(s) = Range(Tail(s)) \cup {Head(s)}
<1>1. Head(s) \in S /\ Tail(s) \in Seq(S) /\ s = <<Head(s)>> \o Tail(s)
  BY HeadTailProperties
<1>2. ASSUME NEW h \in S, NEW t \in Seq(S)
      PROVE  Range(<<h>> \o t) = Range(t) \cup {h}
  BY PushProperties
<1>3. Range(<<Head(s)>> \o Tail(s)) = Range(Tail(s)) \cup {Head(s)}
  BY <1>1, <1>2
<1> QED
  BY <1>1, <1>3

\* Pushing two entries at once.
LEMMA PushPair ==
    ASSUME NEW S, NEW s \in Seq(S), NEW a \in S, NEW b \in S
    PROVE  <<a, b>> \o s = <<a>> \o (<<b>> \o s)
<1>1. ASSUME NEW x \in S, NEW t \in Seq(S)
      PROVE  /\ <<x>> \o t \in Seq(S) /\ Len(<<x>> \o t) = Len(t) + 1 /\ Len(t) \in Nat
             /\ (<<x>> \o t)[1] = x
             /\ \A k \in 1 .. Len(t) : (<<x>> \o t)[k + 1] = t[k]
  BY PushProperties
<1> PICK u : u = <<b>> \o s
  OBVIOUS
<1> PICK v : v = <<a>> \o u
  OBVIOUS
<1>2. u \in Seq(S) /\ Len(u) = Len(s) + 1 /\ Len(s) \in Nat
      /\ u[1] = b /\ \A k \in 1 .. Len(s) : u[k + 1] = s[k]
  BY <1>1
<1>3. v \in Seq(S) /\ Len(v) = Len(s) + 2
      /\ v[1] = a /\ \A k \in 1 .. Len(s) + 1 : v[k + 1] = u[k]
  BY <1>1, <1>2
<1>5. <<a, b>> \in Seq(S)
  OBVIOUS
<1>6. <<a, b>> \o s = v
  <2> PICK t : t = <<a, b>> \o s
    OBVIOUS
  <2>1. /\ t \in Seq(S) /\ Len(t) = 2 + Len(s)
        /\ \A i \in 1 .. 2 + Len(s) : t[i] = IF i <= 2 THEN <<a, b>>[i] ELSE s[i - 2]
    BY <1>5, ConcatProperties
  <2>2. ASSUME NEW i \in 1 .. Len(t) PROVE t[i] = v[i]
    <3>1. CASE i = 1
      BY <3>1, <2>1, <1>3, <1>2
    <3>2. CASE i = 2
      <4>1. v[1 + 1] = u[1]
        BY <1>2, <1>3
      <4> QED
        BY <4>1, <3>2, <2>1, <1>2
    <3>3. CASE i > 2
      <4>1. i - 2 \in 1 .. Len(s) /\ i - 1 \in 1 .. Len(s) + 1 /\ (i - 2) + 1 = i - 1 /\ (i - 1) + 1 = i
        BY <3>3, <2>1, <1>2
      <4>2. v[i] = u[i - 1] /\ u[i - 1] = s[i - 2]
        BY <4>1, <1>2, <1>3
      <4> QED
        BY <4>1, <4>2, <3>3, <2>1
    <3>4. i = 1 \/ i = 2 \/ i > 2
      BY <2>1, <1>2
    <3> QED
      BY <3>1, <3>2, <3>3, <3>4
  <2>3. Len(t) = Len(v)
    BY <2>1, <1>2, <1>3
  <2> QED
    BY <2>1, <2>2, <2>3, <1>3, SeqEqual
<1> QED
  BY <1>6

\* The entries of what is appended, concatenated or empty.
LEMMA Entries ==
    ASSUME NEW S, NEW s \in Seq(S)
    PROVE  /\ Range(s) \subseteq S /\ Range(<<>>) = {}
           /\ s # <<>> <=> Range(s) # {}
           /\ \A x \in S : /\ Append(s, x) \in Seq(S)
                           /\ Range(Append(s, x)) = Range(s) \cup {x}
           /\ \A t \in Seq(S) : /\ s \o t \in Seq(S)
                                /\ Range(s \o t) = Range(s) \cup Range(t)
<1>1. Range(s) \subseteq S
  BY LenProperties DEF Range
<1>2. Range(<<>>) = {}
  BY EmptySeq DEF Range
<1>3. s # <<>> <=> Range(s) # {}
  <2>1. ASSUME s # <<>> PROVE Range(s) # {}
    <3>1. 1 \in DOMAIN s
      BY <2>1, EmptySeq, LenProperties
    <3> QED
      BY <3>1 DEF Range
  <2> QED
    BY <2>1, <1>2
<1>4. ASSUME NEW x \in S
      PROVE  Append(s, x) \in Seq(S) /\ Range(Append(s, x)) = Range(s) \cup {x}
  <2> DEFINE t == Append(s, x)
  <2>1. /\ t \in Seq(S) /\ Len(t) = Len(s) + 1 /\ t[Len(s) + 1] = x
        /\ \A k \in 1 .. Len(s) : t[k] = s[k]
    BY AppendProperties
  <2> HIDE DEF t
  <2>2. DOMAIN t = 1 .. Len(s) + 1 /\ DOMAIN s = 1 .. Len(s) /\ Len(s) \in Nat
    BY <2>1, LenProperties
  <2> QED
    BY <2>1, <2>2 DEF Range, t
<1>5. ASSUME NEW t \in Seq(S)
      PROVE  s \o t \in Seq(S) /\ Range(s \o t) = Range(s) \cup Range(t)
  <2> DEFINE u == s \o t
  <2>1. /\ u \in Seq(S) /\ Len(u) = Len(s) + Len(t)
        /\ \A k \in 1 .. Len(s) + Len(t) : u[k] = IF k <= Len(s) THEN s[k] ELSE t[k - Len(s)]
    BY ConcatProperties
  <2> HIDE DEF u
  <2>2. /\ DOMAIN u = 1 .. Len(s) + Len(t) /\ DOMAIN s = 1 .. Len(s) /\ DOMAIN t = 1 .. Len(t)
        /\ Len(s) \in Nat /\ Len(t) \in Nat
    BY <2>1, LenProperties
  <2>3. \A k \in DOMAIN s : k \in DOMAIN u /\ u[k] = s[k]
    BY <2>1, <2>2
  <2>4. \A k \in DOMAIN t : k + Len(s) \in DOMAIN u /\ u[k + Len(s)] = t[k]
    BY <2>1, <2>2
  <2>5. ASSUME NEW k \in DOMAIN u PROVE u[k] \in Range(s) \cup Range(t)
    <3>1. CASE k <= Len(s)
      BY <3>1, <2>1, <2>2 DEF Range
    <3>2. CASE ~(k <= Len(s))
      <4>1. k - Len(s) \in DOMAIN t /\ u[k] = t[k - Len(s)]
        BY <3>2, <2>1, <2>2
      <4> QED
        BY <4>1 DEF Range
    <3> QED
      BY <3>1, <3>2
  <2>6. Range(s) \subseteq Range(u)
    BY <2>3 DEF Range
  <2>7. Range(t) \subseteq Range(u)
    BY <2>4 DEF Range
  <2> QED
    BY <2>1, <2>5, <2>6, <2>7 DEF Range, u
<1> QED
  BY <1>1, <1>2, <1>3, <1>4, <1>5

=============================================================================
