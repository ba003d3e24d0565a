----------------------- MODULE ElementDeletionProofs -----------------------
(***************************************************************************)
(* Theorems about ElementDeletion, for any players, elements a script may  *)
(* create, handlers, and bounds on what scripts call.                      *)
(***************************************************************************)
EXTENDS ElementDeletion, SequenceLemmas

\* The elements that are always there are different.
LEMMA Distinct ==
    /\ Root # Resource /\ Root # Dynamic /\ Root \notin MapItems
    /\ Resource # Dynamic /\ Resource \notin MapItems /\ Dynamic \notin MapItems
    /\ Map # Item /\ Map # SubItem /\ Item # SubItem
    /\ Players \cap ({Root, Resource, Dynamic} \cup MapItems) = {}
    /\ New \cap ({Root, Resource, Dynamic} \cup MapItems \cup Players) = {}
<1> DEFINE b == <<Root, Resource, Dynamic, Map, Item, SubItem>>
<1>1. /\ DOMAIN b = 1 .. 6 /\ b[1] = Root /\ b[2] = Resource /\ b[3] = Dynamic
      /\ b[4] = Map /\ b[5] = Item /\ b[6] = SubItem
  OBVIOUS
<1> HIDE DEF b
<1>2. \A i, k \in 1 .. 6 : b[i] = b[k] => i = k
  BY <1>1, ElementDeletionType DEF IsInjective, b
<1>3. Players \cap ({Root, Resource, Dynamic} \cup MapItems) = {}
      /\ New \cap ({Root, Resource, Dynamic} \cup MapItems \cup Players) = {}
  BY ElementDeletionType
<1>4. /\ Root # Resource /\ Root # Dynamic /\ Root # Map /\ Root # Item /\ Root # SubItem
      /\ Resource # Dynamic /\ Resource # Map /\ Resource # Item /\ Resource # SubItem
      /\ Dynamic # Map /\ Dynamic # Item /\ Dynamic # SubItem
      /\ Map # Item /\ Map # SubItem /\ Item # SubItem
  BY <1>1, <1>2
<1> QED
  BY <1>3, <1>4 DEF MapItems

-----------------------------------------------------------------------------
(* The tree, as an operator of the lists of children.                      *)

Kids == [Elements -> Seq(Elements)]
Parentless(kids, e) == \A p \in Elements : e \notin Range(kids[p])
Attached(kids, e) == Range(kids[e]) # {} \/ ~Parentless(kids, e)

\* No element has two parents, the root none.
Forest(kids) ==
    /\ kids \in Kids /\ Parentless(kids, Root)
    /\ \A c, p, q \in Elements : c \in Range(kids[p]) /\ c \in Range(kids[q]) => p = q

\* An element is reached from the root if it is in every set that has the root and the
\* children of its members.
Closed(kids, S) == Root \in S /\ \A p \in S : Range(kids[p]) \subseteq S
Reached(kids, e) == \A S \in SUBSET Elements : Closed(kids, S) => e \in S

\* Live elements, and all that have a parent or children, are reached from the root;
\* all others but those of U have neither parent nor children.
TreeOK(kids, st, U) ==
    /\ Forest(kids)
    /\ \A e \in Elements : st[e] = "alive" \/ Attached(kids, e) => Reached(kids, e)
    /\ \A e \in Elements : st[e] # "alive" /\ e \notin U => ~Attached(kids, e)

\* The children of an element are elements.
LEMMA KidsType ==
    ASSUME NEW kids \in Kids, NEW p \in Elements
    PROVE  kids[p] \in Seq(Elements) /\ Range(kids[p]) \subseteq Elements
<1>1. kids[p] \in Seq(Elements)
  BY DEF Kids
<1> QED
  BY <1>1, Entries

\* The parent.
LEMMA ParentProperties ==
    ASSUME NEW kids, NEW e
    PROVE  /\ ParentIn(kids, e) \in Elements \cup {NoElement}
           /\ ParentIn(kids, e) = NoElement => Parentless(kids, e)
           /\ Parentless(kids, e) => ParentIn(kids, e) = NoElement
           /\ ParentIn(kids, e) # NoElement => e \in Range(kids[ParentIn(kids, e)])
<1> DEFINE ps == {p \in Elements : \E i \in DOMAIN kids[p] : kids[p][i] = e}
<1>1. \A p \in Elements : p \in ps <=> e \in Range(kids[p])
  BY DEF Range
<1>2. ps \subseteq Elements /\ NoElement \notin Elements
  BY ElementDeletionType
<1>3. ParentIn(kids, e) = IF ps = {} THEN NoElement ELSE CHOOSE p \in ps : TRUE
  BY DEF ParentIn
<1> HIDE DEF ps
<1>4. CASE ps = {}
  BY <1>1, <1>3, <1>4 DEF Parentless
<1>5. CASE ps # {}
  <2>1. (CHOOSE p \in ps : TRUE) \in ps
    BY <1>5
  <2>2. ParentIn(kids, e) \in ps
    BY <2>1, <1>3, <1>5
  <2> QED
    BY <2>2, <1>1, <1>2 DEF Parentless
<1> QED
  BY <1>4, <1>5

\* SetParentObject: e is the child of p and of no other.
IsMoved(kids, e, p, new) ==
    /\ new \in Kids
    /\ \A q \in Elements : Range(new[q]) =
         IF q = p THEN Range(kids[q]) \cup {e} ELSE Range(kids[q]) \ {e}
\* SetParentObject leaves one list and joins the end of another.
LEMMA MovedKids ==
    ASSUME NEW kids, Forest(kids), NEW e \in Elements, NEW p \in Elements
    PROVE  IsMoved(kids, e, p, Moved(kids, e, p))
<1>1. kids \in Kids
  BY DEF Forest
<1> PICK from : from = ParentIn(kids, e)
  OBVIOUS
<1>2. from \in Elements \cup {NoElement} /\ NoElement \notin Elements
  BY ParentProperties, ElementDeletionType
<1>3. \A q \in Elements : e \in Range(kids[q]) <=> q = from
  BY ParentProperties, <1>2 DEF Forest, Parentless
<1>4. CASE from = p
  <2>1. Moved(kids, e, p) = kids
    BY <1>4 DEF Moved
  <2> QED
    BY <2>1, <1>1, <1>3, <1>4 DEF IsMoved
<1>5. CASE from # p
  <2> PICK out : out = IF from = NoElement THEN kids ELSE [kids EXCEPT ![from] = Without(@, {e})]
    OBVIOUS
  <2>1. Moved(kids, e, p) = [out EXCEPT ![p] = Append(@, e)]
    BY <1>5 DEF Moved
  <2>2. ASSUME NEW q \in Elements
        PROVE  /\ Without(kids[q], {e}) \in Seq(Elements)
               /\ Range(Without(kids[q], {e})) = Range(kids[q]) \ {e}
    <3>1. kids[q] \in Seq(Elements)
      BY <1>1, KidsType
    <3> QED
      BY <3>1, WithoutProperties
  <2>3. out \in Kids /\ \A q \in Elements : Range(out[q]) = Range(kids[q]) \ {e}
    BY <2>2, <1>1, <1>2, <1>3 DEF Kids
  <2>4. out[p] \in Seq(Elements)
    BY <2>3, KidsType
  <2>5. Append(out[p], e) \in Seq(Elements) /\ Range(Append(out[p], e)) = Range(out[p]) \cup {e}
    <3>1. ASSUME NEW t \in Seq(Elements)
          PROVE  Append(t, e) \in Seq(Elements) /\ Range(Append(t, e)) = Range(t) \cup {e}
      BY Entries
    <3> QED
      BY <2>4, <3>1
  <2> PICK last : last = Append(out[p], e)
    OBVIOUS
  <2>6. [out EXCEPT ![p] = last] \in Kids
        /\ \A q \in Elements : Range([out EXCEPT ![p] = last][q]) =
              IF q = p THEN Range(kids[q]) \cup {e} ELSE Range(kids[q]) \ {e}
    BY <2>3, <2>5 DEF Kids
  <2> QED
    BY <2>1, <2>6 DEF IsMoved
<1> QED
  BY <1>4, <1>5

\* ClearChildren and SetParentObject(nullptr).
LEMMA TakenOutKids ==
    ASSUME NEW kids, Forest(kids), NEW e \in Elements, e \notin Range(kids[e])
    PROVE  /\ TakenOut(kids, e) \in Kids
           /\ \A q \in Elements : Range(TakenOut(kids, e)[q]) =
                IF q = e THEN {}
                ELSE IF e \in Range(kids[q]) THEN (Range(kids[q]) \cup Range(kids[e])) \ {e}
                ELSE Range(kids[q])
<1>1. kids \in Kids
  BY DEF Forest
<1> PICK p : p = ParentIn(kids, e)
  OBVIOUS
<1>2. p \in Elements \cup {NoElement} /\ NoElement \notin Elements
  BY ParentProperties, ElementDeletionType
<1>3. \A q \in Elements : e \in Range(kids[q]) <=> q = p
  BY ParentProperties, <1>2 DEF Forest, Parentless
<1>4. <<>> \in Seq(Elements) /\ Range(<<>>) = {}
  BY EmptySeq DEF Range
<1> PICK none : none = <<>>
  OBVIOUS
<1>5. CASE p = NoElement
  <2>1. TakenOut(kids, e) = [kids EXCEPT ![e] = none]
    BY <1>5 DEF TakenOut
  <2> QED
    BY <2>1, <1>1, <1>2, <1>3, <1>4, <1>5 DEF Kids
<1>6. CASE p # NoElement
  <2>1. p \in Elements /\ p # e
    BY <1>2, <1>3, <1>6
  <2>2. kids[p] \in Seq(Elements) /\ kids[e] \in Seq(Elements)
    BY <1>1, <2>1, KidsType
  <2>3. /\ kids[p] \o kids[e] \in Seq(Elements)
        /\ Range(kids[p] \o kids[e]) = Range(kids[p]) \cup Range(kids[e])
    BY <2>2, Entries
  <2> PICK both : both = kids[p] \o kids[e]
    OBVIOUS
  <2> PICK up : up = Without(both, {e})
    OBVIOUS
  <2>4. up \in Seq(Elements) /\ Range(up) = (Range(kids[p]) \cup Range(kids[e])) \ {e}
    <3>1. ASSUME NEW t \in Seq(Elements)
          PROVE  Without(t, {e}) \in Seq(Elements) /\ Range(Without(t, {e})) = Range(t) \ {e}
      BY WithoutProperties
    <3> QED
      BY <2>3, <3>1
  <2>5. TakenOut(kids, e) = [kids EXCEPT ![e] = none, ![p] = up]
    <3>1. [kids EXCEPT ![e] = none][p] = kids[p]
      BY <2>1, <1>1 DEF Kids
    <3> QED
      BY <3>1, <1>6 DEF TakenOut
  <2>6. [kids EXCEPT ![e] = none, ![p] = up] \in Kids
        /\ \A q \in Elements : [kids EXCEPT ![e] = none, ![p] = up][q] =
              IF q = p THEN up ELSE IF q = e THEN none ELSE kids[q]
    BY <1>1, <1>4, <2>1, <2>4 DEF Kids
  <2> QED
    BY <2>1, <2>4, <2>5, <2>6, <1>3, <1>4
<1> QED
  BY <1>5, <1>6

\* An element that is reached, and is not the root, has a parent other than itself; and
\* whatever is attached keeps its place in a closed set.
LEMMA ReachedHasParent ==
    ASSUME NEW kids, Forest(kids), NEW e \in Elements, e # Root, Reached(kids, e)
    PROVE  ~Parentless(kids, e) /\ e \notin Range(kids[e])
<1> DEFINE S == Elements \ {e}
<1>1. \A p \in Elements : Range(kids[p]) \subseteq Elements
  BY KidsType DEF Forest
<1>2. Root \in S /\ e \notin S
  BY DEF Elements
<1>3. ~Closed(kids, S)
  BY <1>2 DEF Reached
<1>4. PICK p \in S : e \in Range(kids[p])
  BY <1>1, <1>2, <1>3 DEF Closed
<1> QED
  BY <1>4 DEF Parentless, Forest

\* What is attached is reached.
LEMMA MovedTree ==
    ASSUME NEW kids, NEW st, NEW U, TreeOK(kids, st, U),
           NEW e \in Elements, NEW p \in Elements, e # Root, Reached(kids, p),
           st[p] = "alive" \/ Attached(kids, p),
           NEW st2, \A x \in Elements \ {e} : st2[x] = st[x],
           st2[e] = "alive" \/ (st2[e] = st[e] /\ Attached(kids, e)),
           NEW D \in SUBSET Elements, e \in D, p \notin D,
           \A x \in D : Range(kids[x]) \subseteq D
    PROVE  TreeOK(Moved(kids, e, p), st2, U)
<1> PICK new : new = Moved(kids, e, p)
  OBVIOUS
<1>0. Forest(kids)
  BY DEF TreeOK
<1>1. new \in Kids
      /\ \A q \in Elements : Range(new[q]) =
            IF q = p THEN Range(kids[q]) \cup {e} ELSE Range(kids[q]) \ {e}
  <2>1. IsMoved(kids, e, p, Moved(kids, e, p))
    BY <1>0, MovedKids
  <2> QED
    BY <2>1 DEF IsMoved
<1>2. Forest(new)
  <2>1. Parentless(new, Root)
    BY <1>0, <1>1, ZenonT(60) DEF Forest, Parentless
  <2>2. ASSUME NEW c \in Elements, NEW q \in Elements, NEW r \in Elements,
               c \in Range(new[q]), c \in Range(new[r])
        PROVE  q = r
    <3>1. CASE c = e
      BY <2>2, <3>1, <1>1
    <3>2. CASE c # e
      BY <2>2, <3>2, <1>0, <1>1 DEF Forest
    <3> QED
      BY <3>1, <3>2
  <2> QED
    BY <2>1, <2>2, <1>1 DEF Forest
<1>3. ASSUME NEW x \in Elements, Reached(kids, x)
      PROVE  Reached(new, x)
  <2> SUFFICES ASSUME NEW S \in SUBSET Elements, Closed(new, S)
               PROVE  x \in S
    BY DEF Reached
  <2>1. p \in S
    <3> SUFFICES ASSUME p \notin S
                 PROVE  FALSE
      OBVIOUS
    <3>1. Closed(kids, S \cup D)
      <4>1. ASSUME NEW q \in S \cup D PROVE Range(kids[q]) \subseteq S \cup D
        <5>1. CASE q \in D
          BY <5>1
        <5>2. CASE q \in S
          <6>1. Range(new[q]) \subseteq S
            BY <5>2 DEF Closed
          <6>2. q # p /\ q \in Elements
            BY <5>2
          <6>3. Range(kids[q]) \ {e} \subseteq S
            BY <6>1, <6>2, <1>1
          <6> QED
            BY <6>3
        <5> QED
          BY <5>1, <5>2
      <4> QED
        BY <4>1 DEF Closed
    <3>2. S \cup D \in SUBSET Elements
      OBVIOUS
    <3>3. p \in S \cup D
      BY <3>1, <3>2 DEF Reached
    <3> QED
      BY <3>3
  <2>2. e \in S
    BY <2>1, <1>1 DEF Closed
  <2>3. Closed(kids, S)
    <3>1. ASSUME NEW q \in S PROVE Range(kids[q]) \subseteq S
      <4>1. Range(new[q]) \subseteq S /\ q \in Elements
        BY DEF Closed
      <4> QED
        BY <4>1, <2>2, <1>1
    <3> QED
      BY <3>1 DEF Closed
  <2> QED
    BY <2>3, <1>3 DEF Reached
<1>4. \A x \in Elements : Attached(new, x) => Attached(kids, x) \/ x \in {e, p}
  BY <1>1, ZenonT(60) DEF Attached, Parentless
<1>5. Reached(new, e)
  <2> SUFFICES ASSUME NEW S \in SUBSET Elements, Closed(new, S)
               PROVE  e \in S
    BY DEF Reached
  <2>1. p \in S
    BY <1>3 DEF Reached
  <2> QED
    BY <2>1, <1>1 DEF Closed
<1>6. Reached(new, p)
  BY <1>3
<1>7. \A x \in Elements : st2[x] = "alive" \/ Attached(new, x) => Reached(new, x)
  BY <1>3, <1>4, <1>5, <1>6 DEF TreeOK
<1>8. \A x \in Elements : st2[x] # "alive" /\ x \notin U => ~Attached(new, x)
  BY <1>4 DEF TreeOK
<1> QED
  BY <1>2, <1>7, <1>8 DEF TreeOK

\* Taking out what is not the root leaves the others where they can be reached.
LEMMA TakenOutTree ==
    ASSUME NEW kids, NEW st, NEW U, TreeOK(kids, st, U), NEW e \in Elements, e # Root,
           NEW st2, st2[e] # "alive", \A x \in Elements \ {e} : st2[x] = st[x],
           NEW V, U \ {e} \subseteq V
    PROVE  TreeOK(TakenOut(kids, e), st2, V) /\ ~Attached(TakenOut(kids, e), e)
<1> PICK new : new = TakenOut(kids, e)
  OBVIOUS
<1>0. Forest(kids)
  BY DEF TreeOK
<1>1. e \notin Range(kids[e])
  <2> SUFFICES ASSUME e \in Range(kids[e])
               PROVE  FALSE
    OBVIOUS
  <2>1. Attached(kids, e)
    BY DEF Attached
  <2>2. Reached(kids, e)
    BY <2>1 DEF TreeOK
  <2> QED
    BY <1>0, <2>2, ReachedHasParent
<1>2. new \in Kids
      /\ \A q \in Elements : Range(new[q]) =
            IF q = e THEN {}
            ELSE IF e \in Range(kids[q]) THEN (Range(kids[q]) \cup Range(kids[e])) \ {e}
            ELSE Range(kids[q])
  BY <1>0, <1>1, TakenOutKids
<1>3. \A q \in Elements : e \notin Range(new[q])
  BY <1>2
<1>4. ~Attached(new, e)
  BY <1>2, <1>3 DEF Attached, Parentless
<1>5. ASSUME NEW c \in Elements, NEW q \in Elements, c \in Range(new[q])
      PROVE  /\ c # e /\ q # e
             /\ c \in Range(kids[q]) \/ (c \in Range(kids[e]) /\ e \in Range(kids[q]))
  BY <1>2, <1>3, <1>5
<1>6. Forest(new)
  <2>1. Parentless(new, Root)
    BY <1>0, <1>5, ElementDeletionType DEF Forest, Parentless, Elements
  <2>2. ASSUME NEW c \in Elements, NEW q \in Elements, NEW r \in Elements,
               c \in Range(new[q]), c \in Range(new[r])
        PROVE  q = r
    BY <2>2, <1>0, <1>5 DEF Forest
  <2> QED
    BY <2>1, <2>2, <1>2 DEF Forest
<1>7. ASSUME NEW x \in Elements, x # e, Reached(kids, x)
      PROVE  Reached(new, x)
  <2> SUFFICES ASSUME NEW S \in SUBSET Elements, Closed(new, S)
               PROVE  x \in S
    BY DEF Reached
  <2>1. CASE \E q \in S : e \in Range(kids[q])
    <3> PICK p \in S : e \in Range(kids[p])
      BY <2>1
    <3>0. p # e /\ p \in Elements
      BY <1>1
    <3>1. (Range(kids[p]) \cup Range(kids[e])) \ {e} \subseteq S
      BY <3>0, <1>2 DEF Closed
    <3>2. ASSUME NEW q \in S \cup {e} PROVE Range(kids[q]) \subseteq S \cup {e}
      <4>1. CASE q = e \/ q = p
        BY <4>1, <3>1
      <4>2. CASE q # e /\ q # p
        <5>1. q \in S /\ q \in Elements /\ e \notin Range(kids[q])
          BY <4>2, <3>0, <1>0 DEF Forest
        <5>2. Range(new[q]) = Range(kids[q])
          BY <4>2, <5>1, <1>2
        <5> QED
          BY <5>1, <5>2 DEF Closed
      <4> QED
        BY <4>1, <4>2
    <3>3. Closed(kids, S \cup {e}) /\ S \cup {e} \in SUBSET Elements
      BY <3>2 DEF Closed
    <3>4. x \in S \cup {e}
      BY <3>3, <1>7 DEF Reached
    <3> QED
      BY <3>4, <1>7
  <2>2. CASE ~\E q \in S : e \in Range(kids[q])
    <3>1. ASSUME NEW q \in S \ {e} PROVE Range(kids[q]) \subseteq S \ {e}
      <4>1. e \notin Range(kids[q]) /\ q \in Elements
        BY <2>2
      <4>2. Range(new[q]) = Range(kids[q])
        BY <4>1, <1>2
      <4> QED
        BY <4>1, <4>2 DEF Closed
    <3>2. Closed(kids, S \ {e}) /\ S \ {e} \in SUBSET Elements
      BY <3>1 DEF Closed
    <3>3. x \in S \ {e}
      BY <3>2, <1>7 DEF Reached
    <3> QED
      BY <3>3
  <2> QED
    BY <2>1, <2>2
<1>8. ASSUME NEW x \in Elements, Attached(new, x)
      PROVE  x # e /\ Attached(kids, x)
  <2>1. x # e
    BY <1>4, <1>8
  <2>2. CASE Range(new[x]) # {}
    <3> PICK c : c \in Range(new[x])
      BY <2>2
    <3>1. c \in Elements
      BY <1>2, KidsType
    <3> QED
      BY <2>1, <3>1, <1>5 DEF Attached
  <2>3. CASE ~Parentless(new, x)
    <3> PICK q \in Elements : x \in Range(new[q])
      BY <2>3 DEF Parentless
    <3> QED
      BY <2>1, <1>5 DEF Attached, Parentless
  <2> QED
    BY <2>1, <2>2, <2>3, <1>8 DEF Attached
<1>9. \A x \in Elements : st2[x] = "alive" \/ Attached(new, x) => Reached(new, x)
  <2> SUFFICES ASSUME NEW x \in Elements, st2[x] = "alive" \/ Attached(new, x)
               PROVE  Reached(new, x)
    OBVIOUS
  <2>1. x # e
    BY <1>8
  <2>2. st[x] = "alive" \/ Attached(kids, x)
    BY <2>1, <1>8
  <2> QED
    BY <2>1, <2>2, <1>7 DEF TreeOK
<1>10. \A x \in Elements : st2[x] # "alive" /\ x \notin V => ~Attached(new, x)
  <2> SUFFICES ASSUME NEW x \in Elements, st2[x] # "alive", x \notin V, Attached(new, x)
               PROVE  FALSE
    OBVIOUS
  <2>1. x # e /\ Attached(kids, x)
    BY <1>8
  <2> QED
    BY <2>1 DEF TreeOK
<1> QED
  BY <1>4, <1>6, <1>9, <1>10 DEF TreeOK

\* The line of an element satisfies its recursive equation.
LEMMA LineEquation ==
    \A e \in Elements : Line[e] = {e} \cup (IF Parent(e) = NoElement THEN {} ELSE Line[Parent(e)])
<1> DEFINE All == Elements \cup {NoElement}
           Up(S) == \A x \in S : Parent(x) # NoElement => Parent(x) \in S
           least == [e \in All |-> {x \in Elements : \A S \in SUBSET Elements :
                                       (e # NoElement => e \in S) /\ Up(S) => x \in S}]
           f0 == [e \in All |-> IF e = NoElement THEN {} ELSE least[e]]
           P(f) == f = [e \in All |-> IF e = NoElement THEN {} ELSE {e} \cup f[Parent(e)]]
<1>1. \A e \in All : Parent(e) \in All
  BY ParentProperties DEF Parent
<1>2. ASSUME NEW e \in Elements
      PROVE  f0[e] = {e} \cup f0[Parent(e)]
  <2>0. NoElement \notin Elements
    BY ElementDeletionType
  <2>1. e \in f0[e]
    BY <2>0
  <2>2. CASE Parent(e) = NoElement
    <3>1. Up({e}) /\ {e} \in SUBSET Elements
      BY <2>2
    <3>2. f0[e] \subseteq {e}
      BY <3>1, <2>0
    <3> QED
      BY <3>2, <2>1, <2>2
  <2>3. CASE Parent(e) # NoElement
    <3> DEFINE p == Parent(e)
    <3>0. p \in Elements
      BY <1>1, <2>3
    <3>1. ASSUME NEW x \in f0[p] PROVE x \in f0[e]
      BY <3>0, <2>0, <2>3
    <3>2. ASSUME NEW x \in f0[e], x # e PROVE x \in f0[p]
      <4> SUFFICES ASSUME NEW S \in SUBSET Elements, p \in S, Up(S)
                   PROVE  x \in S
        BY <2>0, <3>0
      <4>1. Up(S \cup {e}) /\ S \cup {e} \in SUBSET Elements
        OBVIOUS
      <4>2. x \in S \cup {e}
        BY <4>1, <2>0
      <4> QED
        BY <4>2, <3>2
    <3> QED
      BY <3>1, <3>2, <2>1
  <2> QED
    BY <2>2, <2>3
<1>3. P(f0)
  BY <1>2
<1>4. Line = CHOOSE f : P(f)
  BY DEF Line
<1>5. P(Line)
  <2> HIDE DEF P, f0
  <2> QED
    BY <1>3, <1>4
<1> QED
  BY <1>1, <1>5, ElementDeletionType

\* What is reached from the root has it in its line; what has an element in its line keeps
\* it when it has children; the line of the root is the root.
LEMMA LineProperties ==
    ASSUME Forest(children)
    PROVE  /\ \A e \in Elements : Reached(children, e) => InTree(e)
           /\ \A e \in Elements : e \in Line[e]
           /\ Line[Root] = {Root}
           /\ \A e, x \in Elements : e \in Line[x] =>
                \A c \in Range(children[x]) : e \in Line[c]
<1>1. Root \in Elements /\ NoElement \notin Elements
  BY ElementDeletionType DEF Elements
<1>2. Parent(Root) = NoElement
  BY <1>1, ParentProperties DEF Parent, Forest
<1>3. Line[Root] = {Root}
  BY <1>1, <1>2, LineEquation
<1>4. ASSUME NEW x \in Elements, NEW c \in Range(children[x])
      PROVE  c \in Elements /\ Line[c] = {c} \cup Line[x]
  <2>1. c \in Elements
    BY KidsType DEF Forest
  <2>2. Parent(c) = x
    BY <2>1, ParentProperties DEF Parent, Forest, Parentless
  <2> QED
    BY <1>1, <2>1, <2>2, LineEquation
<1>5. \A e \in Elements : e \in Line[e]
  BY LineEquation
<1>6. Closed(children, {x \in Elements : Root \in Line[x]})
  BY <1>1, <1>3, <1>4 DEF Closed
<1>7. \A e \in Elements : Reached(children, e) => InTree(e)
  BY <1>6 DEF Reached, InTree
<1> QED
  BY <1>3, <1>4, <1>5, <1>7

-----------------------------------------------------------------------------
(* The stack.                                                              *)

Marked == [op : {"mark"}, all : Seq(Elements), todo : Seq(Elements), called : BOOLEAN]
Step == [el : Elements, at : Nat \ {0}]
Frame ==
    [op : {"parents"}, of : Elements, at : Elements, called : BOOLEAN]
    \cup [op : {"snapshot"}, at : Elements]
    \cup [op : {"children"}, at : Elements, todo : Seq(Elements)]
    \cup [op : {"call"}, at : Elements, rest : Seq(Handlers), outer : BOOLEAN]
    \cup [op : {"script"}, own : BOOLEAN]
    \cup [op : {"destroy"}, el : Elements, child : Elements \cup {NoElement}]
    \cup [op : {"delete"}, el : Elements]
    \cup [op : {"free"}, told : Elements \cup {NoElement}]
    \cup [op : {"group"}, group : GroupNames, at : Nat \ {0}]
    \cup [op : {"vm"}]
    \cup [op : {"tree"}, el : Elements]
    \cup [op : {"collect"}, path : Seq(Step), all : Seq(Elements)]
    \cup Marked

\* What may be below a call in the stack: DoDeleteAll and DestroyVM run from the main
\* loop, Stop deletes the map's group, then the default one, then runs DestroyVM, and
\* after that one DeleteTree after the other.  A Call is the outermost of its manager
\* if and only if none of the manager is below it.
Rests(f, below) ==
    /\ f.op \in {"free", "vm"} => below = {}
    /\ f.op = "group" => \A g \in below : \/ g.op = "vm"
                                          \/ g = GroupFrame("default") /\ f.group = "map"
    /\ f.op \in {"tree", "collect", "mark"} => \A g \in below : g.op = "tree"
    /\ f.op = "call" => (f.outer <=> \A g \in below : ~(g.op = "call" /\ g.at = f.at))
Below(s, i) == {s[k] : k \in i + 1 .. Len(s)}
StackOK(s) == s \in Seq(Frame) /\ \A i \in DOMAIN s : Rests(s[i], Below(s, i))

InUse(e) == status[e] \in {"alive", "deleting"}

\* What the innermost calls know of the elements they were given.
FrameLive(f) ==
    /\ f.op = "script" => (f.own => vm)
    /\ f.op = "call" /\ ~vm => Range(f.rest) \cap Own = {}
    /\ f.op \in {"group", "vm"} => vm
    /\ f.op = "delete" => InUse(f.el) /\ f.el \notin {Root, Resource, Dynamic}
    /\ f.op = "tree" => ~vm /\ f.el \in {Resource, Dynamic} /\ InUse(f.el)
    /\ f.op = "collect" =>
         /\ ~vm /\ f.path # <<>>
         /\ \A s \in Range(f.path) : s.el # Root /\ InUse(s.el)
         /\ \A e \in Range(f.all) : e # Root /\ InUse(e)
    /\ f.op = "mark" =>
         /\ ~vm /\ Range(f.todo) \subseteq Range(f.all)
         /\ \A e \in Range(f.all) : e # Root /\ InUse(e)
         /\ \A e \in Range(f.all) \ Range(f.todo) : status[e] = "deleting"
\* A manager calls its handlers if and only if a Call of it is in the stack.
Iterated == \A a : a \in iterating <=> \E f \in Range(stack) : f.op = "call" /\ f.at = a

StackInv == StackOK(stack) /\ Iterated /\ \A f \in Range(stack) : FrameLive(f)

ListOK(st, l) ==
    /\ l \in Seq(Elements) /\ IsInjective(l)
    /\ Range(l) = {e \in Elements : st[e] = "deleting"}

\* Only elements in use have handlers, and none of the resource's script once its
\* virtual machine is closed.
EventsOK ==
    /\ events \in [Elements -> Seq(Handlers)]
    /\ \A e \in Elements : ~InUse(e) => events[e] = <<>>
    /\ ~vm => \A e \in Elements : Range(events[e]) \cap Own = {}

\* Types; the elements of the groups; and what is always alive, or while the virtual
\* machine is open.
WorldInv ==
    /\ status \in [Elements -> Statuses] /\ ListOK(status, list)
    /\ groups \in [GroupNames -> Seq(Elements)]
    /\ Range(groups["map"]) \subseteq MapItems /\ Range(groups["default"]) \subseteq New
    /\ \A g \in GroupNames : \A e \in Range(groups[g]) : InUse(e)
    /\ EventsOK
    /\ handler \in [Handlers -> {"unused", "added", "trash", "freed"}]
    /\ iterating \subseteq Elements /\ vm \in BOOLEAN /\ calls \in 0 .. MaxCalls
    /\ crashed \in BOOLEAN
    /\ status[Root] = "alive" /\ (vm => status[Resource] = "alive" /\ status[Dynamic] = "alive")

TreeInv == TreeOK(children, status, BeingUnlinked)

Inv == WorldInv /\ TreeInv /\ StackInv

-----------------------------------------------------------------------------
(* Pushing, popping and replacing the innermost call.                      *)

\* A call may be pushed where it may rest.
LEMMA PushOK ==
    ASSUME NEW s, StackOK(s), NEW a \in Frame, Rests(a, Range(s))
    PROVE  StackOK(<<a>> \o s) /\ Range(<<a>> \o s) = {a} \cup Range(s)
<1>0. s \in Seq(Frame)
  BY DEF StackOK
<1> PICK r : r = <<a>> \o s
  OBVIOUS
<1>1. /\ r \in Seq(Frame) /\ Len(r) = Len(s) + 1 /\ Len(s) \in Nat /\ r[1] = a
      /\ \A k \in 1 .. Len(s) : r[k + 1] = s[k]
      /\ Range(r) = Range(s) \cup {a} /\ DOMAIN r = 1 .. Len(r) /\ DOMAIN s = 1 .. Len(s)
  <2>1. \A t \in Seq(Frame) :
          /\ <<a>> \o t \in Seq(Frame) /\ Len(<<a>> \o t) = Len(t) + 1 /\ Len(t) \in Nat
          /\ (<<a>> \o t)[1] = a /\ Range(<<a>> \o t) = Range(t) \cup {a}
          /\ \A k \in 1 .. Len(t) : (<<a>> \o t)[k + 1] = t[k]
    BY PushProperties
  <2>2. \A t \in Seq(Frame) : DOMAIN t = 1 .. Len(t)
    BY LenProperties
  <2> QED
    BY <1>0, <2>1, <2>2
<1>2. Below(r, 1) = Range(s)
  <2>1. ASSUME NEW x PROVE x \in Below(r, 1) <=> x \in Range(s)
    <3>1. ASSUME NEW k \in 2 .. Len(r) PROVE k - 1 \in 1 .. Len(s) /\ r[k] = s[k - 1]
      BY <1>1
    <3>2. ASSUME NEW k \in 1 .. Len(s) PROVE k + 1 \in 2 .. Len(r) /\ r[k + 1] = s[k]
      BY <1>1
    <3>3. ASSUME x \in Below(r, 1) PROVE x \in Range(s)
      <4>1. PICK k \in 2 .. Len(r) : x = r[k]
        BY <3>3 DEF Below
      <4>2. k - 1 \in DOMAIN s /\ x = s[k - 1]
        BY <1>1, <3>1, <4>1
      <4> QED
        BY <4>2 DEF Range
    <3>4. ASSUME x \in Range(s) PROVE x \in Below(r, 1)
      <4>1. PICK k \in 1 .. Len(s) : x = s[k]
        BY <1>1, <3>4 DEF Range
      <4>2. k + 1 \in 2 .. Len(r) /\ x = r[k + 1]
        BY <3>2, <4>1
      <4> QED
        BY <4>2 DEF Below
    <3> QED
      BY <3>3, <3>4
  <2> QED
    BY <2>1
<1>3. ASSUME NEW j \in 1 .. Len(s) PROVE Below(r, j + 1) = Below(s, j)
  <2>1. ASSUME NEW x PROVE x \in Below(r, j + 1) <=> x \in Below(s, j)
    <3>1. ASSUME NEW k \in j + 1 + 1 .. Len(r) PROVE k - 1 \in j + 1 .. Len(s) /\ r[k] = s[k - 1]
      BY <1>1
    <3>2. ASSUME NEW k \in j + 1 .. Len(s) PROVE k + 1 \in j + 1 + 1 .. Len(r) /\ r[k + 1] = s[k]
      BY <1>1
    <3>3. ASSUME x \in Below(r, j + 1) PROVE x \in Below(s, j)
      <4>1. PICK k \in j + 1 + 1 .. Len(r) : x = r[k]
        BY <3>3 DEF Below
      <4>2. k - 1 \in j + 1 .. Len(s) /\ x = s[k - 1]
        BY <3>1, <4>1
      <4> QED
        BY <4>2 DEF Below
    <3>4. ASSUME x \in Below(s, j) PROVE x \in Below(r, j + 1)
      <4>1. PICK k \in j + 1 .. Len(s) : x = s[k]
        BY <3>4 DEF Below
      <4>2. k + 1 \in j + 1 + 1 .. Len(r) /\ x = r[k + 1]
        BY <3>2, <4>1
      <4> QED
        BY <4>2 DEF Below
    <3> QED
      BY <3>3, <3>4
  <2> QED
    BY <2>1
<1>4. ASSUME NEW i \in 1 .. Len(r) PROVE Rests(r[i], Below(r, i))
  <2>1. CASE i = 1
    BY <2>1, <1>1, <1>2
  <2>2. CASE i # 1
    <3> PICK j : j = i - 1
      OBVIOUS
    <3>1. j \in 1 .. Len(s) /\ i = j + 1
      BY <1>1, <2>2
    <3>2. Rests(s[j], Below(s, j))
      BY <3>1, <1>1 DEF StackOK
    <3>3. r[i] = s[j] /\ Below(r, i) = Below(s, j)
      BY <3>1, <1>1, <1>3
    <3> QED
      BY <3>2, <3>3
  <2> QED
    BY <2>1, <2>2
<1>5. StackOK(r)
  BY <1>1, <1>4 DEF StackOK
<1> QED
  BY <1>1, <1>5

\* Without its innermost call a stack is still well formed, and the call rests on it.
LEMMA PopOK ==
    ASSUME NEW s, StackOK(s), s # <<>>
    PROVE  /\ Head(s) \in Frame /\ StackOK(Tail(s)) /\ Rests(Head(s), Range(Tail(s)))
           /\ Range(s) = {Head(s)} \cup Range(Tail(s))
<1>0. s \in Seq(Frame)
  BY DEF StackOK
<1> PICK t : t = Tail(s)
  OBVIOUS
<1>1. /\ t \in Seq(Frame) /\ Len(t) = Len(s) - 1 /\ Len(s) \in Nat /\ Len(s) > 0
      /\ DOMAIN t = 1 .. Len(t) /\ DOMAIN s = 1 .. Len(s)
      /\ \A k \in 1 .. Len(t) : t[k] = s[k + 1]
      /\ Head(s) \in Frame /\ Head(s) = s[1]
  BY <1>0, HeadTailProperties, LenProperties, EmptySeq
<1>2. ASSUME NEW j \in 1 .. Len(t) PROVE Below(t, j) = Below(s, j + 1)
  <2>1. ASSUME NEW x PROVE x \in Below(t, j) <=> x \in Below(s, j + 1)
    <3>1. ASSUME NEW k \in j + 1 .. Len(t) PROVE k + 1 \in j + 1 + 1 .. Len(s) /\ t[k] = s[k + 1]
      BY <1>1
    <3>2. ASSUME NEW k \in j + 1 + 1 .. Len(s) PROVE k - 1 \in j + 1 .. Len(t) /\ t[k - 1] = s[k]
      BY <1>1
    <3> QED
      BY <3>1, <3>2 DEF Below
  <2> QED
    BY <2>1
<1>3. Range(t) = Below(s, 1)
  <2>1. ASSUME NEW x PROVE x \in Range(t) <=> x \in Below(s, 1)
    <3>1. ASSUME NEW k \in 1 .. Len(t) PROVE k + 1 \in 1 + 1 .. Len(s) /\ t[k] = s[k + 1]
      BY <1>1
    <3>2. ASSUME NEW k \in 1 + 1 .. Len(s) PROVE k - 1 \in 1 .. Len(t) /\ t[k - 1] = s[k]
      BY <1>1
    <3>3. x \in Range(t) <=> \E k \in 1 .. Len(t) : x = t[k]
      BY <1>1 DEF Range
    <3>4. x \in Below(s, 1) <=> \E k \in 1 + 1 .. Len(s) : x = s[k]
      BY DEF Below
    <3> QED
      BY <3>1, <3>2, <3>3, <3>4
  <2> QED
    BY <2>1
<1>4. \A i \in 1 .. Len(s) : Rests(s[i], Below(s, i))
  BY <1>1 DEF StackOK
<1>5. Rests(s[1], Below(s, 1))
  BY <1>1, <1>4
<1>6. ASSUME NEW j \in 1 .. Len(t) PROVE Rests(t[j], Below(t, j))
  <2>1. j + 1 \in 1 .. Len(s) /\ t[j] = s[j + 1]
    BY <1>1
  <2>2. Rests(s[j + 1], Below(s, j + 1))
    BY <2>1, <1>4
  <2> QED
    BY <2>1, <2>2, <1>2
<1>7. Range(s) = {Head(s)} \cup Range(t)
  <2>1. Range(s) = Range(Tail(s)) \cup {Head(s)}
    BY <1>0, TopProperties
  <2> QED
    BY <2>1
<1>8. StackOK(t)
  BY <1>1, <1>6 DEF StackOK
<1> QED
  BY <1>1, <1>3, <1>5, <1>7, <1>8

\* The same, of the stack itself.
LEMMA TopFrame ==
    ASSUME StackInv, stack # <<>>
    PROVE  /\ Top \in Frame /\ StackOK(Tail(stack)) /\ Rests(Top, Range(Tail(stack)))
           /\ Range(stack) = {Top} \cup Range(Tail(stack))
           /\ FrameLive(Top) /\ \A f \in Range(Tail(stack)) : FrameLive(f)
<1>1. StackOK(stack)
  BY DEF StackInv
<1>2. /\ Head(stack) \in Frame /\ StackOK(Tail(stack)) /\ Rests(Head(stack), Range(Tail(stack)))
      /\ Range(stack) = {Head(stack)} \cup Range(Tail(stack))
  BY <1>1, PopOK
<1> QED
  BY <1>2 DEF Top, StackInv

\* Two calls pushed.
LEMMA PushTwo ==
    ASSUME NEW s, StackOK(s), NEW a \in Frame, NEW b \in Frame,
           Rests(b, Range(s)), Rests(a, {b} \cup Range(s))
    PROVE  StackOK(<<a, b>> \o s) /\ Range(<<a, b>> \o s) = {a, b} \cup Range(s)
<1>1. StackOK(<<b>> \o s) /\ Range(<<b>> \o s) = {b} \cup Range(s)
  BY PushOK
<1> PICK t : t = <<b>> \o s
  OBVIOUS
<1>2. StackOK(<<a>> \o t) /\ Range(<<a>> \o t) = {a} \cup Range(t)
  BY <1>1, PushOK
<1>3. <<a, b>> \o s = <<a>> \o t
  <2>1. s \in Seq(Frame)
    BY DEF StackOK
  <2> QED
    BY <2>1, PushPair
<1> QED
  BY <1>1, <1>2, <1>3

\* Three calls pushed.
LEMMA Three ==
    ASSUME NEW s, StackOK(s), NEW r \in Seq(Frame), Len(r) = 3
    PROVE  r \o s = <<r[1], r[2]>> \o (<<r[3]>> \o s)
<1> PICK a \in Frame, b \in Frame, c \in Frame : a = r[1] /\ b = r[2] /\ c = r[3]
  BY ElementOfSeq, SMTT(30)
<1>1. s \in Seq(Frame) /\ <<a, b>> \in Seq(Frame) /\ <<c>> \in Seq(Frame)
  BY DEF StackOK
<1>2. r = <<a, b>> \o <<c>>
  <2> PICK u : u = <<a, b>> \o <<c>>
    OBVIOUS
  <2>1. u \in Seq(Frame) /\ Len(u) = 3 /\ u[1] = a /\ u[2] = b /\ u[3] = c
    BY <1>1, ConcatProperties
  <2>2. \A i \in 1 .. Len(r) : r[i] = u[i]
    BY <2>1
  <2> HIDE DEF Frame
  <2> QED
    BY <2>1, <2>2, SeqEqual
<1> QED
  BY <1>1, <1>2, ConcatAssociative

\* The stack with them is well formed.
LEMMA PushThree ==
    ASSUME NEW s, StackOK(s), NEW r \in Seq(Frame), Len(r) = 3,
           Rests(r[3], Range(s)), \A below : Rests(r[2], below),
           Rests(r[1], {r[2], r[3]} \cup Range(s))
    PROVE  StackOK(r \o s) /\ Range(r \o s) = {r[1], r[2], r[3]} \cup Range(s)
<1>0. r[1] \in Frame /\ r[2] \in Frame /\ r[3] \in Frame
  BY ElementOfSeq, SMTT(30)
<1> PICK a \in Frame, b \in Frame, c \in Frame : a = r[1] /\ b = r[2] /\ c = r[3]
  BY <1>0
<1>1. StackOK(<<c>> \o s) /\ Range(<<c>> \o s) = {c} \cup Range(s)
  BY PushOK
<1> PICK t : t = <<c>> \o s
  OBVIOUS
<1>2. {b, c} \cup Range(s) = {b} \cup Range(t) /\ StackOK(t)
  BY <1>1
<1>3. StackOK(<<a, b>> \o t) /\ Range(<<a, b>> \o t) = {a, b} \cup Range(t)
  <2>1. Rests(b, Range(t)) /\ Rests(a, {b} \cup Range(t))
    BY <1>2
  <2> QED
    BY <2>1, <1>2, PushTwo
<1>4. r \o s = <<a, b>> \o t
  BY Three
<1> QED
  BY <1>1, <1>3, <1>4

-----------------------------------------------------------------------------
(* The kinds of calls, and what an action makes of one.                    *)

\* The fields of a call.
LEMMA Fields ==
    ASSUME NEW f \in Frame
    PROVE  /\ f.op = "parents" => f \in [op : {"parents"}, of : Elements, at : Elements, called : BOOLEAN]
           /\ f.op = "snapshot" => f \in [op : {"snapshot"}, at : Elements]
           /\ f.op = "children" => f \in [op : {"children"}, at : Elements, todo : Seq(Elements)]
           /\ f.op = "call" =>
                f \in [op : {"call"}, at : Elements, rest : Seq(Handlers), outer : BOOLEAN]
           /\ f.op = "script" => f \in [op : {"script"}, own : BOOLEAN]
           /\ f.op = "destroy" =>
                f \in [op : {"destroy"}, el : Elements, child : Elements \cup {NoElement}]
           /\ f.op = "delete" => f \in [op : {"delete"}, el : Elements]
           /\ f.op = "free" => f \in [op : {"free"}, told : Elements \cup {NoElement}]
           /\ f.op = "group" => f \in [op : {"group"}, group : GroupNames, at : Nat \ {0}]
           /\ f.op = "tree" => f \in [op : {"tree"}, el : Elements]
           /\ f.op = "collect" => f \in [op : {"collect"}, path : Seq(Step), all : Seq(Elements)]
           /\ f.op = "mark" => f \in Marked
BY DEF Frame, Marked

\* New calls.
LEMMA Made ==
    /\ \A e, a \in Elements : \A b \in BOOLEAN :
         [op |-> "parents", of |-> e, at |-> a, called |-> b] \in Frame
    /\ \A a \in Elements : [op |-> "snapshot", at |-> a] \in Frame
    /\ \A a \in Elements : \A t \in Seq(Elements) : [op |-> "children", at |-> a, todo |-> t] \in Frame
    /\ \A a \in Elements : \A t \in Seq(Handlers) : \A b \in BOOLEAN :
         [op |-> "call", at |-> a, rest |-> t, outer |-> b] \in Frame
    /\ \A b \in BOOLEAN : [op |-> "script", own |-> b] \in Frame
    /\ \A e \in Elements : \A c \in Elements \cup {NoElement} :
         [op |-> "destroy", el |-> e, child |-> c] \in Frame
    /\ \A e \in Elements : [op |-> "delete", el |-> e] \in Frame
    /\ \A e \in Elements \cup {NoElement} : [op |-> "free", told |-> e] \in Frame
    /\ \A g \in GroupNames : \A n \in Nat \ {0} : [op |-> "group", group |-> g, at |-> n] \in Frame
    /\ [op |-> "vm"] \in Frame
    /\ \A e \in Elements : [op |-> "tree", el |-> e] \in Frame
    /\ \A p \in Seq(Step) : \A a \in Seq(Elements) :
         [op |-> "collect", path |-> p, all |-> a] \in Frame
    /\ \A a, t \in Seq(Elements) : \A b \in BOOLEAN :
         [op |-> "mark", all |-> a, todo |-> t, called |-> b] \in Frame
BY DEF Frame, Marked

\* A call of one kind is the record of its fields.
LEMMA Changed ==
    ASSUME NEW f \in Frame
    PROVE  /\ f.op = "children" => \A t \in Seq(Elements) :
                [f EXCEPT !.todo = t] = [op |-> "children", at |-> f.at, todo |-> t]
           /\ f.op = "call" => \A t \in Seq(Handlers) :
                [f EXCEPT !.rest = t] = [op |-> "call", at |-> f.at, rest |-> t, outer |-> f.outer]
           /\ f.op = "destroy" => \A c \in Elements \cup {NoElement} :
                [f EXCEPT !.child = c] = [op |-> "destroy", el |-> f.el, child |-> c]
           /\ f.op = "free" => \A e \in Elements \cup {NoElement} :
                [f EXCEPT !.told = e] = [op |-> "free", told |-> e]
           /\ f.op = "group" => \A n \in Nat \ {0} :
                [f EXCEPT !.at = n] = [op |-> "group", group |-> f.group, at |-> n]
<1>2. CASE f.op = "children"
  BY <1>2, Fields
<1>3. CASE f.op = "call"
  BY <1>3, Fields
<1>4. CASE f.op = "destroy"
  BY <1>4, Fields
<1>5. CASE f.op = "free"
  BY <1>5, Fields
<1>6. CASE f.op = "group"
  BY <1>6, Fields
<1> QED
  BY <1>2, <1>3, <1>4, <1>5, <1>6

-----------------------------------------------------------------------------
(* What is kept when little changes.                                       *)

\* The state of the world but for the handlers.
LEMMA WorldKept ==
    ASSUME WorldInv, UNCHANGED <<status, list, groups, vm>>,
           EventsOK',
           handler' \in [Handlers -> {"unused", "added", "trash", "freed"}],
           iterating' \subseteq Elements, calls' \in 0 .. MaxCalls, crashed' \in BOOLEAN
    PROVE  WorldInv'
BY DEF WorldInv, ListOK, InUse

\* No handler is added or removed.
LEMMA EventsKept ==
    ASSUME WorldInv, UNCHANGED <<status, events, vm>>
    PROVE  EventsOK'
BY DEF WorldInv, EventsOK, InUse

\* The elements that a DeleteTree has collected.
LEMMA Unlinked ==
    \A e : e \in BeingUnlinked <=> \E f \in Range(stack) : f.op = "mark" /\ e \in Range(f.all)
BY DEF BeingUnlinked

\* The tree, when more elements are being taken out of it.
LEMMA TreeWeaker ==
    ASSUME NEW kids, NEW st, NEW U, TreeOK(kids, st, U), NEW V, U \subseteq V
    PROVE  TreeOK(kids, st, V)
BY DEF TreeOK

\* Whatever is in the stack is still what its actions may assume, when the status of
\* no element has changed.
LEMMA QuietStack ==
    ASSUME Inv, UNCHANGED <<status, vm>>, StackOK(stack'), Iterated',
           \A f \in Range(stack') : f \in Range(stack) \/ FrameLive(f)
    PROVE  StackInv'
<1>1. \A f \in Range(stack') : FrameLive(f)
  BY DEF Inv, StackInv
<1>2. \A f \in Range(stack') : FrameLive(f)'
  BY <1>1 DEF FrameLive, InUse
<1> QED
  BY <1>2 DEF StackInv

\* What a call knows of elements in use, or being deleted, stays true of them.
LEMMA LiveKept ==
    ASSUME StackOK(stack), NEW f \in Range(stack), FrameLive(f), vm' = vm,
           \A x \in Elements : InUse(x) => InUse(x)',
           \A x \in Elements : status[x] = "deleting" => status'[x] = "deleting"
    PROVE  FrameLive(f)'
<1>1. f \in Frame
  BY Entries DEF StackOK
<1>2. CASE f.op \notin {"delete", "tree", "collect", "mark"}
  BY <1>2 DEF FrameLive
<1>3. CASE f.op \in {"delete", "tree"}
  BY <1>1, <1>3, Fields DEF FrameLive
<1>4. CASE f.op = "collect"
  <2>1. f.path \in Seq(Step) /\ f.all \in Seq(Elements)
    BY <1>1, <1>4, Fields
  <2>2. Range(f.path) \subseteq Step /\ Range(f.all) \subseteq Elements
    BY <2>1, Entries
  <2>3. \A s \in Range(f.path) : s.el \in Elements
    BY <2>2 DEF Step
  <2> QED
    BY <1>4, <2>2, <2>3 DEF FrameLive
<1>5. CASE f.op = "mark"
  <2>1. f.all \in Seq(Elements)
    BY <1>1, <1>5, Fields DEF Marked
  <2>2. \A e \in Range(f.all) : e \in Elements
    BY <2>1, Entries
  <2> QED
    BY <1>5, <2>2 DEF FrameLive
<1> QED
  BY <1>2, <1>3, <1>4, <1>5

\* What a DeleteTree has collected is still to be unlinked.
LEMMA UnlinkedKept ==
    ASSUME \A f \in Range(stack) : f.op = "mark" =>
             \E g \in Range(stack') : g.op = "mark" /\ Range(f.all) \subseteq Range(g.all)
    PROVE  BeingUnlinked \subseteq BeingUnlinked'
<1>1. \A e : e \in BeingUnlinked' <=> \E f \in Range(stack') : f.op = "mark" /\ e \in Range(f.all)
  BY DEF BeingUnlinked
<1> QED
  BY <1>1, Unlinked

\* A tree that has been changed as TreeOK allows.
LEMMA TreeChanged ==
    ASSUME NEW U, TreeOK(children', status', U), U \subseteq BeingUnlinked'
    PROVE  TreeInv'
<1> PICK V : V = BeingUnlinked'
  OBVIOUS
<1> PICK kids : kids = children'
  OBVIOUS
<1> PICK st : st = status'
  OBVIOUS
<1>1. TreeOK(kids, st, V)
  BY TreeWeaker
<1> QED
  BY <1>1 DEF TreeInv

\* Nothing about the elements has changed.
LEMMA Quiet ==
    ASSUME Inv, WorldInv', UNCHANGED <<children, status, vm>>,
           StackOK(stack'), Iterated',
           \A f \in Range(stack') : f \in Range(stack) \/ FrameLive(f),
           \A f \in Range(stack) : f.op = "mark" =>
             \E g \in Range(stack') : g.op = "mark" /\ Range(f.all) \subseteq Range(g.all)
    PROVE  Inv'
<1>1. StackInv'
  BY QuietStack
<1>2. BeingUnlinked \subseteq BeingUnlinked'
  BY UnlinkedKept
<1>3. TreeOK(children', status', BeingUnlinked)
  BY DEF Inv, TreeInv
<1> PICK U : U = BeingUnlinked
  OBVIOUS
<1>4. TreeInv'
  BY <1>2, <1>3, TreeChanged
<1> QED
  BY <1>1, <1>4 DEF Inv

\* The innermost call becomes f.
LEMMA Becomes ==
    ASSUME StackInv, stack # <<>>, NEW f \in Frame, Rests(f, Range(Tail(stack))), Become(f)
    PROVE  StackOK(stack') /\ Range(stack') = {f} \cup Range(Tail(stack))
<1> PICK t : t = Tail(stack)
  OBVIOUS
<1>1. StackOK(t) /\ Rests(f, Range(t))
  BY TopFrame
<1>2. StackOK(<<f>> \o t) /\ Range(<<f>> \o t) = {f} \cup Range(t)
  BY <1>1, PushOK
<1> QED
  BY <1>2 DEF Become

\* The innermost call becomes f and calls g.
LEMMA BecomesAndCalls ==
    ASSUME StackInv, stack # <<>>, NEW f \in Frame, Rests(f, Range(Tail(stack))),
           NEW g \in Frame, Rests(g, {f} \cup Range(Tail(stack))), Inside(f, g)
    PROVE  StackOK(stack') /\ Range(stack') = {g, f} \cup Range(Tail(stack))
<1> PICK t : t = Tail(stack)
  OBVIOUS
<1>1. StackOK(t) /\ Rests(f, Range(t)) /\ Rests(g, {f} \cup Range(t))
  BY TopFrame
<1>2. StackOK(<<g, f>> \o t) /\ Range(<<g, f>> \o t) = {g, f} \cup Range(t)
  BY <1>1, PushTwo
<1> QED
  BY <1>2 DEF Inside

\* CallParentEvent.
LEMMA CallParentEventInv ==
    ASSUME Inv, CallParentEvent
    PROVE  Inv'
<1> DEFINE t == Tail(stack)
<1>0. WorldInv /\ TreeInv /\ StackInv
  BY DEF Inv
<1>1. stack # <<>> /\ Top.op = "parents"
  BY DEF CallParentEvent, Running
<1>2. /\ Top \in Frame /\ StackOK(t) /\ Range(stack) = {Top} \cup Range(t)
      /\ Top.of \in Elements /\ Top.at \in Elements
  BY <1>0, <1>1, TopFrame, Fields
<1>3. CASE ~Top.called /\ HasEvents(Top.at)
  <2>1. /\ Inside(ParentsFrame(Top.of, Top.at, TRUE), CallFrame(Top.at))
        /\ iterating' = iterating \cup {Top.at}
    BY <1>3 DEF CallParentEvent
  <2> PICK f : f = ParentsFrame(Top.of, Top.at, TRUE)
    OBVIOUS
  <2> PICK g : g = CallFrame(Top.at)
    OBVIOUS
  <2>2. f \in Frame /\ f.op = "parents"
    BY <1>2, Made DEF ParentsFrame
  <2>3. /\ g \in Frame /\ g.op = "call" /\ g.at = Top.at
        /\ g.outer <=> Top.at \notin iterating
        /\ g.rest = events[Top.at]
    BY <1>0, <1>2, Made DEF CallFrame, WorldInv, EventsOK
  <2>4. Rests(f, Range(t))
    BY <2>2 DEF Rests
  <2>5. Rests(g, {f} \cup Range(t))
    BY <1>0, <1>1, <1>2, <2>2, <2>3 DEF Rests, StackInv, Iterated
  <2>6. StackOK(stack') /\ Range(stack') = {g, f} \cup Range(t)
    BY <1>0, <1>1, <2>1, <2>2, <2>3, <2>4, <2>5, BecomesAndCalls
  <2>7. WorldInv'
    BY <1>0, <1>2, <2>1, EventsKept, WorldKept DEF CallParentEvent, tree, WorldInv
  <2>8. Iterated'
    BY <1>0, <1>1, <1>2, <2>1, <2>2, <2>3, <2>6 DEF Iterated, StackInv
  <2>9. FrameLive(f) /\ FrameLive(g)
    BY <1>0, <1>2, <2>2, <2>3 DEF FrameLive, WorldInv, EventsOK
  <2> QED
    BY <1>1, <1>2, <2>6, <2>7, <2>8, <2>9, Quiet DEF CallParentEvent, tree
<1>4. CASE ~(~Top.called /\ HasEvents(Top.at))
  <2> PICK f : f = IF Parent(Top.at) = NoElement
                   THEN [op |-> "children", at |-> Top.of, todo |-> children[Top.of]]
                   ELSE ParentsFrame(Top.of, Parent(Top.at), FALSE)
    OBVIOUS
  <2>1. Become(f) /\ iterating' = iterating
    BY <1>4 DEF CallParentEvent
  <2>2. f \in Frame /\ f.op \in {"children", "parents"}
    <3>1. Parent(Top.at) \in Elements \cup {NoElement}
      BY ParentProperties DEF Parent
    <3>2. children[Top.of] \in Seq(Elements)
      BY <1>0, <1>2, KidsType DEF TreeInv, TreeOK, Forest
    <3> QED
      BY <3>1, <3>2, <1>2, Made DEF ParentsFrame
  <2>3. Rests(f, Range(t))
    BY <2>2 DEF Rests
  <2>4. StackOK(stack') /\ Range(stack') = {f} \cup Range(t)
    BY <1>0, <1>1, <2>1, <2>2, <2>3, Becomes
  <2>5. WorldInv'
    BY <1>0, <2>1, EventsKept, WorldKept DEF CallParentEvent, tree, WorldInv
  <2>6. Iterated'
    BY <1>0, <1>1, <1>2, <2>1, <2>2, <2>4 DEF Iterated, StackInv
  <2>7. FrameLive(f)
    BY <2>2 DEF FrameLive
  <2> QED
    BY <1>1, <1>2, <2>4, <2>5, <2>6, <2>7, Quiet DEF CallParentEvent, tree
<1> QED
  BY <1>3, <1>4

\* The handlers or the calls of scripts change, and the stack does not.
LEMMA QuietStay ==
    ASSUME Inv, WorldInv', UNCHANGED <<children, status, vm, iterating, stack>>
    PROVE  Inv'
<1>1. StackOK(stack') /\ Iterated'
  BY DEF Inv, StackInv, Iterated
<1> QED
  BY <1>1, Quiet

\* The innermost call goes on.
LEMMA QuietBecome ==
    ASSUME Inv, WorldInv', UNCHANGED <<children, status, vm, iterating>>,
           stack # <<>>, NEW f \in Frame, Become(f), Rests(f, Range(Tail(stack))), FrameLive(f),
           f.op = "call" <=> Top.op = "call", f.op = "call" => f.at = Top.at,
           Top.op = "mark" => f.op = "mark" /\ Range(Top.all) \subseteq Range(f.all)
    PROVE  Inv'
<1> PICK T : T = Range(Tail(stack))
  OBVIOUS
<1>0. StackInv
  BY DEF Inv
<1>1. StackOK(stack') /\ Range(stack') = {f} \cup T
  BY <1>0, Becomes
<1>2. Range(stack) = {Top} \cup T
  BY <1>0, TopFrame
<1>3. Iterated'
  BY <1>0, <1>1, <1>2 DEF Iterated, StackInv
<1> QED
  BY <1>1, <1>2, <1>3, Quiet

\* The innermost call goes on, and into another.
LEMMA QuietInside ==
    ASSUME Inv, WorldInv', UNCHANGED <<children, status, vm, iterating>>,
           stack # <<>>, NEW f \in Frame, NEW g \in Frame, Inside(f, g),
           Rests(f, Range(Tail(stack))), Rests(g, {f} \cup Range(Tail(stack))),
           FrameLive(f), FrameLive(g), g.op # "call",
           f.op = "call" <=> Top.op = "call", f.op = "call" => f.at = Top.at,
           Top.op = "mark" => f.op = "mark" /\ Range(Top.all) \subseteq Range(f.all)
    PROVE  Inv'
<1> PICK T : T = Range(Tail(stack))
  OBVIOUS
<1>0. StackInv
  BY DEF Inv
<1>1. StackOK(stack') /\ Range(stack') = {g, f} \cup T
  BY <1>0, BecomesAndCalls
<1>2. Range(stack) = {Top} \cup T
  BY <1>0, TopFrame
<1>3. Iterated'
  BY <1>0, <1>1, <1>2 DEF Iterated, StackInv
<1> QED
  BY <1>1, <1>2, <1>3, Quiet

\* The innermost call returns.
LEMMA QuietReturn ==
    ASSUME Inv, WorldInv', UNCHANGED <<children, status, vm, iterating>>,
           stack # <<>>, stack' = Tail(stack), Top.op # "call",
           Top.op = "mark" => Range(Top.all) = {}
    PROVE  Inv'
<1>0. StackInv
  BY DEF Inv
<1> PICK t : t = Tail(stack)
  OBVIOUS
<1>1. StackOK(t) /\ Range(stack) = {Top} \cup Range(t) /\ stack' = t
  BY <1>0, TopFrame
<1>2. StackOK(stack') /\ Range(stack') = Range(t)
  BY <1>1
<1>3. Iterated'
  BY <1>0, <1>1, <1>2 DEF Iterated, StackInv
<1>4. BeingUnlinked \subseteq BeingUnlinked'
  <2>1. \A e : e \in BeingUnlinked' <=> \E f \in Range(stack') : f.op = "mark" /\ e \in Range(f.all)
    BY DEF BeingUnlinked
  <2> QED
    BY <2>1, <1>1, <1>2, Unlinked
<1>5. TreeInv'
  <2> PICK U : U = BeingUnlinked
    OBVIOUS
  <2> PICK V : V = BeingUnlinked'
    OBVIOUS
  <2>1. TreeOK(children, status, U)
    BY DEF Inv, TreeInv
  <2>2. TreeOK(children, status, V)
    BY <2>1, <1>4, TreeWeaker
  <2> QED
    BY <2>2 DEF TreeInv
<1>6. \A f \in Range(stack') : FrameLive(f)
  BY <1>0, <1>1, <1>2 DEF StackInv
<1>7. StackInv'
  BY <1>2, <1>3, <1>6 DEF StackInv, FrameLive, InUse
<1> QED
  BY <1>5, <1>7 DEF Inv

\* A call is pushed, by a script or another call that does not go on.
LEMMA QuietCall ==
    ASSUME Inv, WorldInv', UNCHANGED <<children, status, vm, iterating>>,
           NEW g \in Frame, stack' = <<g>> \o stack, Rests(g, Range(stack)), FrameLive(g),
           g.op # "call"
    PROVE  Inv'
<1>0. StackInv
  BY DEF Inv
<1>1. StackOK(stack)
  BY <1>0 DEF StackInv
<1>2. StackOK(<<g>> \o stack) /\ Range(<<g>> \o stack) = {g} \cup Range(stack)
  BY <1>1, PushOK
<1>3. StackOK(stack') /\ Range(stack') = {g} \cup Range(stack)
  BY <1>2
<1>4. Iterated'
  BY <1>0, <1>3 DEF Iterated, StackInv
<1> QED
  BY <1>3, <1>4, Quiet

-----------------------------------------------------------------------------
(* The actions that call handlers.                                         *)

\* ChildrenSnapshot.
LEMMA ChildrenSnapshotInv ==
    ASSUME Inv, ChildrenSnapshot
    PROVE  Inv'
<1>0. WorldInv /\ TreeInv /\ StackInv
  BY DEF Inv
<1>1. stack # <<>> /\ Top.op = "snapshot"
  BY DEF ChildrenSnapshot, Running
<1>2. Top \in Frame /\ Top.at \in Elements
  BY <1>0, <1>1, TopFrame, Fields
<1> PICK f : f = [op |-> "children", at |-> Top.at, todo |-> children[Top.at]]
  OBVIOUS
<1>3. f \in Frame /\ f.op = "children"
  <2>1. children[Top.at] \in Seq(Elements)
    BY <1>0, <1>2, KidsType DEF TreeInv, TreeOK, Forest
  <2> QED
    BY <2>1, <1>2, Made
<1>4. Rests(f, Range(Tail(stack))) /\ FrameLive(f)
  BY <1>3 DEF Rests, FrameLive
<1>5. WorldInv'
  BY <1>0, EventsKept, WorldKept DEF ChildrenSnapshot, tree, managers, WorldInv
<1> QED
  BY <1>1, <1>3, <1>4, <1>5, QuietBecome DEF ChildrenSnapshot, tree, managers

\* CallHandler.
LEMMA CallHandlerInv ==
    ASSUME Inv, CallHandler
    PROVE  Inv'
<1>0. WorldInv /\ TreeInv /\ StackInv
  BY DEF Inv
<1>1. stack # <<>> /\ Top.op = "call" /\ Top.rest # <<>>
  BY DEF CallHandler, Running
<1>2. /\ Top \in Frame /\ Top.at \in Elements /\ Top.rest \in Seq(Handlers)
      /\ Rests(Top, Range(Tail(stack)))
  BY <1>0, <1>1, TopFrame, Fields
<1>3. PICK rest : /\ rest = Tail(Top.rest) /\ rest \in Seq(Handlers)
                  /\ Range(Top.rest) = Range(rest) \cup {Head(Top.rest)}
                  /\ ~vm => Range(Top.rest) \cap Own = {}
  <2>1. FrameLive(Top)
    BY <1>0, <1>1, TopFrame
  <2> QED
    BY <1>1, <1>2, <2>1, TopProperties DEF FrameLive
<1> PICK f : f = [op |-> "call", at |-> Top.at, rest |-> rest, outer |-> Top.outer]
  OBVIOUS
<1>4. [Top EXCEPT !.rest = Tail(@)] = f
  BY <1>1, <1>2, <1>3, Changed
<1>5. f \in Frame /\ f.op = "call" /\ f.at = Top.at /\ f.outer = Top.outer
  BY <1>1, <1>2, <1>3, Fields, Made
<1>6. Rests(f, Range(Tail(stack))) /\ FrameLive(f)
  BY <1>1, <1>2, <1>3, <1>5 DEF Rests, FrameLive
<1>7. WorldInv'
  BY <1>0, EventsKept, WorldKept DEF CallHandler, tree, managers, WorldInv
<1>8. CASE handler[Head(Top.rest)] = "added"
  <2> PICK own \in BOOLEAN : own <=> Head(Top.rest) \in Own
    OBVIOUS
  <2> PICK g : g = [op |-> "script", own |-> own]
    OBVIOUS
  <2>1. g \in Frame /\ g.op = "script" /\ g.own = own
    BY Made
  <2>2. Rests(g, {f} \cup Range(Tail(stack))) /\ FrameLive(g)
    BY <1>1, <1>3, <2>1 DEF Rests, FrameLive
  <2>3. Inside(f, g)
    BY <1>4, <1>8 DEF CallHandler
  <2> QED
    BY <1>1, <1>5, <1>6, <1>7, <2>1, <2>2, <2>3, QuietInside DEF CallHandler, tree, managers
<1>9. CASE handler[Head(Top.rest)] # "added"
  <2>1. Become(f)
    BY <1>4, <1>9 DEF CallHandler
  <2> QED
    BY <1>1, <1>5, <1>6, <1>7, <2>1, QuietBecome DEF CallHandler, tree, managers
<1> QED
  BY <1>8, <1>9

\* CallChildEvent.
LEMMA CallChildEventInv ==
    ASSUME Inv, CallChildEvent
    PROVE  Inv'
<1> PICK T : T = Range(Tail(stack))
  OBVIOUS
<1>0. WorldInv /\ TreeInv /\ StackInv
  BY DEF Inv
<1>1. stack # <<>> /\ Top.op = "children"
  BY DEF CallChildEvent, Running
<1>2. /\ Top \in Frame /\ Top.at \in Elements /\ Top.todo \in Seq(Elements)
      /\ StackOK(Tail(stack)) /\ Range(stack) = {Top} \cup T
  BY <1>0, <1>1, TopFrame, Fields
<1> PICK next : next = {i \in DOMAIN Top.todo :
                          /\ Alive(Top.todo[i])
                          /\ HasEvents(Top.todo[i]) \/ children[Top.todo[i]] # <<>>}
  OBVIOUS
<1>3. CASE next = {} \/ ~Alive(Top.at)
  <2>1. stack' = Tail(stack) /\ iterating' = iterating
    BY <1>3 DEF CallChildEvent
  <2>2. WorldInv'
    BY <1>0, <2>1, EventsKept, WorldKept DEF CallChildEvent, tree, WorldInv
  <2> QED
    BY <1>1, <2>1, <2>2, QuietReturn DEF CallChildEvent, tree
<1>4. CASE ~(next = {} \/ ~Alive(Top.at))
  <2> DEFINE After(i) == [Top EXCEPT !.todo = SubSeq(@, i + 1, Len(@))]
             Snapshot(i) == [op |-> "snapshot", at |-> Top.todo[i]]
  <2>1. PICK i \in next :
          IF HasEvents(Top.todo[i])
          THEN /\ stack' = <<CallFrame(Top.todo[i]), Snapshot(i), After(i)>> \o Tail(stack)
               /\ iterating' = iterating \cup {Top.todo[i]}
          ELSE Inside(After(i), Snapshot(i)) /\ iterating' = iterating
    BY <1>4 DEF CallChildEvent
  <2> PICK e : e = Top.todo[i]
    OBVIOUS
  <2>2. e \in Elements /\ i \in 1 .. Len(Top.todo)
    <3>1. i \in 1 .. Len(Top.todo)
      BY <1>2, LenProperties
    <3> QED
      BY <3>1, <1>2, ElementOfSeq
  <2> PICK rest : rest = SubSeq(Top.todo, i + 1, Len(Top.todo))
    OBVIOUS
  <2>3. rest \in Seq(Elements)
    <3>1. \A k \in i + 1 .. Len(Top.todo) : Top.todo[k] \in Elements
      BY <1>2, <2>2, LenProperties, ElementOfSeq
    <3> QED
      BY <1>2, <2>2, <3>1, LenProperties, SubSeqProperties
  <2> PICK f : f = [op |-> "children", at |-> Top.at, todo |-> rest]
    OBVIOUS
  <2> PICK g : g = [op |-> "snapshot", at |-> e]
    OBVIOUS
  <2> PICK h : h = CallFrame(e)
    OBVIOUS
  <2>4. f = [Top EXCEPT !.todo = SubSeq(@, i + 1, Len(@))]
    BY <1>1, <1>2, <2>3, Changed
  <2>5. f \in Frame /\ g \in Frame /\ f.op = "children" /\ g.op = "snapshot"
    BY <1>2, <2>2, <2>3, Made
  <2>6. /\ h \in Frame /\ h.op = "call" /\ h.at = e /\ h.rest = events[e]
        /\ h.outer <=> e \notin iterating
    BY <1>0, <2>2, Made DEF CallFrame, WorldInv, EventsOK
  <2>7. IF HasEvents(e)
        THEN stack' = <<h, g, f>> \o Tail(stack) /\ iterating' = iterating \cup {e}
        ELSE Inside(f, g) /\ iterating' = iterating
    BY <2>1, <2>4
  <2>8. \A below : Rests(f, below) /\ Rests(g, below)
    BY <2>5 DEF Rests
  <2>9. FrameLive(f) /\ FrameLive(g) /\ FrameLive(h)
    BY <1>0, <2>2, <2>5, <2>6 DEF FrameLive, WorldInv, EventsOK
  <2>10. WorldInv'
    BY <1>0, <2>2, <2>7, EventsKept, WorldKept DEF CallChildEvent, tree, WorldInv
  <2>11. CASE HasEvents(e)
    <3>1. Rests(h, {g, f} \cup T)
      BY <1>0, <1>1, <1>2, <2>5, <2>6, ZenonT(60) DEF Rests, StackInv, Iterated
    <3>2. StackOK(stack') /\ Range(stack') = {h, g, f} \cup T
      <4> PICK t : t = Tail(stack)
        OBVIOUS
      <4> PICK r : r = <<h, g, f>>
        OBVIOUS
      <4>1. StackOK(t) /\ Rests(h, {g, f} \cup Range(t))
        BY <1>2, <3>1
      <4>2. r \in Seq(Frame) /\ Len(r) = 3 /\ r[1] = h /\ r[2] = g /\ r[3] = f
        BY <2>5, <2>6
      <4>3. StackOK(r \o t) /\ Range(r \o t) = {h, g, f} \cup Range(t)
        BY <4>1, <4>2, <2>8, PushThree
      <4> QED
        BY <4>3, <2>7, <2>11
    <3>3. Iterated'
      <4>1. \A a : a \in iterating <=> \E q \in T : q.op = "call" /\ q.at = a
        BY <1>0, <1>1, <1>2 DEF Iterated, StackInv
      <4>2. \A a : a \in iterating' <=> a \in iterating \/ a = e
        BY <2>7, <2>11
      <4>3. \A a : (\E q \in {h, g, f} \cup T : q.op = "call" /\ q.at = a)
                     <=> (\E q \in T : q.op = "call" /\ q.at = a) \/ a = e
        BY <2>5, <2>6
      <4> QED
        BY <4>1, <4>2, <4>3, <3>2, ZenonT(60) DEF Iterated
    <3> QED
      BY <1>1, <1>2, <2>9, <2>10, <3>2, <3>3, Quiet DEF CallChildEvent, tree
  <2>12. CASE ~HasEvents(e)
    BY <1>1, <2>5, <2>7, <2>8, <2>9, <2>10, <2>12, QuietInside DEF CallChildEvent, tree
  <2> QED
    BY <2>11, <2>12
<1> QED
  BY <1>3, <1>4

\* Handlers are removed from one element.
LEMMA FewerEvents ==
    ASSUME EventsOK, UNCHANGED <<status, vm>>, NEW e \in Elements, NEW gone,
           events' = [events EXCEPT ![e] = Without(@, gone)]
    PROVE  /\ EventsOK'
           /\ \A x \in Elements : Range(events'[x]) =
                IF x = e THEN Range(events[x]) \ gone ELSE Range(events[x])
<1> PICK kept : kept = Without(events[e], gone)
  OBVIOUS
<1>1. events[e] \in Seq(Handlers)
  BY DEF EventsOK
<1>2. kept \in Seq(Handlers) /\ Range(kept) = Range(events[e]) \ gone
  <2>1. ASSUME NEW s \in Seq(Handlers)
        PROVE  Without(s, gone) \in Seq(Handlers) /\ Range(Without(s, gone)) = Range(s) \ gone
    BY WithoutProperties
  <2> QED
    BY <1>1, <2>1
<1>3. events' = [events EXCEPT ![e] = kept]
  OBVIOUS
<1>4. events' \in [Elements -> Seq(Handlers)] /\ \A x \in Elements :
        events'[x] = IF x = e THEN kept ELSE events[x]
  BY <1>2, <1>3 DEF EventsOK
<1>5. events[e] = <<>> => kept = <<>>
  BY <1>1, <1>2, Entries
<1> QED
  BY <1>2, <1>4, <1>5 DEF EventsOK, InUse

\* TakeOutTheTrash.
LEMMA TakeOutTheTrashInv ==
    ASSUME Inv, TakeOutTheTrash
    PROVE  Inv'
<1> PICK t : t = Tail(stack)
  OBVIOUS
<1>0. WorldInv /\ TreeInv /\ StackInv
  BY DEF Inv
<1>1. stack # <<>> /\ Top.op = "call" /\ stack' = t
  BY DEF TakeOutTheTrash, Running
<1>2. /\ Top \in Frame /\ Top.at \in Elements /\ Rests(Top, Range(t))
      /\ StackOK(t) /\ Range(stack) = {Top} \cup Range(t)
  BY <1>0, <1>1, TopFrame, Fields
<1>3. StackOK(stack') /\ Range(stack') = Range(t)
  BY <1>1, <1>2
<1>4. CASE Top.outer
  <2> PICK trash : trash = {h \in Handlers : handler[h] = "trash"}
    OBVIOUS
  <2>1. /\ events' = [events EXCEPT ![Top.at] = Without(@, trash)]
        /\ iterating' = iterating \ {Top.at}
        /\ handler' \in [Handlers -> {"unused", "added", "trash", "freed"}]
    BY <1>0, <1>4 DEF TakeOutTheTrash, WorldInv
  <2>2. EventsOK'
    BY <1>0, <1>2, <2>1, FewerEvents DEF WorldInv, TakeOutTheTrash, tree
  <2>3. WorldInv'
    BY <1>0, <2>1, <2>2, WorldKept DEF TakeOutTheTrash, tree, WorldInv
  <2>4. Iterated'
    BY <1>0, <1>1, <1>2, <1>3, <1>4, <2>1 DEF Iterated, StackInv, Rests
  <2> QED
    BY <1>1, <1>2, <1>3, <2>3, <2>4, Quiet DEF TakeOutTheTrash, tree
<1>5. CASE ~Top.outer
  <2>1. UNCHANGED managers
    BY <1>5 DEF TakeOutTheTrash
  <2>2. WorldInv'
    BY <1>0, <2>1, EventsKept, WorldKept DEF TakeOutTheTrash, tree, managers, WorldInv
  <2>3. Iterated'
    BY <1>0, <1>1, <1>2, <1>3, <1>5, <2>1 DEF Iterated, StackInv, Rests, managers
  <2> QED
    BY <1>1, <1>2, <1>3, <2>2, <2>3, Quiet DEF TakeOutTheTrash, tree
<1> QED
  BY <1>4, <1>5

-----------------------------------------------------------------------------
(* What scripts do.                                                        *)

\* A stack of one call.
LEMMA OneCall ==
    ASSUME NEW a \in Frame, Rests(a, {})
    PROVE  StackOK(<<a>>) /\ Range(<<a>>) = {a}
<1>1. <<a>> \in Seq(Frame) /\ DOMAIN <<a>> = 1 .. 1 /\ <<a>>[1] = a /\ Len(<<a>>) = 1
  OBVIOUS
<1>2. Below(<<a>>, 1) = {}
  BY <1>1 DEF Below
<1> QED
  BY <1>1, <1>2 DEF StackOK, Range

\* What a script that runs may assume.
LEMMA ScriptRuns ==
    ASSUME Inv, InScript
    PROVE  /\ stack # <<>> /\ Top \in Frame /\ Top.op = "script" /\ (Top.own => vm)
           /\ calls + 1 \in 0 .. MaxCalls
<1>1. WorldInv /\ StackInv /\ stack # <<>> /\ Top.op = "script" /\ calls < MaxCalls
  BY DEF Inv, InScript, Running
<1>2. Top \in Frame /\ FrameLive(Top)
  BY <1>1, TopFrame
<1>3. calls + 1 \in 0 .. MaxCalls
  BY <1>1, ElementDeletionType DEF WorldInv
<1> QED
  BY <1>1, <1>2, <1>3 DEF FrameLive

\* addEventHandler.
LEMMA AddEventHandlerInv ==
    ASSUME Inv, NEW h \in Handlers, NEW e \in Elements, AddEventHandler(h, e)
    PROVE  Inv'
<1>0. WorldInv
  BY DEF Inv
<1>1. h \in Own => vm
  BY ScriptRuns, ElementDeletionType DEF AddEventHandler, ItsHandlers, OwnScript
<1>2. EventsOK'
  <2> PICK more : more = Append(events[e], h)
    OBVIOUS
  <2>1. events[e] \in Seq(Handlers)
    BY <1>0 DEF WorldInv, EventsOK
  <2>2. more \in Seq(Handlers) /\ Range(more) = Range(events[e]) \cup {h}
    <3>1. ASSUME NEW s \in Seq(Handlers)
          PROVE  Append(s, h) \in Seq(Handlers) /\ Range(Append(s, h)) = Range(s) \cup {h}
      BY Entries
    <3> QED
      BY <2>1, <3>1
  <2>3. events' = [events EXCEPT ![e] = more] /\ status' = status /\ vm' = vm /\ Alive(e)
    BY DEF AddEventHandler, tree
  <2>4. events' \in [Elements -> Seq(Handlers)] /\ \A x \in Elements :
          events'[x] = IF x = e THEN more ELSE events[x]
    BY <1>0, <2>2, <2>3 DEF WorldInv, EventsOK
  <2> QED
    BY <1>0, <1>1, <2>2, <2>3, <2>4 DEF WorldInv, EventsOK, InUse, Alive
<1>3. handler' \in [Handlers -> {"unused", "added", "trash", "freed"}]
  BY <1>0 DEF AddEventHandler, WorldInv
<1>4. calls' \in 0 .. MaxCalls
  BY ScriptRuns DEF AddEventHandler, Called
<1>5. WorldInv'
  BY <1>0, <1>2, <1>3, <1>4, WorldKept DEF AddEventHandler, tree, WorldInv
<1> QED
  BY <1>5, QuietStay DEF AddEventHandler, tree

\* CMapEventManager::Delete.
LEMMA DeletedHandlersEvents ==
    ASSUME WorldInv, UNCHANGED <<status, vm>>, NEW e \in Elements, NEW gone, DeletedHandlers(e, gone)
    PROVE  /\ EventsOK'
           /\ handler' \in [Handlers -> {"unused", "added", "trash", "freed"}]
<1>0. EventsOK
  BY DEF WorldInv
<1>1. CASE e \in iterating
  BY <1>0, <1>1, EventsKept DEF DeletedHandlers, WorldInv
<1>2. CASE e \notin iterating
  <2>1. events' = [events EXCEPT ![e] = Without(@, gone)]
    BY <1>2 DEF DeletedHandlers
  <2>2. EventsOK'
    BY <1>0, <2>1, FewerEvents
  <2> QED
    BY <1>2, <2>2 DEF DeletedHandlers, WorldInv
<1> QED
  BY <1>1, <1>2

\* removeEventHandler.
LEMMA RemoveEventHandlerInv ==
    ASSUME Inv, NEW h \in Handlers, NEW e \in Elements, RemoveEventHandler(h, e)
    PROVE  Inv'
<1>0. WorldInv
  BY DEF Inv
<1>1. EventsOK' /\ handler' \in [Handlers -> {"unused", "added", "trash", "freed"}]
  <2> PICK gone : gone = {h}
    OBVIOUS
  <2> QED
    BY <1>0, DeletedHandlersEvents DEF RemoveEventHandler, tree
<1>2. calls' \in 0 .. MaxCalls
  BY ScriptRuns DEF RemoveEventHandler, Called
<1>3. WorldInv'
  BY <1>0, <1>1, <1>2, WorldKept DEF RemoveEventHandler, tree, WorldInv
<1> QED
  BY <1>3, QuietStay DEF RemoveEventHandler, tree

\* The first of the children, and the next.
LEMMA FirstType ==
    ASSUME NEW kids \in Kids, NEW e \in Elements
    PROVE  First(kids[e]) \in Elements \cup {NoElement}
<1>1. kids[e] \in Seq(Elements)
  BY KidsType
<1> QED
  BY <1>1, HeadTailProperties DEF First

\* The child after one of the children is an element, or none.
LEMMA FollowingType ==
    ASSUME NEW seq \in Seq(Elements), NEW x \in Range(seq)
    PROVE  Following(seq, x) \in Elements \cup {NoElement}
<1> PICK i : i = CHOOSE k \in DOMAIN seq : seq[k] = x
  OBVIOUS
<1>1. \E k \in DOMAIN seq : seq[k] = x
  BY DEF Range
<1>2. i \in DOMAIN seq
  BY <1>1
<1>3. Following(seq, x) = IF i = Len(seq) THEN NoElement ELSE seq[i + 1]
  BY DEF Following
<1>4. DOMAIN seq = 1 .. Len(seq) /\ Len(seq) \in Nat
  BY LenProperties
<1>5. i # Len(seq) => i + 1 \in 1 .. Len(seq)
  BY <1>2, <1>4
<1> QED
  BY <1>3, <1>5, ElementOfSeq

\* destroyElement.
LEMMA DestroyElementInv ==
    ASSUME Inv, NEW e \in Elements, DestroyElement(e)
    PROVE  Inv'
<1>0. WorldInv /\ TreeInv /\ StackInv
  BY DEF Inv
<1> PICK g : g = [op |-> "destroy", el |-> e, child |-> First(children[e])]
  OBVIOUS
<1>1. g \in Frame /\ g.op = "destroy"
  <2>1. First(children[e]) \in Elements \cup {NoElement}
    BY <1>0, FirstType DEF TreeInv, TreeOK, Forest
  <2> QED
    BY <2>1, Made
<1>2. \A below : Rests(g, below)
  BY <1>1 DEF Rests
<1>3. FrameLive(g)
  BY <1>1 DEF FrameLive
<1>4. calls' \in 0 .. MaxCalls
  BY ScriptRuns DEF DestroyElement, Called
<1>5. WorldInv'
  BY <1>0, <1>4, EventsKept, WorldKept DEF DestroyElement, tree, managers, WorldInv
<1> QED
  BY <1>1, <1>2, <1>3, <1>5, QuietCall DEF DestroyElement, tree, managers

\* Some calls replace those of the stack above t: none of them is a Call or a DeleteTree.
LEMMA QuietReplace ==
    ASSUME Inv, WorldInv', UNCHANGED <<children, status, vm, iterating>>,
           NEW kept, NEW fresh, StackOK(stack'), Range(stack') = fresh \cup kept,
           kept \subseteq Range(stack),
           \A f \in Range(stack) : f \in kept \/ f.op \notin {"call", "mark"},
           \A f \in fresh : f.op # "call" /\ FrameLive(f)
    PROVE  Inv'
<1>1. Iterated'
  BY DEF Iterated, Inv, StackInv
<1> QED
  BY <1>1, Quiet

\* kickPlayer, banPlayer.
LEMMA QuitPlayerInv ==
    ASSUME Inv, NEW p \in Players, QuitPlayer(p)
    PROVE  Inv'
<1>0. WorldInv /\ TreeInv /\ StackInv
  BY DEF Inv
<1> PICK a : a = EventFrame(p)
  OBVIOUS
<1> PICK b : b = DeleteFrame(p)
  OBVIOUS
<1>1. a \in Frame /\ a.op = "parents" /\ b \in Frame /\ b.op = "delete" /\ b.el = p
  BY Made DEF EventFrame, ParentsFrame, DeleteFrame, Elements
<1>2. \A below : Rests(a, below) /\ Rests(b, below)
  BY <1>1 DEF Rests
<1>3. FrameLive(a) /\ FrameLive(b)
  BY <1>1, Distinct DEF FrameLive, QuitPlayer, Alive, InUse
<1>4. calls' \in 0 .. MaxCalls
  BY ScriptRuns DEF QuitPlayer, Called
<1>5. WorldInv'
  BY <1>0, <1>4, EventsKept, WorldKept DEF QuitPlayer, tree, managers, WorldInv
<1>6. StackOK(stack') /\ Range(stack') = {a, b} \cup Range(stack)
  <2>1. StackOK(stack) /\ Rests(b, Range(stack)) /\ Rests(a, {b} \cup Range(stack))
    BY <1>0, <1>2 DEF StackInv
  <2>2. StackOK(<<a, b>> \o stack) /\ Range(<<a, b>> \o stack) = {a, b} \cup Range(stack)
    BY <1>1, <2>1, PushTwo
  <2> QED
    BY <2>2 DEF QuitPlayer
<1> PICK fresh : fresh = {a, b}
  OBVIOUS
<1>7. \A f \in fresh : f.op # "call" /\ FrameLive(f)
  BY <1>1, <1>3
<1> QED
  BY <1>5, <1>6, <1>7, QuietReplace DEF QuitPlayer, tree, managers

\* A script returns.
LEMMA ScriptReturnsInv ==
    ASSUME Inv, ScriptReturns
    PROVE  Inv'
<1>0. WorldInv
  BY DEF Inv
<1>1. WorldInv'
  BY <1>0, EventsKept, WorldKept DEF ScriptReturns, tree, managers, WorldInv
<1> QED
  BY <1>1, QuietReturn DEF ScriptReturns, Running, tree, managers

\* A call from the main loop.
LEMMA QuietFirst ==
    ASSUME Inv, WorldInv', UNCHANGED <<children, status, vm, iterating>>,
           stack = <<>>, NEW a \in Frame, stack' = <<a>>, Rests(a, {}), FrameLive(a), a.op # "call"
    PROVE  Inv'
<1>1. StackOK(stack') /\ Range(stack') = {a}
  BY OneCall
<1>2. Range(stack) = {}
  BY EmptySeq DEF Range
<1>3. Iterated'
  BY <1>1, <1>2 DEF Inv, StackInv, Iterated
<1> QED
  BY <1>1, <1>2, <1>3, Quiet

\* A script runs.
LEMMA ScriptStartsInv ==
    ASSUME Inv, ScriptStarts
    PROVE  Inv'
<1>0. WorldInv
  BY DEF Inv
<1>1. PICK own \in BOOLEAN : (own => vm) /\ stack' = <<[op |-> "script", own |-> own]>>
  BY DEF ScriptStarts
<1> PICK a : a = [op |-> "script", own |-> own]
  OBVIOUS
<1>2. a \in Frame /\ a.op = "script" /\ a.own = own
  BY Made
<1>3. Rests(a, {}) /\ FrameLive(a)
  BY <1>1, <1>2 DEF Rests, FrameLive
<1>4. WorldInv'
  BY <1>0, EventsKept, WorldKept DEF ScriptStarts, tree, managers, WorldInv
<1> QED
  BY <1>1, <1>2, <1>3, <1>4, QuietFirst DEF ScriptStarts, Idle, tree, managers

\* DoDeleteAll.
LEMMA DoDeleteAllInv ==
    ASSUME Inv, DoDeleteAll
    PROVE  Inv'
<1>0. WorldInv
  BY DEF Inv
<1> PICK a : a = [op |-> "free", told |-> NoElement]
  OBVIOUS
<1>2. a \in Frame /\ a.op = "free"
  BY Made
<1>3. Rests(a, {}) /\ FrameLive(a)
  BY <1>2 DEF Rests, FrameLive
<1>4. WorldInv'
  BY <1>0, EventsKept, WorldKept DEF DoDeleteAll, tree, managers, WorldInv
<1> QED
  BY <1>2, <1>3, <1>4, QuietFirst DEF DoDeleteAll, Idle, tree, managers

\* ~CPlayer calls handlers.
LEMMA PlayerFreedInv ==
    ASSUME Inv, PlayerFreed
    PROVE  Inv'
<1>0. WorldInv /\ StackInv
  BY DEF Inv
<1>1. stack # <<>> /\ Top.op = "free" /\ list # <<>>
  BY DEF PlayerFreed, Running
<1>2. Top \in Frame /\ Rests(Top, Range(Tail(stack))) /\ Head(list) \in Elements
  BY <1>0, <1>1, TopFrame, HeadTailProperties DEF WorldInv, ListOK
<1>3. PICK own \in BOOLEAN : /\ own => vm
                             /\ Inside([Top EXCEPT !.told = Head(list)], [op |-> "script", own |-> own])
  BY DEF PlayerFreed
<1> PICK f : f = [op |-> "free", told |-> Head(list)]
  OBVIOUS
<1> PICK g : g = [op |-> "script", own |-> own]
  OBVIOUS
<1>4. Inside(f, g)
  BY <1>1, <1>2, <1>3, Changed
<1>5. f \in Frame /\ f.op = "free" /\ g \in Frame /\ g.op = "script" /\ g.own = own
  BY <1>2, Made
<1>6. Rests(f, Range(Tail(stack))) /\ Rests(g, {f} \cup Range(Tail(stack)))
  BY <1>1, <1>2, <1>5 DEF Rests
<1>7. FrameLive(f) /\ FrameLive(g)
  BY <1>3, <1>5 DEF FrameLive
<1>8. WorldInv'
  BY <1>0, EventsKept, WorldKept DEF PlayerFreed, tree, managers, WorldInv
<1> QED
  BY <1>1, <1>4, <1>5, <1>6, <1>7, <1>8, QuietInside DEF PlayerFreed, tree, managers

-----------------------------------------------------------------------------
(* Deletion.                                                               *)

\* DestroyElement goes on to another child.
LEMMA OnToChild ==
    ASSUME NEW f \in Frame, f.op = "destroy", NEW c \in Elements \cup {NoElement}
    PROVE  [f EXCEPT !.child = c] \in Frame /\ [f EXCEPT !.child = c].op = "destroy"
<1> PICK g : g = [f EXCEPT !.child = c]
  OBVIOUS
<1> PICK e : e = f.el
  OBVIOUS
<1>1. g = [op |-> "destroy", el |-> e, child |-> c] /\ e \in Elements
  BY Changed, Fields
<1>2. g \in Frame /\ g.op = "destroy"
  BY <1>1, Made
<1> QED
  BY <1>2

\* The return to DestroyElement.
LEMMA Returned ==
    ASSUME StackInv, stack # <<>>, crashed \in BOOLEAN, NEW kids \in Kids, NEW r \in BOOLEAN,
           ReturnWith(r, kids)
    PROVE  /\ crashed' \in BOOLEAN /\ StackOK(stack')
           /\ \A f \in Range(stack') : f \in Range(stack) \/ f.op = "destroy"
           /\ \A f \in Range(stack) : f \in Range(stack') \/ f = Top \/ f.op = "destroy"
<1> PICK t : t = Tail(stack)
  OBVIOUS
<1>1. StackOK(stack) /\ StackOK(t) /\ Range(stack) = {Top} \cup Range(t)
  BY TopFrame DEF StackInv
<1>2. CASE t = <<>> \/ Head(t).op # "destroy"
  BY <1>1, <1>2 DEF ReturnWith
<1>3. CASE ~(t = <<>> \/ Head(t).op # "destroy")
  <2> PICK f : f = Head(t)
    OBVIOUS
  <2> PICK u : u = Tail(t)
    OBVIOUS
  <2>1. f \in Frame /\ StackOK(u) /\ Range(t) = {f} \cup Range(u) /\ f.op = "destroy"
    BY <1>1, <1>3, PopOK
  <2>2. f \in [op : {"destroy"}, el : Elements, child : Elements \cup {NoElement}]
    BY <2>1, Fields
  <2> PICK c : c = IF r THEN First(kids[f.el]) ELSE Following(kids[f.el], f.child)
    OBVIOUS
  <2> PICK g : g = [f EXCEPT !.child = c]
    OBVIOUS
  <2>3. /\ crashed' = (~r /\ f.child \notin Range(kids[f.el]))
        /\ stack' = IF crashed' THEN stack ELSE <<g>> \o u
    <3>1. [f EXCEPT !.child = IF r THEN First(kids[f.el]) ELSE Following(kids[f.el], @)] = g
      BY <2>2
    <3> QED
      BY <1>3, <3>1 DEF ReturnWith
  <2>4. CASE crashed'
    BY <1>1, <2>3, <2>4
  <2>5. CASE ~crashed'
    <3>1. c \in Elements \cup {NoElement}
      <4>1. CASE r
        BY <4>1, <2>2, FirstType
      <4>2. CASE ~r
        <5> PICK seq : seq = kids[f.el]
          OBVIOUS
        <5>1. seq \in Seq(Elements) /\ f.child \in Range(seq)
          BY <2>2, <2>3, <2>5, <4>2, KidsType
        <5>2. Following(seq, f.child) \in Elements \cup {NoElement}
          BY <5>1, FollowingType
        <5> QED
          BY <4>2, <5>2
      <4> QED
        BY <4>1, <4>2
    <3>3. g \in Frame /\ g.op = "destroy"
      BY <2>1, <3>1, OnToChild
    <3>4. Rests(g, Range(u))
      BY <3>3 DEF Rests
    <3>5. StackOK(<<g>> \o u) /\ Range(<<g>> \o u) = {g} \cup Range(u)
      BY <2>1, <3>3, <3>4, PushOK
    <3>6. StackOK(stack') /\ Range(stack') = {g} \cup Range(u) /\ crashed' \in BOOLEAN
      BY <2>3, <2>5, <3>5
    <3> QED
      BY <1>1, <2>1, <3>3, <3>6
  <2> QED
    BY <2>3, <2>4, <2>5
<1> QED
  BY <1>2, <1>3

\* DestroyElement goes on to a child.
LEMMA DestroyChildInv ==
    ASSUME Inv, DestroyChild
    PROVE  Inv'
<1>0. WorldInv /\ TreeInv /\ StackInv
  BY DEF Inv
<1>1. stack # <<>> /\ Top.op = "destroy" /\ Top.child # NoElement
  BY DEF DestroyChild, Running
<1>2. Top.child \in Elements
  BY <1>0, <1>1, TopFrame, Fields
<1> PICK g : g = [op |-> "destroy", el |-> Top.child, child |-> First(children[Top.child])]
  OBVIOUS
<1>3. g \in Frame /\ g.op = "destroy"
  <2>1. First(children[Top.child]) \in Elements \cup {NoElement}
    BY <1>0, <1>2, FirstType DEF TreeInv, TreeOK, Forest
  <2> QED
    BY <1>2, <2>1, Made
<1>4. \A below : Rests(g, below)
  BY <1>3 DEF Rests
<1>5. FrameLive(g)
  BY <1>3 DEF FrameLive
<1>6. WorldInv'
  BY <1>0, EventsKept, WorldKept DEF DestroyChild, tree, managers, WorldInv
<1> QED
  BY <1>3, <1>4, <1>5, <1>6, QuietCall DEF DestroyChild, tree, managers

\* The call of DestroyElement on the element itself, or its return.
LEMMA DestroyItselfInv ==
    ASSUME Inv, DestroyItself
    PROVE  Inv'
<1>0. WorldInv /\ TreeInv /\ StackInv
  BY DEF Inv
<1>1. stack # <<>> /\ Top.op = "destroy"
  BY DEF DestroyItself, Running
<1>2. Top \in Frame /\ Top.el \in Elements
  BY <1>0, <1>1, TopFrame, Fields
<1>3. CASE Alive(Top.el) /\ Top.el \notin Protected
  <2> PICK t : t = Tail(stack)
    OBVIOUS
  <2>0. StackOK(t) /\ Range(stack) = {Top} \cup Range(t)
    BY <1>0, <1>1, TopFrame
  <2> PICK a : a = EventFrame(Top.el)
    OBVIOUS
  <2> PICK b : b = DeleteFrame(Top.el)
    OBVIOUS
  <2>1. a \in Frame /\ a.op = "parents" /\ b \in Frame /\ b.op = "delete" /\ b.el = Top.el
    BY <1>2, Made DEF EventFrame, ParentsFrame, DeleteFrame
  <2>2. Rests(b, Range(t)) /\ Rests(a, {b} \cup Range(t))
    BY <2>1 DEF Rests
  <2>3. FrameLive(a) /\ FrameLive(b)
    BY <1>3, <2>1 DEF FrameLive, Alive, InUse, Protected
  <2>4. WorldInv'
    BY <1>0, <1>3, EventsKept, WorldKept DEF DestroyItself, tree, managers, WorldInv
  <2>5. StackOK(stack') /\ Range(stack') = {a, b} \cup Range(t)
    <3>1. StackOK(<<a, b>> \o t) /\ Range(<<a, b>> \o t) = {a, b} \cup Range(t)
      BY <2>0, <2>1, <2>2, PushTwo
    <3> QED
      BY <1>3, <3>1 DEF DestroyItself
  <2> PICK fresh : fresh = {a, b}
    OBVIOUS
  <2>6. \A f \in fresh : f.op # "call" /\ FrameLive(f)
    BY <2>1, <2>3
  <2> QED
    BY <1>1, <2>0, <2>4, <2>5, <2>6, QuietReplace DEF DestroyItself, tree, managers
<1>4. CASE ~(Alive(Top.el) /\ Top.el \notin Protected)
  <2>1. ReturnWith(FALSE, children)
    BY <1>4 DEF DestroyItself
  <2>2. children \in Kids /\ crashed \in BOOLEAN
    BY <1>0 DEF TreeInv, TreeOK, Forest, WorldInv
  <2>3. /\ crashed' \in BOOLEAN /\ StackOK(stack')
        /\ \A f \in Range(stack') : f \in Range(stack) \/ f.op = "destroy"
        /\ \A f \in Range(stack) : f \in Range(stack') \/ f = Top \/ f.op = "destroy"
    BY <1>0, <1>1, <2>1, <2>2, Returned
  <2>4. WorldInv'
    BY <1>0, <2>3, EventsKept, WorldKept DEF DestroyItself, tree, managers, WorldInv
  <2>5. Iterated'
    BY <1>0, <1>1, <2>3 DEF Iterated, StackInv, DestroyItself, managers
  <2>6. \A f \in Range(stack') : f \in Range(stack) \/ FrameLive(f)
    BY <2>3 DEF FrameLive
  <2> QED
    BY <1>1, <2>3, <2>4, <2>5, <2>6, Quiet DEF DestroyItself, tree, managers
<1> QED
  BY <1>3, <1>4

\* Stop.
LEMMA StopInv ==
    ASSUME Inv, Stop
    PROVE  Inv'
<1>0. WorldInv
  BY DEF Inv
<1> PICK a : a = GroupFrame("map")
  OBVIOUS
<1> PICK b : b = GroupFrame("default")
  OBVIOUS
<1> PICK c : c = [op |-> "vm"]
  OBVIOUS
<1> PICK r : r = <<a, b, c>>
  OBVIOUS
<1>1. /\ a \in Frame /\ a.op = "group" /\ a.group = "map"
      /\ b \in Frame /\ b.op = "group" /\ b.group = "default" /\ c \in Frame /\ c.op = "vm"
  BY Made DEF GroupFrame, GroupNames
<1>2. /\ r \in Seq(Frame) /\ Len(r) = 3 /\ r[1] = a /\ r[2] = b /\ r[3] = c
      /\ DOMAIN r = {1, 2, 3}
  BY <1>1
<1>3. Below(r, 1) = {b, c} /\ Below(r, 2) = {c} /\ Below(r, 3) = {}
  BY <1>2 DEF Below
<1>4. Rests(a, {b, c}) /\ Rests(b, {c}) /\ Rests(c, {})
  BY <1>1 DEF Rests
<1>5. StackOK(stack') /\ Range(stack') = {a, b, c} /\ stack = <<>>
  BY <1>2, <1>3, <1>4, ZenonT(60) DEF StackOK, Range, Stop, Idle
<1>6. WorldInv'
  BY <1>0, EventsKept, WorldKept DEF Stop, tree, managers, WorldInv
<1>7. FrameLive(a) /\ FrameLive(b) /\ FrameLive(c)
  BY <1>1 DEF FrameLive, Stop
<1> PICK fresh : fresh = {a, b, c}
  OBVIOUS
<1>8. \A f \in fresh : f.op # "call" /\ FrameLive(f)
  BY <1>1, <1>7
<1>9. Range(stack) = {}
  BY <1>5, EmptySeq DEF Range
<1> QED
  BY <1>5, <1>6, <1>8, <1>9, QuietReplace DEF Stop, tree, managers

\* An element is deleted with its events.
LEMMA DeletionFrames ==
    ASSUME NEW e \in Elements, InUse(e), e \notin {Root, Resource, Dynamic}
    PROVE  /\ EventFrame(e) \in Frame /\ EventFrame(e).op = "parents"
           /\ DeleteFrame(e) \in Frame /\ DeleteFrame(e).op = "delete" /\ DeleteFrame(e).el = e
           /\ FrameLive(EventFrame(e)) /\ FrameLive(DeleteFrame(e))
<1> PICK a : a = EventFrame(e)
  OBVIOUS
<1> PICK b : b = DeleteFrame(e)
  OBVIOUS
<1>1. a \in Frame /\ a.op = "parents" /\ b \in Frame /\ b.op = "delete" /\ b.el = e
  BY Made DEF EventFrame, ParentsFrame, DeleteFrame
<1>2. FrameLive(a) /\ FrameLive(b)
  BY <1>1 DEF FrameLive
<1> QED
  BY <1>1, <1>2

\* ~CElementGroup.
LEMMA DeleteGroupInv ==
    ASSUME Inv, DeleteGroup
    PROVE  Inv'
<1> PICK t : t = Tail(stack)
  OBVIOUS
<1>0. WorldInv /\ TreeInv /\ StackInv
  BY DEF Inv
<1>1. stack # <<>> /\ Top.op = "group"
  BY DEF DeleteGroup, Running
<1>2. /\ Top \in Frame /\ Top.group \in GroupNames /\ Top.at \in Nat \ {0}
      /\ Rests(Top, Range(t)) /\ StackOK(t) /\ Range(stack) = {Top} \cup Range(t)
  BY <1>0, <1>1, TopFrame, Fields
<1> PICK g : g = Top.group
  OBVIOUS
<1>3. CASE Top.at > Len(groups[g])
  <2>1. groups' = [groups EXCEPT ![g] = <<>>] /\ stack' = Tail(stack) /\ UNCHANGED <<events, handler>>
    BY <1>3 DEF DeleteGroup
  <2>2. WorldInv'
    <3>1. groups \in [GroupNames -> Seq(Elements)] /\ <<>> \in Seq(Elements) /\ Range(<<>>) = {}
      BY <1>0, EmptySeq DEF WorldInv, Range
    <3>2. groups' \in [GroupNames -> Seq(Elements)] /\ \A n \in GroupNames :
            Range(groups'[n]) \subseteq Range(groups[n])
      BY <2>1, <3>1
    <3>3. EventsOK'
      BY <1>0, <2>1, EventsKept DEF DeleteGroup, tree
    <3> QED
      BY <1>0, <2>1, <3>2, <3>3 DEF DeleteGroup, tree, WorldInv, ListOK, InUse, GroupNames
  <2> QED
    BY <1>1, <2>1, <2>2, QuietReturn DEF DeleteGroup, tree
<1>4. CASE ~(Top.at > Len(groups[g]))
  <2> PICK e : e = groups[g][Top.at]
    OBVIOUS
  <2> PICK live : live = {h \in Range(events[e]) : handler[h] = "added"}
    OBVIOUS
  <2> PICK f : f = [op |-> "group", group |-> g, at |-> Top.at + 1]
    OBVIOUS
  <2>1. f = [Top EXCEPT !.at = Top.at + 1]
    BY <1>1, <1>2, Changed
  <2>2. f \in Frame /\ f.op = "group" /\ f.group = g
    BY <1>2, Made
  <2>3. Rests(f, Range(t))
    BY <1>1, <1>2, <2>2 DEF Rests
  <2>4. FrameLive(f)
    <3>1. FrameLive(Top)
      BY <1>0, <1>1, TopFrame
    <3> QED
      BY <1>1, <2>2, <3>1 DEF FrameLive
  <2>5. e \in Range(groups[g]) /\ e \in Elements
    <3>1. groups[g] \in Seq(Elements)
      BY <1>0, <1>2 DEF WorldInv
    <3>2. Top.at \in DOMAIN groups[g]
      BY <1>2, <1>4, <3>1, LenProperties
    <3> QED
      BY <3>1, <3>2, LenProperties, ElementOfSeq DEF Range
  <2>6. InUse(e) /\ e \notin {Root, Resource, Dynamic}
    BY <1>0, <1>2, <2>5, Distinct DEF WorldInv, GroupNames
  <2>7. /\ events' = [events EXCEPT ![e] = Without(@, live)]
        /\ handler' = [h \in Handlers |-> IF h \in live THEN "freed" ELSE handler[h]]
        /\ IF IsBeingDeleted(e) THEN Become(f)
           ELSE stack' = <<EventFrame(e), DeleteFrame(e), f>> \o Tail(stack)
        /\ groups' = groups
    BY <1>4, <2>1 DEF DeleteGroup
  <2>8. EventsOK' /\ handler' \in [Handlers -> {"unused", "added", "trash", "freed"}]
    BY <1>0, <2>5, <2>7, FewerEvents DEF WorldInv, DeleteGroup, tree
  <2>9. WorldInv'
    BY <1>0, <2>7, <2>8, WorldKept DEF DeleteGroup, tree, WorldInv
  <2>10. CASE IsBeingDeleted(e)
    BY <1>1, <2>2, <2>3, <2>4, <2>7, <2>9, <2>10, QuietBecome DEF DeleteGroup, tree
  <2>11. CASE ~IsBeingDeleted(e)
    <3> PICK a : a = EventFrame(e)
      OBVIOUS
    <3> PICK b : b = DeleteFrame(e)
      OBVIOUS
    <3> PICK r : r = <<a, b, f>>
      OBVIOUS
    <3>1. /\ a \in Frame /\ a.op = "parents" /\ b \in Frame /\ b.op = "delete" /\ b.el = e
          /\ FrameLive(a) /\ FrameLive(b)
      BY <2>5, <2>6, DeletionFrames
    <3>2. r \in Seq(Frame) /\ Len(r) = 3 /\ r[1] = a /\ r[2] = b /\ r[3] = f
      BY <2>2, <3>1
    <3>3. Range(stack') = {a, b, f} \cup Range(t) /\ StackOK(stack')
      <4>1. Rests(a, {b, f} \cup Range(t)) /\ \A below : Rests(b, below)
        BY <3>1 DEF Rests
      <4>2. StackOK(r \o t) /\ Range(r \o t) = {a, b, f} \cup Range(t)
        BY <1>2, <2>3, <3>2, <4>1, PushThree
      <4> QED
        BY <2>7, <2>11, <4>2
    <3> PICK fresh : fresh = {a, b, f}
      OBVIOUS
    <3>4. \A x \in fresh : x.op # "call" /\ FrameLive(x)
      BY <2>2, <2>4, <3>1
    <3> QED
      BY <1>1, <1>2, <2>9, <3>3, <3>4, QuietReplace DEF DeleteGroup, tree
  <2> QED
    BY <2>10, <2>11
<1> QED
  BY <1>3, <1>4

-----------------------------------------------------------------------------
(* Actions that change the tree.                                           *)

\* What is below an element, as far as the lines of the others tell.
Under(e) == {x \in Elements : e \in Line[x]}

\* SetParentObject, to an element that is not below e.
LEMMA MovedInv ==
    ASSUME TreeInv, NEW e \in Elements, NEW p \in Elements, e # Root, e \notin Line[p],
           Reached(children, p), status[p] = "alive" \/ Attached(children, p),
           status[e] = "alive" \/ Attached(children, e)
    PROVE  TreeOK(Moved(children, e, p), status, BeingUnlinked)
<1> PICK kids : kids = children
  OBVIOUS
<1> PICK st : st = status
  OBVIOUS
<1> PICK U : U = BeingUnlinked
  OBVIOUS
<1> PICK D : D = Under(e)
  OBVIOUS
<1>1. TreeOK(kids, st, U) /\ Forest(children)
  BY DEF TreeInv, TreeOK
<1>2. e \in D /\ p \notin D /\ D \in SUBSET Elements
  BY <1>1, LineProperties DEF Under
<1>3. \A x \in D : Range(kids[x]) \subseteq D
  BY <1>1, LineProperties, KidsType DEF Under, Forest
<1>4. TreeOK(Moved(kids, e, p), st, U)
  BY <1>1, <1>2, <1>3, MovedTree
<1> QED
  BY <1>4

\* setElementParent.
LEMMA SetElementParentInv ==
    ASSUME Inv, NEW e \in Elements, NEW p \in Elements, SetElementParent(e, p)
    PROVE  Inv'
<1>0. WorldInv /\ TreeInv /\ StackInv
  BY DEF Inv
<1>1. /\ status[e] = "alive" /\ status[p] = "alive" /\ e \notin Line[p]
      /\ children' = Moved(children, e, p) /\ UNCHANGED <<status, vm, stack, iterating>>
  BY DEF SetElementParent, Alive, managers
<1>2. Reached(children, p) /\ Forest(children)
  BY <1>0, <1>1 DEF TreeInv, TreeOK
<1>3. e # Root
  BY <1>1, <1>2, LineProperties DEF InTree
<1>4. TreeOK(children', status', BeingUnlinked)
  BY <1>0, <1>1, <1>2, <1>3, MovedInv
<1>5. BeingUnlinked' = BeingUnlinked
  BY <1>1 DEF BeingUnlinked
<1>6. TreeInv'
  BY <1>4, <1>5 DEF TreeInv
<1>7. calls' \in 0 .. MaxCalls
  BY ScriptRuns DEF SetElementParent, Called
<1>8. WorldInv'
  BY <1>0, <1>7, EventsKept, WorldKept DEF SetElementParent, managers, WorldInv
<1>9. StackOK(stack') /\ Iterated'
  BY <1>0, <1>1 DEF StackInv, Iterated
<1>10. StackInv'
  BY <1>1, <1>9, QuietStack
<1> QED
  BY <1>6, <1>8, <1>10 DEF Inv

\* What a DeleteTree has collected is in use, and not the root.
LEMMA UnlinkedInUse ==
    ASSUME StackInv, NEW e \in BeingUnlinked
    PROVE  InUse(e) /\ e # Root
<1>1. PICK f \in Range(stack) : f.op = "mark" /\ e \in Range(f.all)
  BY Unlinked
<1>2. FrameLive(f)
  BY DEF StackInv
<1> QED
  BY <1>1, <1>2 DEF FrameLive

\* createElement.
LEMMA CreateElementInv ==
    ASSUME Inv, NEW e \in New, CreateElement(e)
    PROVE  Inv'
<1>0. WorldInv /\ TreeInv /\ StackInv
  BY DEF Inv
<1>1. /\ status[e] = "unused" /\ vm /\ status[Dynamic] = "alive"
      /\ status' = [status EXCEPT ![e] = "alive"]
      /\ children' = [children EXCEPT ![Dynamic] = Append(@, e)]
      /\ groups' = [groups EXCEPT !["default"] = Append(@, e)]
      /\ UNCHANGED <<list, events, handler, iterating, vm, stack, crashed>>
  BY <1>0, ScriptRuns DEF CreateElement, OwnScript, WorldInv, managers
<1>2. e \in Elements /\ Dynamic \in Elements /\ e # Dynamic /\ e # Root /\ e # Resource
  BY Distinct DEF Elements
<1>3. status' \in [Elements -> Statuses] /\ \A x \in Elements :
        status'[x] = IF x = e THEN "alive" ELSE status[x]
  BY <1>0, <1>1, <1>2 DEF WorldInv, Statuses
<1>4. e \notin BeingUnlinked
  BY <1>0, <1>1, UnlinkedInUse DEF InUse
<1>5. ~Attached(children, e) /\ Reached(children, Dynamic) /\ Forest(children)
  BY <1>0, <1>1, <1>2, <1>4 DEF TreeInv, TreeOK
<1>6. children' = Moved(children, e, Dynamic)
  <2>1. ParentIn(children, e) = NoElement
    BY <1>2, <1>5, ParentProperties DEF Attached
  <2>2. Dynamic # NoElement
    BY <1>2, ElementDeletionType
  <2> QED
    BY <1>1, <2>1, <2>2 DEF Moved
<1>7. TreeOK(children', status', BeingUnlinked)
  <2> PICK kids : kids = children
    OBVIOUS
  <2> PICK st : st = status
    OBVIOUS
  <2> PICK st2 : st2 = status'
    OBVIOUS
  <2> PICK U : U = BeingUnlinked
    OBVIOUS
  <2> PICK D : D = {e}
    OBVIOUS
  <2>1. TreeOK(kids, st, U) /\ Reached(kids, Dynamic) /\ st[Dynamic] = "alive"
    BY <1>0, <1>1, <1>5 DEF TreeInv
  <2>2. e \in D /\ Dynamic \notin D /\ D \in SUBSET Elements /\ \A x \in D : Range(kids[x]) \subseteq D
    BY <1>2, <1>5 DEF Attached
  <2>3. st2[e] = "alive" /\ \A x \in Elements \ {e} : st2[x] = st[x]
    BY <1>2, <1>3
  <2>4. TreeOK(Moved(kids, e, Dynamic), st2, U)
    BY <1>2, <2>1, <2>2, <2>3, MovedTree
  <2> QED
    BY <1>6, <2>4
<1>8. TreeInv'
  BY <1>1, <1>7 DEF TreeInv, BeingUnlinked
<1>9. ListOK(status', list') /\ \A x \in Elements : InUse(x) => InUse(x)'
  BY <1>0, <1>1, <1>3 DEF WorldInv, ListOK, InUse
<1>10. EventsOK'
  BY <1>0, <1>1, <1>9 DEF WorldInv, EventsOK
<1>11. /\ groups' \in [GroupNames -> Seq(Elements)]
       /\ Range(groups'["default"]) = Range(groups["default"]) \cup {e}
       /\ groups'["map"] = groups["map"]
  <2>1. groups["default"] \in Seq(Elements)
    BY <1>0 DEF WorldInv, GroupNames
  <2>2. ASSUME NEW s \in Seq(Elements)
        PROVE  Append(s, e) \in Seq(Elements) /\ Range(Append(s, e)) = Range(s) \cup {e}
    BY <1>2, Entries
  <2> PICK more : more = Append(groups["default"], e)
    OBVIOUS
  <2>3. more \in Seq(Elements) /\ Range(more) = Range(groups["default"]) \cup {e}
    BY <2>1, <2>2
  <2>4. groups' = [groups EXCEPT !["default"] = more]
    BY <1>1
  <2> QED
    BY <1>0, <2>3, <2>4 DEF WorldInv, GroupNames
<1>12. \A g \in GroupNames : \A x \in Range(groups'[g]) : InUse(x)'
  <2>1. \A g \in GroupNames : \A x \in Range(groups[g]) : x \in Elements /\ InUse(x)
    BY <1>0, Entries DEF WorldInv
  <2>2. InUse(e)'
    BY <1>2, <1>3 DEF InUse
  <2> QED
    BY <1>9, <1>11, <2>1, <2>2 DEF GroupNames
<1>13. calls' \in 0 .. MaxCalls
  BY ScriptRuns DEF CreateElement, Called
<1>14. status'[Root] = "alive" /\ status'[Resource] = "alive" /\ status'[Dynamic] = "alive"
  BY <1>0, <1>1, <1>2, <1>3 DEF WorldInv, Elements
<1>15. Range(groups'["map"]) \subseteq MapItems /\ Range(groups'["default"]) \subseteq New
  BY <1>0, <1>11 DEF WorldInv
<1>16. WorldInv'
  BY <1>0, <1>1, <1>3, <1>9, <1>10, <1>11, <1>12, <1>13, <1>14, <1>15 DEF WorldInv
<1>17. StackInv'
  <2>1. \A f \in Range(stack) : FrameLive(f)'
    BY <1>0, <1>1, <1>9, LiveKept, <1>3 DEF StackInv, Statuses
  <2> QED
    BY <1>0, <1>1, <2>1 DEF StackInv, Iterated
<1> QED
  BY <1>8, <1>16, <1>17 DEF Inv

\* An element is marked: it joins the list, once.
LEMMA Marks ==
    ASSUME WorldInv, NEW e \in Elements, InUse(e), e # Root, vm => e \notin {Resource, Dynamic},
           list' = IF Alive(e) THEN Append(list, e) ELSE list,
           status' = [status EXCEPT ![e] = "deleting"],
           UNCHANGED <<groups, managers, vm, calls>>, crashed' \in BOOLEAN
    PROVE  /\ WorldInv'
           /\ \A x \in Elements : status'[x] = IF x = e THEN "deleting" ELSE status[x]
           /\ \A x \in Elements : InUse(x) => InUse(x)'
           /\ \A x \in Elements : status[x] = "deleting" => status'[x] = "deleting"
<1>1. /\ status' \in [Elements -> Statuses]
      /\ \A x \in Elements : status'[x] = IF x = e THEN "deleting" ELSE status[x]
  BY DEF WorldInv, Statuses
<1>2. /\ \A x \in Elements : InUse(x) <=> InUse(x)'
      /\ \A x \in Elements : status[x] = "deleting" => status'[x] = "deleting"
  BY <1>1 DEF InUse
<1>3. ListOK(status', list')
  <2>0. ListOK(status, list)
    BY DEF WorldInv
  <2>1. CASE Alive(e)
    <3>1. e \notin Range(list) /\ list \in Seq(Elements) /\ IsInjective(list)
      BY <2>0, <2>1 DEF ListOK, Alive
    <3>2. IsInjective(Append(list, e)) /\ ToSet(Append(list, e)) = ToSet(list) \cup {e}
      BY <3>1, AppendDistinct DEF ToSet, Range
    <3>3. Append(list, e) \in Seq(Elements)
      BY <3>1
    <3>4. ToSet(list) = Range(list) /\ ToSet(Append(list, e)) = Range(Append(list, e))
      BY DEF ToSet, Range
    <3> PICK more : more = Append(list, e)
      OBVIOUS
    <3>5. Range(more) = Range(list) \cup {e} /\ IsInjective(more) /\ more \in Seq(Elements) /\ list' = more
      BY <2>1, <3>2, <3>3, <3>4
    <3>6. Range(more) = {x \in Elements : status'[x] = "deleting"}
      BY <2>0, <3>5, <1>1 DEF ListOK
    <3> QED
      BY <3>5, <3>6 DEF ListOK
  <2>2. CASE ~Alive(e)
    <3>1. status[e] = "deleting" /\ list' = list
      BY <2>2 DEF InUse, Alive
    <3>2. {x \in Elements : status'[x] = "deleting"} = {x \in Elements : status[x] = "deleting"}
      BY <1>1, <3>1
    <3> QED
      BY <2>0, <3>1, <3>2 DEF ListOK
  <2> QED
    BY <2>1, <2>2
<1>4. EventsOK'
  BY <1>2 DEF WorldInv, EventsOK, managers
<1>5. \A g \in GroupNames : \A x \in Range(groups'[g]) : InUse(x)'
  <2>1. \A g \in GroupNames : \A x \in Range(groups[g]) : x \in Elements /\ InUse(x)
    BY Entries DEF WorldInv
  <2> QED
    BY <1>2, <2>1
<1>6. status'[Root] = "alive" /\ (vm' => status'[Resource] = "alive" /\ status'[Dynamic] = "alive")
  BY <1>1 DEF WorldInv, Elements
<1>7. WorldInv'
  BY <1>1, <1>3, <1>4, <1>5, <1>6 DEF WorldInv, managers
<1> QED
  BY <1>1, <1>2, <1>7

\* CElementDeleter::Delete.
LEMMA DeleteInv ==
    ASSUME Inv, Delete
    PROVE  Inv'
<1>0. WorldInv /\ TreeInv /\ StackInv
  BY DEF Inv
<1>1. stack # <<>> /\ Top.op = "delete"
  BY DEF Delete, Running
<1> PICK e : e = Top.el
  OBVIOUS
<1>2. e \in Elements /\ InUse(e) /\ e \notin {Root, Resource, Dynamic}
  <2>1. Top \in Frame /\ FrameLive(Top)
    BY <1>0, <1>1, TopFrame
  <2> QED
    BY <1>1, <2>1, Fields DEF FrameLive
<1>3. /\ list' = IF Alive(e) THEN Append(list, e) ELSE list
      /\ status' = [status EXCEPT ![e] = "deleting"]
      /\ children' = TakenOut(children, e)
      /\ ReturnWith(TRUE, children')
      /\ UNCHANGED <<groups, managers, vm, calls>>
  BY DEF Delete
<1>4. \A x \in Elements : status'[x] = IF x = e THEN "deleting" ELSE status[x]
  BY <1>0, <1>3 DEF WorldInv, Statuses
<1>5. TreeOK(children', status', BeingUnlinked)
  <2> PICK kids : kids = children
    OBVIOUS
  <2> PICK st : st = status
    OBVIOUS
  <2> PICK st2 : st2 = status'
    OBVIOUS
  <2> PICK U : U = BeingUnlinked
    OBVIOUS
  <2>1. TreeOK(kids, st, U) /\ U \ {e} \subseteq U
    BY <1>0 DEF TreeInv
  <2>2. st2[e] # "alive" /\ \A x \in Elements \ {e} : st2[x] = st[x]
    BY <1>2, <1>4
  <2>3. TreeOK(TakenOut(kids, e), st2, U)
    BY <1>2, <2>1, <2>2, TakenOutTree
  <2> QED
    BY <1>3, <2>3
<1>6. /\ crashed' \in BOOLEAN /\ StackOK(stack')
      /\ \A f \in Range(stack') : f \in Range(stack) \/ f.op = "destroy"
      /\ \A f \in Range(stack) : f \in Range(stack') \/ f = Top \/ f.op = "destroy"
  <2> PICK kids : kids = children'
    OBVIOUS
  <2> PICK r : r = TRUE
    OBVIOUS
  <2>1. kids \in Kids /\ r \in BOOLEAN /\ ReturnWith(r, kids) /\ crashed \in BOOLEAN
    BY <1>0, <1>3, <1>5 DEF TreeOK, Forest, WorldInv
  <2> QED
    BY <1>0, <1>1, <2>1, Returned
<1>7. /\ WorldInv'
      /\ \A x \in Elements : InUse(x) => InUse(x)'
      /\ \A x \in Elements : status[x] = "deleting" => status'[x] = "deleting"
  BY <1>0, <1>2, <1>3, <1>6, Marks
<1>8. TreeInv'
  <2>1. BeingUnlinked \subseteq BeingUnlinked'
    BY <1>1, <1>6, UnlinkedKept
  <2> PICK U : U = BeingUnlinked
    OBVIOUS
  <2> QED
    BY <1>5, <2>1, TreeChanged
<1>9. StackInv'
  <2>1. Iterated'
    BY <1>0, <1>1, <1>3, <1>6 DEF Iterated, StackInv, managers
  <2>2. \A f \in Range(stack) : FrameLive(f)'
    BY <1>0, <1>3, <1>7, LiveKept DEF StackInv
  <2>3. \A f \in Range(stack') : FrameLive(f)'
    BY <1>6, <2>2 DEF FrameLive
  <2> QED
    BY <1>6, <2>1, <2>3 DEF StackInv
<1> QED
  BY <1>7, <1>8, <1>9 DEF Inv

\* DeleteTree.
LEMMA DeleteTreeInv ==
    ASSUME Inv, DeleteTree
    PROVE  Inv'
<1>0. WorldInv /\ TreeInv /\ StackInv
  BY DEF Inv
<1>1. stack # <<>> /\ Top.op = "tree"
  BY DEF DeleteTree, Running
<1>2. /\ Top \in Frame /\ Top.el \in Elements /\ Rests(Top, Range(Tail(stack)))
      /\ ~vm /\ Top.el \in {Resource, Dynamic} /\ InUse(Top.el)
  BY <1>0, <1>1, TopFrame, Fields DEF FrameLive
<1>3. WorldInv'
  BY <1>0, EventsKept, WorldKept DEF DeleteTree, tree, managers, WorldInv
<1>4. CASE IsBeingDeleted(Top.el)
  BY <1>1, <1>3, <1>4, QuietReturn DEF DeleteTree, tree, managers
<1>5. CASE ~IsBeingDeleted(Top.el)
  <2> PICK one : one = At(Top.el, 1)
    OBVIOUS
  <2> PICK path : path = <<one>>
    OBVIOUS
  <2> PICK f : f = CollectFrame(path, <<>>)
    OBVIOUS
  <2>1. one \in Step /\ one.el = Top.el
    BY <1>2 DEF At, Step
  <2>2. path \in Seq(Step) /\ Range(path) = {one} /\ path # <<>>
    BY <2>1 DEF Range
  <2>3. <<>> \in Seq(Elements) /\ Range(<<>>) = {}
    BY EmptySeq DEF Range
  <2>4. f \in Frame /\ f.op = "collect" /\ f.path = path /\ f.all = <<>>
    BY <2>2, <2>3, Made DEF CollectFrame
  <2>5. Rests(f, Range(Tail(stack)))
    BY <1>1, <1>2, <2>4 DEF Rests
  <2>6. FrameLive(f)
    BY <1>2, <2>1, <2>2, <2>3, <2>4, Distinct DEF FrameLive
  <2>7. Become(f)
    BY <1>5 DEF DeleteTree
  <2> QED
    BY <1>1, <1>3, <2>4, <2>5, <2>6, <2>7, QuietBecome DEF DeleteTree, tree, managers
<1> QED
  BY <1>4, <1>5

\* The step of DeleteTree that takes an element out of the tree.
LEMMA UnlinkTreeInv ==
    ASSUME Inv, UnlinkTree
    PROVE  Inv'
<1> PICK T : T = Range(Tail(stack))
  OBVIOUS
<1>0. WorldInv /\ TreeInv /\ StackInv
  BY DEF Inv
<1>1. stack # <<>> /\ Top.op = "mark" /\ Top.todo = <<>>
  BY DEF UnlinkTree, Running
<1>2. /\ Top \in Frame /\ Top.all \in Seq(Elements) /\ Top.todo \in Seq(Elements)
      /\ Rests(Top, T) /\ Range(stack) = {Top} \cup T /\ FrameLive(Top) /\ ~vm
  BY <1>0, <1>1, TopFrame, Fields DEF FrameLive, Marked
<1>3. WorldInv'
  BY <1>0, EventsKept, WorldKept DEF UnlinkTree, managers, WorldInv
<1>4. CASE Top.all = <<>>
  <2>1. Range(Top.all) = {}
    BY <1>4, EmptySeq DEF Range
  <2> QED
    BY <1>1, <1>3, <1>4, <2>1, QuietReturn DEF UnlinkTree, managers
<1>5. CASE Top.all # <<>>
  <2> PICK e : e = Head(Top.all)
    OBVIOUS
  <2> PICK rest : rest = Tail(Top.all)
    OBVIOUS
  <2> PICK f : f = MarkFrame(rest, <<>>, FALSE)
    OBVIOUS
  <2>1. e \in Elements /\ rest \in Seq(Elements) /\ Range(Top.all) = Range(rest) \cup {e}
    BY <1>2, <1>5, TopProperties
  <2>2. <<>> \in Seq(Elements) /\ Range(<<>>) = {}
    BY EmptySeq DEF Range
  <2>3. f \in Frame /\ f.op = "mark" /\ f.all = rest /\ f.todo = <<>>
    BY <2>1, <2>2, Made DEF MarkFrame
  <2>4. Rests(f, T)
    BY <1>1, <1>2, <2>3 DEF Rests
  <2>5. FrameLive(f) /\ e # Root /\ status[e] = "deleting"
    BY <1>1, <1>2, <2>1, <2>2, <2>3 DEF FrameLive
  <2>6. Become(f) /\ children' = TakenOut(children, e) /\ UNCHANGED <<status, vm, iterating>>
    BY <1>5 DEF UnlinkTree, managers
  <2>7. StackOK(stack') /\ Range(stack') = {f} \cup T
    BY <1>0, <1>1, <2>3, <2>4, <2>6, Becomes
  <2>8. Iterated'
    BY <1>0, <1>1, <1>2, <2>3, <2>6, <2>7 DEF Iterated, StackInv
  <2>9. StackInv'
    BY <1>2, <2>5, <2>6, <2>7, <2>8, QuietStack
  <2>10. BeingUnlinked \ {e} \subseteq BeingUnlinked'
    <3>1. \A x : x \in BeingUnlinked' <=> \E g \in Range(stack') : g.op = "mark" /\ x \in Range(g.all)
      BY DEF BeingUnlinked
    <3> QED
      BY <3>1, <1>2, <2>1, <2>3, <2>7, Unlinked
  <2>11. TreeInv'
    <3> PICK kids : kids = children
      OBVIOUS
    <3> PICK st : st = status
      OBVIOUS
    <3> PICK U : U = BeingUnlinked
      OBVIOUS
    <3> PICK V : V = BeingUnlinked'
      OBVIOUS
    <3>1. TreeOK(kids, st, U) /\ U \ {e} \subseteq V /\ st[e] # "alive"
      BY <1>0, <2>5, <2>10 DEF TreeInv
    <3>2. TreeOK(TakenOut(kids, e), st, V)
      BY <2>1, <2>5, <3>1, TakenOutTree
    <3> QED
      BY <2>6, <3>2 DEF TreeInv
  <2> QED
    BY <1>3, <2>9, <2>11 DEF Inv
<1> QED
  BY <1>4, <1>5

\* The step of DeleteTree that calls the event of an element, and then marks it.
LEMMA MarkTreeInv ==
    ASSUME Inv, MarkTree
    PROVE  Inv'
<1> PICK T : T = Range(Tail(stack))
  OBVIOUS
<1>0. WorldInv /\ TreeInv /\ StackInv
  BY DEF Inv
<1>1. stack # <<>> /\ Top.op = "mark" /\ Top.todo # <<>>
  BY DEF MarkTree, Running
<1>2. /\ Top \in Frame /\ Top.all \in Seq(Elements) /\ Top.todo \in Seq(Elements)
      /\ Rests(Top, T) /\ Range(stack) = {Top} \cup T /\ FrameLive(Top) /\ ~vm
      /\ StackOK(Tail(stack))
  BY <1>0, <1>1, TopFrame, Fields DEF FrameLive, Marked
<1> PICK e : e = Head(Top.todo)
  OBVIOUS
<1> PICK rest : rest = Tail(Top.todo)
  OBVIOUS
<1>3. /\ e \in Elements /\ rest \in Seq(Elements) /\ Range(Top.todo) = Range(rest) \cup {e}
      /\ e \in Range(Top.all) /\ InUse(e) /\ e # Root
  <2>1. e \in Elements /\ rest \in Seq(Elements) /\ Range(Top.todo) = Range(rest) \cup {e}
    BY <1>1, <1>2, TopProperties
  <2> QED
    BY <1>1, <1>2, <2>1 DEF FrameLive
<1> PICK next : next = MarkFrame(Top.all, rest, FALSE)
  OBVIOUS
<1>4. next \in Frame /\ next.op = "mark" /\ next.all = Top.all /\ next.todo = rest
  BY <1>2, <1>3, Made DEF MarkFrame
<1>5. Rests(next, T)
  BY <1>1, <1>2, <1>4 DEF Rests
<1>6. CASE ~Top.called /\ IsBeingDeleted(e)
  <2>1. status[e] = "deleting"
    BY <1>0, <1>6 DEF IsBeingDeleted, WorldInv, ListOK
  <2>2. FrameLive(next)
    BY <1>1, <1>2, <1>3, <1>4, <2>1 DEF FrameLive
  <2>3. Become(next) /\ UNCHANGED <<status, list>>
    BY <1>6 DEF MarkTree
  <2>4. WorldInv'
    BY <1>0, <2>3, EventsKept, WorldKept DEF MarkTree, managers, WorldInv
  <2> QED
    BY <1>1, <1>4, <1>5, <2>2, <2>3, <2>4, QuietBecome DEF MarkTree, managers
<1>7. CASE ~Top.called /\ ~IsBeingDeleted(e)
  <2> PICK f : f = MarkFrame(Top.all, Top.todo, TRUE)
    OBVIOUS
  <2> PICK g : g = EventFrame(e)
    OBVIOUS
  <2>1. f \in Frame /\ f.op = "mark" /\ f.all = Top.all /\ f.todo = Top.todo
    BY <1>2, Made DEF MarkFrame
  <2>2. g \in Frame /\ g.op = "parents"
    BY <1>3, Made DEF EventFrame, ParentsFrame
  <2>3. Rests(f, T) /\ Rests(g, {f} \cup T)
    BY <1>1, <1>2, <2>1, <2>2 DEF Rests
  <2>4. FrameLive(f) /\ FrameLive(g)
    BY <1>1, <1>2, <2>1, <2>2 DEF FrameLive
  <2>5. Inside(f, g) /\ UNCHANGED <<status, list>>
    BY <1>7 DEF MarkTree
  <2>6. WorldInv'
    BY <1>0, <2>5, EventsKept, WorldKept DEF MarkTree, managers, WorldInv
  <2> QED
    BY <1>1, <2>1, <2>2, <2>3, <2>4, <2>5, <2>6, QuietInside DEF MarkTree, managers
<1>8. CASE Top.called
  <2>1. /\ list' = IF Alive(e) THEN Append(list, e) ELSE list
        /\ status' = [status EXCEPT ![e] = "deleting"]
        /\ Become(next) /\ UNCHANGED <<children, groups, managers, vm, calls, crashed>>
    BY <1>8 DEF MarkTree
  <2>2. crashed' \in BOOLEAN
    BY <1>0, <2>1 DEF WorldInv
  <2>3. /\ WorldInv'
        /\ \A x \in Elements : status'[x] = IF x = e THEN "deleting" ELSE status[x]
        /\ \A x \in Elements : InUse(x) => InUse(x)'
        /\ \A x \in Elements : status[x] = "deleting" => status'[x] = "deleting"
    BY <1>0, <1>2, <1>3, <2>1, <2>2, Marks
  <2>4. StackOK(stack') /\ Range(stack') = {next} \cup T
    BY <1>0, <1>1, <1>4, <1>5, <2>1, Becomes
  <2>5. Iterated'
    BY <1>0, <1>1, <1>2, <1>4, <2>1, <2>4 DEF Iterated, StackInv, managers
  <2>6. \A f \in Range(stack) : FrameLive(f)'
    BY <1>0, <2>1, <2>3, LiveKept DEF StackInv
  <2>7. FrameLive(next)'
    <3> PICK old : old = Top
      OBVIOUS
    <3>1. FrameLive(old)' /\ status'[e] = "deleting"
      BY <1>2, <1>3, <2>3, <2>6
    <3>2. old.op = "mark" /\ old.all = Top.all /\ Range(old.todo) = Range(rest) \cup {e}
      BY <1>1, <1>3
    <3> QED
      BY <1>3, <1>4, <3>1, <3>2 DEF FrameLive
  <2>8. StackInv'
    BY <1>2, <2>4, <2>5, <2>6, <2>7 DEF StackInv
  <2>9. BeingUnlinked' = BeingUnlinked /\ e \in BeingUnlinked
    <3>1. \A x : x \in BeingUnlinked' <=> \E g \in Range(stack') : g.op = "mark" /\ x \in Range(g.all)
      BY DEF BeingUnlinked
    <3> QED
      BY <3>1, <1>1, <1>2, <1>3, <1>4, <2>4, Unlinked
  <2>10. TreeInv'
    <3>1. TreeOK(children, status, BeingUnlinked)
      BY <1>0 DEF TreeInv
    <3>2. TreeOK(children', status', BeingUnlinked)
      BY <2>1, <2>3, <2>9, <3>1 DEF TreeOK
    <3> QED
      BY <2>9, <3>2 DEF TreeInv
  <2> QED
    BY <2>3, <2>8, <2>10 DEF Inv
<1> QED
  BY <1>6, <1>7, <1>8

\* CollectTreeElements is at an element of its path.
LEMMA CollectFrameProperties ==
    ASSUME NEW path \in Seq(Step), NEW all \in Seq(Elements), path # <<>>
    PROVE  /\ CollectFrame(path, all) \in Frame
           /\ CollectFrame(path, all).op = "collect"
           /\ CollectFrame(path, all).path = path /\ CollectFrame(path, all).all = all
           /\ Head(path) \in Step /\ Tail(path) \in Seq(Step)
           /\ Range(path) = {Head(path)} \cup Range(Tail(path))
<1> PICK f : f = CollectFrame(path, all)
  OBVIOUS
<1>1. f \in Frame /\ f.op = "collect" /\ f.path = path /\ f.all = all
  BY Made DEF CollectFrame
<1>2. Head(path) \in Step /\ Tail(path) \in Seq(Step) /\ Range(path) = Range(Tail(path)) \cup {Head(path)}
  BY TopProperties
<1> QED
  BY <1>1, <1>2

\* A step of the path of CollectTreeElements.
LEMMA PathPushed ==
    ASSUME NEW path \in Seq(Step), NEW e \in Elements, NEW n \in Nat \ {0}
    PROVE  /\ <<At(e, n)>> \o path \in Seq(Step) /\ <<At(e, n)>> \o path # <<>>
           /\ Range(<<At(e, n)>> \o path) = Range(path) \cup {At(e, n)}
           /\ At(e, n).el = e
<1> PICK s : s = At(e, n)
  OBVIOUS
<1>1. s \in Step /\ s.el = e
  BY DEF At, Step
<1>2. /\ <<s>> \o path \in Seq(Step) /\ <<s>> \o path # <<>>
      /\ Range(<<s>> \o path) = Range(path) \cup {s}
  BY <1>1, PushProperties
<1> QED
  BY <1>1, <1>2

\* CollectTreeElements goes on at another place, or a DeleteTree with what it has collected.
LEMMA CollectGoesOn ==
    ASSUME Inv, WorldInv', UNCHANGED <<children, status, vm, iterating>>,
           stack # <<>>, Top.op = "collect", NEW f \in Frame, Become(f), FrameLive(f),
           f.op \in {"collect", "mark"}
    PROVE  Inv'
<1>0. StackInv
  BY DEF Inv
<1>1. Rests(f, Range(Tail(stack)))
  BY <1>0, TopFrame DEF Rests
<1> QED
  BY <1>1, QuietBecome

\* The step of DeleteTree that collects the elements.
LEMMA CollectTreeInv ==
    ASSUME Inv, CollectTree
    PROVE  Inv'
<1> PICK T : T = Range(Tail(stack))
  OBVIOUS
<1>0. WorldInv /\ TreeInv /\ StackInv
  BY DEF Inv
<1>1. stack # <<>> /\ Top.op = "collect"
  BY DEF CollectTree, Running
<1>2. /\ Top \in Frame /\ Top.path \in Seq(Step) /\ Top.all \in Seq(Elements)
      /\ Rests(Top, T) /\ Range(stack) = {Top} \cup T /\ FrameLive(Top)
  BY <1>0, <1>1, TopFrame, Fields
<1>3. /\ ~vm /\ Top.path # <<>>
      /\ \A s \in Range(Top.path) : s.el # Root /\ InUse(s.el)
      /\ \A e \in Range(Top.all) : e # Root /\ InUse(e)
  BY <1>1, <1>2 DEF FrameLive
<1> PICK s : s = Head(Top.path)
  OBVIOUS
<1> PICK path : path = Tail(Top.path)
  OBVIOUS
<1>4. /\ s \in Step /\ path \in Seq(Step) /\ Range(Top.path) = Range(path) \cup {s}
  BY <1>2, <1>3, TopProperties
<1> PICK e : e = s.el
  OBVIOUS
<1> PICK i : i = s.at
  OBVIOUS
<1>5. e \in Elements /\ i \in Nat \ {0} /\ e # Root /\ InUse(e)
  BY <1>3, <1>4 DEF Step
<1>6. children[e] \in Seq(Elements) /\ children \in Kids
  BY <1>0, <1>5, KidsType DEF TreeInv, TreeOK, Forest
<1>7. BeingUnlinked = {}
  <2>1. \A f \in Range(stack) : f.op # "mark"
    BY <1>1, <1>2 DEF Rests
  <2> QED
    BY <2>1, Unlinked
<1>9. WorldInv' /\ UNCHANGED <<status, vm, iterating>>
  BY <1>0, EventsKept, WorldKept DEF CollectTree, managers, WorldInv
<1>10. CASE i > Len(children[e])
  <2> PICK all : all = Append(Top.all, e)
    OBVIOUS
  <2>1. all \in Seq(Elements) /\ Range(all) = Range(Top.all) \cup {e}
    <3>1. ASSUME NEW t \in Seq(Elements)
          PROVE  Append(t, e) \in Seq(Elements) /\ Range(Append(t, e)) = Range(t) \cup {e}
      BY <1>5, Entries
    <3> QED
      BY <1>2, <3>1
  <2>2. CASE path = <<>>
    <3> PICK f : f = MarkFrame(all, all, FALSE)
      OBVIOUS
    <3>1. f \in Frame /\ f.op = "mark" /\ f.all = all /\ f.todo = all
      BY <2>1, Made DEF MarkFrame
    <3>2. FrameLive(f)
      BY <1>3, <1>5, <2>1, <3>1 DEF FrameLive
    <3>3. Become(f) /\ UNCHANGED children
      BY <1>10, <2>2 DEF CollectTree
    <3> QED
      BY <1>1, <1>9, <3>1, <3>2, <3>3, CollectGoesOn
  <2>3. CASE path # <<>>
    <3> PICK up : up = Head(path)
      OBVIOUS
    <3> PICK upper : upper = Tail(path)
      OBVIOUS
    <3>1. up \in Step /\ upper \in Seq(Step) /\ Range(path) = Range(upper) \cup {up}
      BY <1>4, <2>3, TopProperties
    <3> PICK u : u = up.el
      OBVIOUS
    <3> PICK n : n = up.at + 1
      OBVIOUS
    <3>2. u \in Elements /\ n \in Nat \ {0} /\ u # Root /\ InUse(u)
      <4>1. up \in Range(Top.path)
        BY <1>4, <3>1
      <4>2. up.el \in Elements /\ up.at \in Nat \ {0}
        BY <3>1 DEF Step
      <4>3. up.el # Root /\ InUse(up.el)
        BY <1>3, <4>1
      <4>4. n \in Nat \ {0}
        <5> PICK m \in Nat \ {0} : m = up.at
          BY <4>2
        <5>1. \A k \in Nat \ {0} : k + 1 \in Nat \ {0}
          OBVIOUS
        <5> QED
          BY <5>1
      <4> QED
        BY <4>2, <4>3, <4>4
    <3> PICK p : p = <<At(u, n)>> \o upper
      OBVIOUS
    <3>3. p \in Seq(Step) /\ p # <<>> /\ Range(p) = Range(upper) \cup {At(u, n)} /\ At(u, n).el = u
      BY <3>1, <3>2, PathPushed, ZenonT(60)
    <3> PICK f : f = CollectFrame(p, all)
      OBVIOUS
    <3>4. f \in Frame /\ f.op = "collect" /\ f.path = p /\ f.all = all
      BY <2>1, <3>3, CollectFrameProperties, ZenonT(60)
    <3>5. FrameLive(f)
      BY <1>3, <1>4, <1>5, <2>1, <3>1, <3>2, <3>3, <3>4, ZenonT(60) DEF FrameLive
    <3>6. Become(f) /\ UNCHANGED children
      BY <1>10, <2>3 DEF CollectTree
    <3> QED
      BY <1>1, <1>9, <3>4, <3>5, <3>6, CollectGoesOn
  <2> QED
    BY <2>2, <2>3
<1>11. CASE ~(i > Len(children[e]))
  <2> PICK c : c = children[e][i]
    OBVIOUS
  <2>1. c \in Range(children[e]) /\ c \in Elements
    <3>1. i \in 1 .. Len(children[e]) /\ DOMAIN children[e] = 1 .. Len(children[e])
      BY <1>5, <1>6, <1>11, LenProperties
    <3> QED
      BY <1>6, <3>1, ElementOfSeq DEF Range
  <2>2. Attached(children, c) /\ c # Root /\ status[c] = "alive"
    <3>1. ~Parentless(children, c)
      BY <1>5, <2>1 DEF Parentless
    <3>2. Attached(children, c) /\ c # Root
      BY <1>0, <3>1 DEF Attached, TreeInv, TreeOK, Forest
    <3> QED
      BY <1>0, <1>7, <2>1, <3>2 DEF TreeInv, TreeOK
  <2> DEFINE Continue(n) == CollectFrame(<<At(e, n)>> \o path, Top.all)
  <2>3. ASSUME NEW n \in Nat \ {0}
        PROVE  /\ Continue(n) \in Frame /\ Continue(n).op = "collect" /\ FrameLive(Continue(n))
               /\ Continue(n) = CollectFrame(<<At(Head(Top.path).el, n)>> \o path, Top.all)
    <3>1. n \in Nat \ {0} /\ path \in Seq(Step) /\ e \in Elements
      BY <1>4, <1>5
    <3>2. /\ <<At(e, n)>> \o path \in Seq(Step) /\ <<At(e, n)>> \o path # <<>>
          /\ Range(<<At(e, n)>> \o path) = Range(path) \cup {At(e, n)} /\ At(e, n).el = e
      BY <3>1, PathPushed
    <3> PICK p : p = <<At(e, n)>> \o path
      OBVIOUS
    <3>3. p \in Seq(Step) /\ p # <<>> /\ Range(p) = Range(path) \cup {At(e, n)} /\ At(e, n).el = e
      BY <3>2
    <3> PICK f : f = CollectFrame(p, Top.all)
      OBVIOUS
    <3>4. f \in Frame /\ f.op = "collect" /\ f.path = p /\ f.all = Top.all
      BY <1>2, <3>3, CollectFrameProperties
    <3>5. FrameLive(f)
      BY <1>3, <1>4, <1>5, <3>3, <3>4 DEF FrameLive
    <3> QED
      BY <3>4, <3>5
  <2>4. CASE c \in Players
    <3> PICK f : f = Continue(1)
      OBVIOUS
    <3>1. f \in Frame /\ f.op = "collect" /\ FrameLive(f)
      BY <2>3
    <3>2. Become(f) /\ children' = Moved(children, c, Root)
      BY <1>11, <2>4 DEF CollectTree
    <3>3. Rests(f, T)
      BY <1>1, <1>2, <3>1 DEF Rests
    <3>4. StackOK(stack') /\ Range(stack') = {f} \cup T
      BY <1>0, <1>1, <3>1, <3>2, <3>3, Becomes
    <3>5. Iterated'
      BY <1>0, <1>1, <1>2, <1>9, <3>1, <3>4 DEF Iterated, StackInv
    <3>6. StackInv'
      BY <1>2, <1>9, <3>1, <3>4, <3>5, QuietStack
    <3>7. TreeOK(children', status', BeingUnlinked)
      <4>1. Reached(children, Root) /\ Root \in Elements /\ status[Root] = "alive"
        BY <1>0 DEF Reached, Closed, Elements, WorldInv
      <4>2. c \notin Line[Root]
        BY <1>0, <2>2, LineProperties DEF TreeInv, TreeOK
      <4>3. TreeOK(Moved(children, c, Root), status, BeingUnlinked)
        BY <1>0, <2>1, <2>2, <4>1, <4>2, MovedInv
      <4> QED
        BY <1>9, <3>2, <4>3
    <3>8. TreeInv'
      <4> PICK U : U = BeingUnlinked
        OBVIOUS
      <4>1. U \subseteq BeingUnlinked'
        BY <1>7
      <4> QED
        BY <3>7, <4>1, TreeChanged
    <3> QED
      BY <1>9, <3>6, <3>8 DEF Inv
  <2>5. CASE c \notin Players /\ IsBeingDeleted(c)
    <3> PICK f : f = Continue(i + 1)
      OBVIOUS
    <3>1. f \in Frame /\ f.op = "collect" /\ FrameLive(f)
      BY <1>5, <2>3
    <3>2. Become(f) /\ UNCHANGED children
      BY <1>11, <2>5 DEF CollectTree
    <3> QED
      BY <1>1, <1>9, <3>1, <3>2, CollectGoesOn
  <2>6. CASE c \notin Players /\ ~IsBeingDeleted(c)
    <3> PICK p : p = <<At(c, 1)>> \o Top.path
      OBVIOUS
    <3>3. p \in Seq(Step) /\ p # <<>> /\ Range(p) = Range(Top.path) \cup {At(c, 1)} /\ At(c, 1).el = c
      <4>1. \A t \in Seq(Step) :
              /\ <<At(c, 1)>> \o t \in Seq(Step) /\ <<At(c, 1)>> \o t # <<>>
              /\ Range(<<At(c, 1)>> \o t) = Range(t) \cup {At(c, 1)} /\ At(c, 1).el = c
        <5>1. c \in Elements /\ 1 \in Nat \ {0}
          BY <2>1
        <5> QED
          BY <5>1, PathPushed
      <4> QED
        BY <1>2, <4>1
    <3> PICK f : f = CollectFrame(p, Top.all)
      OBVIOUS
    <3>4. f \in Frame /\ f.op = "collect" /\ f.path = p /\ f.all = Top.all
      BY <1>2, <3>3, CollectFrameProperties
    <3>5. FrameLive(f)
      <4>1. \A x \in Range(p) : x.el # Root /\ InUse(x.el)
        BY <1>3, <2>2, <3>3, ZenonT(60) DEF InUse
      <4>2. \A x \in Range(Top.all) : x # Root /\ InUse(x)
        BY <1>3
      <4> QED
        BY <1>3, <3>3, <3>4, <4>1, <4>2, ZenonT(60) DEF FrameLive
    <3>6. Become(f) /\ UNCHANGED children
      BY <1>11, <2>6 DEF CollectTree
    <3> QED
      BY <1>1, <1>9, <3>4, <3>5, <3>6, CollectGoesOn
  <2> QED
    BY <2>4, <2>5, <2>6
<1> QED
  BY <1>10, <1>11

\* Elements are taken out of all groups.
LEMMA FewerMembers ==
    ASSUME groups \in [GroupNames -> Seq(Elements)], NEW e,
           groups' = [g \in GroupNames |-> Without(groups[g], {e})]
    PROVE  /\ groups' \in [GroupNames -> Seq(Elements)]
           /\ \A g \in GroupNames : Range(groups'[g]) = Range(groups[g]) \ {e}
<1>1. ASSUME NEW g \in GroupNames
      PROVE  /\ Without(groups[g], {e}) \in Seq(Elements)
             /\ Range(Without(groups[g], {e})) = Range(groups[g]) \ {e}
  <2>1. groups[g] \in Seq(Elements)
    OBVIOUS
  <2> QED
    BY <2>1, WithoutProperties
<1> QED
  BY <1>1

\* The element of the list that is freed.
LEMMA FreedWorld ==
    ASSUME WorldInv, NEW e \in Range(list),
           status' = [status EXCEPT ![e] = "freed"],
           groups' = [g \in GroupNames |-> Without(groups[g], {e})],
           handler' = [h \in Handlers |-> IF h \in Range(events[e]) THEN "freed" ELSE handler[h]],
           events' = [events EXCEPT ![e] = <<>>],
           list' = Without(list, {e}),
           UNCHANGED <<iterating, vm, calls, crashed>>
    PROVE  WorldInv' /\ \A x \in Elements : status'[x] = IF x = e THEN "freed" ELSE status[x]
<1>1. e \in Elements /\ status[e] = "deleting"
  BY DEF WorldInv, ListOK
<1>2. /\ status' \in [Elements -> Statuses]
      /\ \A x \in Elements : status'[x] = IF x = e THEN "freed" ELSE status[x]
  BY <1>1 DEF WorldInv, Statuses
<1>3. ListOK(status', list')
  <2>1. /\ list' \in Seq(Elements) /\ Range(list') = Range(list) \ {e}
        /\ IsInjective(list')
    BY WithoutProperties DEF WorldInv, ListOK
  <2>2. Range(list) = {x \in Elements : status[x] = "deleting"}
    BY DEF WorldInv, ListOK
  <2>3. Range(list') = {x \in Elements : status'[x] = "deleting"}
    BY <1>1, <1>2, <2>1, <2>2
  <2> QED
    BY <2>1, <2>3 DEF ListOK
<1>4. /\ groups' \in [GroupNames -> Seq(Elements)]
      /\ \A g \in GroupNames : Range(groups'[g]) = Range(groups[g]) \ {e}
  BY FewerMembers DEF WorldInv
<1>5. \A g \in GroupNames : \A x \in Range(groups'[g]) : InUse(x)'
  <2>1. \A g \in GroupNames : \A x \in Range(groups[g]) : x \in Elements /\ InUse(x)
    BY Entries DEF WorldInv
  <2> SUFFICES ASSUME NEW g \in GroupNames, NEW x \in Range(groups'[g])
               PROVE  InUse(x)'
    OBVIOUS
  <2>2. x \in Range(groups[g]) /\ x # e
    BY <1>4
  <2>3. x \in Elements /\ status'[x] = status[x] /\ InUse(x)
    BY <1>2, <2>1, <2>2
  <2> QED
    BY <2>3 DEF InUse
<1>6. Range(groups'["map"]) \subseteq MapItems /\ Range(groups'["default"]) \subseteq New
  BY <1>4 DEF WorldInv, GroupNames
<1>7. EventsOK'
  <2>1. <<>> \in Seq(Handlers) /\ Range(<<>>) = {}
    BY EmptySeq DEF Range
  <2>2. events' \in [Elements -> Seq(Handlers)]
        /\ \A x \in Elements : events'[x] = IF x = e THEN <<>> ELSE events[x]
    BY <1>1, <2>1 DEF WorldInv, EventsOK
  <2>3. \A x \in Elements : ~InUse(x)' => events'[x] = <<>>
    BY <1>2, <2>2 DEF WorldInv, EventsOK, InUse
  <2>4. ~vm' => \A x \in Elements : Range(events'[x]) \cap Own = {}
    BY <2>1, <2>2 DEF WorldInv, EventsOK
  <2> QED
    BY <2>2, <2>3, <2>4 DEF EventsOK
<1>8. handler' \in [Handlers -> {"unused", "added", "trash", "freed"}]
  BY DEF WorldInv
<1>9. status'[Root] = "alive" /\ (vm' => status'[Resource] = "alive" /\ status'[Dynamic] = "alive")
  BY <1>1, <1>2 DEF WorldInv, Elements
<1>10. WorldInv'
  BY <1>2, <1>3, <1>4, <1>5, <1>6, <1>7, <1>8, <1>9 DEF WorldInv
<1> QED
  BY <1>2, <1>10

\* The step of DoDeleteAll that frees an element.
LEMMA FreeInv ==
    ASSUME Inv, Free
    PROVE  Inv'
<1>0. WorldInv /\ TreeInv /\ StackInv
  BY DEF Inv
<1>1. stack # <<>> /\ Top.op = "free" /\ UNCHANGED <<iterating, vm, calls, crashed>>
  BY DEF Free, Running
<1>2. Range(stack) = {Top}
  BY <1>0, <1>1, TopFrame DEF Rests
<1>3. CASE list = <<>>
  <2>1. stack' = Tail(stack) /\ UNCHANGED <<tree, events, handler, groups>>
    BY <1>3 DEF Free
  <2>2. WorldInv'
    BY <1>0, <1>1, <2>1, EventsKept, WorldKept DEF tree, WorldInv
  <2> QED
    BY <1>1, <2>1, <2>2, QuietReturn DEF tree
<1>4. CASE list # <<>>
  <2> PICK e : e = Head(list)
    OBVIOUS
  <2>1. e \in Range(list) /\ e \in Elements
    BY <1>0, <1>4, TopProperties DEF WorldInv, ListOK
  <2>2. /\ status' = [status EXCEPT ![e] = "freed"]
        /\ groups' = [g \in GroupNames |-> Without(groups[g], {e})]
        /\ handler' = [h \in Handlers |-> IF h \in Range(events[e]) THEN "freed" ELSE handler[h]]
        /\ events' = [events EXCEPT ![e] = <<>>]
        /\ list' = Without(list, {e})
        /\ children' = TakenOut(children, e)
        /\ stack' = stack
    BY <1>4 DEF Free
  <2>3. WorldInv' /\ \A x \in Elements : status'[x] = IF x = e THEN "freed" ELSE status[x]
    BY <1>0, <1>1, <2>1, <2>2, FreedWorld
  <2>4. e # Root
    BY <1>0, <2>1 DEF WorldInv, ListOK
  <2>5. BeingUnlinked = {} /\ BeingUnlinked' = {}
    BY <1>1, <1>2, <2>2 DEF BeingUnlinked
  <2>6. TreeOK(children', status', BeingUnlinked)
    <3> PICK kids : kids = children
      OBVIOUS
    <3> PICK st : st = status
      OBVIOUS
    <3> PICK st2 : st2 = status'
      OBVIOUS
    <3> PICK U : U = BeingUnlinked
      OBVIOUS
    <3>1. TreeOK(kids, st, U) /\ U \ {e} \subseteq U
      BY <1>0 DEF TreeInv
    <3>2. st2[e] # "alive" /\ \A x \in Elements \ {e} : st2[x] = st[x]
      BY <2>1, <2>3
    <3>3. TreeOK(TakenOut(kids, e), st2, U)
      BY <2>1, <2>4, <3>1, <3>2, TakenOutTree
    <3> QED
      BY <2>2, <3>3
  <2>7. TreeInv'
    BY <2>5, <2>6 DEF TreeInv
  <2>8. StackInv'
    <3>1. StackOK(stack') /\ Iterated'
      BY <1>0, <1>1, <2>2 DEF StackInv, Iterated
    <3>2. \A f \in Range(stack') : f.op = "free"
      BY <1>1, <1>2, <2>2
    <3>3. \A f \in Range(stack') : FrameLive(f)'
      BY <3>2 DEF FrameLive
    <3> QED
      BY <3>1, <3>3 DEF StackInv
  <2> QED
    BY <2>3, <2>7, <2>8 DEF Inv
<1> QED
  BY <1>3, <1>4

\* A stack of three calls.
LEMMA ThreeCalls ==
    ASSUME NEW r \in Seq(Frame), Len(r) = 3,
           Rests(r[1], {r[2], r[3]}), Rests(r[2], {r[3]}), Rests(r[3], {})
    PROVE  StackOK(r) /\ Range(r) = {r[1], r[2], r[3]}
<1>1. DOMAIN r = 1 .. 3
  BY LenProperties
<1>2. Range(r) = {r[1], r[2], r[3]}
  BY <1>1 DEF Range
<1>3. Below(r, 1) = {r[2], r[3]} /\ Below(r, 2) = {r[3]} /\ Below(r, 3) = {}
  BY DEF Below
<1>4. ASSUME NEW i \in 1 .. 3 PROVE Rests(r[i], Below(r, i))
  <2>1. CASE i = 1
    BY <1>3, <2>1
  <2>2. CASE i = 2
    BY <1>3, <2>2
  <2>3. CASE i = 3
    BY <1>3, <2>3
  <2> QED
    BY <2>1, <2>2, <2>3
<1> QED
  BY <1>1, <1>2, <1>4 DEF StackOK

\* DestroyVM finds every element that has handlers.
LEMMA DestroyVMEvents ==
    ASSUME Inv, DestroyVM
    PROVE  EventsOK'
<1>0. WorldInv /\ TreeInv
  BY DEF Inv
<1>1. events' = [e \in Elements |-> IF e \in Cleaned THEN Without(events[e], Own) ELSE events[e]]
      /\ status' = status
  BY DEF DestroyVM, tree
<1>2. ASSUME NEW e \in Elements
      PROVE  /\ Without(events[e], Own) \in Seq(Handlers)
             /\ Range(Without(events[e], Own)) = Range(events[e]) \ Own
             /\ events[e] = <<>> => Without(events[e], Own) = <<>>
  <2>1. events[e] \in Seq(Handlers)
    BY <1>0 DEF WorldInv, EventsOK
  <2>2. /\ Without(events[e], Own) \in Seq(Handlers)
        /\ Range(Without(events[e], Own)) = Range(events[e]) \ Own
    BY <2>1, WithoutProperties
  <2> PICK kept : kept = Without(events[e], Own)
    OBVIOUS
  <2>3. events[e] = <<>> => kept = <<>>
    BY <2>1, <2>2, Entries
  <2> QED
    BY <2>2, <2>3
<1>3. ASSUME NEW e \in Elements, e \notin Cleaned
      PROVE  events[e] = <<>>
  <2>1. ~InTree(e) /\ e \notin Range(list)
    BY <1>3 DEF Cleaned
  <2>2. ~Reached(children, e)
    BY <1>0, <2>1, LineProperties DEF TreeInv, TreeOK
  <2>3. status[e] # "alive" /\ status[e] # "deleting"
    BY <1>0, <2>1, <2>2 DEF TreeInv, TreeOK, WorldInv, ListOK
  <2> QED
    BY <1>0, <2>3 DEF WorldInv, EventsOK, InUse
<1>4. events' \in [Elements -> Seq(Handlers)]
  BY <1>0, <1>1, <1>2 DEF WorldInv, EventsOK
<1>5. \A e \in Elements : ~InUse(e)' => events'[e] = <<>>
  BY <1>0, <1>1, <1>2 DEF WorldInv, EventsOK, InUse
<1>6. \A e \in Elements : Range(events'[e]) \cap Own = {}
  <2>1. ASSUME NEW e \in Elements, e \in Cleaned PROVE Range(events'[e]) \cap Own = {}
    BY <1>1, <1>2, <2>1
  <2>2. ASSUME NEW e \in Elements, e \notin Cleaned PROVE Range(events'[e]) \cap Own = {}
    <3>1. events'[e] = <<>> /\ Range(<<>>) = {}
      BY <1>1, <1>3, <2>2, EmptySeq DEF Range
    <3> QED
      BY <3>1
  <2> QED
    BY <2>1, <2>2
<1> QED
  BY <1>4, <1>5, <1>6 DEF EventsOK

\* DestroyVM.
LEMMA DestroyVMInv ==
    ASSUME Inv, DestroyVM
    PROVE  Inv'
<1>0. WorldInv /\ TreeInv /\ StackInv
  BY DEF Inv
<1>1. /\ stack # <<>> /\ Top.op = "vm" /\ ~vm' /\ vm' \in BOOLEAN
      /\ UNCHANGED <<tree, iterating, groups, calls, crashed>>
  BY DEF DestroyVM, Running
<1>2. Range(stack) = {Top} /\ vm
  BY <1>0, <1>1, TopFrame DEF Rests, FrameLive
<1> PICK a : a = [op |-> "script", own |-> FALSE]
  OBVIOUS
<1> PICK b : b = [op |-> "tree", el |-> Dynamic]
  OBVIOUS
<1> PICK c : c = [op |-> "tree", el |-> Resource]
  OBVIOUS
<1> PICK r : r = <<a, b, c>>
  OBVIOUS
<1>3. /\ a \in Frame /\ a.op = "script" /\ ~a.own
      /\ b \in Frame /\ b.op = "tree" /\ b.el = Dynamic
      /\ c \in Frame /\ c.op = "tree" /\ c.el = Resource
  BY Made DEF Elements
<1>4. /\ r \in Seq(Frame) /\ Len(r) = 3 /\ r[1] = a /\ r[2] = b /\ r[3] = c
      /\ DOMAIN r = {1, 2, 3}
  BY <1>3
<1>6. Rests(a, {b, c}) /\ Rests(b, {c}) /\ Rests(c, {})
  BY <1>3 DEF Rests
<1>7. StackOK(stack') /\ Range(stack') = {a, b, c}
  <2>1. stack' = r
    BY DEF DestroyVM
  <2>2. StackOK(r) /\ Range(r) = {a, b, c}
    BY <1>3, <1>4, <1>6, ThreeCalls
  <2> QED
    BY <2>1, <2>2
<1>8. WorldInv'
  <2>1. handler' \in [Handlers -> {"unused", "added", "trash", "freed"}]
    BY <1>0 DEF DestroyVM, WorldInv
  <2>2. EventsOK'
    BY DestroyVMEvents
  <2> QED
    BY <1>0, <1>1, <2>1, <2>2 DEF WorldInv, tree, InUse
<1>9. BeingUnlinked = {} /\ BeingUnlinked' = {}
  BY <1>1, <1>2, <1>3, <1>7 DEF BeingUnlinked
<1>10. TreeInv'
  BY <1>0, <1>1, <1>9 DEF TreeInv, tree
<1>11. Iterated'
  BY <1>0, <1>1, <1>2, <1>3, <1>7 DEF Iterated, StackInv
<1>12. InUse(Resource)' /\ InUse(Dynamic)'
  BY <1>0, <1>1, <1>2 DEF WorldInv, InUse, tree
<1>13. FrameLive(a)' /\ FrameLive(b)' /\ FrameLive(c)'
  BY <1>1, <1>3, <1>12 DEF FrameLive
<1>14. StackInv'
  BY <1>7, <1>11, <1>13 DEF StackInv
<1> QED
  BY <1>8, <1>10, <1>14 DEF Inv

-----------------------------------------------------------------------------
(* The initial states.                                                     *)

\* The players are in the list of the root's children, in some order.
LEMMA PlayersInOrder == SetToSeq(Players) \in Seq(Players) /\ Range(SetToSeq(Players)) = Players
<1> PICK n : n = Cardinality(Players)
  OBVIOUS
<1>1. IsFiniteSet(Players) /\ Players \in SUBSET Elements
  BY ElementDeletionType, FS_Subset DEF Elements
<1>2. n \in Nat /\ ExistsBijection(1 .. n, Players)
  BY <1>1, FS_CardinalityType
<1>3. \E f \in [1 .. n -> Players] : IsInjective(f)
  BY <1>2 DEF ExistsBijection, Bijection, Injection
<1> PICK f : f = SetToSeq(Players)
  OBVIOUS
<1>4. f \in [1 .. n -> Players] /\ IsInjective(f)
  BY <1>3 DEF SetToSeq
<1>5. f \in Injection(1 .. n, Players)
  BY <1>4 DEF Injection
<1>6. Cardinality(1 .. n) = n
  BY <1>2, FS_Interval
<1>7. f \in Surjection(1 .. n, Players)
  BY <1>1, <1>5, <1>6, FS_Injection
<1>8. Range(f) = Players
  BY <1>4, <1>7 DEF Range, Surjection
<1>9. f \in Seq(Players)
  BY <1>2, <1>4, IsASeq
<1> QED
  BY <1>8, <1>9

\* The children, in an initial state.
LEMMA InitChildren ==
    ASSUME Init
    PROVE  /\ children \in Kids
           /\ \A e \in Elements : Range(children[e]) =
                IF e = Root THEN {Resource} \cup Players
                ELSE IF e = Resource THEN {Dynamic, Map}
                ELSE IF e = Map THEN {Item}
                ELSE IF e = Item THEN {SubItem}
                ELSE {}
<1> PICK players : players = SetToSeq(Players)
  OBVIOUS
<1> PICK first : first = <<Resource>> \o players
  OBVIOUS
<1>0. {Root, Resource, Dynamic, Map, Item, SubItem} \cup Players \subseteq Elements
  BY DEF Elements, MapItems
<1>1. players \in Seq(Elements) /\ Range(players) = Players
  BY <1>0, PlayersInOrder
<1>2. first \in Seq(Elements) /\ Range(first) = {Resource} \cup Players
  <2>1. Resource \in Elements
    BY <1>0
  <2> QED
    BY <1>1, <2>1, PushProperties
<1> PICK s1 : s1 = <<Dynamic, Map>>
  OBVIOUS
<1> PICK s2 : s2 = <<Item>>
  OBVIOUS
<1> PICK s3 : s3 = <<SubItem>>
  OBVIOUS
<1> PICK s4 : s4 = <<>>
  OBVIOUS
<1>3. /\ s1 \in Seq(Elements) /\ Range(s1) = {Dynamic, Map}
      /\ s2 \in Seq(Elements) /\ Range(s2) = {Item}
      /\ s3 \in Seq(Elements) /\ Range(s3) = {SubItem}
  <2>1. ASSUME NEW x \in Elements PROVE <<x>> \in Seq(Elements) /\ Range(<<x>>) = {x}
    BY DEF Range
  <2>2. ASSUME NEW x \in Elements, NEW y \in Elements
        PROVE  <<x, y>> \in Seq(Elements) /\ Range(<<x, y>>) = {x, y}
    BY DEF Range
  <2> QED
    BY <1>0, <2>1, <2>2
<1>4. s4 \in Seq(Elements) /\ Range(s4) = {}
  BY EmptySeq DEF Range
<1>5. children = [e \in Elements |->
         IF e = Root THEN first
         ELSE IF e = Resource THEN s1
         ELSE IF e = Map THEN s2
         ELSE IF e = Item THEN s3
         ELSE s4]
  BY DEF Init
<1>6. children \in Kids
  BY <1>2, <1>3, <1>4, <1>5 DEF Kids
<1> QED
  BY <1>2, <1>3, <1>4, <1>5, <1>6

\* The tree, in an initial state.
LEMMA InitTree ==
    ASSUME Init
    PROVE  TreeOK(children, status, {})
<1>1. /\ children \in Kids
      /\ \A e \in Elements : Range(children[e]) =
           IF e = Root THEN {Resource} \cup Players
           ELSE IF e = Resource THEN {Dynamic, Map}
           ELSE IF e = Map THEN {Item}
           ELSE IF e = Item THEN {SubItem}
           ELSE {}
  BY InitChildren
<1>2. /\ {Root, Resource, Dynamic, Map, Item, SubItem} \cup Players \subseteq Elements
      /\ MapItems = {Map, Item, SubItem}
  BY DEF Elements, MapItems
<1>3. \A e \in Elements : status[e] = IF e \in New THEN "unused" ELSE "alive"
  BY DEF Init
<1>4. Forest(children)
  <2>1. Parentless(children, Root)
    BY <1>1, <1>2, Distinct DEF Parentless
  <2>2. ASSUME NEW c \in Elements, NEW p \in Elements, c \in Range(children[p])
        PROVE  p = IF c = Resource \/ c \in Players THEN Root
                   ELSE IF c \in {Dynamic, Map} THEN Resource
                   ELSE IF c = Item THEN Map ELSE Item
    BY <1>1, <1>2, <2>2, Distinct
  <2>3. \A c, p, q \in Elements : c \in Range(children[p]) /\ c \in Range(children[q]) => p = q
    BY <2>2
  <2> QED
    BY <1>1, <2>1, <2>3 DEF Forest
<1>5. ASSUME NEW e \in Elements, e \notin New
      PROVE  Reached(children, e)
  <2> SUFFICES ASSUME NEW S \in SUBSET Elements, Closed(children, S)
               PROVE  e \in S
    BY DEF Reached
  <2>1. Root \in S /\ {Resource} \cup Players \subseteq S
    BY <1>1, <1>2 DEF Closed
  <2>2. {Dynamic, Map} \subseteq S
    <3>1. Range(children[Resource]) \subseteq S /\ Resource \in Elements /\ Resource # Root
      BY <1>2, <2>1, Distinct DEF Closed
    <3> QED
      BY <1>1, <3>1
  <2>3. Item \in S
    <3>1. Range(children[Map]) \subseteq S /\ Map \in Elements /\ Map \notin {Root, Resource}
      BY <1>2, <2>2, Distinct DEF Closed
    <3> QED
      BY <1>1, <3>1
  <2>4. SubItem \in S
    <3>1. Range(children[Item]) \subseteq S /\ Item \in Elements /\ Item \notin {Root, Resource, Map}
      BY <1>2, <2>3, Distinct DEF Closed
    <3> QED
      BY <1>1, <3>1
  <2> QED
    BY <1>5, <2>1, <2>2, <2>3, <2>4 DEF Elements, MapItems
<1>6. ASSUME NEW e \in Elements, e \in New
      PROVE  ~Attached(children, e)
  BY <1>1, <1>2, <1>6, Distinct DEF Attached, Parentless
<1> QED
  BY <1>3, <1>4, <1>5, <1>6 DEF TreeOK

\* The initial states.
LEMMA InitInv ==
    ASSUME Init
    PROVE  Inv
<1>0. stack = <<>> /\ list = <<>> /\ vm = TRUE /\ iterating = {} /\ calls = 0 /\ crashed = FALSE
  BY DEF Init
<1>1. /\ {Root, Resource, Dynamic, Map, Item, SubItem} \subseteq Elements
      /\ MapItems = {Map, Item, SubItem} /\ New \subseteq Elements
      /\ Root \notin New /\ Resource \notin New /\ Dynamic \notin New /\ New \cap MapItems = {}
  BY Distinct DEF Elements, MapItems
<1>2. /\ status \in [Elements -> Statuses]
      /\ \A e \in Elements : status[e] = IF e \in New THEN "unused" ELSE "alive"
  BY DEF Init, Statuses
<1>3. <<>> \in Seq(Elements) /\ <<>> \in Seq(Handlers) /\ Range(<<>>) = {} /\ IsInjective(<<>>)
  BY EmptySeq DEF Range, IsInjective
<1>4. ListOK(status, list)
  BY <1>0, <1>2, <1>3 DEF ListOK
<1>5. /\ groups \in [GroupNames -> Seq(Elements)]
      /\ Range(groups["map"]) = MapItems /\ groups["default"] = <<>>
  <2> PICK s : s = <<Item, SubItem, Map>>
    OBVIOUS
  <2>1. s \in Seq(Elements) /\ Range(s) = MapItems
    BY <1>1 DEF Range
  <2>2. groups = [g \in GroupNames |-> IF g = "map" THEN s ELSE <<>>]
    BY DEF Init
  <2> QED
    BY <1>3, <2>1, <2>2 DEF GroupNames
<1>6. \A g \in GroupNames : \A e \in Range(groups[g]) : InUse(e)
  BY <1>1, <1>2, <1>3, <1>5 DEF GroupNames, InUse
<1>7. EventsOK /\ handler \in [Handlers -> {"unused", "added", "trash", "freed"}]
  <2>1. PICK h \in Own, k \in Foreign :
          /\ events = [e \in Elements |->
               IF e = Root THEN <<k>> ELSE IF e = SubItem THEN <<h>> ELSE <<>>]
          /\ handler = [x \in Handlers |-> IF x \in {h, k} THEN "added" ELSE "unused"]
    BY DEF Init
  <2>2. <<k>> \in Seq(Handlers) /\ <<h>> \in Seq(Handlers)
    BY DEF Handlers
  <2>3. events \in [Elements -> Seq(Handlers)]
    BY <1>3, <2>1, <2>2
  <2>4. \A e \in Elements : ~InUse(e) => events[e] = <<>>
    BY <1>1, <1>2, <2>1 DEF InUse
  <2> QED
    BY <1>0, <2>1, <2>3, <2>4 DEF EventsOK
<1>8. WorldInv
  <2>1. status[Root] = "alive" /\ status[Resource] = "alive" /\ status[Dynamic] = "alive"
    BY <1>1, <1>2
  <2>2. Range(groups["map"]) \subseteq MapItems /\ Range(groups["default"]) \subseteq New
    BY <1>3, <1>5
  <2>3. /\ iterating \subseteq Elements /\ vm \in BOOLEAN /\ calls \in 0 .. MaxCalls
        /\ crashed \in BOOLEAN
    <3>1. calls \in 0 .. MaxCalls
      <4>1. MaxCalls \in Nat
        BY ElementDeletionType
      <4> QED
        BY <4>1 DEF Init
    <3>2. iterating \subseteq Elements /\ vm \in BOOLEAN /\ crashed \in BOOLEAN
      BY <1>0
    <3> QED
      BY <3>1, <3>2
  <2> QED
    BY <1>2, <1>4, <1>5, <1>6, <1>7, <2>1, <2>2, <2>3 DEF WorldInv
<1>9. Range(stack) = {} /\ stack \in Seq(Frame) /\ DOMAIN stack = {}
  BY <1>0, EmptySeq DEF Range
<1>10. StackInv
  BY <1>0, <1>9 DEF StackInv, StackOK, Iterated
<1>11. BeingUnlinked = {}
  BY <1>9, Unlinked
<1>12. TreeInv
  BY <1>11, InitTree DEF TreeInv
<1> QED
  BY <1>8, <1>10, <1>12 DEF Inv

-----------------------------------------------------------------------------
(* The theorems.                                                           *)

\* Every step keeps the invariant.
LEMMA NextInv ==
    ASSUME Inv, [Next]_vars
    PROVE  Inv'
<1>1. CASE Code
  BY <1>1, CallParentEventInv, ChildrenSnapshotInv, CallChildEventInv, CallHandlerInv,
     TakeOutTheTrashInv, DestroyChildInv, DestroyItselfInv, DeleteInv, FreeInv, DeleteGroupInv,
     DestroyVMInv, DeleteTreeInv, CollectTreeInv, MarkTreeInv, UnlinkTreeInv, ScriptReturnsInv
     DEF Code
<1>2. CASE Script
  <2>1. ASSUME NEW e \in Elements, NEW h \in Handlers,
               AddEventHandler(h, e) \/ RemoveEventHandler(h, e)
        PROVE  Inv'
    BY <2>1, AddEventHandlerInv, RemoveEventHandlerInv
  <2>2. ASSUME NEW e \in Elements, NEW p \in Elements, SetElementParent(e, p)
        PROVE  Inv'
    BY <2>2, SetElementParentInv
  <2>3. ASSUME NEW e \in Elements, DestroyElement(e)
        PROVE  Inv'
    BY <2>3, DestroyElementInv
  <2>4. ASSUME NEW e \in New, CreateElement(e)
        PROVE  Inv'
    BY <2>4, CreateElementInv
  <2>5. ASSUME NEW p \in Players, QuitPlayer(p)
        PROVE  Inv'
    BY <2>5, QuitPlayerInv
  <2> QED
    BY <1>2, <2>1, <2>2, <2>3, <2>4, <2>5 DEF Script
<1>3. CASE ScriptStarts \/ PlayerFreed \/ Stop \/ DoDeleteAll
  BY <1>3, ScriptStartsInv, PlayerFreedInv, StopInv, DoDeleteAllInv
<1>4. CASE UNCHANGED vars
  <2>1. /\ UNCHANGED <<children, status, list, events, handler, iterating, groups, vm, stack>>
        /\ UNCHANGED <<calls, crashed>>
    BY <1>4 DEF vars, tree, managers
  <2>2. WorldInv'
    BY <2>1, EventsKept, WorldKept DEF Inv, WorldInv
  <2> QED
    BY <2>1, <2>2, QuietStay
<1> QED
  BY <1>1, <1>2, <1>3, <1>4 DEF Next

\* The invariant holds in every reachable state.
LEMMA Invariant == Spec => []Inv
<1>1. Init => Inv
  BY InitInv
<1>2. Inv /\ [Next]_vars => Inv'
  BY NextInv
<1> QED
  BY <1>1, <1>2, PTL DEF Spec

\* The type invariant, and no element is in the deletion list twice, whatever its
\* handlers do: Delete asks again after the event.
THEOREM TypeCorrect == Spec => []TypeOK
<1>1. Inv => TypeOK
  <2>1. ASSUME NEW e \in Elements, Inv PROVE children[e] \in Seq(Elements)
    BY <2>1, KidsType DEF Inv, TreeInv, TreeOK, Forest
  <2>2. Inv => children \in [Elements -> Seq(Elements)]
    BY DEF Inv, TreeInv, TreeOK, Forest, Kids
  <2> QED
    BY <2>2 DEF Inv, WorldInv, ListOK, EventsOK, TypeOK
<1> QED
  BY <1>1, Invariant, PTL

\* No deletion leaves an element behind outside the tree, and a deleted element has
\* neither a parent nor children (the assertion of ~CElement).
THEOREM TreeStaysIntact == Spec => []TreeIntact
<1>1. ASSUME Inv PROVE TreeIntact
  <2>1. TreeOK(children, status, BeingUnlinked) /\ Forest(children)
    BY <1>1 DEF Inv, TreeInv, TreeOK
  <2>2. ASSUME NEW e \in Elements, Alive(e)
        PROVE  InTree(e)
    BY <2>1, <2>2, LineProperties DEF TreeOK, Alive
  <2>3. ASSUME NEW e \in Elements, status[e] \in {"deleting", "freed"}, e \notin BeingUnlinked
        PROVE  Parent(e) = NoElement /\ children[e] = <<>>
    <3>1. ~Attached(children, e)
      BY <2>1, <2>3 DEF TreeOK
    <3>2. children[e] \in Seq(Elements)
      BY <2>1, KidsType DEF Forest
    <3>3. Range(children[e]) = {} => children[e] = <<>>
      BY <3>2, Entries
    <3> QED
      BY <3>1, <3>3, ParentProperties DEF Attached, Parent
  <2> QED
    BY <2>2, <2>3 DEF TreeIntact
<1> QED
  BY <1>1, Invariant, PTL

-----------------------------------------------------------------------------
(* What each action does to the stack.                                     *)

\* Calls pushed on a stack.
LEMMA OnTop ==
    ASSUME NEW s, StackOK(s), NEW top, top \in Seq(Range(top))
    PROVE  Range(top \o s) = Range(top) \cup Range(s)
<1> PICK S : S = Frame \cup Range(top)
  OBVIOUS
<1>1. s \in Seq(Frame)
  BY DEF StackOK
<1> PICK n \in Nat : n = Len(s)
  BY <1>1, LenProperties
<1> PICK m \in Nat : m = Len(top)
  BY LenProperties
<1>2. s \in [1 .. n -> Frame] /\ top \in [1 .. m -> Range(top)]
  BY <1>1, LenProperties
<1>3. s \in [1 .. n -> S] /\ top \in [1 .. m -> S]
  BY <1>2
<1>4. s \in Seq(S) /\ top \in Seq(S)
  BY <1>3, IsASeq
<1> QED
  BY <1>4, Entries

\* The stack when the innermost call becomes or calls another, or is replaced by others.
LEMMA NewStack ==
    ASSUME StackInv, stack # <<>>
    PROVE  /\ \A f : Become(f) => Range(stack') = {f} \cup Range(Tail(stack))
           /\ \A f, g : Inside(f, g) => Range(stack') = {g, f} \cup Range(Tail(stack))
           /\ stack' = Tail(stack) => Range(stack') = Range(Tail(stack))
           /\ \A f, g : stack' = <<g, f>> \o Tail(stack) =>
                Range(stack') = {g, f} \cup Range(Tail(stack))
           /\ \A f, g, h : stack' = <<h, g, f>> \o Tail(stack) =>
                Range(stack') = {h, g, f} \cup Range(Tail(stack))
<1> PICK t : t = Tail(stack)
  OBVIOUS
<1>0. StackOK(t)
  BY TopFrame
<1>1. ASSUME NEW f PROVE Range(<<f>> \o t) = {f} \cup Range(t)
  <2>1. <<f>> \in Seq({f}) /\ Range(<<f>>) = {f}
    BY DEF Range
  <2> QED
    BY <1>0, <2>1, OnTop
<1>2. ASSUME NEW f, NEW g PROVE Range(<<g, f>> \o t) = {g, f} \cup Range(t)
  <2>1. <<g, f>> \in Seq({g, f}) /\ Range(<<g, f>>) = {g, f}
    BY DEF Range
  <2> QED
    BY <1>0, <2>1, OnTop
<1>3. ASSUME NEW f, NEW g, NEW h PROVE Range(<<h, g, f>> \o t) = {h, g, f} \cup Range(t)
  <2>1. <<h, g, f>> \in Seq({h, g, f}) /\ Range(<<h, g, f>>) = {h, g, f}
    BY DEF Range
  <2> QED
    BY <1>0, <2>1, OnTop
<1>4. \A f : Become(f) => Range(stack') = {f} \cup Range(Tail(stack))
  BY <1>1 DEF Become
<1>5. \A f, g : Inside(f, g) => Range(stack') = {g, f} \cup Range(Tail(stack))
  BY <1>2 DEF Inside
<1>6. \A f, g : stack' = <<g, f>> \o Tail(stack) => Range(stack') = {g, f} \cup Range(Tail(stack))
  BY <1>2
<1>7. \A f, g, h : stack' = <<h, g, f>> \o Tail(stack) =>
                     Range(stack') = {h, g, f} \cup Range(Tail(stack))
  <2> SUFFICES ASSUME NEW f, NEW g, NEW h, stack' = <<h, g, f>> \o Tail(stack)
               PROVE  Range(stack') = {h, g, f} \cup Range(Tail(stack))
    OBVIOUS
  <2>1. Range(<<h, g, f>> \o t) = {h, g, f} \cup Range(t)
    BY <1>3
  <2> QED
    BY <2>1
<1> QED
  BY <1>4, <1>5, <1>6, <1>7

\* The stack when a script makes a call.
LEMMA CalledStack ==
    ASSUME StackInv
    PROVE  /\ \A f : stack' = <<f>> \o stack => Range(stack') = {f} \cup Range(stack)
           /\ \A f, g : stack' = <<g, f>> \o stack => Range(stack') = {g, f} \cup Range(stack)
           /\ \A f : stack' = <<f>> => Range(stack') = {f}
<1>0. StackOK(stack)
  BY DEF StackInv
<1>1. ASSUME NEW f PROVE Range(<<f>> \o stack) = {f} \cup Range(stack) /\ Range(<<f>>) = {f}
  <2>1. <<f>> \in Seq({f}) /\ Range(<<f>>) = {f}
    BY DEF Range
  <2> QED
    BY <1>0, <2>1, OnTop
<1>2. ASSUME NEW f, NEW g PROVE Range(<<g, f>> \o stack) = {g, f} \cup Range(stack)
  <2>1. <<g, f>> \in Seq({g, f}) /\ Range(<<g, f>>) = {g, f}
    BY DEF Range
  <2> QED
    BY <1>0, <2>1, OnTop
<1> QED
  BY <1>1, <1>2

\* But for those of the kinds ops, and those that are in the middle of nothing that the
\* invariants below ask about, the same calls are in progress as before.
Ordinary == {"parents", "snapshot", "children", "script", "destroy", "free"}
Calm(ops) ==
    /\ \A f \in Range(stack') : f \in Range(stack) \/ f.op \in Ordinary \cup ops
    /\ \A f \in Range(stack) : f \in Range(stack') \/ f.op \in Ordinary \cup ops

\* The actions of scripts, and of what runs them, are calm.
LEMMA CalmScripts ==
    ASSUME Inv
    PROVE  /\ ScriptStarts \/ DoDeleteAll \/ PlayerFreed \/ ScriptReturns => Calm({})
           /\ \A e \in Elements : DestroyElement(e) => Calm({})
           /\ \A p \in Players : QuitPlayer(p) =>
                Calm({"delete"}) /\ Range(stack) \subseteq Range(stack')
           /\ stack' = stack => Calm({})
<1>0. StackInv
  BY DEF Inv
<1>1. ASSUME ScriptStarts PROVE Calm({})
  <2>1. PICK own \in BOOLEAN : stack' = <<[op |-> "script", own |-> own]>>
    BY <1>1 DEF ScriptStarts
  <2>2. Range(stack') = {[op |-> "script", own |-> own]} /\ stack = <<>>
    BY <1>0, <1>1, <2>1, CalledStack DEF ScriptStarts, Idle
  <2> QED
    BY <2>2, EmptySeq DEF Calm, Ordinary, Range
<1>2. ASSUME DoDeleteAll PROVE Calm({})
  <2>1. stack' = <<[op |-> "free", told |-> NoElement]>> /\ stack = <<>>
    BY <1>2 DEF DoDeleteAll, Idle
  <2>2. Range(stack') = {[op |-> "free", told |-> NoElement]}
    BY <1>0, <2>1, CalledStack
  <2> QED
    BY <2>1, <2>2, EmptySeq DEF Calm, Ordinary, Range
<1>3. ASSUME PlayerFreed PROVE Calm({})
  <2>1. stack # <<>> /\ Top.op = "free"
    BY <1>3 DEF PlayerFreed, Running
  <2>2. PICK own \in BOOLEAN : Inside([Top EXCEPT !.told = Head(list)], [op |-> "script", own |-> own])
    BY <1>3 DEF PlayerFreed
  <2> PICK f : f = [Top EXCEPT !.told = Head(list)]
    OBVIOUS
  <2> PICK g : g = [op |-> "script", own |-> own]
    OBVIOUS
  <2>3. f.op = "free" /\ g.op = "script"
    <3>1. Top \in [op : {"free"}, told : Elements \cup {NoElement}]
      BY <1>0, <2>1, TopFrame, Fields
    <3> QED
      BY <3>1
  <2>4. Range(stack') = {g, f} \cup Range(Tail(stack)) /\ Range(stack) = {Top} \cup Range(Tail(stack))
    BY <1>0, <2>1, <2>2, NewStack, TopFrame
  <2> QED
    BY <2>1, <2>3, <2>4 DEF Calm, Ordinary
<1>4. ASSUME ScriptReturns PROVE Calm({})
  <2>1. stack # <<>> /\ Top.op = "script" /\ stack' = Tail(stack)
    BY <1>4 DEF ScriptReturns, Running
  <2>2. Range(stack') = Range(Tail(stack)) /\ Range(stack) = {Top} \cup Range(Tail(stack))
    BY <1>0, <2>1, NewStack, TopFrame
  <2> QED
    BY <2>1, <2>2 DEF Calm, Ordinary
<1>5. ASSUME NEW e \in Elements, DestroyElement(e) PROVE Calm({})
  <2> PICK f : f = [op |-> "destroy", el |-> e, child |-> First(children[e])]
    OBVIOUS
  <2>1. stack' = <<f>> \o stack /\ f.op = "destroy"
    BY <1>5 DEF DestroyElement
  <2>2. Range(stack') = {f} \cup Range(stack)
    BY <1>0, <2>1, CalledStack
  <2> QED
    BY <2>1, <2>2 DEF Calm, Ordinary
<1>6. ASSUME NEW p \in Players, QuitPlayer(p)
      PROVE  Calm({"delete"}) /\ Range(stack) \subseteq Range(stack')
  <2> PICK f : f = DeleteFrame(p)
    OBVIOUS
  <2> PICK g : g = EventFrame(p)
    OBVIOUS
  <2>1. stack' = <<g, f>> \o stack /\ f.op = "delete" /\ g.op = "parents"
    BY <1>6 DEF QuitPlayer, DeleteFrame, EventFrame, ParentsFrame
  <2>2. Range(stack') = {g, f} \cup Range(stack)
    BY <1>0, <2>1, CalledStack
  <2> QED
    BY <2>1, <2>2 DEF Calm, Ordinary
<1>7. ASSUME stack' = stack PROVE Calm({})
  BY <1>7 DEF Calm
<1> QED
  BY <1>1, <1>2, <1>3, <1>4, <1>5, <1>6, <1>7

\* A Call of an element's manager has the handlers that are there.
CallsHandlers(f) == Range(f.rest) \subseteq Range(events[f.at])
CallsOK == \A f \in Range(stack) : f.op = "call" => CallsHandlers(f)

\* The actions that call handlers.
LEMMA CallingHandlers ==
    ASSUME Inv, CallsOK,
           ChildrenSnapshot \/ CallParentEvent \/ CallChildEvent \/ CallHandler \/ DestroyChild
    PROVE  /\ Calm({"call"})
           /\ \A f \in Range(stack') : f.op = "call" => f \in Range(stack) \/ CallsHandlers(f)
<1> PICK T : T = Range(Tail(stack))
  OBVIOUS
<1>0. StackInv
  BY DEF Inv
<1>1. stack # <<>>
  BY DEF ChildrenSnapshot, CallParentEvent, CallChildEvent, CallHandler, DestroyChild, Running
<1>2. Range(stack) = {Top} \cup T /\ Top \in Frame
  BY <1>0, <1>1, TopFrame
<1>3. CASE ChildrenSnapshot
  <2> PICK f : f = [op |-> "children", at |-> Top.at, todo |-> children[Top.at]]
    OBVIOUS
  <2>1. Top.op = "snapshot" /\ Become(f) /\ f.op = "children"
    BY <1>3 DEF ChildrenSnapshot, Running
  <2>2. Range(stack') = {f} \cup T
    BY <1>0, <1>1, <2>1, NewStack
  <2> QED
    BY <1>2, <2>1, <2>2 DEF Calm, Ordinary
<1>4. CASE CallParentEvent
  <2>0. Top.op = "parents"
    BY <1>4 DEF CallParentEvent, Running
  <2>1. CASE ~Top.called /\ HasEvents(Top.at)
    <3> PICK f : f = ParentsFrame(Top.of, Top.at, TRUE)
      OBVIOUS
    <3> PICK g : g = CallFrame(Top.at)
      OBVIOUS
    <3>1. f.op = "parents" /\ g.op = "call" /\ CallsHandlers(g)
      BY DEF ParentsFrame, CallFrame, CallsHandlers
    <3>2. Inside(f, g)
      BY <1>4, <2>1 DEF CallParentEvent
    <3>3. Range(stack') = {g, f} \cup T
      BY <1>0, <1>1, <3>2, NewStack
    <3> QED
      BY <1>2, <2>0, <3>1, <3>3 DEF Calm, Ordinary
  <2>2. CASE ~(~Top.called /\ HasEvents(Top.at))
    <3> PICK f : f = IF Parent(Top.at) = NoElement
                     THEN [op |-> "children", at |-> Top.of, todo |-> children[Top.of]]
                     ELSE ParentsFrame(Top.of, Parent(Top.at), FALSE)
      OBVIOUS
    <3>1. f.op \in {"children", "parents"}
      BY DEF ParentsFrame
    <3>2. Become(f)
      BY <1>4, <2>2 DEF CallParentEvent
    <3>3. Range(stack') = {f} \cup T
      BY <1>0, <1>1, <3>2, NewStack
    <3> QED
      BY <1>2, <2>0, <3>1, <3>3 DEF Calm, Ordinary
  <2> QED
    BY <2>1, <2>2
<1>5. CASE CallChildEvent
  <2>0. Top.op = "children"
    BY <1>5 DEF CallChildEvent, Running
  <2> DEFINE After(i) == [Top EXCEPT !.todo = SubSeq(@, i + 1, Len(@))]
             Snapshot(i) == [op |-> "snapshot", at |-> Top.todo[i]]
  <2>1. \/ stack' = Tail(stack)
        \/ \E i : \/ stack' = <<CallFrame(Top.todo[i]), Snapshot(i), After(i)>> \o Tail(stack)
                  \/ Inside(After(i), Snapshot(i))
    BY <1>5 DEF CallChildEvent
  <2>2. CASE stack' = Tail(stack)
    <3>1. Range(stack') = T
      BY <1>0, <1>1, <2>2, NewStack
    <3> QED
      BY <1>2, <2>0, <3>1 DEF Calm, Ordinary
  <2>3. ASSUME NEW i, \/ stack' = <<CallFrame(Top.todo[i]), Snapshot(i), After(i)>> \o Tail(stack)
                      \/ Inside(After(i), Snapshot(i))
        PROVE  /\ Calm({"call"})
               /\ \A f \in Range(stack') : f.op = "call" => f \in Range(stack) \/ CallsHandlers(f)
    <3> PICK f : f = After(i)
      OBVIOUS
    <3> PICK g : g = Snapshot(i)
      OBVIOUS
    <3> PICK h : h = CallFrame(Top.todo[i])
      OBVIOUS
    <3>1. f.op = "children" /\ g.op = "snapshot" /\ h.op = "call" /\ CallsHandlers(h)
      <4>1. Top \in [op : {"children"}, at : Elements, todo : Seq(Elements)]
        BY <1>2, <2>0, Fields
      <4> PICK t : t = SubSeq(Top.todo, i + 1, Len(Top.todo))
        OBVIOUS
      <4>2. f = [Top EXCEPT !.todo = t]
        BY <4>1
      <4>3. f.op = "children"
        BY <4>1, <4>2
      <4> QED
        BY <4>3 DEF CallFrame, CallsHandlers
    <3>2. Range(stack') = {h, g, f} \cup T \/ Range(stack') = {g, f} \cup T
      <4>1. stack' = <<h, g, f>> \o Tail(stack) \/ Inside(f, g)
        BY <2>3
      <4> HIDE DEF After, Snapshot
      <4>2. ASSUME stack' = <<h, g, f>> \o Tail(stack) PROVE Range(stack') = {h, g, f} \cup T
        BY <1>0, <1>1, <4>2, NewStack
      <4>3. ASSUME Inside(f, g) PROVE Range(stack') = {g, f} \cup T
        BY <1>0, <1>1, <4>3, NewStack
      <4> QED
        BY <4>1, <4>2, <4>3
    <3> QED
      BY <1>2, <2>0, <3>1, <3>2 DEF Calm, Ordinary
  <2> QED
    BY <2>1, <2>2, <2>3
<1>6. CASE CallHandler
  <2>0. Top.op = "call" /\ Top.rest # <<>>
    BY <1>6 DEF CallHandler, Running
  <2>1. Top \in [op : {"call"}, at : Elements, rest : Seq(Handlers), outer : BOOLEAN]
    BY <1>2, <2>0, Fields
  <2> PICK f : f = [Top EXCEPT !.rest = Tail(@)]
    OBVIOUS
  <2> PICK g : g = [op |-> "script", own |-> Head(Top.rest) \in Own]
    OBVIOUS
  <2>2. f.op = "call" /\ g.op = "script" /\ f.at = Top.at /\ f.rest = Tail(Top.rest)
    <3> PICK rest : rest = Tail(Top.rest)
      OBVIOUS
    <3>1. f = [Top EXCEPT !.rest = rest]
      BY <2>1
    <3> QED
      BY <2>1, <3>1
  <2>3. CallsHandlers(f)
    <3>1. Range(Top.rest) \subseteq Range(events[Top.at])
      BY <1>2, <2>0 DEF CallsOK, CallsHandlers
    <3>2. Range(Tail(Top.rest)) \subseteq Range(Top.rest)
      BY <2>0, <2>1, TopProperties
    <3> QED
      BY <2>2, <3>1, <3>2 DEF CallsHandlers
  <2>4. Inside(f, g) \/ Become(f)
    BY <1>6 DEF CallHandler
  <2>5. Range(stack') = {g, f} \cup T \/ Range(stack') = {f} \cup T
    BY <1>0, <1>1, <2>4, NewStack
  <2> QED
    BY <1>2, <2>0, <2>2, <2>3, <2>5 DEF Calm, Ordinary
<1>7. CASE DestroyChild
  <2> PICK f : f = [op |-> "destroy", el |-> Top.child, child |-> First(children[Top.child])]
    OBVIOUS
  <2>1. stack' = <<f>> \o stack /\ f.op = "destroy"
    BY <1>7 DEF DestroyChild
  <2>2. Range(stack') = {f} \cup Range(stack)
    BY <1>0, <2>1, CalledStack
  <2> QED
    BY <2>1, <2>2 DEF Calm, Ordinary
<1> QED
  BY <1>3, <1>4, <1>5, <1>6, <1>7

\* The actions that delete an element.
LEMMA CalmDeletion ==
    ASSUME Inv
    PROVE  /\ DestroyItself => /\ Calm({"delete"})
                               /\ \A f \in Range(stack) : f.op = "delete" => f \in Range(stack')
           /\ Delete => /\ Calm({"delete"})
                        /\ \A f \in Range(stack) : f.op = "delete" => f \in Range(stack') \/ f.el = Top.el
<1>0. StackInv /\ crashed \in BOOLEAN /\ children \in Kids
  BY DEF Inv, WorldInv, TreeInv, TreeOK, Forest
<1>1. ASSUME NEW kids \in Kids, NEW r \in BOOLEAN, ReturnWith(r, kids), stack # <<>>
      PROVE  /\ \A f \in Range(stack') : f \in Range(stack) \/ f.op = "destroy"
             /\ \A f \in Range(stack) : f \in Range(stack') \/ f = Top \/ f.op = "destroy"
  BY <1>0, <1>1, Returned
<1>2. ASSUME DestroyItself
      PROVE  /\ Calm({"delete"})
             /\ \A f \in Range(stack) : f.op = "delete" => f \in Range(stack')
  <2>1. stack # <<>> /\ Top.op = "destroy"
    BY <1>2 DEF DestroyItself, Running
  <2> PICK a : a = EventFrame(Top.el)
    OBVIOUS
  <2> PICK b : b = DeleteFrame(Top.el)
    OBVIOUS
  <2>2. a.op = "parents" /\ b.op = "delete"
    BY DEF EventFrame, ParentsFrame, DeleteFrame
  <2>3. stack' = <<a, b>> \o Tail(stack) \/ ReturnWith(FALSE, children)
    BY <1>2 DEF DestroyItself
  <2>4. CASE stack' = <<a, b>> \o Tail(stack)
    <3>1. Range(stack') = {a, b} \cup Range(Tail(stack)) /\ Range(stack) = {Top} \cup Range(Tail(stack))
      BY <1>0, <2>1, <2>4, NewStack, TopFrame
    <3> QED
      BY <2>1, <2>2, <3>1 DEF Calm, Ordinary
  <2>5. CASE ReturnWith(FALSE, children)
    <3> PICK r : r = FALSE
      OBVIOUS
    <3>1. r \in BOOLEAN /\ ReturnWith(r, children)
      BY <2>5
    <3>2. /\ \A f \in Range(stack') : f \in Range(stack) \/ f.op = "destroy"
          /\ \A f \in Range(stack) : f \in Range(stack') \/ f = Top \/ f.op = "destroy"
      BY <1>0, <1>1, <2>1, <3>1
    <3> QED
      BY <2>1, <3>2 DEF Calm, Ordinary
  <2> QED
    BY <2>3, <2>4, <2>5
<1>3. ASSUME Delete
      PROVE  /\ Calm({"delete"})
             /\ \A f \in Range(stack) : f.op = "delete" => f \in Range(stack') \/ f.el = Top.el
  <2>1. stack # <<>> /\ Top.op = "delete" /\ ReturnWith(TRUE, children')
    BY <1>3 DEF Delete, Running
  <2>2. children' \in Kids
    BY <1>3, DeleteInv DEF Inv, TreeInv, TreeOK, Forest
  <2> PICK r : r = TRUE
    OBVIOUS
  <2> PICK kids : kids = children'
    OBVIOUS
  <2>3. r \in BOOLEAN /\ kids \in Kids /\ ReturnWith(r, kids)
    BY <2>1, <2>2
  <2>4. /\ \A f \in Range(stack') : f \in Range(stack) \/ f.op = "destroy"
        /\ \A f \in Range(stack) : f \in Range(stack') \/ f = Top \/ f.op = "destroy"
    BY <1>1, <2>1, <2>3
  <2> QED
    BY <2>1, <2>4 DEF Calm, Ordinary
<1> QED
  BY <1>2, <1>3

\* The innermost call becomes another, or returns.
LEMMA CalmBecome ==
    ASSUME Inv, stack # <<>>, NEW ops, Top.op \in ops,
           \/ stack' = Tail(stack)
           \/ \E f : f.op \in ops /\ Become(f)
           \/ \E f, g : f.op \in ops /\ g.op \in Ordinary /\ Inside(f, g)
    PROVE  Calm(ops)
<1> PICK T : T = Range(Tail(stack))
  OBVIOUS
<1>0. StackInv
  BY DEF Inv
<1>1. Range(stack) = {Top} \cup T
  BY <1>0, TopFrame
<1>2. CASE stack' = Tail(stack)
  BY <1>1, <1>2 DEF Calm
<1>3. ASSUME NEW f, f.op \in ops, Become(f) PROVE Calm(ops)
  <2>1. Range(stack') = {f} \cup T
    BY <1>0, <1>3, NewStack
  <2> QED
    BY <1>1, <1>3, <2>1 DEF Calm
<1>4. ASSUME NEW f, NEW g, f.op \in ops, g.op \in Ordinary, Inside(f, g) PROVE Calm(ops)
  <2>1. Range(stack') = {g, f} \cup T
    BY <1>0, <1>4, NewStack
  <2> QED
    BY <1>1, <1>4, <2>1 DEF Calm
<1> QED
  BY <1>2, <1>3, <1>4

\* The actions of DeleteTree.
LEMMA CalmTree ==
    ASSUME Inv, DeleteTree \/ CollectTree \/ MarkTree \/ UnlinkTree
    PROVE  Calm({"tree", "collect", "mark"})
<1> PICK ops : ops = {"tree", "collect", "mark"}
  OBVIOUS
<1>1. CASE DeleteTree
  <2>1. stack # <<>> /\ Top.op \in ops
    BY <1>1 DEF DeleteTree, Running
  <2>2. stack' = Tail(stack) \/ \E f : f.op \in ops /\ Become(f)
    <3> PICK f : f = CollectFrame(<<At(Top.el, 1)>>, <<>>)
      OBVIOUS
    <3>1. f.op = "collect"
      BY DEF CollectFrame
    <3>2. stack' = Tail(stack) \/ Become(f)
      BY <1>1 DEF DeleteTree
    <3> QED
      BY <3>1, <3>2
  <2> QED
    BY <2>1, <2>2, CalmBecome
<1>2. CASE CollectTree
  <2>1. stack # <<>> /\ Top.op \in ops
    BY <1>2 DEF CollectTree, Running
  <2>2. \A p, a : CollectFrame(p, a).op \in ops
    BY DEF CollectFrame
  <2>3. \A a, t, b : MarkFrame(a, t, b).op \in ops
    BY DEF MarkFrame
  <2>4. \E f : f.op \in ops /\ Become(f)
    <3>1. \/ \E p, a : Become(CollectFrame(p, a))
          \/ \E a : Become(MarkFrame(a, a, FALSE))
      BY <1>2, Zenon DEF CollectTree
    <3> QED
      BY <2>2, <2>3, <3>1
  <2> QED
    BY <2>1, <2>4, CalmBecome
<1>3. CASE MarkTree
  <2>1. stack # <<>> /\ Top.op \in ops
    BY <1>3 DEF MarkTree, Running
  <2> PICK n : n = MarkFrame(Top.all, Tail(Top.todo), FALSE)
    OBVIOUS
  <2> PICK f : f = MarkFrame(Top.all, Top.todo, TRUE)
    OBVIOUS
  <2> PICK g : g = EventFrame(Head(Top.todo))
    OBVIOUS
  <2>2. n.op \in ops /\ f.op \in ops /\ g.op \in Ordinary
    BY DEF MarkFrame, EventFrame, ParentsFrame, Ordinary
  <2>3. Become(n) \/ Inside(f, g)
    BY <1>3 DEF MarkTree
  <2>4. \/ \E x : x.op \in ops /\ Become(x)
        \/ \E x, y : x.op \in ops /\ y.op \in Ordinary /\ Inside(x, y)
    BY <2>2, <2>3
  <2> QED
    BY <2>1, <2>4, CalmBecome
<1>4. CASE UnlinkTree
  <2>1. stack # <<>> /\ Top.op \in ops
    BY <1>4 DEF UnlinkTree, Running
  <2> PICK f : f = MarkFrame(Tail(Top.all), <<>>, FALSE)
    OBVIOUS
  <2>2. f.op \in ops
    BY DEF MarkFrame
  <2>3. stack' = Tail(stack) \/ \E x : x.op \in ops /\ Become(x)
    BY <1>4, <2>2 DEF UnlinkTree
  <2> QED
    BY <2>1, <2>3, CalmBecome
<1> QED
  BY <1>1, <1>2, <1>3, <1>4

\* The calls after the stop of the resource begins, or its groups go on.
LEMMA StopStack ==
    ASSUME Inv
    PROVE  /\ Stop => Range(stack') = {GroupFrame("map"), GroupFrame("default"), [op |-> "vm"]}
           /\ DestroyVM => /\ Range(stack) = {Top}
                           /\ Range(stack') = {[op |-> "script", own |-> FALSE],
                                [op |-> "tree", el |-> Dynamic], [op |-> "tree", el |-> Resource]}
<1>1. \A a, b, c : Range(<<a, b, c>>) = {a, b, c}
  <2> SUFFICES ASSUME NEW a, NEW b, NEW c PROVE Range(<<a, b, c>>) = {a, b, c}
    OBVIOUS
  <2> PICK r : r = <<a, b, c>>
    OBVIOUS
  <2>1. r \in Seq({a, b, c}) /\ DOMAIN r = {1, 2, 3} /\ r[1] = a /\ r[2] = b /\ r[3] = c
    OBVIOUS
  <2> QED
    BY <2>1 DEF Range
<1>2. ASSUME Stop
      PROVE  Range(stack') = {GroupFrame("map"), GroupFrame("default"), [op |-> "vm"]}
  BY <1>1, <1>2 DEF Stop
<1>3. ASSUME DestroyVM
      PROVE  /\ Range(stack) = {Top}
             /\ Range(stack') = {[op |-> "script", own |-> FALSE],
                  [op |-> "tree", el |-> Dynamic], [op |-> "tree", el |-> Resource]}
  <2>1. stack # <<>> /\ Top.op = "vm"
    BY <1>3 DEF DestroyVM, Running
  <2>2. Range(stack) = {Top}
    BY <2>1, TopFrame DEF Rests, Inv
  <2> QED
    BY <1>1, <1>3, <2>2 DEF DestroyVM
<1> QED
  BY <1>2, <1>3

\* ~CElementGroup is at one of its elements, or at the end of them.
GroupEnds(f) ==
    /\ f.at > Len(groups[f.group])
    /\ groups' = [groups EXCEPT ![f.group] = <<>>] /\ UNCHANGED <<events, handler>>
GroupGoesOn(f, g, e) ==
    LET live == {h \in Range(events[e]) : handler[h] = "added"}
    IN /\ e = groups[f.group][f.at] /\ e \in Elements
       /\ g.op = "group" /\ g.group = f.group /\ g.at = f.at + 1
       /\ f.at \in 1 .. Len(groups[f.group])
       /\ events' = [events EXCEPT ![e] = Without(@, live)]
       /\ handler' = [h \in Handlers |-> IF h \in live THEN "freed" ELSE handler[h]]
       /\ UNCHANGED groups
\* The calls in progress after a step of ~CElementGroup.
LEMMA DeleteGroupStack ==
    ASSUME Inv, DeleteGroup
    PROVE  /\ stack # <<>> /\ Top.op = "group" /\ Top.group \in GroupNames
           /\ Range(stack) = {Top} \cup Range(Tail(stack))
           /\ \A f \in Range(Tail(stack)) : f.op = "vm" \/ (f = GroupFrame("default") /\ Top.group = "map")
           /\ \/ GroupEnds(Top) /\ Range(stack') = Range(Tail(stack))
              \/ \E e, g :
                   /\ GroupGoesOn(Top, g, e)
                   /\ \/ IsBeingDeleted(e) /\ Range(stack') = {g} \cup Range(Tail(stack))
                      \/ Range(stack') = {EventFrame(e), DeleteFrame(e), g} \cup Range(Tail(stack))
<1> PICK T : T = Range(Tail(stack))
  OBVIOUS
<1>0. StackInv /\ WorldInv
  BY DEF Inv
<1>1. stack # <<>> /\ Top.op = "group"
  BY DEF DeleteGroup, Running
<1>2. Top \in [op : {"group"}, group : GroupNames, at : Nat \ {0}] /\ Range(stack) = {Top} \cup T
  BY <1>0, <1>1, TopFrame, Fields
<1>3. \A f \in T : f.op = "vm" \/ (f = GroupFrame("default") /\ Top.group = "map")
  BY <1>0, <1>1, TopFrame DEF Rests
<1> PICK G : G = Top.group
  OBVIOUS
<1> PICK i : i = Top.at
  OBVIOUS
<1>4. groups[G] \in Seq(Elements) /\ Len(groups[G]) \in Nat /\ i \in Nat \ {0}
  BY <1>0, <1>2, LenProperties DEF WorldInv
<1>5. CASE i > Len(groups[G])
  <2>1. GroupEnds(Top) /\ stack' = Tail(stack)
    BY <1>5 DEF DeleteGroup, GroupEnds
  <2> QED
    BY <1>1, <1>2, <1>3, <2>1
<1>6. CASE ~(i > Len(groups[G]))
  <2> PICK e : e = groups[G][i]
    OBVIOUS
  <2> PICK g : g = [Top EXCEPT !.at = i + 1]
    OBVIOUS
  <2> PICK a : a = EventFrame(e)
    OBVIOUS
  <2> PICK b : b = DeleteFrame(e)
    OBVIOUS
  <2>1. e \in Elements /\ i \in 1 .. Len(groups[G])
    BY <1>4, <1>6, ElementOfSeq
  <2>2. g.op = "group" /\ g.group = G /\ g.at = i + 1
    BY <1>2
  <2>3. GroupGoesOn(Top, g, e)
    BY <1>6, <2>1, <2>2 DEF DeleteGroup, GroupGoesOn
  <2>4. IF IsBeingDeleted(e) THEN Become(g) ELSE stack' = <<a, b, g>> \o Tail(stack)
    BY <1>6 DEF DeleteGroup
  <2>5. IsBeingDeleted(e) => Range(stack') = {g} \cup T
    BY <1>0, <1>1, <2>4, NewStack
  <2>6. ~IsBeingDeleted(e) => Range(stack') = {a, b, g} \cup T
    <3>1. \A x, y, z : stack' = <<z, y, x>> \o Tail(stack) => Range(stack') = {z, y, x} \cup T
      BY <1>0, <1>1, NewStack
    <3> QED
      BY <2>4, <3>1
  <2> QED
    BY <1>1, <1>2, <1>3, <2>3, <2>5, <2>6
<1> QED
  BY <1>5, <1>6

-----------------------------------------------------------------------------
(* What the handlers rely on.                                              *)

\* The handlers of the elements have not been freed, those in the trash are of an element
\* whose manager calls them, each is of one element, and a Call has those that are there.
ManagerOK(e) ==
    \A h \in Range(events[e]) :
        /\ handler[h] \in {"added", "trash"}
        /\ handler[h] = "trash" => e \in iterating
        /\ \A x \in Elements : h \in Range(events[x]) => x = e
ManagersOK == \A e \in Elements : ManagerOK(e)
HandlersOK == CallsOK /\ ManagersOK

\* No handler is added or removed.
LEMMA HandlersKept ==
    ASSUME HandlersOK, UNCHANGED <<events, handler>>, iterating \subseteq iterating',
           \A f \in Range(stack') : f.op = "call" => f \in Range(stack) \/ CallsHandlers(f)
    PROVE  HandlersOK'
<1>1. CallsOK'
  BY DEF HandlersOK, CallsOK, CallsHandlers
<1>2. ManagersOK'
  BY DEF HandlersOK, ManagersOK, ManagerOK
<1> QED
  BY <1>1, <1>2 DEF HandlersOK

\* No Call begins either.
LEMMA HandlersCalm ==
    ASSUME HandlersOK, UNCHANGED <<events, handler, iterating>>, NEW ops, "call" \notin ops, Calm(ops)
    PROVE  HandlersOK'
<1>1. \A f \in Range(stack') : f.op = "call" => f \in Range(stack)
  BY DEF Calm, Ordinary
<1> QED
  BY <1>1, HandlersKept

\* When no manager calls handlers, none is in the trash.
LEMMA NoneCalls ==
    ASSUME Inv, HandlersOK, \A f \in Range(stack) : f.op # "call"
    PROVE  iterating = {} /\ \A e \in Elements : \A h \in Range(events[e]) : handler[h] = "added"
<1>1. iterating = {}
  BY DEF Inv, StackInv, Iterated
<1> QED
  BY <1>1 DEF HandlersOK, ManagersOK, ManagerOK

\* Handlers of one element are freed while its manager does not call them.
LEMMA HandlersFreed ==
    ASSUME Inv, HandlersOK, NEW e \in Elements, e \notin iterating, iterating' = iterating,
           NEW gone, gone \subseteq Range(events[e]),
           \A x \in Elements : Range(events'[x]) =
                IF x = e THEN Range(events[x]) \ gone ELSE Range(events[x]),
           handler' = [h \in Handlers |-> IF h \in gone THEN "freed" ELSE handler[h]],
           \A f \in Range(stack') : f.op = "call" => f \in Range(stack)
    PROVE  HandlersOK'
<1>0. \A x \in Elements : Range(events[x]) \subseteq Handlers
  <2>1. \A x \in Elements : events[x] \in Seq(Handlers)
    BY DEF Inv, WorldInv, EventsOK
  <2> QED
    BY <2>1, Entries
<1>1. ASSUME NEW f \in Range(stack), f.op = "call" PROVE f.at \in Elements /\ f.at # e
  <2>1. f \in Frame
    BY Entries DEF Inv, StackInv, StackOK
  <2>2. f.at \in Elements
    BY <1>1, <2>1, Fields
  <2> QED
    BY <1>1, <2>2 DEF Inv, StackInv, Iterated
<1>2. CallsOK'
  <2> SUFFICES ASSUME NEW f \in Range(stack'), f.op = "call"
               PROVE  Range(f.rest) \subseteq Range(events'[f.at])
    BY DEF CallsOK, CallsHandlers
  <2>1. f \in Range(stack) /\ Range(f.rest) \subseteq Range(events[f.at])
    BY DEF HandlersOK, CallsOK, CallsHandlers
  <2>2. Range(events'[f.at]) = Range(events[f.at])
    BY <1>1, <2>1
  <2> QED
    BY <2>1, <2>2
<1>3. ManagersOK'
  <2> SUFFICES ASSUME NEW x \in Elements PROVE ManagerOK(x)'
    BY DEF ManagersOK
  <2>1. ManagerOK(x) /\ \A y \in Elements : Range(events'[y]) \subseteq Range(events[y])
    BY DEF HandlersOK, ManagersOK
  <2>2. ASSUME NEW h \in Range(events'[x]) PROVE h \notin gone /\ h \in Range(events[x]) /\ h \in Handlers
    <3>1. h \in Range(events[x]) /\ h \in Handlers
      BY <1>0, <2>1
    <3>2. CASE x = e
      BY <3>1, <3>2
    <3>3. CASE x # e
      <4>1. h \notin Range(events[e])
        BY <2>1, <3>1, <3>3 DEF ManagerOK
      <4> QED
        BY <3>1, <4>1
    <3> QED
      BY <3>2, <3>3
  <2>3. ASSUME NEW h \in Range(events'[x]) PROVE handler'[h] = handler[h]
    BY <2>2
  <2> QED
    BY <2>1, <2>2, <2>3 DEF ManagerOK
<1> QED
  BY <1>2, <1>3 DEF HandlersOK

\* addEventHandler.
LEMMA AddEventHandlerHandlers ==
    ASSUME Inv, HandlersOK, NEW h \in Handlers, NEW e \in Elements, AddEventHandler(h, e)
    PROVE  HandlersOK'
<1> PICK more : more = Append(events[e], h)
  OBVIOUS
<1>1. events \in [Elements -> Seq(Handlers)] /\ handler \in [Handlers -> {"unused", "added", "trash", "freed"}]
  BY DEF Inv, WorldInv, EventsOK
<1>2. Range(more) = Range(events[e]) \cup {h}
  BY <1>1, Entries
<1>3. /\ events' = [events EXCEPT ![e] = more] /\ handler' = [handler EXCEPT ![h] = "added"]
      /\ UNCHANGED <<iterating, stack>> /\ handler[h] = "unused"
  BY DEF AddEventHandler
<1>4. /\ \A x \in Elements : Range(events'[x]) = IF x = e THEN Range(events[e]) \cup {h} ELSE Range(events[x])
      /\ \A k \in Handlers : handler'[k] = IF k = h THEN "added" ELSE handler[k]
  BY <1>1, <1>2, <1>3
<1>5. \A x \in Elements : h \notin Range(events[x])
  BY <1>3 DEF HandlersOK, ManagersOK, ManagerOK
<1>6. \A x \in Elements : Range(events[x]) \subseteq Handlers
  BY <1>1, Entries
<1>7. CallsOK'
  <2>1. ASSUME NEW f \in Range(stack), f.op = "call" PROVE f.at \in Elements
    <3>1. f \in Frame
      BY Entries DEF Inv, StackInv, StackOK
    <3> QED
      BY <2>1, <3>1, Fields
  <2> QED
    BY <1>3, <1>4, <2>1 DEF HandlersOK, CallsOK, CallsHandlers
<1>8. ManagersOK'
  <2> SUFFICES ASSUME NEW x \in Elements PROVE ManagerOK(x)'
    BY DEF ManagersOK
  <2>1. ManagerOK(x)
    BY DEF HandlersOK, ManagersOK
  <2>2. ASSUME NEW k \in Range(events'[x])
        PROVE  /\ handler'[k] \in {"added", "trash"}
               /\ handler'[k] = "trash" => x \in iterating'
               /\ \A y \in Elements : k \in Range(events'[y]) => y = x
    <3>1. CASE k = h
      BY <1>3, <1>4, <1>5, <3>1
    <3>2. CASE k # h
      <4>1. k \in Range(events[x]) /\ k \in Handlers
        BY <1>4, <1>6, <3>2
      <4>2. handler'[k] = handler[k]
        BY <1>4, <3>2, <4>1
      <4>3. \A y \in Elements : k \in Range(events'[y]) => k \in Range(events[y])
        BY <1>4, <3>2
      <4> QED
        BY <1>3, <2>1, <4>1, <4>2, <4>3 DEF ManagerOK
    <3> QED
      BY <3>1, <3>2
  <2> QED
    BY <2>2 DEF ManagerOK
<1> QED
  BY <1>7, <1>8 DEF HandlersOK

\* removeEventHandler.
LEMMA RemoveEventHandlerHandlers ==
    ASSUME Inv, HandlersOK, NEW h \in Handlers, NEW e \in Elements, RemoveEventHandler(h, e)
    PROVE  HandlersOK'
<1>0. WorldInv /\ EventsOK
  BY DEF Inv, WorldInv
<1> PICK gone : gone = {h}
  OBVIOUS
<1>1. /\ h \in Range(events[e]) /\ DeletedHandlers(e, gone)
      /\ UNCHANGED <<status, vm>> /\ UNCHANGED <<iterating, stack>>
  BY DEF RemoveEventHandler, tree
<1>2. CASE e \in iterating
  <2>1. /\ handler' = [k \in Handlers |-> IF k \in gone THEN "trash" ELSE handler[k]]
        /\ UNCHANGED events
    BY <1>1, <1>2 DEF DeletedHandlers
  <2>2. CallsOK'
    BY <1>1, <2>1 DEF HandlersOK, CallsOK, CallsHandlers
  <2>3. ManagersOK'
    <3> SUFFICES ASSUME NEW x \in Elements PROVE ManagerOK(x)'
      BY DEF ManagersOK
    <3>1. ManagerOK(x) /\ ManagerOK(e)
      BY DEF HandlersOK, ManagersOK
    <3>2. \A k \in Range(events[x]) : k \in Handlers
      BY <1>0, Entries DEF EventsOK
    <3>3. ASSUME NEW k \in Range(events[x])
          PROVE  /\ handler'[k] \in {"added", "trash"}
                 /\ handler'[k] = "trash" => x \in iterating
      <4>1. CASE k = h
        BY <1>1, <1>2, <2>1, <3>1, <3>2, <4>1 DEF ManagerOK
      <4>2. CASE k # h
        BY <2>1, <3>1, <3>2, <4>2 DEF ManagerOK
      <4> QED
        BY <4>1, <4>2
    <3> QED
      BY <1>1, <2>1, <3>1, <3>3 DEF ManagerOK
  <2> QED
    BY <2>2, <2>3 DEF HandlersOK
<1>3. CASE e \notin iterating
  <2>1. /\ events' = [events EXCEPT ![e] = Without(@, gone)]
        /\ handler' = [k \in Handlers |-> IF k \in gone THEN "freed" ELSE handler[k]]
    BY <1>1, <1>3 DEF DeletedHandlers
  <2>2. \A x \in Elements : Range(events'[x]) =
          IF x = e THEN Range(events[x]) \ gone ELSE Range(events[x])
    <3>1. EventsOK /\ UNCHANGED <<status, vm>>
      BY <1>0, <1>1
    <3>2. events' = [events EXCEPT ![e] = Without(@, gone)]
      BY <2>1
    <3>3. \A gs : events' = [events EXCEPT ![e] = Without(@, gs)] =>
            \A x \in Elements : Range(events'[x]) =
              IF x = e THEN Range(events[x]) \ gs ELSE Range(events[x])
      BY <3>1, FewerEvents
    <3> QED
      BY <3>2, <3>3
  <2> QED
    BY <1>1, <1>3, <2>1, <2>2, HandlersFreed
<1> QED
  BY <1>2, <1>3

\* TakeOutTheTrash.
LEMMA TakeOutTheTrashHandlers ==
    ASSUME Inv, HandlersOK, TakeOutTheTrash
    PROVE  HandlersOK'
<1> PICK T : T = Range(Tail(stack))
  OBVIOUS
<1>0. WorldInv /\ EventsOK /\ StackInv
  BY DEF Inv, WorldInv
<1>1. /\ stack # <<>> /\ Top.op = "call" /\ stack' = Tail(stack) /\ UNCHANGED <<status, vm>>
  BY DEF TakeOutTheTrash, Running, tree
<1>2. /\ Top.at \in Elements /\ Rests(Top, T) /\ Range(stack) = {Top} \cup T /\ Range(stack') = T
  BY <1>0, <1>1, TopFrame, Fields
<1>3. CASE Top.outer
  <2> PICK a : a = Top.at
    OBVIOUS
  <2> PICK trash : trash = {h \in Handlers : handler[h] = "trash"}
    OBVIOUS
  <2> PICK kept : kept = Without(events[a], trash)
    OBVIOUS
  <2>1. /\ events' = [events EXCEPT ![a] = Without(@, trash)]
        /\ handler' = [h \in Handlers |->
             IF h \in Range(events[a]) \ Range(kept) THEN "freed" ELSE handler[h]]
        /\ iterating' = iterating \ {a}
    BY <1>3 DEF TakeOutTheTrash
  <2>2. \A x \in Elements : Range(events'[x]) =
          IF x = a THEN Range(events[x]) \ trash ELSE Range(events[x])
    BY <1>0, <1>1, <1>2, <2>1, FewerEvents, ZenonT(60)
  <2>3. Range(kept) = Range(events[a]) \ trash
    BY <1>2, <2>1, <2>2, <1>0 DEF EventsOK
  <2>4. \A f \in T : f.op = "call" => f.at # a
    BY <1>1, <1>2, <1>3 DEF Rests
  <2>5. CallsOK'
    <3>1. ASSUME NEW f \in T, f.op = "call" PROVE f.at \in Elements
      <4>1. f \in Frame
        BY <1>2, Entries, <1>0 DEF StackInv, StackOK
      <4> QED
        BY <3>1, <4>1, Fields
    <3>2. ASSUME NEW f \in T, f.op = "call" PROVE Range(f.rest) \subseteq Range(events'[f.at])
      <4>1. f \in Range(stack) /\ Range(f.rest) \subseteq Range(events[f.at])
        BY <1>2, <3>2 DEF HandlersOK, CallsOK, CallsHandlers
      <4> QED
        BY <2>2, <2>4, <3>1, <3>2, <4>1
    <3> QED
      BY <1>2, <3>2 DEF CallsOK, CallsHandlers
  <2>6. ManagersOK'
    <3> SUFFICES ASSUME NEW x \in Elements PROVE ManagerOK(x)'
      BY DEF ManagersOK
    <3>1. ManagerOK(x) /\ \A y \in Elements : Range(events'[y]) \subseteq Range(events[y])
      BY <2>2 DEF HandlersOK, ManagersOK
    <3>2. ASSUME NEW h \in Range(events'[x])
          PROVE  /\ h \in Range(events[x]) /\ handler'[h] = handler[h]
                 /\ x = a => handler[h] # "trash"
      <4>1. h \in Range(events[x]) /\ h \in Handlers
        BY <1>0, <3>1, Entries DEF EventsOK
      <4>2. CASE x = a
        BY <2>1, <2>2, <2>3, <4>1, <4>2
      <4>3. CASE x # a
        <5>1. h \notin Range(events[a])
          BY <1>2, <3>1, <4>1, <4>3 DEF ManagerOK
        <5> QED
          BY <2>1, <4>1, <4>3, <5>1
      <4> QED
        BY <4>2, <4>3
    <3> QED
      BY <2>1, <3>1, <3>2 DEF ManagerOK
  <2> QED
    BY <2>5, <2>6 DEF HandlersOK
<1>4. CASE ~Top.outer
  <2>1. UNCHANGED <<events, handler, iterating>>
    BY <1>4 DEF TakeOutTheTrash, managers
  <2> QED
    BY <1>2, <2>1, HandlersKept
<1> QED
  BY <1>3, <1>4

\* The step of DoDeleteAll that frees an element.
LEMMA FreeHandlers ==
    ASSUME Inv, HandlersOK, Free
    PROVE  HandlersOK'
<1>0. WorldInv /\ EventsOK /\ StackInv
  BY DEF Inv, WorldInv
<1>1. stack # <<>> /\ Top.op = "free" /\ UNCHANGED iterating
  BY DEF Free, Running
<1>2. Range(stack) = {Top}
  BY <1>0, <1>1, TopFrame DEF Rests
<1>3. CASE list = <<>>
  <2>1. stack' = Tail(stack) /\ UNCHANGED <<events, handler>>
    BY <1>3 DEF Free
  <2>2. Range(stack') \subseteq Range(stack)
    BY <1>0, <1>1, <2>1, NewStack, TopFrame
  <2> QED
    BY <1>1, <2>1, <2>2, HandlersKept
<1>4. CASE list # <<>>
  <2> PICK e : e = Head(list)
    OBVIOUS
  <2> PICK gone : gone = Range(events[e])
    OBVIOUS
  <2>1. e \in Elements
    BY <1>0, <1>4, TopProperties DEF WorldInv, ListOK
  <2>2. /\ handler' = [h \in Handlers |-> IF h \in gone THEN "freed" ELSE handler[h]]
        /\ events' = [events EXCEPT ![e] = <<>>]
        /\ stack' = stack
    BY <1>4 DEF Free
  <2>3. \A x \in Elements : Range(events'[x]) =
          IF x = e THEN Range(events[x]) \ gone ELSE Range(events[x])
    <3>1. Range(<<>>) = {}
      BY EmptySeq DEF Range
    <3>2. \A x \in Elements : events'[x] = IF x = e THEN <<>> ELSE events[x]
      BY <1>0, <2>1, <2>2 DEF EventsOK
    <3> QED
      BY <3>1, <3>2
  <2>4. e \notin iterating
    BY <1>0, <1>1, <1>2 DEF StackInv, Iterated
  <2>5. gone \subseteq Range(events[e]) /\ \A f \in Range(stack') : f \in Range(stack)
    BY <2>2
  <2> QED
    BY <1>1, <2>1, <2>2, <2>3, <2>4, <2>5, HandlersFreed
<1> QED
  BY <1>3, <1>4

\* ~CElementGroup.
LEMMA DeleteGroupHandlers ==
    ASSUME Inv, HandlersOK, DeleteGroup
    PROVE  HandlersOK'
<1> PICK T : T = Range(Tail(stack))
  OBVIOUS
<1>0. WorldInv /\ EventsOK /\ StackInv
  BY DEF Inv, WorldInv
<1>1. \A f \in T : f.op = "vm" \/ (f = GroupFrame("default") /\ Top.group = "map")
  BY DeleteGroupStack
<1>2. Range(stack) = {Top} \cup T /\ Top.op = "group"
  BY DeleteGroupStack
<1>3. \A f \in Range(stack) : f.op # "call"
  BY <1>1, <1>2 DEF GroupFrame
<1>4. iterating = {}
  BY <1>0, <1>3 DEF StackInv, Iterated
<1>5. UNCHANGED <<iterating, status, vm>>
  BY DEF DeleteGroup, tree
<1>6. ASSUME GroupEnds(Top) /\ Range(stack') = T
      PROVE  HandlersOK'
  <2>1. UNCHANGED <<events, handler>>
    BY <1>6 DEF GroupEnds
  <2> QED
    BY <1>2, <1>5, <1>6, <2>1, HandlersKept
<1>7. ASSUME NEW e, NEW g, GroupGoesOn(Top, g, e),
             Range(stack') \subseteq {EventFrame(e), DeleteFrame(e), g} \cup T
      PROVE  HandlersOK'
  <2> PICK live : live = {h \in Range(events[e]) : handler[h] = "added"}
    OBVIOUS
  <2>1. /\ e \in Elements /\ g.op = "group"
        /\ events' = [events EXCEPT ![e] = Without(@, live)]
        /\ handler' = [h \in Handlers |-> IF h \in live THEN "freed" ELSE handler[h]]
    BY <1>7 DEF GroupGoesOn
  <2>2. \A x \in Elements : Range(events'[x]) =
          IF x = e THEN Range(events[x]) \ live ELSE Range(events[x])
    <3>1. EventsOK /\ UNCHANGED <<status, vm>>
      BY <1>0, <1>5
    <3>3. e \in Elements /\ events' = [events EXCEPT ![e] = Without(@, live)]
      BY <2>1
    <3> QED
      BY <3>1, <3>3, FewerEvents
  <2>3. \A f \in Range(stack') : f.op = "call" => f \in Range(stack)
    BY <1>2, <1>7, <2>1 DEF EventFrame, ParentsFrame, DeleteFrame
  <2>4. e \notin iterating /\ live \subseteq Range(events[e]) /\ UNCHANGED iterating
    BY <1>4, <1>5
  <2> QED
    BY <2>1, <2>2, <2>3, <2>4, HandlersFreed
<1>8. \/ GroupEnds(Top) /\ Range(stack') = T
      \/ \E e, g : /\ GroupGoesOn(Top, g, e)
                   /\ Range(stack') \subseteq {EventFrame(e), DeleteFrame(e), g} \cup T
  <2>1. \/ GroupEnds(Top) /\ Range(stack') = T
        \/ \E e, g : /\ GroupGoesOn(Top, g, e)
                     /\ \/ IsBeingDeleted(e) /\ Range(stack') = {g} \cup T
                        \/ Range(stack') = {EventFrame(e), DeleteFrame(e), g} \cup T
    BY DeleteGroupStack
  <2> QED
    BY <2>1
<1> QED
  BY <1>6, <1>7, <1>8

\* DestroyVM.
LEMMA DestroyVMHandlers ==
    ASSUME Inv, HandlersOK, DestroyVM
    PROVE  HandlersOK'
<1>0. WorldInv /\ EventsOK
  BY DEF Inv, WorldInv
<1>1. \A f \in Range(stack') : f.op # "call"
  BY StopStack
<1>2. \A f \in Range(stack) : f.op # "call"
  BY StopStack DEF DestroyVM, Running
<1>3. \A e \in Elements : \A h \in Range(events[e]) : handler[h] = "added"
  BY <1>2, NoneCalls
<1>4. ASSUME NEW e \in Elements, NEW h \in Range(events'[e])
      PROVE  h \in Range(events[e]) /\ h \in Handlers /\ h \notin Own
  <2>1. h \notin Own
    BY DestroyVMEvents DEF EventsOK, DestroyVM
  <2>2. events[e] \in Seq(Handlers)
    BY <1>0 DEF EventsOK
  <2>3. events'[e] = events[e] \/ events'[e] = Without(events[e], Own)
    BY DEF DestroyVM
  <2>4. ASSUME NEW s \in Seq(Handlers) PROVE Range(Without(s, Own)) \subseteq Range(s)
    BY WithoutProperties
  <2>5. h \in Range(events[e])
    BY <2>2, <2>3, <2>4
  <2> QED
    BY <2>1, <2>2, <2>5, Entries
<1>5. ASSUME NEW e \in Elements, NEW h \in Range(events'[e]) PROVE handler'[h] = "added"
  <2>1. handler'[h] = handler[h]
    BY <1>4 DEF DestroyVM
  <2> QED
    BY <1>3, <1>4, <2>1
<1>6. ManagersOK'
  BY <1>4, <1>5 DEF HandlersOK, ManagersOK, ManagerOK
<1> QED
  BY <1>1, <1>6 DEF HandlersOK, CallsOK

\* The initial states.
LEMMA InitHandlers ==
    ASSUME Init
    PROVE  HandlersOK
<1>1. PICK h \in Own, k \in Foreign :
        /\ events = [e \in Elements |->
             IF e = Root THEN <<k>> ELSE IF e = SubItem THEN <<h>> ELSE <<>>]
        /\ handler = [x \in Handlers |-> IF x \in {h, k} THEN "added" ELSE "unused"]
  BY DEF Init
<1>2. /\ h # k /\ h \in Handlers /\ k \in Handlers
      /\ Root # SubItem
  <2>1. Own \cap Foreign = {}
    BY ElementDeletionType
  <2>2. Root # SubItem
    BY Distinct DEF MapItems
  <2> QED
    BY <2>1, <2>2 DEF Handlers
<1>3. Range(<<k>>) = {k} /\ Range(<<h>>) = {h} /\ Range(<<>>) = {}
  BY EmptySeq DEF Range
<1>4. \A e \in Elements : Range(events[e]) = IF e = Root THEN {k} ELSE IF e = SubItem THEN {h} ELSE {}
  BY <1>1, <1>3
<1>5. ManagersOK
  <2>1. ASSUME NEW e \in Elements PROVE ManagerOK(e)
    <3>1. ASSUME NEW x \in Range(events[e])
          PROVE  handler[x] = "added" /\ \A y \in Elements : x \in Range(events[y]) => y = e
      <4>1. x \in {h, k}
        BY <1>4
      <4>2. handler[x] = "added"
        BY <1>1, <1>2, <4>1
      <4>3. \A y \in Elements : x \in Range(events[y]) => y = e
        BY <1>2, <1>4
      <4> QED
        BY <4>2, <4>3
    <3> QED
      BY <3>1 DEF ManagerOK
  <2> QED
    BY <2>1 DEF ManagersOK
<1>6. CallsOK
  BY <1>3 DEF Init, CallsOK
<1> QED
  BY <1>5, <1>6 DEF HandlersOK

\* Every step keeps what the handlers rely on.
LEMMA NextHandlers ==
    ASSUME Inv, HandlersOK, [Next]_vars
    PROVE  HandlersOK'
<1>1. ASSUME ScriptStarts \/ DoDeleteAll \/ PlayerFreed \/ ScriptReturns
      PROVE  HandlersOK'
  <2> PICK ops : ops = {}
    OBVIOUS
  <2>1. Calm(ops) /\ "call" \notin ops
    BY <1>1, CalmScripts
  <2>2. UNCHANGED <<events, handler, iterating>>
    BY <1>1 DEF ScriptStarts, DoDeleteAll, PlayerFreed, ScriptReturns, managers
  <2> QED
    BY <2>1, <2>2, HandlersCalm
<1>2. ASSUME NEW e \in Elements, DestroyElement(e) PROVE HandlersOK'
  <2> PICK ops : ops = {}
    OBVIOUS
  <2>1. Calm(ops) /\ "call" \notin ops
    BY <1>2, CalmScripts
  <2> QED
    BY <1>2, <2>1, HandlersCalm DEF DestroyElement, managers
<1>3. ASSUME NEW p \in Players, QuitPlayer(p) PROVE HandlersOK'
  <2> PICK ops : ops = {"delete"}
    OBVIOUS
  <2>1. Calm(ops) /\ "call" \notin ops
    BY <1>3, CalmScripts
  <2> QED
    BY <1>3, <2>1, HandlersCalm DEF QuitPlayer, managers
<1>4. ASSUME DestroyItself \/ Delete PROVE HandlersOK'
  <2> PICK ops : ops = {"delete"}
    OBVIOUS
  <2>1. Calm(ops) /\ "call" \notin ops
    BY <1>4, CalmDeletion
  <2>2. UNCHANGED <<events, handler, iterating>>
    BY <1>4 DEF DestroyItself, Delete, managers
  <2> QED
    BY <2>1, <2>2, HandlersCalm
<1>5. ASSUME DeleteTree \/ CollectTree \/ MarkTree \/ UnlinkTree PROVE HandlersOK'
  <2> PICK ops : ops = {"tree", "collect", "mark"}
    OBVIOUS
  <2>1. Calm(ops) /\ "call" \notin ops
    BY <1>5, CalmTree
  <2>2. UNCHANGED <<events, handler, iterating>>
    BY <1>5 DEF DeleteTree, CollectTree, MarkTree, UnlinkTree, managers
  <2> QED
    BY <2>1, <2>2, HandlersCalm
<1>6. ASSUME ChildrenSnapshot \/ CallParentEvent \/ CallChildEvent \/ CallHandler \/ DestroyChild
      PROVE  HandlersOK'
  <2>1. \A f \in Range(stack') : f.op = "call" => f \in Range(stack) \/ CallsHandlers(f)
    BY <1>6, CallingHandlers DEF HandlersOK
  <2>2. UNCHANGED <<events, handler>> /\ iterating \subseteq iterating'
    BY <1>6 DEF ChildrenSnapshot, CallParentEvent, CallChildEvent, CallHandler, DestroyChild, managers
  <2> QED
    BY <2>1, <2>2, HandlersKept
<1>7. ASSUME Stop PROVE HandlersOK'
  <2>1. \A f \in Range(stack') : f.op # "call"
    BY <1>7, StopStack DEF GroupFrame
  <2> QED
    BY <1>7, <2>1, HandlersKept DEF Stop, managers
<1>8. ASSUME UNCHANGED <<events, handler, iterating, stack>> PROVE HandlersOK'
  BY <1>8, HandlersKept
<1>9. CASE Code
  BY <1>1, <1>4, <1>5, <1>6, <1>9, TakeOutTheTrashHandlers, FreeHandlers, DeleteGroupHandlers,
     DestroyVMHandlers DEF Code
<1>10. CASE Script
  <2>1. ASSUME NEW e \in Elements, NEW h \in Handlers,
               AddEventHandler(h, e) \/ RemoveEventHandler(h, e)
        PROVE  HandlersOK'
    BY <2>1, AddEventHandlerHandlers, RemoveEventHandlerHandlers
  <2>2. ASSUME NEW e \in Elements, NEW p \in Elements, SetElementParent(e, p)
        PROVE  HandlersOK'
    BY <1>8, <2>2 DEF SetElementParent, managers
  <2>3. ASSUME NEW e \in New, CreateElement(e)
        PROVE  HandlersOK'
    BY <1>8, <2>3 DEF CreateElement, managers
  <2> QED
    BY <1>2, <1>3, <1>10, <2>1, <2>2, <2>3 DEF Script
<1>11. CASE UNCHANGED vars
  BY <1>8, <1>11 DEF vars, managers
<1> QED
  BY <1>1, <1>7, <1>9, <1>10, <1>11 DEF Next

\* No Call still has to call a handler that has been freed; a removed handler is freed when
\* the Call of its manager ends (the assertions of ~CMapEventManager), and no manager
\* keeps a freed one, however deep the handlers' calls are nested.
THEOREM HandlersStayLive == Spec => []HandlersLive
<1>1. Init => Inv /\ HandlersOK
  BY InitInv, InitHandlers
<1>2. Inv /\ HandlersOK /\ [Next]_vars => (Inv /\ HandlersOK)'
  BY NextInv, NextHandlers
<1>3. ASSUME Inv, HandlersOK PROVE HandlersLive
  <2>1. ASSUME NEW f \in Range(stack), f.op = "call" PROVE f.at \in Elements
    <3>1. f \in Frame
      BY <1>3, Entries DEF Inv, StackInv, StackOK
    <3> QED
      BY <2>1, <3>1, Fields
  <2>2. ASSUME NEW f \in Range(stack), f.op = "call", NEW h \in Range(f.rest)
        PROVE  handler[h] # "freed"
    <3>1. h \in Range(events[f.at])
      BY <1>3, <2>2 DEF HandlersOK, CallsOK, CallsHandlers
    <3> QED
      BY <1>3, <2>1, <2>2, <3>1 DEF HandlersOK, ManagersOK, ManagerOK
  <2>3. \A a : a \in iterating <=> a \in {f.at : f \in {g \in Range(stack) : g.op = "call"}}
    BY <1>3 DEF Inv, StackInv, Iterated
  <2>4. iterating = {f.at : f \in {g \in Range(stack) : g.op = "call"}}
    BY <2>3
  <2> QED
    BY <1>3, <2>2, <2>4 DEF HandlersLive, HandlersOK, ManagersOK, ManagerOK
<1> QED
  BY <1>1, <1>2, <1>3, PTL DEF Spec

-----------------------------------------------------------------------------
(* What the stop of the resource relies on.                                *)

\* What each group is for.
Members(g) == IF g = "map" THEN MapItems ELSE New

DeletionStarted(e) == \E f \in Range(stack) : f.op = "delete" /\ f.el = e
Stopping == \E f \in Range(stack) : f.op = "vm"

\* The stop of the resource still comes to the element e of the group g.
InGroup(g, e) ==
    \E f \in Range(stack) :
        /\ f.op = "group" /\ f.group = g
        /\ \/ DeletionStarted(e)
           \/ \E i \in DOMAIN groups[g] : i >= f.at /\ groups[g][i] = e

\* The default group is deleted last, and an element that its script creates in the
\* meantime is still in front of it.
DefaultIsLast ==
    /\ \A f \in Range(stack) : f.op = "group" => Stopping /\ f.at <= Len(groups[f.group]) + 1
    /\ Stopping => \/ \E f \in Range(stack) : f.op = "group" /\ f.group = "default"
                   \/ \A f \in Range(stack) : f.op = "vm"

\* What the resource has created and is alive is in its group, while the virtual machine is
\* open, and the stop comes to it before it closes that.
MemberOK(g, e) ==
    Alive(e) => vm /\ e \in Range(groups[g]) /\ (Stopping => InGroup(g, e))
GroupsOK == DefaultIsLast /\ \A g \in GroupNames : \A e \in Members(g) : MemberOK(g, e)

\* Then a DeleteTree comes to each of its two roots.
DoomedBy(f, r) ==
    \/ f.op = "tree" /\ f.el = r
    \/ f.op = "collect" /\ (r \in Range(f.all) \/ \E s \in Range(f.path) : s.el = r)
    \/ f.op = "mark" /\ r \in Range(f.todo)
Doomed(r) == \E f \in Range(stack) : DoomedBy(f, r)
RootsOK == ~vm => \A r \in {Resource, Dynamic} : Alive(r) => Doomed(r)

\* No element comes to life.
NoneCreated == \A e \in Elements : Alive(e)' => Alive(e)

\* The members of the groups.
LEMMA MembersAreElements ==
    \A g \in GroupNames : Members(g) \subseteq Elements
BY DEF Members, GroupNames, Elements

\* The groups of a stop, when it is not at them.
LEMMA GroupsKept ==
    ASSUME Inv, GroupsOK, UNCHANGED <<groups, vm>>, NoneCreated, stack = <<>> \/ Top.op # "vm",
           \A f \in Range(stack') : f.op \in {"group", "vm"} => f \in Range(stack),
           \A f \in Range(stack) : f.op \in {"group", "vm"} => f \in Range(stack'),
           \A f \in Range(stack) : f.op = "delete" => f \in Range(stack') \/ ~Alive(f.el)'
    PROVE  GroupsOK'
<1>1. Stopping' <=> Stopping
  BY DEF Stopping
<1>2. ~Stopping \/ ~ \A f \in Range(stack) : f.op = "vm"
  <2>1. CASE stack = <<>>
    <3>1. Range(stack) = {}
      BY <2>1, EmptySeq DEF Range
    <3> QED
      BY <3>1 DEF Stopping
  <2>2. CASE stack # <<>>
    <3>1. Top \in Range(stack) /\ Top.op # "vm"
      BY <2>2, TopFrame DEF Inv
    <3> QED
      BY <3>1
  <2> QED
    BY <2>1, <2>2
<1>3. DefaultIsLast'
  <2>1. ASSUME NEW f \in Range(stack'), f.op = "group"
        PROVE  Stopping' /\ f.at <= Len(groups'[f.group]) + 1
    BY <1>1, <2>1 DEF GroupsOK, DefaultIsLast
  <2>2. ASSUME Stopping PROVE \E f \in Range(stack') : f.op = "group" /\ f.group = "default"
    BY <1>2, <2>2 DEF GroupsOK, DefaultIsLast
  <2> QED
    BY <1>1, <2>1, <2>2 DEF DefaultIsLast
<1>4. ASSUME NEW g \in GroupNames, NEW e \in Members(g), Alive(e)'
      PROVE  vm' /\ e \in Range(groups'[g]) /\ (Stopping' => InGroup(g, e)')
  <2>1. e \in Elements /\ Alive(e) /\ MemberOK(g, e)
    BY <1>4, MembersAreElements DEF NoneCreated, GroupsOK
  <2>2. ASSUME Stopping' PROVE InGroup(g, e)'
    <3>1. PICK f \in Range(stack) :
            /\ f.op = "group" /\ f.group = g
            /\ \/ DeletionStarted(e)
               \/ \E i \in DOMAIN groups[g] : i >= f.at /\ groups[g][i] = e
      BY <1>1, <2>1, <2>2 DEF MemberOK, InGroup
    <3>2. DeletionStarted(e) => DeletionStarted(e)'
      BY <1>4 DEF DeletionStarted
    <3>3. f \in Range(stack')
      BY <3>1
    <3> QED
      BY <3>1, <3>2, <3>3 DEF InGroup
  <2> QED
    BY <2>1, <2>2 DEF MemberOK
<1>5. ASSUME NEW g \in GroupNames, NEW e \in Members(g)
      PROVE  MemberOK(g, e)'
  BY <1>4 DEF MemberOK
<1> QED
  BY <1>3, <1>5 DEF GroupsOK, Members

\* What the stop relies on, in all.
StopOK == GroupsOK /\ RootsOK

\* The calls of no part of the stop begin or end.
LEMMA StopCalm ==
    ASSUME Inv, StopOK, UNCHANGED <<groups, vm>>, NoneCreated, stack = <<>> \/ Top.op # "vm",
           NEW ops, ops \subseteq {"call", "delete"}, Calm(ops),
           \A f \in Range(stack) : f.op = "delete" => f \in Range(stack') \/ ~Alive(f.el)'
    PROVE  StopOK'
<1>1. \A f \in Range(stack') :
        f.op \in {"group", "vm", "tree", "collect", "mark"} => f \in Range(stack)
  BY DEF Calm, Ordinary
<1>2. \A f \in Range(stack) :
        f.op \in {"group", "vm", "tree", "collect", "mark"} => f \in Range(stack')
  BY DEF Calm, Ordinary
<1>3. GroupsOK'
  BY <1>1, <1>2, GroupsKept DEF StopOK
<1>4. ASSUME NEW r, Doomed(r) PROVE Doomed(r)'
  BY <1>2, <1>4 DEF Doomed, DoomedBy
<1>5. Resource \in Elements /\ Dynamic \in Elements
  BY DEF Elements
<1>6. RootsOK'
  BY <1>4, <1>5 DEF StopOK, RootsOK, NoneCreated
<1> QED
  BY <1>3, <1>6 DEF StopOK

\* Once the virtual machine is closed the groups are empty.
LEMMA GroupsClosed ==
    ASSUME Inv, Inv', StopOK, ~vm, ~vm', NoneCreated
    PROVE  GroupsOK'
<1>1. \A f \in Range(stack') : f.op \notin {"group", "vm"}
  BY DEF Inv, StackInv, FrameLive
<1>2. \A g \in GroupNames : \A e \in Members(g) : ~Alive(e)'
  BY MembersAreElements DEF StopOK, GroupsOK, MemberOK, NoneCreated
<1>3. DefaultIsLast' /\ ~Stopping'
  BY <1>1 DEF DefaultIsLast, Stopping
<1>4. ASSUME NEW g \in GroupNames, NEW e \in Members(g)
      PROVE  MemberOK(g, e)'
  BY <1>2 DEF MemberOK
<1> QED
  BY <1>3, <1>4 DEF GroupsOK, Members

\* The loop over the default group comes to what its script has created meanwhile.
LEMMA CreateElementStop ==
    ASSUME Inv, StopOK, NEW n \in New, CreateElement(n)
    PROVE  StopOK'
<1>0. WorldInv /\ StackInv
  BY DEF Inv
<1>1. stack # <<>> /\ Top.op = "script" /\ vm /\ UNCHANGED <<vm, stack>>
  BY ScriptRuns DEF CreateElement, OwnScript
<1>2. Top \in Range(stack)
  BY <1>0, <1>1, TopFrame
<1> PICK more : more = Append(groups["default"], n)
  OBVIOUS
<1>3. /\ groups["default"] \in Seq(Elements) /\ groups["map"] \in Seq(Elements)
      /\ n \in Elements /\ status \in [Elements -> Statuses]
  BY <1>0 DEF WorldInv, GroupNames, Elements
<1> PICK m \in Nat : m = Len(groups["default"])
  BY <1>3, LenProperties
<1>4. /\ Range(more) = Range(groups["default"]) \cup {n}
      /\ more \in Seq(Elements) /\ Len(more) = m + 1 /\ more[m + 1] = n
      /\ \A i \in 1 .. m : more[i] = groups["default"][i]
      /\ DOMAIN more = 1 .. m + 1 /\ DOMAIN groups["default"] = 1 .. m
  <2>1. \A s \in Seq(Elements) :
          /\ Append(s, n) \in Seq(Elements) /\ Len(Append(s, n)) = Len(s) + 1
          /\ Append(s, n)[Len(s) + 1] = n /\ \A i \in 1 .. Len(s) : Append(s, n)[i] = s[i]
          /\ Range(Append(s, n)) = Range(s) \cup {n}
    BY <1>3, AppendProperties, Entries
  <2>2. \A s \in Seq(Elements) : DOMAIN s = 1 .. Len(s)
    BY LenProperties
  <2>3. Len(more) = m + 1 /\ more \in Seq(Elements)
    BY <1>3, <2>1
  <2> QED
    BY <1>3, <2>1, <2>2, <2>3
<1>5. /\ groups'["default"] = more /\ groups'["map"] = groups["map"]
      /\ \A e \in Elements : Alive(e)' => Alive(e) \/ e = n
  <2>1. groups' = [groups EXCEPT !["default"] = more] /\ status' = [status EXCEPT ![n] = "alive"]
    BY DEF CreateElement
  <2> QED
    BY <1>0, <1>3, <2>1 DEF WorldInv, GroupNames, Alive
<1>6. ASSUME NEW f \in Range(stack), f.op = "group"
      PROVE  f.group \in GroupNames /\ f.at \in Nat /\ Stopping /\ f.at <= Len(groups[f.group]) + 1
  <2>1. f \in Frame
    BY <1>0, Entries DEF StackInv, StackOK
  <2> QED
    BY <1>6, <2>1, Fields DEF StopOK, GroupsOK, DefaultIsLast
<1>7. Stopping' <=> Stopping
  BY <1>1 DEF Stopping
<1>8. DefaultIsLast'
  <2>1. ASSUME NEW f \in Range(stack'), f.op = "group"
        PROVE  Stopping' /\ f.at <= Len(groups'[f.group]) + 1
    <3>1. f \in Range(stack)
      BY <1>1
    <3> PICK k \in Nat : k = f.at
      BY <1>6, <2>1, <3>1
    <3>2. CASE f.group = "default"
      <4>1. k <= m + 1
        BY <1>6, <2>1, <3>1, <3>2
      <4>2. k <= m + 1 + 1
        BY <4>1
      <4> QED
        BY <1>4, <1>5, <1>6, <1>7, <2>1, <3>1, <3>2, <4>2
    <3>3. CASE f.group = "map"
      BY <1>5, <1>6, <1>7, <2>1, <3>1, <3>3
    <3> QED
      BY <1>6, <2>1, <3>1, <3>2, <3>3 DEF GroupNames
  <2> QED
    BY <1>1, <1>7, <2>1 DEF StopOK, GroupsOK, DefaultIsLast
<1>9. ASSUME NEW g \in GroupNames, NEW e \in Members(g), Alive(e)'
      PROVE  vm' /\ e \in Range(groups'[g]) /\ (Stopping' => InGroup(g, e)')
  <2>1. DeletionStarted(e) => DeletionStarted(e)'
    BY <1>1 DEF DeletionStarted
  <2>2. CASE e # n
    <3>1. Alive(e) /\ MemberOK(g, e)
      BY <1>5, <1>9, <2>2, MembersAreElements DEF StopOK, GroupsOK
    <3>2. e \in Range(groups'[g])
      BY <1>4, <1>5, <3>1 DEF MemberOK, GroupNames
    <3>3. ASSUME Stopping' PROVE InGroup(g, e)'
      <4>1. PICK f \in Range(stack) :
              /\ f.op = "group" /\ f.group = g
              /\ \/ DeletionStarted(e)
                 \/ \E i \in DOMAIN groups[g] : i >= f.at /\ groups[g][i] = e
        BY <1>7, <3>1, <3>3 DEF MemberOK, InGroup
      <4>2. ASSUME NEW i \in DOMAIN groups[g], groups[g][i] = e
            PROVE  i \in DOMAIN groups'[g] /\ groups'[g][i] = e
        <5>1. CASE g = "map"
          BY <1>5, <4>2, <5>1
        <5>2. CASE g = "default"
          BY <1>4, <1>5, <4>2, <5>2, SMTT(30)
        <5> QED
          BY <5>1, <5>2 DEF GroupNames
      <4> QED
        BY <1>1, <2>1, <4>1, <4>2 DEF InGroup
    <3> QED
      BY <1>1, <3>2, <3>3
  <2>3. CASE e = n
    <3>1. g = "default"
      BY <2>3, Distinct DEF Members, GroupNames
    <3>2. ASSUME Stopping' PROVE InGroup(g, e)'
      <4>1. PICK f \in Range(stack) : f.op = "group" /\ f.group = "default"
        BY <1>1, <1>2, <1>7, <3>2 DEF StopOK, GroupsOK, DefaultIsLast
      <4> PICK k \in Nat : k = f.at
        BY <1>6, <4>1
      <4>2. m + 1 >= k
        BY <1>6, <4>1
      <4>3. m + 1 \in DOMAIN groups'[g] /\ groups'[g][m + 1] = e
        BY <1>4, <1>5, <2>3, <3>1
      <4> QED
        BY <1>1, <3>1, <4>1, <4>2, <4>3 DEF InGroup
    <3> QED
      BY <1>1, <1>4, <1>5, <2>3, <3>1, <3>2
  <2> QED
    BY <2>2, <2>3
<1>10. ASSUME NEW g \in GroupNames, NEW e \in Members(g)
       PROVE  MemberOK(g, e)'
  BY <1>9 DEF MemberOK
<1>11. GroupsOK'
  BY <1>8, <1>10 DEF GroupsOK, Members
<1> QED
  BY <1>1, <1>11 DEF StopOK, RootsOK

\* Delete.
LEMMA DeleteStop ==
    ASSUME Inv, StopOK, Delete
    PROVE  StopOK'
<1>0. StackInv /\ status \in [Elements -> Statuses]
  BY DEF Inv, WorldInv
<1>1. /\ stack # <<>> /\ Top.op = "delete" /\ UNCHANGED <<groups, vm>>
      /\ status' = [status EXCEPT ![Top.el] = "deleting"]
  BY DEF Delete, Running
<1>2. Top.el \in Elements
  BY <1>0, <1>1, TopFrame, Fields
<1>3. NoneCreated
  <2> PICK t \in Elements : t = Top.el
    BY <1>2
  <2>1. \A e \in Elements : status'[e] = IF e = t THEN "deleting" ELSE status[e]
    BY <1>0, <1>1
  <2> QED
    BY <2>1 DEF NoneCreated, Alive
<1> PICK ops : ops = {"delete"}
  OBVIOUS
<1>4. /\ Calm(ops) /\ ops \subseteq {"call", "delete"}
      /\ \A f \in Range(stack) : f.op = "delete" => f \in Range(stack') \/ f.el = Top.el
  BY CalmDeletion
<1>5. \A f \in Range(stack) : f.op = "delete" => f \in Range(stack') \/ ~Alive(f.el)'
  <2> PICK t : t = Top.el
    OBVIOUS
  <2>1. ~Alive(t)'
    BY <1>0, <1>1, <1>2 DEF Alive
  <2> QED
    BY <1>4, <2>1
<1> QED
  BY <1>1, <1>3, <1>4, <1>5, StopCalm

\* The step of DoDeleteAll that frees an element.
LEMMA FreeStop ==
    ASSUME Inv, StopOK, Free
    PROVE  StopOK'
<1>0. WorldInv /\ StackInv
  BY DEF Inv
<1>1. stack # <<>> /\ Top.op = "free" /\ UNCHANGED vm
  BY DEF Free, Running
<1>2. Range(stack) = {Top}
  BY <1>0, <1>1, TopFrame DEF Rests
<1>3. \A f \in Range(stack) : f.op = "free"
  BY <1>1, <1>2
<1>4. \A f \in Range(stack') : f.op = "free"
  <2>1. stack' = Tail(stack) \/ stack' = stack
    BY DEF Free
  <2>2. stack' = Tail(stack) => Range(stack') \subseteq Range(stack)
    BY <1>0, <1>1, NewStack, TopFrame
  <2> QED
    BY <1>3, <2>1, <2>2
<1>5. ~vm => ~Alive(Resource) /\ ~Alive(Dynamic)
  BY <1>3 DEF StopOK, RootsOK, Doomed, DoomedBy
<1>6. /\ \A e \in Elements : Alive(e)' => Alive(e)
      /\ \A g \in GroupNames : \A e \in Range(groups[g]) : e \in Elements /\ Alive(e)' => e \in Range(groups'[g])
  <2>1. CASE list = <<>>
    BY <2>1 DEF Free, tree, Alive
  <2>2. CASE list # <<>>
    <3> PICK e : e = Head(list)
      OBVIOUS
    <3>1. e \in Elements
      BY <1>0, <2>2, TopProperties DEF WorldInv, ListOK
    <3>2. /\ status' = [status EXCEPT ![e] = "freed"]
          /\ groups' = [g \in GroupNames |-> Without(groups[g], {e})]
      BY <2>2 DEF Free
    <3>3. \A x \in Elements : status'[x] = IF x = e THEN "freed" ELSE status[x]
      BY <1>0, <3>1, <3>2 DEF WorldInv
    <3>4. \A g \in GroupNames : Range(groups'[g]) = Range(groups[g]) \ {e}
      BY <1>0, <3>2, FewerMembers DEF WorldInv
    <3> QED
      BY <3>3, <3>4 DEF Alive
  <2> QED
    BY <2>1, <2>2
<1>7. DefaultIsLast' /\ ~Stopping'
  BY <1>4 DEF DefaultIsLast, Stopping
<1>8. ASSUME NEW g \in GroupNames, NEW e \in Members(g), Alive(e)'
      PROVE  vm' /\ e \in Range(groups'[g])
  <2>1. e \in Elements /\ MemberOK(g, e)
    BY MembersAreElements DEF StopOK, GroupsOK
  <2> QED
    BY <1>1, <1>6, <1>8, <2>1 DEF MemberOK
<1>9. ASSUME NEW g \in GroupNames, NEW e \in Members(g)
      PROVE  MemberOK(g, e)'
  BY <1>7, <1>8 DEF MemberOK
<1>10. GroupsOK'
  BY <1>7, <1>9 DEF GroupsOK, Members
<1>11. RootsOK'
  BY <1>1, <1>5, <1>6 DEF RootsOK, Elements
<1> QED
  BY <1>10, <1>11 DEF StopOK

\* Stop.
LEMMA StopBegins ==
    ASSUME Inv, StopOK, Stop
    PROVE  StopOK'
<1> PICK a : a = GroupFrame("map")
  OBVIOUS
<1> PICK b : b = GroupFrame("default")
  OBVIOUS
<1>0. stack = <<>> /\ vm /\ UNCHANGED <<status, groups, vm>>
  BY DEF Stop, Idle, tree
<1>1. groups \in [GroupNames -> Seq(Elements)]
  BY DEF Inv, WorldInv
<1>2. Range(stack') = {a, b, [op |-> "vm"]}
  BY StopStack
<1>3. /\ a.op = "group" /\ a.group = "map" /\ a.at = 1
      /\ b.op = "group" /\ b.group = "default" /\ b.at = 1
  BY DEF GroupFrame
<1>4. Stopping'
  BY <1>2 DEF Stopping
<1>5. DefaultIsLast'
  <2>1. 1 <= Len(groups["map"]) + 1 /\ 1 <= Len(groups["default"]) + 1
    <3>1. Len(groups["map"]) \in Nat /\ Len(groups["default"]) \in Nat
      BY <1>1, LenProperties DEF GroupNames
    <3> QED
      BY <3>1
  <2> QED
    BY <1>0, <1>2, <1>3, <1>4, <2>1 DEF DefaultIsLast
<1>6. ASSUME NEW g \in GroupNames, NEW e \in Members(g)
      PROVE  MemberOK(g, e)'
  <2>1. ASSUME Alive(e) PROVE e \in Range(groups[g])
    BY <2>1 DEF StopOK, GroupsOK, MemberOK
  <2>2. ASSUME Alive(e) PROVE InGroup(g, e)'
    <3>1. PICK i \in DOMAIN groups[g] : groups[g][i] = e
      BY <2>1, <2>2 DEF Range
    <3>2. i >= 1
      <4>1. DOMAIN groups[g] = 1 .. Len(groups[g]) /\ Len(groups[g]) \in Nat
        BY <1>1, LenProperties
      <4> QED
        BY <3>1, <4>1
    <3>3. PICK f \in {a, b} : f.op = "group" /\ f.group = g /\ f.at = 1
      BY <1>3 DEF GroupNames
    <3> QED
      BY <1>0, <1>2, <3>1, <3>2, <3>3 DEF InGroup
  <2> QED
    BY <1>0, <2>1, <2>2 DEF MemberOK, Alive
<1>7. GroupsOK'
  BY <1>5, <1>6 DEF GroupsOK, Members
<1> QED
  BY <1>0, <1>7 DEF StopOK, RootsOK

\* ~CElementGroup.
LEMMA DeleteGroupStop ==
    ASSUME Inv, StopOK, DeleteGroup
    PROVE  StopOK'
<1> PICK T : T = Range(Tail(stack))
  OBVIOUS
<1> PICK top : top = Top
  OBVIOUS
<1> PICK G : G = top.group
  OBVIOUS
<1>0. WorldInv /\ StackInv /\ GroupsOK
  BY DEF Inv, StopOK
<1>1. /\ stack # <<>> /\ top.op = "group" /\ G \in GroupNames /\ Range(stack) = {top} \cup T
      /\ \A f \in T : f.op = "vm" \/ (f = GroupFrame("default") /\ G = "map")
  BY DeleteGroupStack
<1>2. UNCHANGED <<status, vm>> /\ vm
  <2>1. UNCHANGED <<status, vm>>
    BY DEF DeleteGroup, tree
  <2>2. FrameLive(top) 
    BY <1>0, <1>1, TopFrame
  <2> QED
    BY <1>1, <2>1, <2>2 DEF FrameLive
<1>3. groups[G] \in Seq(Elements) /\ Len(groups[G]) \in Nat /\ DOMAIN groups[G] = 1 .. Len(groups[G])
  BY <1>0, <1>1, LenProperties DEF WorldInv
<1>4. top.at \in Nat \ {0}
  BY <1>0, <1>1, TopFrame, Fields
<1> PICK n \in Nat \ {0} : n = top.at
  BY <1>4
<1>5. \A f \in Range(stack) : f.op = "group" /\ f.group = G => f = top
  BY <1>1 DEF GroupFrame
<1>6. \A e : ~DeletionStarted(e)
  BY <1>1 DEF DeletionStarted, GroupFrame
<1>7. Stopping /\ \E f \in T : f.op = "vm"
  <2>1. Stopping
    BY <1>0, <1>1 DEF GroupsOK, DefaultIsLast
  <2> QED
    BY <1>1, <2>1 DEF Stopping
<1>8. \E f \in Range(stack) : f.op = "group" /\ f.group = "default"
  BY <1>0, <1>1, <1>7 DEF GroupsOK, DefaultIsLast
\* What is left of the group.
<1>9. ASSUME NEW e \in Members(G), Alive(e)
      PROVE  e \in Range(groups[G]) /\ \E i \in DOMAIN groups[G] : i >= n /\ groups[G][i] = e
  <2>1. e \in Range(groups[G]) /\ InGroup(G, e)
    BY <1>0, <1>1, <1>7, <1>9 DEF GroupsOK, MemberOK
  <2> QED
    BY <1>5, <1>6, <2>1 DEF InGroup
\* And of the other one.
<1>10. ASSUME NEW g \in GroupNames, g # G, NEW e \in Members(g), Alive(e)
       PROVE  /\ e \in Range(groups[g])
              /\ \E f \in T : /\ f.op = "group" /\ f.group = g
                              /\ \E i \in DOMAIN groups[g] : i >= f.at /\ groups[g][i] = e
  <2>1. e \in Range(groups[g]) /\ InGroup(g, e)
    BY <1>0, <1>7, <1>10 DEF GroupsOK, MemberOK
  <2> QED
    BY <1>1, <1>6, <1>10, <2>1 DEF InGroup
<1>11. ASSUME GroupEnds(top), Range(stack') = T
       PROVE  GroupsOK'
  <2>1. groups' = [groups EXCEPT ![G] = <<>>] /\ n > Len(groups[G])
    BY <1>11 DEF GroupEnds
  <2>2. \A g \in GroupNames : g # G => groups'[g] = groups[g]
    BY <1>0, <2>1 DEF WorldInv
  <2>3. Stopping'
    BY <1>7, <1>11 DEF Stopping
  <2>4. ASSUME NEW e \in Members(G) PROVE ~Alive(e)
    <3>1. ASSUME Alive(e) PROVE FALSE
      <4>1. PICK i \in DOMAIN groups[G] : i >= n /\ groups[G][i] = e
        BY <1>9, <3>1
      <4>2. i \in Nat /\ i <= Len(groups[G])
        BY <1>3, <4>1
      <4> QED
        BY <1>3, <2>1, <4>1, <4>2
    <3> QED
      BY <3>1
  <2>5. DefaultIsLast'
    <3>1. ASSUME NEW f \in T, f.op = "group" PROVE f.group # G /\ f.at <= Len(groups'[f.group]) + 1
      <4>1. f = GroupFrame("default") /\ G = "map"
        BY <1>1, <3>1
      <4>2. f.group = "default" /\ groups'[f.group] = groups[f.group]
        BY <2>2, <4>1 DEF GroupFrame, GroupNames
      <4>3. f.at <= Len(groups[f.group]) + 1
        BY <1>0, <1>1, <3>1 DEF GroupsOK, DefaultIsLast
      <4> QED
        BY <4>1, <4>2, <4>3
    <3>2. CASE G = "default"
      <4>1. \A f \in T : f.op = "vm"
        BY <1>1, <3>2
      <4> QED
        BY <1>11, <2>3, <3>1, <4>1 DEF DefaultIsLast
    <3>3. CASE G = "map"
      <4>1. \E f \in T : f.op = "group" /\ f.group = "default"
        BY <1>1, <1>8, <3>3
      <4> QED
        BY <1>11, <2>3, <3>1, <4>1 DEF DefaultIsLast
    <3> QED
      BY <1>1, <3>2, <3>3 DEF GroupNames
  <2>6. ASSUME NEW g \in GroupNames, NEW e \in Members(g)
        PROVE  MemberOK(g, e)'
    <3>1. CASE g = G
      BY <1>2, <2>4, <3>1 DEF MemberOK, Alive
    <3>2. ASSUME g # G, Alive(e) PROVE e \in Range(groups'[g]) /\ InGroup(g, e)'
      <4>1. groups'[g] = groups[g]
        BY <2>2, <3>2
      <4> QED
        BY <1>10, <1>11, <3>2, <4>1 DEF InGroup
    <3> QED
      BY <1>2, <3>1, <3>2 DEF MemberOK, Alive
  <2> QED
    BY <2>5, <2>6 DEF GroupsOK, Members
<1>12. ASSUME NEW e, NEW h, GroupGoesOn(top, h, e), h \in Range(stack'),
              Range(stack') \subseteq {EventFrame(e), DeleteFrame(e), h} \cup T, T \subseteq Range(stack'),
              IsBeingDeleted(e) \/ DeleteFrame(e) \in Range(stack')
       PROVE  GroupsOK'
  <2>1. /\ e = groups[G][n] /\ h.op = "group" /\ h.group = G /\ h.at = n + 1
        /\ n \in 1 .. Len(groups[G]) /\ groups' = groups
    BY <1>12 DEF GroupGoesOn
  <2>2. Stopping'
    BY <1>7, <1>12 DEF Stopping
  <2>3. EventFrame(e).op = "parents" /\ DeleteFrame(e).op = "delete" /\ DeleteFrame(e).el = e
    BY DEF EventFrame, ParentsFrame, DeleteFrame
  <2>4. DefaultIsLast'
    <3>1. ASSUME NEW f \in Range(stack'), f.op = "group" PROVE f.at <= Len(groups'[f.group]) + 1
      <4>1. CASE f = h
        <5>1. n + 1 <= Len(groups[G]) + 1
          BY <1>3, <2>1
        <5> QED
          BY <2>1, <4>1, <5>1
      <4>2. CASE f # h
        <5>1. f \in T
          BY <1>12, <2>3, <3>1, <4>2
        <5> QED
          BY <1>0, <1>1, <2>1, <3>1, <5>1 DEF GroupsOK, DefaultIsLast
      <4> QED
        BY <4>1, <4>2
    <3>2. \E f \in Range(stack') : f.op = "group" /\ f.group = "default"
      <4>1. PICK f \in Range(stack) : f.op = "group" /\ f.group = "default"
        BY <1>8
      <4> QED
        BY <1>1, <1>12, <2>1, <4>1
    <3> QED
      BY <2>2, <3>1, <3>2 DEF DefaultIsLast
  <2>5. ASSUME NEW g \in GroupNames, NEW x \in Members(g), Alive(x)
        PROVE  x \in Range(groups'[g]) /\ InGroup(g, x)'
    <3>1. CASE g # G
      BY <1>10, <1>12, <2>1, <2>5, <3>1 DEF InGroup
    <3>2. CASE g = G /\ x # e
      <4>1. PICK i \in DOMAIN groups[G] : i >= n /\ groups[G][i] = x
        BY <1>9, <2>5, <3>2
      <4>2. i >= n + 1
        <5>1. i # n /\ i \in Nat
          BY <1>3, <2>1, <3>2, <4>1
        <5> QED
          BY <4>1, <5>1
      <4>3. x \in Range(groups[G])
        BY <1>9, <2>5, <3>2
      <4> QED
        BY <1>12, <2>1, <3>2, <4>1, <4>2, <4>3 DEF InGroup
    <3>3. CASE g = G /\ x = e
      <4>1. x \in Range(groups[G])
        BY <1>9, <2>5, <3>3
      <4>2. ~IsBeingDeleted(e)
        BY <1>0, <2>5, <3>3 DEF IsBeingDeleted, WorldInv, ListOK, Alive
      <4>3. DeletionStarted(x)'
        BY <1>12, <2>3, <3>3, <4>2 DEF DeletionStarted
      <4> QED
        BY <1>12, <2>1, <3>3, <4>1, <4>3 DEF InGroup
    <3> QED
      BY <3>1, <3>2, <3>3
  <2>6. ASSUME NEW g \in GroupNames, NEW x \in Members(g)
        PROVE  MemberOK(g, x)'
    BY <1>2, <2>5 DEF MemberOK, Alive
  <2> QED
    BY <2>4, <2>6 DEF GroupsOK, Members
<1>13. \/ GroupEnds(top) /\ Range(stack') = T
       \/ \E e, h : /\ GroupGoesOn(top, h, e) /\ h \in Range(stack') /\ T \subseteq Range(stack')
                    /\ Range(stack') \subseteq {EventFrame(e), DeleteFrame(e), h} \cup T
                    /\ IsBeingDeleted(e) \/ DeleteFrame(e) \in Range(stack')
  <2>1. \/ GroupEnds(Top) /\ Range(stack') = T
        \/ \E e, h : /\ GroupGoesOn(Top, h, e)
                     /\ \/ IsBeingDeleted(e) /\ Range(stack') = {h} \cup T
                        \/ Range(stack') = {EventFrame(e), DeleteFrame(e), h} \cup T
    BY DeleteGroupStack
  <2> QED
    BY <2>1
<1>14. GroupsOK'
  BY <1>11, <1>12, <1>13
<1> QED
  BY <1>2, <1>14 DEF StopOK, RootsOK

\* DestroyVM: nothing of the groups is left, and the two roots are next.
LEMMA DestroyVMStop ==
    ASSUME Inv, StopOK, DestroyVM
    PROVE  StopOK'
<1>1. /\ Range(stack) = {Top}
      /\ Range(stack') = {[op |-> "script", own |-> FALSE],
           [op |-> "tree", el |-> Dynamic], [op |-> "tree", el |-> Resource]}
  BY StopStack
<1>2. Top.op = "vm" /\ UNCHANGED status
  BY DEF DestroyVM, Running, tree
<1>3. Stopping
  BY <1>1, <1>2 DEF Stopping
<1>4. \A g \in GroupNames : \A e \in Members(g) : ~Alive(e)
  BY <1>1, <1>2, <1>3 DEF StopOK, GroupsOK, MemberOK, InGroup
<1>5. DefaultIsLast' /\ ~Stopping'
  BY <1>1 DEF DefaultIsLast, Stopping
<1>6. ASSUME NEW g \in GroupNames, NEW e \in Members(g)
      PROVE  MemberOK(g, e)'
  BY <1>2, <1>4 DEF MemberOK, Alive
<1>7. GroupsOK'
  BY <1>5, <1>6 DEF GroupsOK, Members
<1>8. RootsOK'
  BY <1>1 DEF RootsOK, Doomed, DoomedBy
<1> QED
  BY <1>7, <1>8 DEF StopOK

\* The innermost DeleteTree goes on, or returns.
LEMMA RootsKept ==
    ASSUME Inv, RootsOK, UNCHANGED vm, NoneCreated, stack # <<>>,
           Range(Tail(stack)) \subseteq Range(stack'),
           \A r \in {Resource, Dynamic} : DoomedBy(Top, r) /\ Alive(r)' => Doomed(r)'
    PROVE  RootsOK'
<1>1. Range(stack) = {Top} \cup Range(Tail(stack))
  BY TopFrame DEF Inv
<1>2. Resource \in Elements /\ Dynamic \in Elements
  BY DEF Elements
<1>3. ASSUME ~vm, NEW r \in {Resource, Dynamic}, Alive(r)' PROVE Doomed(r)'
  <2>1. Alive(r)
    BY <1>2, <1>3 DEF NoneCreated
  <2>2. PICK f \in Range(stack) : DoomedBy(f, r)
    BY <1>3, <2>1 DEF RootsOK, Doomed
  <2>3. CASE f = Top
    BY <1>3, <2>2, <2>3
  <2>4. CASE f # Top
    BY <1>1, <2>2, <2>4 DEF Doomed, DoomedBy
  <2> QED
    BY <2>3, <2>4
<1> QED
  BY <1>3 DEF RootsOK

\* The stack of a DeleteTree.
LEMMA TreeStack ==
    ASSUME StackInv, stack # <<>>
    PROVE  /\ \A f : Become(f) => Range(Tail(stack)) \subseteq Range(stack') /\ f \in Range(stack')
           /\ \A f, g : Inside(f, g) => Range(Tail(stack)) \subseteq Range(stack') /\ f \in Range(stack')
           /\ stack' = Tail(stack) => Range(Tail(stack)) \subseteq Range(stack')
<1>1. ASSUME NEW f, Become(f) PROVE Range(Tail(stack)) \subseteq Range(stack') /\ f \in Range(stack')
  BY <1>1, NewStack
<1>2. ASSUME NEW f, NEW g, Inside(f, g)
      PROVE  Range(Tail(stack)) \subseteq Range(stack') /\ f \in Range(stack')
  BY <1>2, NewStack
<1> QED
  BY <1>1, <1>2

\* DeleteTree is at the root that it was called for.
LEMMA DeleteTreeRoots ==
    ASSUME Inv, RootsOK, DeleteTree
    PROVE  RootsOK'
<1>0. WorldInv /\ StackInv
  BY DEF Inv
<1>1. stack # <<>> /\ Top.op = "tree" /\ UNCHANGED <<status, vm>> /\ NoneCreated
  BY DEF DeleteTree, Running, tree, NoneCreated, Alive
<1>2. \A r : DoomedBy(Top, r) => r = Top.el
  BY <1>1 DEF DoomedBy
<1>3. CASE IsBeingDeleted(Top.el)
  <2> PICK t : t = Top.el
    OBVIOUS
  <2>1. ~Alive(t)'
    BY <1>0, <1>1, <1>3 DEF IsBeingDeleted, WorldInv, ListOK, Alive
  <2>2. Range(Tail(stack)) \subseteq Range(stack')
    BY <1>0, <1>1, <1>3, TreeStack DEF DeleteTree
  <2>3. \A r \in {Resource, Dynamic} : DoomedBy(Top, r) => ~Alive(r)'
    BY <1>2, <2>1
  <2> QED
    BY <1>1, <2>2, <2>3, RootsKept
<1>4. CASE ~IsBeingDeleted(Top.el)
  <2> PICK t : t = Top.el
    OBVIOUS
  <2> PICK s : s = At(t, 1)
    OBVIOUS
  <2> PICK p : p = <<s>>
    OBVIOUS
  <2> PICK f : f = CollectFrame(p, <<>>)
    OBVIOUS
  <2>1. f.op = "collect" /\ f.path = p /\ s \in Range(p) /\ s.el = t
    BY DEF CollectFrame, At, Range
  <2>2. Become(f)
    BY <1>4 DEF DeleteTree
  <2>3. Range(Tail(stack)) \subseteq Range(stack') /\ f \in Range(stack')
    BY <1>0, <1>1, <2>2, TreeStack
  <2>4. Doomed(t)'
    BY <2>1, <2>3 DEF Doomed, DoomedBy
  <2>5. \A r \in {Resource, Dynamic} : DoomedBy(Top, r) => Doomed(r)'
    BY <1>2, <2>4
  <2> QED
    BY <1>1, <2>3, <2>5, RootsKept
<1> QED
  BY <1>3, <1>4

\* CollectTreeElements drops nothing that it has come to.
LEMMA CollectTreeRoots ==
    ASSUME Inv, RootsOK, CollectTree
    PROVE  RootsOK'
<1>0. WorldInv /\ StackInv
  BY DEF Inv
<1>1. stack # <<>> /\ Top.op = "collect" /\ UNCHANGED <<status, vm>> /\ NoneCreated
  BY DEF CollectTree, Running, NoneCreated, Alive
<1> PICK e : e = Head(Top.path).el
  OBVIOUS
<1> PICK path : path = Tail(Top.path)
  OBVIOUS
<1> PICK all : all = Top.all
  OBVIOUS
<1>2. /\ Top.path \in Seq(Step) /\ Top.path # <<>> /\ all \in Seq(Elements) /\ path \in Seq(Step)
      /\ Range(Top.path) = Range(path) \cup {Head(Top.path)} /\ e \in Elements
      /\ Head(Top.path) \in Step
  <2>1. Top.path \in Seq(Step) /\ Top.path # <<>> /\ all \in Seq(Elements)
    BY <1>0, <1>1, TopFrame, Fields DEF FrameLive
  <2>2. path \in Seq(Step) /\ Range(Top.path) = Range(path) \cup {Head(Top.path)} /\ Head(Top.path) \in Step
    BY <2>1, TopProperties
  <2> QED
    BY <2>1, <2>2 DEF Step
<1>3. \A r : DoomedBy(Top, r) => r \in Range(all) \/ r = e \/ \E s \in Range(path) : s.el = r
  BY <1>1, <1>2 DEF DoomedBy
\* A call that has collected what the innermost one had, or is still on its path.
<1>4. ASSUME NEW f, Become(f),
             \A r : r \in Range(all) \/ r = e \/ (\E s \in Range(path) : s.el = r) => DoomedBy(f, r)
      PROVE  RootsOK'
  <2>1. Range(Tail(stack)) \subseteq Range(stack') /\ f \in Range(stack')
    BY <1>0, <1>1, <1>4, TreeStack
  <2>2. \A r : DoomedBy(Top, r) => DoomedBy(f, r)
    BY <1>3, <1>4
  <2>3. ASSUME NEW r, DoomedBy(f, r) PROVE Doomed(r)'
    BY <2>1, <2>3 DEF Doomed, DoomedBy
  <2> QED
    BY <1>1, <2>1, <2>2, <2>3, RootsKept
<1> PICK i : i = Head(Top.path).at
  OBVIOUS
<1> PICK c : c = children[e][i]
  OBVIOUS
<1>5. i \in Nat \ {0} /\ children[e] \in Seq(Elements)
  BY <1>2, KidsType DEF Step, Inv, TreeInv, TreeOK, Forest
<1>6. CASE i > Len(children[e])
  <2> PICK more : more = Append(all, e)
    OBVIOUS
  <2>1. Range(more) = Range(all) \cup {e}
    BY <1>2, Entries
  <2>2. CASE path = <<>>
    <3> PICK f : f = MarkFrame(more, more, FALSE)
      OBVIOUS
    <3>1. f.op = "mark" /\ f.todo = more
      BY DEF MarkFrame
    <3>2. Become(f)
      BY <1>6, <2>2 DEF CollectTree
    <3>3. Range(path) = {}
      BY <2>2, EmptySeq DEF Range
    <3> QED
      BY <1>4, <2>1, <3>1, <3>2, <3>3 DEF DoomedBy
  <2>3. CASE path # <<>>
    <3> PICK up : up = Head(path)
      OBVIOUS
    <3> PICK upper : upper = Tail(path)
      OBVIOUS
    <3> PICK n : n = up.at + 1
      OBVIOUS
    <3> PICK u : u = up.el
      OBVIOUS
    <3>1. up \in Step /\ upper \in Seq(Step) /\ Range(path) = Range(upper) \cup {up}
      BY <1>2, <2>3, TopProperties
    <3>2. u \in Elements /\ n \in Nat \ {0}
      <4>1. up.el \in Elements /\ up.at \in Nat \ {0}
        BY <3>1 DEF Step
      <4> PICK m \in Nat \ {0} : m = up.at
        BY <4>1
      <4>2. \A k \in Nat \ {0} : k + 1 \in Nat \ {0}
        OBVIOUS
      <4> QED
        BY <4>1, <4>2
    <3> PICK p : p = <<At(u, n)>> \o upper
      OBVIOUS
    <3>3. Range(p) = Range(upper) \cup {At(u, n)} /\ At(u, n).el = u
      BY <3>1, <3>2, PathPushed, ZenonT(60)
    <3> PICK f : f = CollectFrame(p, more)
      OBVIOUS
    <3>4. f.op = "collect" /\ f.path = p /\ f.all = more
      BY DEF CollectFrame
    <3>5. Become(f)
      BY <1>6, <2>3 DEF CollectTree
    <3>6. \A r : r \in Range(all) \/ r = e \/ (\E s \in Range(path) : s.el = r) => DoomedBy(f, r)
      <4>1. \A s \in Range(path) : \E x \in Range(p) : x.el = s.el
        <5>1. At(u, n) \in Range(p) /\ At(u, n).el = up.el
          BY <3>3
        <5> QED
          BY <3>1, <3>3, <5>1
      <4>2. \A r \in Range(all) \cup {e} : r \in Range(f.all)
        BY <2>1, <3>4
      <4>3. ASSUME NEW r, r \in Range(all) \/ r = e PROVE DoomedBy(f, r)
        BY <3>4, <4>2, <4>3 DEF DoomedBy
      <4>4. ASSUME NEW r, NEW s \in Range(path), s.el = r PROVE DoomedBy(f, r)
        <5>1. PICK x \in Range(p) : x.el = r
          BY <4>1, <4>4
        <5> QED
          BY <3>4, <5>1 DEF DoomedBy
      <4> QED
        BY <4>3, <4>4
    <3> QED
      BY <1>4, <3>5, <3>6
  <2> QED
    BY <2>2, <2>3
<1>7. CASE ~(i > Len(children[e]))
  <2>1. ASSUME NEW n \in Nat \ {0}, Become(CollectFrame(<<At(e, n)>> \o path, all))
        PROVE  RootsOK'
    <3> PICK p : p = <<At(e, n)>> \o path
      OBVIOUS
    <3>1. Range(p) = Range(path) \cup {At(e, n)} /\ At(e, n).el = e
      BY <1>2, PathPushed, ZenonT(60)
    <3> PICK f : f = CollectFrame(p, all)
      OBVIOUS
    <3>2. f.op = "collect" /\ f.path = p /\ f.all = all
      BY DEF CollectFrame
    <3>3. \A r : r \in Range(all) \/ r = e \/ (\E s \in Range(path) : s.el = r) => DoomedBy(f, r)
      BY <3>1, <3>2 DEF DoomedBy
    <3> QED
      BY <1>4, <2>1, <3>3
  <2>2. CASE c \in Players
    BY <1>7, <2>1, <2>2 DEF CollectTree
  <2>3. CASE c \notin Players /\ IsBeingDeleted(c)
    <3>1. i + 1 \in Nat \ {0}
      BY <1>5
    <3>2. Become(CollectFrame(<<At(e, i + 1)>> \o path, all))
      BY <1>7, <2>3 DEF CollectTree
    <3> QED
      BY <2>1, <3>1, <3>2
  <2>4. CASE c \notin Players /\ ~IsBeingDeleted(c)
    <3>1. c \in Elements
      <4>1. i \in 1 .. Len(children[e])
        BY <1>5, <1>7, LenProperties
      <4> QED
        BY <1>5, <4>1, ElementOfSeq
    <3> PICK p : p = <<At(c, 1)>> \o Top.path
      OBVIOUS
    <3>2. Range(p) = Range(Top.path) \cup {At(c, 1)}
      BY <1>2, <3>1, PathPushed
    <3> PICK f : f = CollectFrame(p, all)
      OBVIOUS
    <3>3. f.op = "collect" /\ f.path = p /\ f.all = all
      BY DEF CollectFrame
    <3>4. Become(f)
      BY <1>7, <2>4 DEF CollectTree
    <3>5. \A r : r \in Range(all) \/ r = e \/ (\E s \in Range(path) : s.el = r) => DoomedBy(f, r)
      BY <1>2, <3>2, <3>3 DEF DoomedBy
    <3> QED
      BY <1>4, <3>4, <3>5
  <2> QED
    BY <2>2, <2>3, <2>4
<1> QED
  BY <1>6, <1>7

\* What DeleteTree has collected it marks, unless it is being deleted already.
LEMMA MarkTreeRoots ==
    ASSUME Inv, RootsOK, MarkTree
    PROVE  RootsOK' /\ NoneCreated
<1>0. WorldInv /\ StackInv
  BY DEF Inv
<1>1. stack # <<>> /\ Top.op = "mark" /\ Top.todo # <<>> /\ UNCHANGED vm
  BY DEF MarkTree, Running
<1> PICK e : e = Head(Top.todo)
  OBVIOUS
<1> PICK rest : rest = Tail(Top.todo)
  OBVIOUS
<1>2. e \in Elements /\ Range(Top.todo) = Range(rest) \cup {e}
  <2>1. Top.todo \in Seq(Elements)
    BY <1>0, <1>1, TopFrame, Fields DEF Marked
  <2> QED
    BY <1>1, <2>1, TopProperties
<1>3. \A r : DoomedBy(Top, r) => r = e \/ r \in Range(rest)
  BY <1>1, <1>2 DEF DoomedBy
<1> PICK n : n = MarkFrame(Top.all, rest, FALSE)
  OBVIOUS
<1> PICK f : f = MarkFrame(Top.all, Top.todo, TRUE)
  OBVIOUS
<1>4. n.op = "mark" /\ n.todo = rest /\ f.op = "mark" /\ f.todo = Top.todo
  BY DEF MarkFrame
<1>5. /\ NoneCreated
      /\ \/ Become(n) /\ ~Alive(e)'
         \/ Inside(f, EventFrame(e))
  <2>1. CASE ~Top.called
    <3>1. UNCHANGED <<status, list>> /\ NoneCreated
      BY <2>1 DEF MarkTree, NoneCreated, Alive
    <3>2. IF IsBeingDeleted(e) THEN Become(n) ELSE Inside(f, EventFrame(e))
      BY <2>1 DEF MarkTree
    <3>3. IsBeingDeleted(e) => ~Alive(e)'
      BY <1>0, <3>1 DEF IsBeingDeleted, WorldInv, ListOK, Alive
    <3> QED
      BY <3>1, <3>2, <3>3
  <2>2. CASE Top.called
    <3>1. status' = [status EXCEPT ![e] = "deleting"] /\ Become(n)
      BY <2>2 DEF MarkTree
    <3>2. \A x \in Elements : status'[x] = IF x = e THEN "deleting" ELSE status[x]
      BY <1>0, <1>2, <3>1 DEF WorldInv
    <3>3. NoneCreated
      BY <3>2 DEF NoneCreated, Alive
    <3>4. status'[e] = "deleting"
      BY <1>2, <3>2
    <3>5. ~Alive(e)'
      BY <3>4 DEF Alive
    <3> QED
      BY <3>1, <3>3, <3>5
  <2> QED
    BY <2>1, <2>2
<1>6. /\ Range(Tail(stack)) \subseteq Range(stack')
      /\ (n \in Range(stack') /\ ~Alive(e)') \/ f \in Range(stack')
  BY <1>0, <1>1, <1>5, TreeStack
<1>7. ASSUME NEW r, DoomedBy(Top, r), Alive(r)' PROVE Doomed(r)'
  <2>1. r = e \/ r \in Range(rest)
    BY <1>3, <1>7
  <2>2. CASE n \in Range(stack') /\ ~Alive(e)'
    <3>1. r \in Range(n.todo)
      BY <1>4, <1>7, <2>1, <2>2
    <3> QED
      BY <1>4, <2>2, <3>1 DEF Doomed, DoomedBy
  <2>3. CASE f \in Range(stack')
    <3>1. r \in Range(f.todo)
      BY <1>2, <1>4, <2>1
    <3> QED
      BY <1>4, <2>3, <3>1 DEF Doomed, DoomedBy
  <2> QED
    BY <1>6, <2>2, <2>3
<1> QED
  BY <1>1, <1>5, <1>6, <1>7, RootsKept

\* Nothing is left to mark.
LEMMA UnlinkTreeRoots ==
    ASSUME Inv, RootsOK, UnlinkTree
    PROVE  RootsOK'
<1>0. StackInv
  BY DEF Inv
<1>1. stack # <<>> /\ Top.op = "mark" /\ Top.todo = <<>> /\ UNCHANGED <<status, vm>> /\ NoneCreated
  BY DEF UnlinkTree, Running, NoneCreated, Alive
<1>2. Range(Top.todo) = {}
  BY <1>1, EmptySeq DEF Range
<1>3. \A r : ~DoomedBy(Top, r)
  BY <1>1, <1>2 DEF DoomedBy
<1> PICK f : f = MarkFrame(Tail(Top.all), <<>>, FALSE)
  OBVIOUS
<1>4. stack' = Tail(stack) \/ Become(f)
  BY DEF UnlinkTree
<1>5. Range(Tail(stack)) \subseteq Range(stack')
  BY <1>0, <1>1, <1>4, TreeStack
<1> QED
  BY <1>1, <1>3, <1>5, RootsKept

\* The initial states.
LEMMA InitStop ==
    ASSUME Init
    PROVE  StopOK
<1>0. stack = <<>> /\ vm
  BY DEF Init
<1>1. Range(stack) = {}
  BY <1>0, EmptySeq DEF Range
<1>2. DefaultIsLast /\ ~Stopping
  BY <1>1 DEF DefaultIsLast, Stopping
<1>3. groups["map"] = <<Item, SubItem, Map>>
  BY DEF Init, GroupNames
<1>4. Range(groups["map"]) = MapItems
  <2> PICK s : s = <<Item, SubItem, Map>>
    OBVIOUS
  <2>1. Range(s) = {Item, SubItem, Map}
    BY DEF Range
  <2> QED
    BY <1>3, <2>1 DEF MapItems
<1>5. \A e \in New : ~Alive(e)
  BY DEF Init, Alive, Elements
<1>6. ASSUME NEW g \in GroupNames, NEW e \in Members(g)
      PROVE  MemberOK(g, e)
  BY <1>0, <1>2, <1>4, <1>5 DEF MemberOK, Members, GroupNames
<1>7. GroupsOK
  BY <1>2, <1>6 DEF GroupsOK
<1> QED
  BY <1>0, <1>7 DEF StopOK, RootsOK

\* A step that changes no status.
LEMMA StopUnchanged ==
    ASSUME Inv, StopOK, UNCHANGED <<status, groups, vm>>, stack = <<>> \/ Top.op # "vm",
           NEW ops, ops \subseteq {"call", "delete"}, Calm(ops),
           \A f \in Range(stack) : f.op = "delete" => f \in Range(stack')
    PROVE  StopOK'
<1>1. NoneCreated
  BY DEF NoneCreated, Alive
<1> QED
  BY <1>1, StopCalm

\* Every step keeps what the stop relies on.
LEMMA NextStop ==
    ASSUME Inv, HandlersOK, StopOK, [Next]_vars
    PROVE  StopOK'
<1>0. Inv'
  BY NextInv
<1>1. ASSUME ScriptStarts \/ DoDeleteAll \/ PlayerFreed \/ ScriptReturns
      PROVE  StopOK'
  <2> PICK ops : ops = {}
    OBVIOUS
  <2>1. Calm(ops) /\ ops \subseteq {"call", "delete"}
    BY <1>1, CalmScripts
  <2>2. \A f \in Range(stack) : f.op = "delete" => f \in Range(stack')
    BY <2>1 DEF Calm, Ordinary
  <2>3. UNCHANGED <<status, groups, vm>>
    BY <1>1 DEF ScriptStarts, DoDeleteAll, PlayerFreed, ScriptReturns, tree
  <2>4. stack = <<>> \/ Top.op # "vm"
    BY <1>1 DEF ScriptStarts, DoDeleteAll, PlayerFreed, ScriptReturns, Running, Idle
  <2> QED
    BY <2>1, <2>2, <2>3, <2>4, StopUnchanged
<1>2. ASSUME NEW e \in Elements, DestroyElement(e) PROVE StopOK'
  <2> PICK ops : ops = {}
    OBVIOUS
  <2>1. Calm(ops) /\ ops \subseteq {"call", "delete"}
    BY <1>2, CalmScripts
  <2>2. \A f \in Range(stack) : f.op = "delete" => f \in Range(stack')
    BY <2>1 DEF Calm, Ordinary
  <2>3. UNCHANGED <<status, groups, vm>> /\ Top.op # "vm"
    BY <1>2 DEF DestroyElement, InScript, Running, tree
  <2> QED
    BY <2>1, <2>2, <2>3, StopUnchanged
<1>3. ASSUME NEW p \in Players, QuitPlayer(p) PROVE StopOK'
  <2> PICK ops : ops = {"delete"}
    OBVIOUS
  <2>1. Calm(ops) /\ ops \subseteq {"call", "delete"} /\ Range(stack) \subseteq Range(stack')
    BY <1>3, CalmScripts
  <2>2. UNCHANGED <<status, groups, vm>> /\ Top.op # "vm"
    BY <1>3 DEF QuitPlayer, InScript, Running, tree
  <2> QED
    BY <2>1, <2>2, StopUnchanged
<1>4. ASSUME DestroyItself PROVE StopOK'
  <2> PICK ops : ops = {"delete"}
    OBVIOUS
  <2>1. /\ Calm(ops) /\ ops \subseteq {"call", "delete"}
        /\ \A f \in Range(stack) : f.op = "delete" => f \in Range(stack')
    BY <1>4, CalmDeletion
  <2>2. UNCHANGED <<status, groups, vm>> /\ Top.op # "vm"
    BY <1>4 DEF DestroyItself, Running, tree
  <2> QED
    BY <2>1, <2>2, StopUnchanged
<1>5. ASSUME ChildrenSnapshot \/ CallParentEvent \/ CallChildEvent \/ CallHandler \/ DestroyChild
      PROVE  StopOK'
  <2> PICK ops : ops = {"call"}
    OBVIOUS
  <2>1. Calm(ops) /\ ops \subseteq {"call", "delete"}
    BY <1>5, CallingHandlers DEF HandlersOK
  <2>2. \A f \in Range(stack) : f.op = "delete" => f \in Range(stack')
    BY <2>1 DEF Calm, Ordinary
  <2>3. UNCHANGED <<status, groups, vm>> /\ Top.op # "vm"
    BY <1>5 DEF ChildrenSnapshot, CallParentEvent, CallChildEvent, CallHandler, DestroyChild,
                Running, tree
  <2> QED
    BY <2>1, <2>2, <2>3, StopUnchanged
<1>6. ASSUME TakeOutTheTrash PROVE StopOK'
  <2> PICK ops : ops = {"call"}
    OBVIOUS
  <2>1. stack # <<>> /\ Top.op = "call" /\ stack' = Tail(stack) /\ UNCHANGED <<status, groups, vm>>
    BY <1>6 DEF TakeOutTheTrash, Running, tree
  <2>2. Top.op \in ops /\ ops \subseteq {"call", "delete"}
    BY <2>1
  <2>3. Calm(ops)
    BY <2>1, <2>2, CalmBecome
  <2>4. Range(stack) = {Top} \cup Range(Tail(stack)) /\ Range(stack') = Range(Tail(stack))
    BY <2>1, TopFrame, NewStack DEF Inv
  <2>5. \A f \in Range(stack) : f.op = "delete" => f \in Range(stack')
    BY <2>1, <2>4
  <2> QED
    BY <2>1, <2>2, <2>3, <2>5, StopUnchanged
<1>7. ASSUME DeleteTree \/ CollectTree \/ MarkTree \/ UnlinkTree PROVE StopOK'
  <2>1. NoneCreated /\ RootsOK'
    BY <1>7, DeleteTreeRoots, CollectTreeRoots, MarkTreeRoots, UnlinkTreeRoots
       DEF StopOK, DeleteTree, CollectTree, UnlinkTree, tree, NoneCreated, Alive
  <2>2. ~vm /\ ~vm'
    <3>1. stack # <<>> /\ Top.op \in {"tree", "collect", "mark"} /\ UNCHANGED vm
      BY <1>7 DEF DeleteTree, CollectTree, MarkTree, UnlinkTree, Running
    <3>2. FrameLive(Top)
      BY <3>1, TopFrame DEF Inv
    <3> QED
      BY <3>1, <3>2 DEF FrameLive
  <2>3. GroupsOK'
    BY <1>0, <2>1, <2>2, GroupsClosed
  <2> QED
    BY <2>1, <2>3 DEF StopOK
<1>8. ASSUME UNCHANGED <<status, groups, vm, stack>> PROVE StopOK'
  <2>1. UNCHANGED <<Stopping, DefaultIsLast>>
    BY <1>8 DEF Stopping, DefaultIsLast
  <2>2. ASSUME NEW g, NEW e PROVE MemberOK(g, e)' <=> MemberOK(g, e)
    BY <1>8 DEF MemberOK, InGroup, DeletionStarted, Stopping, Alive
  <2>3. GroupsOK'
    BY <2>1, <2>2 DEF StopOK, GroupsOK, Members
  <2>4. RootsOK'
    BY <1>8 DEF StopOK, RootsOK, Alive, Doomed, DoomedBy
  <2> QED
    BY <2>3, <2>4 DEF StopOK
<1>9. CASE Code
  BY <1>1, <1>4, <1>5, <1>6, <1>7, <1>9, DeleteStop, FreeStop, DeleteGroupStop, DestroyVMStop DEF Code
<1>10. CASE Script
  <2>1. ASSUME NEW e \in Elements, NEW h \in Handlers,
               AddEventHandler(h, e) \/ RemoveEventHandler(h, e)
        PROVE  StopOK'
    BY <1>8, <2>1 DEF AddEventHandler, RemoveEventHandler, tree
  <2>2. ASSUME NEW e \in Elements, NEW p \in Elements, SetElementParent(e, p)
        PROVE  StopOK'
    BY <1>8, <2>2 DEF SetElementParent
  <2>3. ASSUME NEW e \in New, CreateElement(e)
        PROVE  StopOK'
    BY <2>3, CreateElementStop
  <2> QED
    BY <1>2, <1>3, <1>10, <2>1, <2>2, <2>3 DEF Script
<1>11. CASE UNCHANGED vars
  BY <1>8, <1>11 DEF vars, tree
<1> QED
  BY <1>1, <1>9, <1>10, <1>11, StopBegins DEF Next

\* Once the resource's virtual machine is closed, none of its handlers is left on any
\* element; and when Stop has returned, nothing that it owned or created is alive, wherever
\* scripts had moved it and however late they created it.
THEOREM StopIsClean == Spec => []StopLeavesNothing
<1>1. Init => Inv /\ HandlersOK /\ StopOK
  BY InitInv, InitHandlers, InitStop
<1>2. Inv /\ HandlersOK /\ StopOK /\ [Next]_vars => (Inv /\ HandlersOK /\ StopOK)'
  BY NextInv, NextHandlers, NextStop
<1>3. ASSUME Inv, StopOK PROVE StopLeavesNothing
  <2>1. ~vm => \A e \in Elements : Range(events[e]) \cap Own = {}
    BY <1>3 DEF Inv, WorldInv, EventsOK
  <2>2. ASSUME ~vm, stack = <<>>, NEW e \in Elements \ ({Root} \cup Players) PROVE ~Alive(e)
    <3>1. CASE e \in {Resource, Dynamic}
      <4>1. Range(stack) = {}
        BY <2>2, EmptySeq DEF Range
      <4> QED
        BY <1>3, <2>2, <3>1, <4>1 DEF StopOK, RootsOK, Doomed
    <3>2. CASE e \in MapItems \cup New
      <4>1. e \in Members("map") \/ e \in Members("default")
        BY <3>2 DEF Members
      <4> QED
        BY <1>3, <2>2, <4>1 DEF StopOK, GroupsOK, MemberOK, GroupNames
    <3> QED
      BY <3>1, <3>2 DEF Elements
  <2> QED
    BY <2>1, <2>2 DEF StopLeavesNothing
<1> QED
  BY <1>1, <1>2, <1>3, PTL DEF Spec

=============================================================================
