-------------------------- MODULE VideoMixer_proofs --------------------------
(***************************************************************************)
(* What holds of a video node that mixes (VideoMixer), for any number of    *)
(* streams, places, layouts, calls and refusals.                            *)
(*                                                                          *)
(* The node's lists are read as sets: the streams with a place, those that  *)
(* wait, the free places and the listed ones.  What a stream that waits,    *)
(* takes a place, leaves it or takes another's does to the sets is proved   *)
(* once, and each call is a few of these.  setLayout, which adds everything *)
(* again in another order, hands out the places that were taken before.     *)
(***************************************************************************)
EXTENDS VideoMixer, FiniteSetTheorems, SequenceTheorems, NaturalsInduction, TLAPS

-----------------------------------------------------------------------------
(* Lists without repetitions                                                *)

LEMMA LeastIs ==
  ASSUME NEW I, I \subseteq Nat, I # {}
  PROVE  Min(I) \in I /\ \A i \in I : Min(I) <= i
<1> DEFINE R == {p \in Nat \X Nat : p[1] < p[2]}
<1>1. IsWellFoundedOn(R, Nat)
  BY NatLessThanWellFounded DEF OpToRel
<1>2. PICK x \in I : \A y \in I : ~(<<y, x>> \in R)
  BY <1>1, WFMin
<1>3. \A y \in I : x <= y
  <2> SUFFICES ASSUME NEW y \in I PROVE x <= y
    OBVIOUS
  <2>1. <<y, x>> \notin R /\ x \in Nat /\ y \in Nat
    BY <1>2
  <2>2. <<y, x>> \in R <=> y < x
    BY <2>1
  <2> QED
    BY <2>1, <2>2
<1>4. \E y \in I : \A z \in I : y <= z
  BY <1>3
<1> QED
  BY <1>4, Zenon DEF Min

LEMMA PlacesOf ==
  ASSUME NEW T, NEW q \in Seq(T)
  PROVE  /\ Len(q) \in Nat /\ DOMAIN q = 1..Len(q)
         /\ \A x : x \in ToSet(q) <=> \E i \in 1..Len(q) : q[i] = x
         /\ ToSet(q) \subseteq T
         /\ IsInjective(q) <=> \A i, j \in 1..Len(q) : q[i] = q[j] => i = j
         /\ q = <<>> <=> ToSet(q) = {}
         /\ q = <<>> <=> Len(q) = 0
BY DEF ToSet, IsInjective

\* A list without repetitions has as many places as elements.
LEMMA LengthIs ==
  ASSUME NEW T, NEW q \in Seq(T), IsInjective(q)
  PROVE  IsFiniteSet(ToSet(q)) /\ Cardinality(ToSet(q)) = Len(q)
<1>1. Len(q) \in Nat /\ DOMAIN q = 1..Len(q) /\ \A y : y \in ToSet(q) <=> \E i \in 1..Len(q) : q[i] = y
  BY PlacesOf
<1>2. q \in Surjection(1..Len(q), ToSet(q)) /\ q \in Injection(1..Len(q), ToSet(q))
  <2>1. q \in [1..Len(q) -> ToSet(q)]
    BY <1>1
  <2> QED
    BY <1>1, <2>1 DEF Surjection, Injection
<1>3. IsFiniteSet(1..Len(q)) /\ Cardinality(1..Len(q)) = Len(q)
  BY <1>1, FS_Interval
<1> QED
  BY <1>2, <1>3, FS_Surjection

LEMMA Appended ==
  ASSUME NEW T, NEW q \in Seq(T), NEW x \in T
  PROVE  /\ Append(q, x) \in Seq(T) /\ Len(Append(q, x)) = Len(q) + 1 /\ Append(q, x) # <<>>
         /\ ToSet(Append(q, x)) = ToSet(q) \cup {x}
         /\ IsInjective(q) /\ x \notin ToSet(q) => IsInjective(Append(q, x))
         /\ Front(Append(q, x)) = q /\ Last(Append(q, x)) = x
<1> DEFINE p == Append(q, x)
<1>0. Len(q) \in Nat /\ \A y : y \in ToSet(q) <=> \E i \in 1..Len(q) : q[i] = y
  BY PlacesOf
<1>1. p \in Seq(T) /\ Len(p) = Len(q) + 1 /\ p[Len(q) + 1] = x /\ \A i \in 1..Len(q) : p[i] = q[i]
  BY AppendProperties
<1>2. Front(p) = q /\ Last(p) = x
  <2>1. Last(p) = x
    BY <1>1 DEF Last
  <2>2. Front(p) = SubSeq(p, 1, Len(q))
    BY <1>0, <1>1 DEF Front
  <2>3. SubSeq(Append(q, x), 1, Len(q)) = q
    <3> HIDE DEF p
    <3>1. SubSeq(p, 1, Len(q)) = [i \in 1..Len(q) |-> p[i]]
      BY <1>0, <1>1
    <3>2. q = [i \in 1..Len(q) |-> q[i]]
      OBVIOUS
    <3> QED
      BY <1>1, <3>1, <3>2 DEF p
  <2> QED
    BY <2>1, <2>2, <2>3
<1> HIDE DEF p
<1>3. \A y : y \in ToSet(p) <=> \E i \in 1..Len(q) + 1 : p[i] = y
  BY <1>1, PlacesOf
<1>4. \A i \in 1..Len(q) + 1 : i \in 1..Len(q) \/ i = Len(q) + 1
  BY <1>0
<1>5. (\A i \in 1..Len(q) : i \in 1..Len(q) + 1) /\ Len(q) + 1 \in 1..Len(q) + 1
  BY <1>0
<1>6. ToSet(p) = ToSet(q) \cup {x}
  <2>1. \A y \in ToSet(p) : y \in ToSet(q) \cup {x}
    BY <1>0, <1>1, <1>3, <1>4
  <2>2. \A y \in ToSet(q) : y \in ToSet(p)
    BY <1>0, <1>1, <1>3, <1>5
  <2>3. x \in ToSet(p)
    BY <1>1, <1>3, <1>5
  <2> QED
    BY <2>1, <2>2, <2>3
<1>7. ASSUME IsInjective(q), x \notin ToSet(q) PROVE IsInjective(p)
  <2>1. \A i, j \in 1..Len(q) : q[i] = q[j] => i = j
    BY <1>7, PlacesOf
  <2>2. \A i \in 1..Len(q) : q[i] # x
    BY <1>0, <1>7
  <2>3. \A i, j \in 1..Len(q) + 1 : p[i] = p[j] => i = j
    BY <1>1, <1>4, <2>1, <2>2
  <2> QED
    BY <1>1, <2>3, PlacesOf
<1>8. p # <<>>
  BY <1>0, <1>1
<1> QED
  BY <1>1, <1>2, <1>6, <1>7, <1>8 DEF p

\* The first, and the others.
LEMMA Shifted ==
  ASSUME NEW T, NEW q \in Seq(T), q # <<>>
  PROVE  /\ Head(q) \in ToSet(q) /\ Tail(q) \in Seq(T)
         /\ ToSet(q) = {Head(q)} \cup ToSet(Tail(q))
         /\ IsInjective(q) => IsInjective(Tail(q)) /\ Head(q) \notin ToSet(Tail(q))
<1> DEFINE p == Tail(q)
           h == Head(q)
<1>0. Len(q) \in Nat /\ Len(q) > 0 /\ \A y : y \in ToSet(q) <=> \E i \in 1..Len(q) : q[i] = y
  BY PlacesOf
<1>1. p \in Seq(T) /\ Len(p) = Len(q) - 1 /\ h = q[1] /\ \A i \in 1..Len(q) - 1 : p[i] = q[i + 1]
  BY HeadTailProperties
<1> HIDE DEF p, h
<1>2. \A y : y \in ToSet(p) <=> \E i \in 1..Len(q) - 1 : p[i] = y
  BY <1>1, PlacesOf
<1>3. \A i \in 1..Len(q) : i = 1 \/ (i - 1 \in 1..Len(q) - 1 /\ p[i - 1] = q[i])
  BY <1>0, <1>1
<1>4. 1 \in 1..Len(q) /\ \A i \in 1..Len(q) - 1 : i + 1 \in 1..Len(q)
  BY <1>0
<1>5. ToSet(q) = {h} \cup ToSet(p)
  <2>1. \A y \in ToSet(q) : y \in {h} \cup ToSet(p)
    BY <1>0, <1>1, <1>2, <1>3
  <2>2. h \in ToSet(q)
    BY <1>0, <1>1, <1>4
  <2>3. \A y \in ToSet(p) : y \in ToSet(q)
    BY <1>0, <1>1, <1>2, <1>4
  <2> QED
    BY <2>1, <2>2, <2>3
<1>6. ASSUME IsInjective(q) PROVE IsInjective(p) /\ h \notin ToSet(p)
  <2>1. \A i, j \in 1..Len(q) : q[i] = q[j] => i = j
    BY <1>6, PlacesOf
  <2>2. ASSUME NEW i \in 1..Len(q) - 1, NEW j \in 1..Len(q) - 1, p[i] = p[j]
        PROVE  i = j
    <3>1. i + 1 = j + 1
      BY <1>1, <1>4, <2>1, <2>2
    <3> QED
      BY <1>0, <3>1
  <2>3. IsInjective(p)
    BY <1>1, <2>2, PlacesOf
  <2>4. ASSUME h \in ToSet(p) PROVE FALSE
    <3>1. PICK i \in 1..Len(q) - 1 : p[i] = h
      BY <1>2, <2>4
    <3>2. i + 1 = 1
      BY <1>1, <1>4, <2>1, <3>1
    <3> QED
      BY <1>0, <3>2
  <2> QED
    BY <2>3, <2>4
<1> QED
  BY <1>1, <1>5, <1>6 DEF p, h

\* The last, and the others.
LEMMA Popped ==
  ASSUME NEW T, NEW q \in Seq(T), q # <<>>
  PROVE  /\ Last(q) \in ToSet(q) /\ Front(q) \in Seq(T)
         /\ ToSet(q) = ToSet(Front(q)) \cup {Last(q)}
         /\ IsInjective(q) => IsInjective(Front(q)) /\ Last(q) \notin ToSet(Front(q))
<1> DEFINE p == Front(q)
           n == Len(q)
<1>0. n \in Nat /\ n > 0 /\ \A y : y \in ToSet(q) <=> \E i \in 1..n : q[i] = y
  BY PlacesOf
<1>1. p \in Seq(T) /\ Len(p) = n - 1 /\ \A i \in 1..n - 1 : p[i] = q[i]
  <2>1. n - 1 \in Nat /\ \A i \in 1..n - 1 : q[i] \in T
    BY <1>0
  <2>2. /\ SubSeq(q, 1, n - 1) \in Seq(T)
        /\ Len(SubSeq(q, 1, n - 1)) = IF 1 <= n - 1 THEN (n - 1) - 1 + 1 ELSE 0
        /\ \A i \in 1..(n - 1) - 1 + 1 : SubSeq(q, 1, n - 1)[i] = q[1 + i - 1]
    <3> HIDE DEF n
    <3> QED
      BY <2>1, SubSeqProperties
  <2>3. /\ SubSeq(q, 1, n - 1) \in Seq(T) /\ Len(SubSeq(q, 1, n - 1)) = n - 1
        /\ \A i \in 1..n - 1 : SubSeq(q, 1, n - 1)[i] = q[i]
    <3> HIDE DEF n
    <3> QED
      BY <1>0, <2>1, <2>2
  <2> QED
    BY <2>3 DEF Front
<1> HIDE DEF p
<1>2. \A y : y \in ToSet(p) <=> \E i \in 1..n - 1 : p[i] = y
  BY <1>1, PlacesOf
<1>3. Last(q) = q[n] /\ n \in 1..n /\ \A i \in 1..n : i \in 1..n - 1 \/ i = n
  BY <1>0 DEF Last
<1>4. \A i \in 1..n - 1 : i \in 1..n /\ i # n
  BY <1>0
<1>5. ToSet(q) = ToSet(p) \cup {Last(q)}
  BY <1>0, <1>1, <1>2, <1>3, <1>4
<1>6. ASSUME IsInjective(q) PROVE IsInjective(p) /\ Last(q) \notin ToSet(p)
  <2>1. \A i, j \in 1..n : q[i] = q[j] => i = j
    BY <1>6, PlacesOf
  <2>2. \A i, j \in 1..n - 1 : p[i] = p[j] => i = j
    BY <1>1, <1>4, <2>1
  <2>3. IsInjective(p)
    BY <1>1, <2>2, PlacesOf
  <2> QED
    BY <1>1, <1>2, <1>3, <1>4, <2>1, <2>3
<1> QED
  BY <1>0, <1>1, <1>3, <1>5, <1>6 DEF p

\* A place of a list is cut out of it.
LEMMA CutOut ==
  ASSUME NEW T, NEW q \in Seq(T), NEW i \in 1..Len(q)
  PROVE  /\ RemoveAt(q, i) \in Seq(T) /\ Len(RemoveAt(q, i)) = Len(q) - 1
         /\ \A j \in 1..Len(q) - 1 : RemoveAt(q, i)[j] = IF j < i THEN q[j] ELSE q[j + 1]
<1> DEFINE a == SubSeq(q, 1, i - 1)
           b == SubSeq(q, i + 1, Len(q))
<1>1. a \in Seq(T) /\ Len(a) = i - 1 /\ \A j \in 1..i - 1 : a[j] = q[j]
  OBVIOUS
<1>2. b \in Seq(T) /\ Len(b) = Len(q) - i /\ \A j \in 1..Len(q) - i : b[j] = q[i + j]
  OBVIOUS
<1>3. RemoveAt(q, i) = a \o b
  BY DEF RemoveAt
<1> HIDE DEF a, b
<1> DEFINE p == a \o b
<1>4. /\ p \in Seq(T) /\ Len(p) = Len(a) + Len(b)
      /\ \A j \in 1..Len(a) + Len(b) : p[j] = IF j <= Len(a) THEN a[j] ELSE b[j - Len(a)]
  BY <1>1, <1>2, ConcatProperties
<1> HIDE DEF p
<1>5. Len(q) \in Nat /\ Len(p) = Len(q) - 1 /\ \A j \in 1..Len(q) - 1 : j \in 1..Len(a) + Len(b)
  BY <1>1, <1>2, <1>4
<1>6. \A j \in 1..Len(q) - 1 : j < i => p[j] = q[j]
  BY <1>1, <1>2, <1>4, <1>5
<1>7. ASSUME NEW j \in 1..Len(q) - 1, ~(j < i) PROVE p[j] = q[j + 1]
  <2>1. j - Len(a) \in 1..Len(q) - i /\ ~(j <= Len(a))
    BY <1>1, <1>5, <1>7
  <2>2. p[j] = b[j - Len(a)]
    BY <1>4, <1>5, <2>1
  <2>3. b[j - Len(a)] = q[i + (j - Len(a))] /\ i + (j - Len(a)) = j + 1
    BY <1>1, <1>2, <2>1
  <2> QED
    BY <2>2, <2>3
<1> QED
  BY <1>3, <1>4, <1>5, <1>6, <1>7 DEF p

\* Where an element of a list is found.
LEMMA FoundAt ==
  ASSUME NEW T, NEW q \in Seq(T), NEW x \in ToSet(q)
  PROVE  SelectInSeq(q, LAMBDA v : v = x) \in 1..Len(q) /\ q[SelectInSeq(q, LAMBDA v : v = x)] = x
<1> DEFINE I == {i \in 1..Len(q) : q[i] = x}
<1>1. I \subseteq Nat /\ I # {}
  BY PlacesOf
<1>2. Min(I) \in I
  BY <1>1, LeastIs
<1>3. SelectInSeq(q, LAMBDA v : v = x) = Min(I)
  BY <1>1 DEF SelectInSeq
<1> QED
  BY <1>2, <1>3

\* What indexOf and splice, or delete, leave of a list without repetitions.
LEMMA WithoutOne ==
  ASSUME NEW T, NEW q \in Seq(T), NEW x \in ToSet(q), IsInjective(q)
  PROVE  /\ RemoveFirst(q, x) \in Seq(T) /\ Len(RemoveFirst(q, x)) = Len(q) - 1
         /\ ToSet(RemoveFirst(q, x)) = ToSet(q) \ {x} /\ IsInjective(RemoveFirst(q, x))
<1> DEFINE p == RemoveFirst(q, x)
           i == SelectInSeq(q, LAMBDA v : v = x)
<1>0. /\ Len(q) \in Nat /\ \A y : y \in ToSet(q) <=> \E j \in 1..Len(q) : q[j] = y
      /\ \A j, k \in 1..Len(q) : q[j] = q[k] => j = k
  BY PlacesOf
<1>1. i \in 1..Len(q) /\ q[i] = x
  BY FoundAt
<1>2. p = RemoveAt(q, i)
  BY <1>0, Zenon DEF RemoveFirst
<1> HIDE DEF i
<1>3. /\ p \in Seq(T) /\ Len(p) = Len(q) - 1
      /\ \A j \in 1..Len(q) - 1 : p[j] = IF j < i THEN q[j] ELSE q[j + 1]
  BY <1>1, <1>2, CutOut
<1> HIDE DEF p
<1>4. \A y : y \in ToSet(p) <=> \E j \in 1..Len(q) - 1 : p[j] = y
  BY <1>3, PlacesOf
<1>5. ASSUME NEW y \in ToSet(p) PROVE y \in ToSet(q) \ {x}
  <2>1. PICK j \in 1..Len(q) - 1 : p[j] = y
    BY <1>4
  <2>2. PICK k \in 1..Len(q) : q[k] = y /\ k # i
    BY <1>0, <1>1, <1>3, <2>1
  <2> QED
    BY <1>0, <1>1, <2>2
<1>6. ASSUME NEW y \in ToSet(q) \ {x} PROVE y \in ToSet(p)
  <2>1. PICK k \in 1..Len(q) : q[k] = y /\ k # i
    BY <1>0, <1>1
  <2>2. CASE k < i
    <3>1. k \in 1..Len(q) - 1 /\ p[k] = y
      BY <1>0, <1>1, <1>3, <2>1, <2>2
    <3> QED
      BY <1>4, <3>1
  <2>3. CASE k > i
    <3>1. k - 1 \in 1..Len(q) - 1 /\ p[k - 1] = y
      BY <1>0, <1>1, <1>3, <2>1, <2>3
    <3> QED
      BY <1>4, <3>1
  <2> QED
    BY <1>0, <1>1, <2>1, <2>2, <2>3
<1>7. IsInjective(p)
  <2> SUFFICES ASSUME NEW j \in 1..Len(q) - 1, NEW k \in 1..Len(q) - 1, p[j] = p[k]
               PROVE  j = k
    BY <1>3, PlacesOf
  <2>1. /\ (IF j < i THEN j ELSE j + 1) \in 1..Len(q) /\ p[j] = q[IF j < i THEN j ELSE j + 1]
        /\ (IF k < i THEN k ELSE k + 1) \in 1..Len(q) /\ p[k] = q[IF k < i THEN k ELSE k + 1]
    BY <1>0, <1>1, <1>3
  <2>2. (IF j < i THEN j ELSE j + 1) = (IF k < i THEN k ELSE k + 1)
    BY <1>0, <2>1
  <2> QED
    BY <1>1, <2>2
<1>8. ToSet(p) = ToSet(q) \ {x}
  BY <1>5, <1>6
<1> QED
  BY <1>3, <1>7, <1>8 DEF p

LEMMA Chained ==
  ASSUME NEW T, NEW a \in Seq(T), NEW b \in Seq(T)
  PROVE  /\ a \o b \in Seq(T) /\ Len(a \o b) = Len(a) + Len(b)
         /\ ToSet(a \o b) = ToSet(a) \cup ToSet(b)
         /\ IsInjective(a) /\ IsInjective(b) /\ ToSet(a) \cap ToSet(b) = {} => IsInjective(a \o b)
         /\ \A i \in 1..Len(a) : (a \o b)[i] = a[i]
         /\ \A i \in 1..Len(b) : (a \o b)[Len(a) + i] = b[i]
<1> DEFINE p == a \o b
<1>0. /\ Len(a) \in Nat /\ Len(b) \in Nat
      /\ \A y : y \in ToSet(a) <=> \E j \in 1..Len(a) : a[j] = y
      /\ \A y : y \in ToSet(b) <=> \E j \in 1..Len(b) : b[j] = y
  BY PlacesOf
<1>1. /\ p \in Seq(T) /\ Len(p) = Len(a) + Len(b)
      /\ \A i \in 1..Len(a) + Len(b) : p[i] = IF i <= Len(a) THEN a[i] ELSE b[i - Len(a)]
  BY ConcatProperties
<1> HIDE DEF p
<1>2. \A i \in 1..Len(a) : i \in 1..Len(p) /\ p[i] = a[i]
  BY <1>0, <1>1
<1>3. ASSUME NEW i \in 1..Len(b) PROVE Len(a) + i \in 1..Len(p) /\ p[Len(a) + i] = b[i]
  <2>1. Len(a) + i \in 1..Len(a) + Len(b) /\ ~(Len(a) + i <= Len(a)) /\ (Len(a) + i) - Len(a) = i
    BY <1>0
  <2> QED
    BY <1>1, <2>1
<1>4. ASSUME NEW i \in 1..Len(p) PROVE i \in 1..Len(a) \/ \E j \in 1..Len(b) : i = Len(a) + j
  <2>1. i \in 1..Len(a) \/ (i - Len(a) \in 1..Len(b) /\ i = Len(a) + (i - Len(a)))
    BY <1>0, <1>1
  <2> QED
    BY <2>1
<1>5. \A y : y \in ToSet(p) <=> \E j \in 1..Len(p) : p[j] = y
  BY <1>1, PlacesOf
<1>6. ToSet(p) = ToSet(a) \cup ToSet(b)
  <2>1. ASSUME NEW y \in ToSet(p) PROVE y \in ToSet(a) \cup ToSet(b)
    <3>1. PICK i \in 1..Len(p) : p[i] = y
      BY <1>5
    <3>2. CASE i \in 1..Len(a)
      BY <1>0, <1>2, <3>1, <3>2
    <3>3. CASE i \notin 1..Len(a)
      <4>1. PICK j \in 1..Len(b) : i = Len(a) + j
        BY <1>4, <3>3
      <4>2. b[j] = y
        BY <1>3, <3>1, <4>1
      <4> QED
        BY <1>0, <4>2
    <3> QED
      BY <3>2, <3>3
  <2>2. \A y \in ToSet(a) : y \in ToSet(p)
    BY <1>0, <1>2, <1>5
  <2>3. \A y \in ToSet(b) : y \in ToSet(p)
    BY <1>0, <1>3, <1>5
  <2> QED
    BY <2>1, <2>2, <2>3
<1>7. ASSUME IsInjective(a), IsInjective(b), ToSet(a) \cap ToSet(b) = {} PROVE IsInjective(p)
  <2>1. /\ \A j, k \in 1..Len(a) : a[j] = a[k] => j = k
        /\ \A j, k \in 1..Len(b) : b[j] = b[k] => j = k
    BY <1>7, PlacesOf
  <2>2. \A j \in 1..Len(a), k \in 1..Len(b) : a[j] # b[k]
    BY <1>0, <1>7
  <2>3. ASSUME NEW i \in 1..Len(p), NEW j \in 1..Len(p), p[i] = p[j] PROVE i = j
    <3>1. CASE i \in 1..Len(a) /\ j \in 1..Len(a)
      BY <1>2, <2>1, <2>3, <3>1
    <3>2. CASE i \notin 1..Len(a) /\ j \notin 1..Len(a)
      <4>1. PICK x \in 1..Len(b) : i = Len(a) + x
        BY <1>4, <3>2
      <4>2. PICK y \in 1..Len(b) : j = Len(a) + y
        BY <1>4, <3>2
      <4>3. b[x] = b[y]
        BY <1>3, <2>3, <4>1, <4>2
      <4> QED
        BY <2>1, <4>1, <4>2, <4>3
    <3>3. CASE i \in 1..Len(a) /\ j \notin 1..Len(a)
      BY <1>2, <1>3, <1>4, <2>2, <2>3, <3>3
    <3>4. CASE i \notin 1..Len(a) /\ j \in 1..Len(a)
      BY <1>2, <1>3, <1>4, <2>2, <2>3, <3>4
    <3> QED
      BY <3>1, <3>2, <3>3, <3>4
  <2> QED
    BY <1>1, <2>3, PlacesOf
<1> QED
  BY <1>1, <1>2, <1>3, <1>6, <1>7 DEF p

LEMMA Reversed ==
  ASSUME NEW T, NEW q \in Seq(T)
  PROVE  /\ Reverse(q) \in Seq(T) /\ Len(Reverse(q)) = Len(q) /\ ToSet(Reverse(q)) = ToSet(q)
         /\ IsInjective(q) => IsInjective(Reverse(q))
<1> DEFINE p == Reverse(q)
           n == Len(q)
<1>0. n \in Nat /\ \A y : y \in ToSet(q) <=> \E i \in 1..n : q[i] = y
  BY PlacesOf
<1>1. \A i \in 1..n : (n - i) + 1 \in 1..n /\ (n - ((n - i) + 1)) + 1 = i
  BY <1>0
<1>2. p \in [1..n -> T] /\ \A i \in 1..n : p[i] = q[(n - i) + 1]
  BY <1>1 DEF Reverse
<1> HIDE DEF p
<1>3. p \in Seq(T) /\ DOMAIN p = 1..n
  BY <1>0, <1>2
<1>4. Len(p) = n
  BY <1>0, <1>3
<1> HIDE DEF n
<1>5. \A y : y \in ToSet(p) <=> \E i \in 1..n : p[i] = y
  BY <1>3, <1>4, PlacesOf
<1>6. ToSet(p) = ToSet(q)
  <2>1. \A y \in ToSet(p) : y \in ToSet(q)
    BY <1>0, <1>1, <1>2, <1>5
  <2>2. ASSUME NEW i \in 1..n PROVE q[i] = p[(n - i) + 1]
    <3>1. (n - i) + 1 \in 1..n
      BY <1>1
    <3>2. p[(n - i) + 1] = q[(n - ((n - i) + 1)) + 1]
      BY <1>2, <3>1
    <3> QED
      BY <1>1, <3>2
  <2>3. \A y \in ToSet(q) : y \in ToSet(p)
    BY <1>0, <1>1, <1>5, <2>2
  <2> QED
    BY <2>1, <2>3
<1>7. ASSUME IsInjective(q) PROVE IsInjective(p)
  <2>1. \A i, j \in 1..n : q[i] = q[j] => i = j
    BY <1>7, PlacesOf DEF n
  <2>2. ASSUME NEW i \in 1..n, NEW j \in 1..n, p[i] = p[j] PROVE i = j
    <3>1. (n - i) + 1 = (n - j) + 1
      BY <1>1, <1>2, <2>1, <2>2
    <3> QED
      BY <1>0, <3>1
  <2> QED
    BY <1>3, <1>4, <2>2, PlacesOf
<1> QED
  BY <1>3, <1>4, <1>6, <1>7 DEF p, n

LEMMA SwappedIs ==
  ASSUME NEW T, NEW q \in Seq(T), NEW a \in 1..Len(q), NEW b \in 1..Len(q)
  PROVE  /\ Swapped(q, a, b) \in Seq(T) /\ Len(Swapped(q, a, b)) = Len(q)
         /\ ToSet(Swapped(q, a, b)) = ToSet(q)
         /\ IsInjective(q) => IsInjective(Swapped(q, a, b))
<1> DEFINE p == Swapped(q, a, b)
           n == Len(q)
           at(i) == IF i = a THEN b ELSE IF i = b THEN a ELSE i
<1>0. n \in Nat /\ q \in [1..n -> T] /\ \A y : y \in ToSet(q) <=> \E i \in 1..n : q[i] = y
  BY PlacesOf
<1>1. p \in [1..n -> T] /\ \A i \in 1..n : p[i] = q[at(i)]
  BY <1>0 DEF Swapped
<1>2. \A i \in 1..n : at(i) \in 1..n /\ at(at(i)) = i
  OBVIOUS
<1> HIDE DEF p
<1>3. p \in Seq(T) /\ DOMAIN p = 1..n
  BY <1>0, <1>1
<1>4. Len(p) = n
  BY <1>0, <1>3
<1> HIDE DEF n, at
<1>5. \A y : y \in ToSet(p) <=> \E i \in 1..n : p[i] = y
  BY <1>3, <1>4, PlacesOf
<1>6. ToSet(p) = ToSet(q)
  <2>1. \A y \in ToSet(p) : y \in ToSet(q)
    BY <1>0, <1>1, <1>2, <1>5
  <2>2. \A i \in 1..n : q[i] = p[at(i)]
    BY <1>1, <1>2
  <2>3. \A y \in ToSet(q) : y \in ToSet(p)
    BY <1>0, <1>2, <1>5, <2>2
  <2> QED
    BY <2>1, <2>3
<1>7. ASSUME IsInjective(q) PROVE IsInjective(p)
  <2>1. \A i, j \in 1..n : q[i] = q[j] => i = j
    BY <1>7, PlacesOf DEF n
  <2>2. ASSUME NEW i \in 1..n, NEW j \in 1..n, p[i] = p[j] PROVE i = j
    <3>1. at(i) = at(j)
      BY <1>1, <1>2, <2>1, <2>2
    <3> QED
      BY <1>2, <3>1
  <2> QED
    BY <1>3, <1>4, <2>2, PlacesOf
<1> QED
  BY <1>3, <1>4, <1>6, <1>7 DEF p, n

\* The place of an element among those before it that are in I.
Rank(I, i) == Cardinality({j \in I : j <= i})

LEMMA RanksDiffer ==
  ASSUME NEW n \in Nat, NEW I \in SUBSET (1..n), NEW i \in I, NEW j \in I, Rank(I, i) = Rank(I, j)
  PROVE  i = j
<1>1. ASSUME NEW a \in I, NEW b \in I, a < b, Rank(I, a) = Rank(I, b) PROVE FALSE
  <2> DEFINE A == {k \in I : k <= a}
             B == {k \in I : k <= b}
  <2>1. IsFiniteSet(1..n)
    BY FS_Interval
  <2>2. B \in SUBSET (1..n) /\ A \in SUBSET B /\ b \in B /\ b \notin A
    <3>1. \A k \in I : k \in Int
      OBVIOUS
    <3>2. a \in Int /\ b \in Int
      BY <3>1
    <3>3. \A k \in I : k <= a => k <= b
      BY <1>1, <3>1, <3>2
    <3>4. b <= b /\ ~(b <= a)
      BY <1>1, <3>2
    <3> QED
      BY <3>3, <3>4
  <2>3. IsFiniteSet(B)
    BY <2>1, <2>2, FS_Subset
  <2>4. Cardinality(A) = Cardinality(B)
    BY <1>1 DEF Rank
  <2> HIDE DEF A, B
  <2>5. A = B
    BY <2>2, <2>3, <2>4, FS_Subset
  <2> QED
    BY <2>2, <2>5
<1>2. i \in Int /\ j \in Int
  OBVIOUS
<1> QED
  BY <1>1, <1>2

LEMMA Ranked ==
  ASSUME NEW n \in Nat, NEW I \in SUBSET (1..n)
  PROVE  /\ IsFiniteSet(I) /\ Cardinality(I) \in Nat
         /\ \A i \in I : Rank(I, i) \in 1..Cardinality(I)
         /\ \A k \in 1..Cardinality(I) : \E i \in I : Rank(I, i) = k
<1>1. IsFiniteSet(1..n)
  BY FS_Interval
<1>2. IsFiniteSet(I) /\ Cardinality(I) \in Nat
  BY <1>1, FS_Subset, FS_CardinalityType
<1>3. ASSUME NEW i \in I PROVE Rank(I, i) \in 1..Cardinality(I)
  <2> DEFINE A == {k \in I : k <= i}
  <2>1. A \in SUBSET I /\ A # {}
    OBVIOUS
  <2> HIDE DEF A
  <2>2. IsFiniteSet(A) /\ Cardinality(A) <= Cardinality(I)
    BY <1>2, <2>1, FS_Subset
  <2>3. Cardinality(A) \in Nat /\ Cardinality(A) # 0
    BY <2>1, <2>2, FS_CardinalityType, FS_EmptySet
  <2> QED
    BY <1>2, <2>2, <2>3 DEF Rank, A
<1> DEFINE f == [i \in I |-> Rank(I, i)]
           K == 1..Cardinality(I)
<1>4. f \in Injection(I, K)
  BY <1>3, RanksDiffer DEF Injection, IsInjective
<1>5. IsFiniteSet(K) /\ Cardinality(K) = Cardinality(I)
  BY <1>2, FS_Interval
<1>6. f \in Surjection(I, K)
  BY <1>4, <1>5, FS_Injection
<1>7. \A k \in K : \E i \in I : f[i] = k
  BY <1>6 DEF Surjection
<1> QED
  BY <1>2, <1>3, <1>7

LEMMA KeptIs ==
  ASSUME NEW T, NEW q \in Seq(T), NEW S
  PROVE  /\ Kept(q, S) \in Seq(T \cap S) /\ ToSet(Kept(q, S)) = ToSet(q) \cap S
         /\ (\A i, j \in 1..Len(q) : q[i] = q[j] /\ q[i] \in S => i = j) => IsInjective(Kept(q, S))
         /\ IsInjective(q) => IsInjective(Kept(q, S))
<1> DEFINE I == {i \in DOMAIN q : q[i] \in S}
           n == Cardinality(I)
           at(k) == CHOOSE i \in I : Rank(I, i) = k
           p == Kept(q, S)
<1>0. Len(q) \in Nat /\ DOMAIN q = 1..Len(q) /\ \A y : y \in ToSet(q) <=> \E i \in 1..Len(q) : q[i] = y
  BY PlacesOf
<1>1. I \in SUBSET (1..Len(q)) /\ \A i \in I : q[i] \in T \cap S
  BY <1>0
<1>2. p = [k \in 1..n |-> q[at(k)]]
  BY DEF Kept, Rank
<1>3. \A y : y \in ToSet(q) \cap S <=> \E i \in I : q[i] = y
  BY <1>0
<1> HIDE DEF I, p
<1>4. /\ n \in Nat /\ \A i \in I : Rank(I, i) \in 1..n
      /\ \A k \in 1..n : \E i \in I : Rank(I, i) = k
  BY <1>0, <1>1, Ranked
<1>5. \A k \in 1..n : at(k) \in I /\ Rank(I, at(k)) = k
  BY <1>4
<1>6. ASSUME NEW i \in I PROVE at(Rank(I, i)) = i
  <2>1. Rank(I, i) \in 1..n
    BY <1>4
  <2>2. at(Rank(I, i)) \in I /\ Rank(I, at(Rank(I, i))) = Rank(I, i)
    BY <1>5, <2>1
  <2> QED
    BY <1>0, <1>1, <2>2, RanksDiffer
<1> HIDE DEF n, at
<1>7. p \in [1..n -> T \cap S] /\ \A k \in 1..n : p[k] = q[at(k)]
  BY <1>1, <1>2, <1>5
<1>8. p \in Seq(T \cap S) /\ DOMAIN p = 1..n
  BY <1>4, <1>7
<1>9. Len(p) = n
  BY <1>4, <1>8
<1>10. \A y : y \in ToSet(p) <=> \E k \in 1..n : p[k] = y
  BY <1>8, <1>9, PlacesOf
<1>11. ToSet(p) = ToSet(q) \cap S
  <2>1. \A y \in ToSet(p) : y \in ToSet(q) \cap S
    BY <1>3, <1>5, <1>7, <1>10
  <2>2. \A y \in ToSet(q) \cap S : y \in ToSet(p)
    BY <1>3, <1>4, <1>6, <1>7, <1>10
  <2> QED
    BY <2>1, <2>2
<1>12. ASSUME \A i, j \in 1..Len(q) : q[i] = q[j] /\ q[i] \in S => i = j PROVE IsInjective(p)
  <2>2. ASSUME NEW j \in 1..n, NEW k \in 1..n, p[j] = p[k] PROVE j = k
    <3>1. at(j) \in I /\ at(k) \in I /\ q[at(j)] = q[at(k)]
      BY <1>5, <1>7, <2>2
    <3>2. at(j) = at(k)
      BY <1>1, <1>12, <3>1
    <3> QED
      BY <1>5, <3>2
  <2> QED
    BY <1>8, <1>9, <2>2, PlacesOf
<1>13. IsInjective(q) => \A i, j \in 1..Len(q) : q[i] = q[j] /\ q[i] \in S => i = j
  BY PlacesOf
<1> QED
  BY <1>8, <1>11, <1>12, <1>13 DEF p

-----------------------------------------------------------------------------
(* Places, the engine and the list, as sets: the streams A with a place, P  *)
(* that wait, the free places F, the listed places L                        *)

\* Each place is free or one stream's, and nobody waits while one is free.
Placed(A, P, F, id) ==
  /\ A \cap P = {} /\ (P # {} => F = {}) /\ F \subseteq Ids
  /\ \A s, t \in A : id[s] = id[t] => s = t
  /\ \A s \in A : id[s] \in Ids /\ id[s] \notin F
  /\ \A s \in MixerStreams \ A : id[s] = NoId
  /\ \A i \in Ids : i \in F \/ \E s \in A : id[s] = i

\* The engine has at a place the stream of the place, or nothing where it refused one.
MixedIn(A, id, engine, missing) ==
  /\ \A s \in A : engine[id[s]] = s \/ (engine[id[s]] = NoStream /\ id[s] \in missing)
  /\ \A i \in Ids : engine[i] # NoStream => engine[i] \in A /\ id[engine[i]] = i

\* What is listed has a place, and what has one is listed, unless the engine refused it.
Listed(A, id, L, missing, arranged) ==
  /\ \A i \in L : \E s \in A : id[s] = i
  /\ ~arranged => \A s \in A : id[s] \in L \cup missing

SetsAgree(A, P, F, id, engine, missing, L, arranged) ==
  /\ Placed(A, P, F, id) /\ MixedIn(A, id, engine, missing) /\ Listed(A, id, L, missing, arranged)

Put(f, x, y) == [f EXCEPT ![x] = y]

PlaceMaps == [MixerStreams -> Ids \cup {NoId}]
Engines == [Ids -> MixerStreams \cup {NoStream}]

LEMMA NoIdIsNone == NoId \notin Ids /\ NoStream \notin MixerStreams /\ Ids # {} /\ NoId \in Int /\ Ids \subseteq Nat
BY MixerAssumption DEF NoId, Ids

\* A stream waits, or no longer waits.
LEMMA Waits ==
  ASSUME NEW A, NEW P, NEW id, NEW engine, NEW missing, NEW L, NEW arranged, NEW s,
         SetsAgree(A, P, {}, id, engine, missing, L, arranged), s \notin A
  PROVE  SetsAgree(A, P \cup {s}, {}, id, engine, missing, L, arranged)
BY DEF SetsAgree, Placed

LEMMA WaitsNoMore ==
  ASSUME NEW A, NEW P, NEW F, NEW id, NEW engine, NEW missing, NEW L, NEW arranged, NEW s,
         SetsAgree(A, P, F, id, engine, missing, L, arranged)
  PROVE  SetsAgree(A, P \ {s}, F, id, engine, missing, L, arranged)
BY DEF SetsAgree, Placed

\* A stream takes the free place f; the engine takes it, or does not.
LEMMA TakesPlace ==
  ASSUME NEW A \in SUBSET MixerStreams, NEW F, NEW id \in PlaceMaps, NEW engine \in Engines,
         NEW missing, NEW L, NEW arranged, NEW s \in MixerStreams \ A, NEW f \in F,
         SetsAgree(A, {}, F, id, engine, missing, L, arranged)
  PROVE  /\ SetsAgree(A \cup {s}, {}, F \ {f}, Put(id, s, f), Put(engine, f, s), missing \ {f},
                      L \cup {f}, arranged)
         /\ SetsAgree(A \cup {s}, {}, F \ {f}, Put(id, s, f), engine, missing \cup {f}, L, arranged)
         /\ f \notin L
<1> USE DEF PlaceMaps, Engines
<1> DEFINE on == Put(id, s, f)
           mix == Put(engine, f, s)
<1>1. f \in Ids /\ f # NoId /\ engine[f] = NoStream /\ f \notin L
  BY NoIdIsNone DEF SetsAgree, Placed, MixedIn, Listed
<1>2. on[s] = f /\ \A t \in MixerStreams : t # s => on[t] = id[t]
  BY DEF Put
<1>2a. mix[f] = s /\ \A i \in Ids : i # f => mix[i] = engine[i]
  BY <1>1 DEF Put
<1> HIDE DEF on, mix
<1>3. \A t \in A : on[t] = id[t] /\ id[t] # f /\ id[t] \in Ids
  BY <1>2 DEF SetsAgree, Placed
<1>4. Placed(A \cup {s}, {}, F \ {f}, on)
  <2>1. \A t, u \in A \cup {s} : on[t] = on[u] => t = u
    BY <1>2, <1>3 DEF SetsAgree, Placed
  <2>2. \A i \in Ids : i \in F \ {f} \/ \E t \in A \cup {s} : on[t] = i
    BY <1>2, <1>3 DEF SetsAgree, Placed
  <2>3. \A t \in A \cup {s} : on[t] \in Ids /\ on[t] \notin F \ {f}
    BY <1>1, <1>2, <1>3 DEF SetsAgree, Placed
  <2>4. \A t \in MixerStreams \ (A \cup {s}) : on[t] = NoId
    BY <1>2 DEF SetsAgree, Placed
  <2> QED
    BY <2>1, <2>2, <2>3, <2>4 DEF SetsAgree, Placed
<1>5. MixedIn(A \cup {s}, on, mix, missing \ {f})
  BY <1>1, <1>2, <1>2a, <1>3 DEF SetsAgree, MixedIn
<1>6. MixedIn(A \cup {s}, on, engine, missing \cup {f})
  BY <1>1, <1>2, <1>3 DEF SetsAgree, MixedIn
<1>7. Listed(A \cup {s}, on, L \cup {f}, missing \ {f}, arranged)
  BY <1>2, <1>3 DEF SetsAgree, Listed
<1>8. Listed(A \cup {s}, on, L, missing \cup {f}, arranged)
  BY <1>2, <1>3 DEF SetsAgree, Listed
<1> QED
  BY <1>1, <1>4, <1>5, <1>6, <1>7, <1>8 DEF SetsAgree, on, mix

\* A stream leaves its place, and nobody waits for it.
LEMMA LeavesPlace ==
  ASSUME NEW A \in SUBSET MixerStreams, NEW F, NEW id \in PlaceMaps, NEW engine \in Engines,
         NEW missing, NEW L, NEW arranged, NEW s \in A,
         SetsAgree(A, {}, F, id, engine, missing, L, arranged)
  PROVE  SetsAgree(A \ {s}, {}, F \cup {id[s]}, Put(id, s, NoId), Put(engine, id[s], NoStream),
                   missing \ {id[s]}, L \ {id[s]}, arranged)
<1> USE DEF PlaceMaps, Engines
<1> DEFINE on == Put(id, s, NoId)
           f == id[s]
           mix == Put(engine, f, NoStream)
<1>1. f \in Ids /\ on[s] = NoId /\ \A t \in MixerStreams : t # s => on[t] = id[t]
  BY DEF SetsAgree, Placed, Put
<1>2. \A t \in A \ {s} : on[t] = id[t] /\ id[t] # f /\ id[t] \in Ids
  BY <1>1 DEF SetsAgree, Placed
<1>3. mix[f] = NoStream /\ \A i \in Ids : i # f => mix[i] = engine[i]
  BY <1>1 DEF Put
<1>4. \A i \in Ids : engine[i] = s => i = f
  BY NoIdIsNone DEF SetsAgree, MixedIn
<1> HIDE DEF on, mix
<1>5. Placed(A \ {s}, {}, F \cup {f}, on)
  <2>1. \A i \in Ids : i \in F \cup {f} \/ \E t \in A \ {s} : on[t] = i
    BY <1>1, <1>2 DEF SetsAgree, Placed
  <2>2. \A t \in MixerStreams \ (A \ {s}) : on[t] = NoId
    BY <1>1 DEF SetsAgree, Placed
  <2>3. \A t, u \in A \ {s} : on[t] = on[u] => t = u
    BY <1>2 DEF SetsAgree, Placed
  <2> QED
    BY <1>1, <1>2, <2>1, <2>2, <2>3 DEF SetsAgree, Placed
<1>6. MixedIn(A \ {s}, on, mix, missing \ {f})
  <2>1. \A t \in A \ {s} : mix[on[t]] = t \/ (mix[on[t]] = NoStream /\ on[t] \in missing \ {f})
    BY <1>2, <1>3 DEF SetsAgree, MixedIn
  <2>2. ASSUME NEW i \in Ids, mix[i] # NoStream PROVE mix[i] \in A \ {s} /\ on[mix[i]] = i
    <3>1. i # f /\ mix[i] = engine[i]
      BY <1>3, <2>2
    <3>2. engine[i] \in A /\ engine[i] # s /\ id[engine[i]] = i
      BY <1>4, <2>2, <3>1 DEF SetsAgree, MixedIn
    <3> QED
      BY <1>2, <3>1, <3>2
  <2> QED
    BY <2>1, <2>2 DEF MixedIn
<1>7. Listed(A \ {s}, on, L \ {f}, missing \ {f}, arranged)
  BY <1>2 DEF SetsAgree, Listed
<1> QED
  BY <1>5, <1>6, <1>7 DEF SetsAgree, on, mix

\* One that waits gets the place of another, who leaves or waits; the engine takes it, or does not.
LEMMA TakesOver ==
  ASSUME NEW A \in SUBSET MixerStreams, NEW P \in SUBSET MixerStreams, NEW id \in PlaceMaps,
         NEW engine \in Engines, NEW missing, NEW L, NEW arranged, NEW s \in A, NEW h \in P, NEW Q,
         SetsAgree(A, P, {}, id, engine, missing, L, arranged),
         Q = P \ {h} \/ Q = (P \ {h}) \cup {s}
  PROVE  /\ SetsAgree((A \ {s}) \cup {h}, Q, {}, Put(Put(id, s, NoId), h, id[s]),
                      Put(Put(engine, id[s], NoStream), id[s], h), missing, L, arranged)
         /\ SetsAgree((A \ {s}) \cup {h}, Q, {}, Put(Put(id, s, NoId), h, id[s]),
                      Put(engine, id[s], NoStream), missing \cup {id[s]}, L \ {id[s]}, arranged)
<1> USE DEF PlaceMaps, Engines
<1> DEFINE f == id[s]
           B == (A \ {s}) \cup {h}
           on == Put(Put(id, s, NoId), h, f)
           mix == Put(engine, f, NoStream)
           got == Put(mix, f, h)
<1>1. f \in Ids /\ h \notin A /\ h # s
  BY DEF SetsAgree, Placed
<1>2. on[s] = NoId /\ on[h] = f /\ \A t \in MixerStreams : t # s /\ t # h => on[t] = id[t]
  BY <1>1 DEF Put
<1>3. \A t \in A \ {s} : on[t] = id[t] /\ id[t] # f /\ id[t] \in Ids
  <2> HIDE DEF on
  <2> QED
    BY <1>1, <1>2 DEF SetsAgree, Placed
<1>4. mix \in Engines /\ mix[f] = NoStream /\ \A i \in Ids : i # f => mix[i] = engine[i]
  BY <1>1 DEF Put
<1> HIDE DEF on, mix
<1>5. got[f] = h /\ \A i \in Ids : i # f => got[i] = engine[i]
  BY <1>1, <1>4 DEF Put
<1>6. \A i \in Ids : engine[i] = s => i = f
  BY NoIdIsNone DEF SetsAgree, MixedIn
<1> HIDE DEF got
<1>7. Placed(B, Q, {}, on)
  <2>1. \A i \in Ids : \E t \in B : on[t] = i
    BY <1>2, <1>3 DEF SetsAgree, Placed
  <2>2. \A t \in MixerStreams \ B : on[t] = NoId
    BY <1>2 DEF SetsAgree, Placed
  <2>3. \A t, u \in B : on[t] = on[u] => t = u
    BY <1>2, <1>3 DEF SetsAgree, Placed
  <2>4. \A t \in B : on[t] \in Ids
    BY <1>1, <1>2, <1>3
  <2>5. B \cap Q = {}
    BY <1>1 DEF SetsAgree, Placed
  <2> QED
    BY <2>1, <2>2, <2>3, <2>4, <2>5 DEF Placed
<1>8. ASSUME NEW i \in Ids, i # f, engine[i] # NoStream PROVE engine[i] \in A \ {s} /\ on[engine[i]] = i
  <2>1. engine[i] \in A /\ engine[i] # s /\ id[engine[i]] = i
    BY <1>6, <1>8 DEF SetsAgree, MixedIn
  <2> QED
    BY <1>3, <2>1
<1>9. \A t \in A \ {s} : engine[on[t]] = t \/ (engine[on[t]] = NoStream /\ on[t] \in missing)
  BY <1>3 DEF SetsAgree, MixedIn
<1>10. MixedIn(B, on, got, missing)
  <2>1. \A t \in B : got[on[t]] = t \/ (got[on[t]] = NoStream /\ on[t] \in missing)
    BY <1>2, <1>3, <1>5, <1>9
  <2>2. ASSUME NEW i \in Ids, got[i] # NoStream PROVE got[i] \in B /\ on[got[i]] = i
    <3>1. CASE i = f
      BY <1>2, <1>5, <3>1
    <3>2. CASE i # f
      BY <1>5, <1>8, <2>2, <3>2
    <3> QED
      BY <3>1, <3>2
  <2> QED
    BY <2>1, <2>2 DEF MixedIn
<1>11. MixedIn(B, on, mix, missing \cup {f})
  BY <1>2, <1>3, <1>4, <1>8, <1>9 DEF MixedIn
<1>12. Listed(B, on, L, missing, arranged)
  BY <1>2, <1>3 DEF SetsAgree, Listed
<1>13. Listed(B, on, L \ {f}, missing \cup {f}, arranged)
  BY <1>2, <1>3 DEF SetsAgree, Listed
<1> QED
  BY <1>7, <1>10, <1>11, <1>12, <1>13 DEF SetsAgree, on, mix, got

-----------------------------------------------------------------------------
(* The state of the node                                                    *)

MixerStates ==
  [engine : BOOLEAN, active : Seq(MixerStreams), pending : Seq(MixerStreams), id : PlaceMaps,
   count : [MixerStreams -> Nat], free : Seq(Ids), mixed : Engines, templates : SUBSET Nat,
   regions : Nat, list : Seq(Ids), shown : Seq(Ids \cup {NoId}), arranged : BOOLEAN,
   remote : SUBSET MixerStreams, missing : SUBSET Ids]

\* The regions show the listed places in order, and are enough for them if a layout is.
Positioned(m) ==
  /\ m.shown = [r \in 1..m.regions |-> IF r <= Len(m.list) THEN m.list[r] ELSE NoId]
  /\ (\E t \in m.templates : Len(m.list) <= t) => Len(m.list) <= m.regions

Pictured(m) ==
  /\ IsInjective(m.list) /\ ToSet(m.shown) \subseteq ToSet(m.list) \cup {NoId}
  /\ ~m.arranged => Positioned(m)

Streams(m) == Inputs(m) \cup ToSet(m.pending)

\* The places agree with the engine and with the picture.
NodeAgrees(m) ==
  /\ m \in MixerStates
  /\ IsInjective(m.active) /\ IsInjective(m.pending) /\ IsInjective(m.free) /\ Pictured(m)
  /\ SetsAgree(Inputs(m), ToSet(m.pending), ToSet(m.free), m.id, m.mixed, m.missing, ToSet(m.list),
               m.arranged)

\* Only the picture differs.
SameInputs(r, m) ==
  /\ r.engine = m.engine /\ r.active = m.active /\ r.pending = m.pending /\ r.id = m.id
  /\ r.count = m.count /\ r.free = m.free /\ r.mixed = m.mixed /\ r.templates = m.templates
  /\ r.arranged = m.arranged /\ r.remote = m.remote /\ r.missing = m.missing

LEMMA PositionsAre ==
  ASSUME NEW m \in MixerStates, NEW r, r = UpdateInputPositions(m)
  PROVE  /\ r \in MixerStates /\ SameInputs(r, m) /\ r.list = m.list /\ r.regions = m.regions
         /\ r.shown = [q \in 1..m.regions |-> IF q <= Len(m.list) THEN m.list[q] ELSE NoId]
         /\ ToSet(r.shown) \subseteq ToSet(m.list) \cup {NoId}
<1> DEFINE f == [q \in 1..m.regions |-> IF q <= Len(m.list) THEN m.list[q] ELSE NoId]
<1>1. m.list \in Seq(Ids) /\ m.regions \in Nat
  BY DEF MixerStates
<1>2. \A q \in 1..m.regions : f[q] \in ToSet(m.list) \cup {NoId}
  <2>1. \A q \in 1..m.regions : q <= Len(m.list) => m.list[q] \in ToSet(m.list)
    BY <1>1, PlacesOf
  <2> QED
    BY <2>1
<1>3. f \in Seq(Ids \cup {NoId}) /\ DOMAIN f = 1..m.regions
  <2>1. \A q \in 1..m.regions : f[q] \in Ids \cup {NoId}
    BY <1>1, <1>2, PlacesOf
  <2>2. f \in [1..m.regions -> Ids \cup {NoId}]
    BY <2>1
  <2> QED
    BY <1>1, <2>2
<1>4. ToSet(f) \subseteq ToSet(m.list) \cup {NoId}
  BY <1>2, <1>3 DEF ToSet
<1>5. r = [m EXCEPT !.shown = f]
  BY DEF UpdateInputPositions
<1> HIDE DEF f
<1>6. r \in MixerStates /\ r.shown = f /\ r.list = m.list /\ r.regions = m.regions
  BY <1>3, <1>5 DEF MixerStates
<1>7. SameInputs(r, m)
  BY <1>5 DEF MixerStates, SameInputs
<1> QED
  BY <1>4, <1>6, <1>7 DEF f

\* Another list, in a layout that has a region for each of its places if one is configured.
LEMMA LaidOut ==
  ASSUME NEW m \in MixerStates, NEW q \in Seq(Ids), IsInjective(q),
         NEW r, r = UpdateInputPositions(ChoseTemplate([m EXCEPT !.list = q], Len(q)))
  PROVE  /\ r \in MixerStates /\ SameInputs(r, m) /\ r.list = q /\ Pictured(r) /\ Positioned(r)
<1> DEFINE on == [m EXCEPT !.list = q]
           fitting == {t \in on.templates : t >= Len(q)}
           n == IF fitting = {} THEN on.regions ELSE Min(fitting)
           x == ChoseTemplate(on, Len(q))
<1>1. /\ on \in MixerStates /\ SameInputs(on, m) /\ on.list = q /\ on.regions = m.regions
      /\ on.templates = m.templates /\ on.templates \subseteq Nat /\ on.regions \in Nat
  BY DEF MixerStates, SameInputs
<1>2. x = [on EXCEPT !.regions = n]
  BY DEF ChoseTemplate
<1>3. Len(q) \in Nat
  OBVIOUS
<1> HIDE DEF on
<1>4. n \in Nat /\ ((\E t \in on.templates : Len(q) <= t) => Len(q) <= n)
  <2>1. CASE fitting = {}
    BY <1>1, <1>3, <2>1
  <2>2. CASE fitting # {}
    <3>1. fitting \subseteq Nat
      BY <1>1
    <3>2. Min(fitting) \in fitting
      BY <2>2, <3>1, LeastIs
    <3> QED
      BY <1>1, <1>3, <2>2, <3>2
  <2> QED
    BY <2>1, <2>2
<1> HIDE DEF n, x
<1>5. x \in MixerStates /\ SameInputs(x, on) /\ x.list = q /\ x.regions = n /\ x.templates = on.templates
  BY <1>1, <1>2, <1>4 DEF MixerStates, SameInputs
<1>6. r = UpdateInputPositions(x)
  BY DEF on, x
<1>7. /\ r \in MixerStates /\ SameInputs(r, x) /\ r.list = q /\ r.regions = n
      /\ r.shown = [k \in 1..n |-> IF k <= Len(q) THEN q[k] ELSE NoId]
      /\ ToSet(r.shown) \subseteq ToSet(q) \cup {NoId}
  BY <1>5, <1>6, PositionsAre
<1>8. SameInputs(r, m) /\ r.templates = on.templates
  BY <1>1, <1>5, <1>7 DEF SameInputs
<1>9. Positioned(r)
  BY <1>4, <1>7, <1>8 DEF Positioned
<1> QED
  BY <1>7, <1>8, <1>9 DEF Pictured

LEMMA ListGrows ==
  ASSUME NEW m \in MixerStates, Pictured(m), NEW i \in Ids \ ToSet(m.list), NEW r, r = LayoutAddInput(m, i)
  PROVE  r \in MixerStates /\ SameInputs(r, m) /\ Pictured(r) /\ ToSet(r.list) = ToSet(m.list) \cup {i}
<1> DEFINE q == Append(m.list, i)
<1>1. m.list \in Seq(Ids) /\ IsInjective(m.list)
  BY DEF MixerStates, Pictured
<1>2. q \in Seq(Ids) /\ Len(q) = Len(m.list) + 1 /\ ToSet(q) = ToSet(m.list) \cup {i} /\ IsInjective(q)
  BY <1>1, Appended
<1>3. r = UpdateInputPositions(ChoseTemplate([m EXCEPT !.list = q], Len(m.list) + 1))
  BY DEF LayoutAddInput
<1> HIDE DEF q
<1>4. r = UpdateInputPositions(ChoseTemplate([m EXCEPT !.list = q], Len(q)))
  BY <1>2, <1>3
<1> QED
  BY <1>2, <1>4, LaidOut

LEMMA ListShrinks ==
  ASSUME NEW m \in MixerStates, Pictured(m), NEW i, NEW r, r = LayoutRemoveInput(m, i)
  PROVE  r \in MixerStates /\ SameInputs(r, m) /\ Pictured(r) /\ ToSet(r.list) = ToSet(m.list) \ {i}
<1>1. m.list \in Seq(Ids) /\ IsInjective(m.list)
  BY DEF MixerStates, Pictured
<1>2. CASE i \notin ToSet(m.list)
  <2>1. r = m
    BY <1>2 DEF LayoutRemoveInput
  <2> QED
    BY <1>2, <2>1 DEF SameInputs
<1>3. CASE i \in ToSet(m.list)
  <2> DEFINE q == RemoveFirst(m.list, i)
  <2>1. q \in Seq(Ids) /\ Len(q) = Len(m.list) - 1 /\ ToSet(q) = ToSet(m.list) \ {i} /\ IsInjective(q)
    BY <1>1, <1>3, WithoutOne
  <2>2. r = UpdateInputPositions(ChoseTemplate([m EXCEPT !.list = q], Len(m.list) - 1))
    BY <1>3 DEF LayoutRemoveInput
  <2> HIDE DEF q
  <2>3. r = UpdateInputPositions(ChoseTemplate([m EXCEPT !.list = q], Len(q)))
    BY <2>1, <2>2
  <2> QED
    BY <2>1, <2>3, LaidOut
<1> QED
  BY <1>2, <1>3

LEMMA ListSwaps ==
  ASSUME NEW m \in MixerStates, Pictured(m), NEW a \in 1..Len(m.list), NEW b \in 1..Len(m.list),
         NEW r, r = UpdateInputPositions([m EXCEPT !.list = Swapped(m.list, a, b)])
  PROVE  r \in MixerStates /\ SameInputs(r, m) /\ Pictured(r) /\ ToSet(r.list) = ToSet(m.list)
<1> DEFINE q == Swapped(m.list, a, b)
           x == [m EXCEPT !.list = q]
<1>1. m.list \in Seq(Ids) /\ IsInjective(m.list)
  BY DEF MixerStates, Pictured
<1>2. q \in Seq(Ids) /\ Len(q) = Len(m.list) /\ ToSet(q) = ToSet(m.list) /\ IsInjective(q)
  BY <1>1, SwappedIs
<1> HIDE DEF q
<1>3. x \in MixerStates /\ SameInputs(x, m) /\ x.list = q /\ x.regions = m.regions
  BY <1>2 DEF MixerStates, SameInputs
<1>4. r = UpdateInputPositions(x)
  BY DEF q
<1> HIDE DEF x
<1>5. /\ r \in MixerStates /\ SameInputs(r, x) /\ r.list = q /\ r.regions = m.regions
      /\ r.shown = [k \in 1..m.regions |-> IF k <= Len(q) THEN q[k] ELSE NoId]
      /\ ToSet(r.shown) \subseteq ToSet(q) \cup {NoId}
  BY <1>3, <1>4, PositionsAre
<1>6. SameInputs(r, m)
  BY <1>3, <1>5 DEF SameInputs
<1>7. ~r.arranged => Positioned(r)
  BY <1>2, <1>5, <1>6 DEF Positioned, Pictured, SameInputs
<1> QED
  BY <1>2, <1>5, <1>6, <1>7 DEF Pictured

\* What the calls preserve that change the picture only.
LEMMA PictureChanges ==
  ASSUME NEW m, NEW r, NodeAgrees(m), r \in MixerStates, SameInputs(r, m), Pictured(r),
         ToSet(r.list) = ToSet(m.list)
  PROVE  NodeAgrees(r) /\ Streams(r) = Streams(m) /\ r.remote = m.remote /\ r.engine = m.engine
BY DEF NodeAgrees, SameInputs, Streams, Inputs

LEMMA LayoutSetPrimaryKeeps ==
  ASSUME NEW m, NodeAgrees(m), NEW i, NEW r, r = LayoutSetPrimary(m, i)
  PROVE  NodeAgrees(r) /\ Streams(r) = Streams(m) /\ r.remote = m.remote /\ r.engine = m.engine
<1>1. CASE i \notin ToSet(m.list) \/ i = Head(m.list)
  BY <1>1 DEF LayoutSetPrimary
<1>2. CASE ~(i \notin ToSet(m.list) \/ i = Head(m.list))
  <2> DEFINE b == SelectInSeq(m.list, LAMBDA v : v = i)
  <2>1. m \in MixerStates /\ m.list \in Seq(Ids) /\ Pictured(m) /\ i \in ToSet(m.list)
    BY <1>2 DEF NodeAgrees, MixerStates
  <2>2. r = UpdateInputPositions([m EXCEPT !.list = Swapped(m.list, 1, b)])
    BY <1>2 DEF LayoutSetPrimary
  <2>3. b \in 1..Len(m.list)
    BY <2>1, FoundAt
  <2>4. 1 \in 1..Len(m.list)
    BY <2>1, <2>3
  <2> HIDE DEF b
  <2>5. r \in MixerStates /\ SameInputs(r, m) /\ Pictured(r) /\ ToSet(r.list) = ToSet(m.list)
    BY <2>1, <2>2, <2>3, <2>4, ListSwaps
  <2> QED
    BY <2>5, PictureChanges
<1> QED
  BY <1>1, <1>2

LEMMA SpecifyInputRegionKeeps ==
  ASSUME NEW m, NodeAgrees(m), NEW i, NEW a \in Nat \ {0}, NEW r, r = SpecifyInputRegion(m, i, a)
  PROVE  NodeAgrees(r) /\ Streams(r) = Streams(m) /\ r.remote = m.remote /\ r.engine = m.engine
<1>1. CASE i \notin ToSet(m.list) \/ ~Occupied(m, a)
  BY <1>1 DEF SpecifyInputRegion
<1>2. CASE ~(i \notin ToSet(m.list) \/ ~Occupied(m, a))
  <2> DEFINE b == SelectInSeq(m.list, LAMBDA v : v = i)
  <2>1. m \in MixerStates /\ m.list \in Seq(Ids) /\ Pictured(m) /\ i \in ToSet(m.list) /\ Occupied(m, a)
    BY <1>2 DEF NodeAgrees, MixerStates
  <2>2. r = UpdateInputPositions([m EXCEPT !.list = Swapped(m.list, a, b)])
    BY <1>2 DEF SpecifyInputRegion
  <2>3. b \in 1..Len(m.list)
    BY <2>1, FoundAt
  <2>4. a \in 1..Len(m.list)
    BY <2>1 DEF Occupied
  <2> HIDE DEF b
  <2>5. r \in MixerStates /\ SameInputs(r, m) /\ Pictured(r) /\ ToSet(r.list) = ToSet(m.list)
    BY <2>1, <2>2, <2>3, <2>4, ListSwaps
  <2> QED
    BY <2>5, PictureChanges
<1> QED
  BY <1>1, <1>2

\* Only the inputs differ, or only what has no part in the agreement.
SamePicture(r, m) ==
  /\ r.list = m.list /\ r.shown = m.shown /\ r.regions = m.regions
  /\ r.templates = m.templates /\ r.arranged = m.arranged

SamePlaces(r, m) ==
  /\ r.active = m.active /\ r.pending = m.pending /\ r.id = m.id /\ r.free = m.free
  /\ r.mixed = m.mixed /\ r.missing = m.missing

LEMMA PictureStays ==
  ASSUME NEW m, NEW r, SamePicture(r, m), Pictured(m)
  PROVE  Pictured(r)
BY DEF SamePicture, Pictured, Positioned

LEMMA NothingChanges ==
  ASSUME NEW m, NEW r, NodeAgrees(m), r \in MixerStates, SamePicture(r, m), SamePlaces(r, m)
  PROVE  NodeAgrees(r) /\ Streams(r) = Streams(m)
<1>1. Pictured(r)
  BY PictureStays DEF NodeAgrees
<1>2. Inputs(r) = Inputs(m) /\ ToSet(r.pending) = ToSet(m.pending) /\ ToSet(r.free) = ToSet(m.free)
      /\ ToSet(r.list) = ToSet(m.list)
  BY DEF SamePicture, SamePlaces, Inputs
<1> QED
  BY <1>1, <1>2 DEF NodeAgrees, SamePicture, SamePlaces, Streams

LEMMA SourceKept ==
  ASSUME NEW m, NodeAgrees(m), NEW R \in SUBSET MixerStreams, NEW r, r = [m EXCEPT !.remote = R]
  PROVE  NodeAgrees(r) /\ Streams(r) = Streams(m) /\ r.engine = m.engine /\ r.remote = R
<1>1. m \in MixerStates
  BY DEF NodeAgrees
<1>2. r \in MixerStates /\ r.engine = m.engine /\ r.remote = R
  BY <1>1 DEF MixerStates
<1>3. SamePicture(r, m) /\ SamePlaces(r, m)
  BY <1>1 DEF MixerStates, SamePicture, SamePlaces
<1> QED
  BY <1>2, <1>3, NothingChanges

LEMMA Counted ==
  ASSUME NEW m, NodeAgrees(m), NEW f \in [MixerStreams -> Nat], NEW r, r = [m EXCEPT !.count = f]
  PROVE  NodeAgrees(r) /\ Streams(r) = Streams(m) /\ r.engine = m.engine /\ r.remote = m.remote
<1>1. m \in MixerStates
  BY DEF NodeAgrees
<1>2. r \in MixerStates /\ r.engine = m.engine /\ r.remote = m.remote
  BY <1>1 DEF MixerStates
<1>3. SamePicture(r, m) /\ SamePlaces(r, m)
  BY <1>1 DEF MixerStates, SamePicture, SamePlaces
<1> QED
  BY <1>2, <1>3, NothingChanges

\* The lists of the node as lists and as sets.
LEMMA ListsOf ==
  ASSUME NEW m \in MixerStates
  PROVE  /\ m.active \in Seq(MixerStreams) /\ m.pending \in Seq(MixerStreams) /\ m.free \in Seq(Ids)
         /\ m.list \in Seq(Ids) /\ m.id \in PlaceMaps /\ m.mixed \in Engines
         /\ Inputs(m) \subseteq MixerStreams /\ ToSet(m.pending) \subseteq MixerStreams
         /\ ToSet(m.free) \subseteq Ids /\ ToSet(m.list) \subseteq Ids
         /\ m.free = <<>> <=> ToSet(m.free) = {}
         /\ m.pending = <<>> <=> ToSet(m.pending) = {}
         /\ m.active = <<>> <=> Inputs(m) = {}
<1>1. m.active \in Seq(MixerStreams) /\ m.pending \in Seq(MixerStreams) /\ m.free \in Seq(Ids)
      /\ m.list \in Seq(Ids) /\ m.id \in PlaceMaps /\ m.mixed \in Engines
  BY DEF MixerStates
<1>2. /\ ToSet(m.active) \subseteq MixerStreams /\ (m.active = <<>> <=> ToSet(m.active) = {})
      /\ ToSet(m.pending) \subseteq MixerStreams /\ (m.pending = <<>> <=> ToSet(m.pending) = {})
      /\ ToSet(m.free) \subseteq Ids /\ (m.free = <<>> <=> ToSet(m.free) = {})
      /\ ToSet(m.list) \subseteq Ids
  BY <1>1, PlacesOf
<1> QED
  BY <1>1, <1>2 DEF Inputs

\* addInput: a new input gets a place or waits, and its source is kept unless the engine refuses it.
LEMMA AddInputKeeps ==
  ASSUME NEW m, NodeAgrees(m), NEW s \in MixerStreams, NEW ok \in BOOLEAN, NEW r, r = AddInput(m, s, ok)
  PROVE  /\ NodeAgrees(r) /\ Streams(r) = Streams(m) \cup {s} /\ r.engine = m.engine
         /\ Refused(m, s, ok) => r.remote = m.remote \ {s}
         /\ ~Refused(m, s, ok) => r.remote = m.remote \cup {s}
<1> DEFINE got == [m EXCEPT !.remote = @ \cup {s}]
           f == Last(m.free)
           in == ManagerAdd(got, s)
<1>0. /\ m \in MixerStates /\ m.remote \cup {s} \in SUBSET MixerStreams
      /\ m.remote \in SUBSET MixerStreams /\ m.missing \subseteq Ids /\ m.count \in [MixerStreams -> Nat]
      /\ IsInjective(m.active) /\ IsInjective(m.pending) /\ IsInjective(m.free) /\ Pictured(m)
      /\ SetsAgree(Inputs(m), ToSet(m.pending), ToSet(m.free), m.id, m.mixed, m.missing,
                   ToSet(m.list), m.arranged)
  BY DEF NodeAgrees, MixerStates
<1>1. got \in MixerStates /\ got.remote = m.remote \cup {s} /\ got = [m EXCEPT !.remote = m.remote \cup {s}]
  BY <1>0 DEF MixerStates
<1>2. CASE Has(m, s)
  <2>1. r = got /\ ~Refused(m, s, ok) /\ s \in Streams(m)
    BY <1>2 DEF AddInput, Refused, Has, Streams
  <2>2. NodeAgrees(got) /\ Streams(got) = Streams(m) /\ got.engine = m.engine
    BY <1>0, <1>1, SourceKept
  <2> QED
    BY <1>1, <2>1, <2>2
<1>3. CASE ~Has(m, s) /\ m.free = <<>>
  <2> DEFINE p == Append(m.pending, s)
             c == [m.count EXCEPT ![s] = 0]
  <2>1. r = in /\ ~Refused(m, s, ok) /\ s \notin Inputs(m) /\ s \notin ToSet(m.pending) /\ ToSet(m.free) = {}
    BY <1>0, <1>3, ListsOf DEF AddInput, Refused, Has
  <2>2. p \in Seq(MixerStreams) /\ ToSet(p) = ToSet(m.pending) \cup {s} /\ IsInjective(p)
    BY <1>0, <2>1, ListsOf, Appended
  <2>3. c \in [MixerStreams -> Nat]
    BY <1>0
  <2>4. r = [m EXCEPT !.remote = m.remote \cup {s}, !.pending = p, !.count = c]
    BY <1>0, <1>3, <2>1 DEF ManagerAdd, MixerStates
  <2> HIDE DEF p, c, got, in
  <2>5. /\ r \in MixerStates /\ SamePicture(r, m) /\ r.pending = p /\ r.active = m.active /\ r.id = m.id
        /\ r.free = m.free /\ r.mixed = m.mixed /\ r.missing = m.missing
        /\ r.engine = m.engine /\ r.remote = m.remote \cup {s}
    BY <1>0, <2>2, <2>3, <2>4 DEF MixerStates, SamePicture
  <2>6. SetsAgree(Inputs(m), ToSet(m.pending) \cup {s}, {}, m.id, m.mixed, m.missing, ToSet(m.list), m.arranged)
    BY <1>0, <2>1, Waits
  <2>7. Inputs(r) = Inputs(m) /\ ToSet(r.free) = {} /\ r.list = m.list /\ r.arranged = m.arranged
    BY <2>1, <2>5 DEF Inputs, SamePicture
  <2>8. Pictured(r)
    BY <1>0, <2>5, PictureStays
  <2>9. NodeAgrees(r)
    BY <1>0, <2>2, <2>5, <2>6, <2>7, <2>8 DEF NodeAgrees
  <2>10. Streams(r) = Streams(m) \cup {s}
    BY <2>2, <2>5, <2>7 DEF Streams
  <2> QED
    BY <2>1, <2>5, <2>9, <2>10
<1>4. CASE ~Has(m, s) /\ m.free # <<>>
  <2> DEFINE a == Append(m.active, s)
             g == Front(m.free)
             c == [m.count EXCEPT ![s] = 0]
             on == Put(m.id, s, f)
             mix == Put(m.mixed, f, s)
  <2>1. /\ s \in MixerStreams \ Inputs(m) /\ s \notin ToSet(m.pending) /\ ToSet(m.pending) = {}
        /\ ToSet(m.free) # {}
    BY <1>0, <1>4, ListsOf DEF Has, SetsAgree, Placed
  <2>2. a \in Seq(MixerStreams) /\ ToSet(a) = Inputs(m) \cup {s} /\ IsInjective(a)
    BY <1>0, <2>1, ListsOf, Appended DEF Inputs
  <2>3. /\ g \in Seq(Ids) /\ ToSet(m.free) = ToSet(g) \cup {f} /\ IsInjective(g) /\ f \notin ToSet(g)
        /\ f \in ToSet(m.free)
    BY <1>0, <1>4, ListsOf, Popped
  <2>4. ToSet(g) = ToSet(m.free) \ {f} /\ f \in Ids
    BY <1>0, <2>3, ListsOf
  <2>5. c \in [MixerStreams -> Nat] /\ on \in PlaceMaps /\ mix \in Engines
    BY <1>0, <2>4, ListsOf DEF PlaceMaps, Engines, Put
  <2>6. in = [m EXCEPT !.remote = m.remote \cup {s}, !.active = a, !.id = on, !.count = c, !.free = g]
    BY <1>0, <1>4 DEF ManagerAdd, MixerStates, Put
  <2> DEFINE A == Inputs(m) \cup {s}
             F == ToSet(m.free) \ {f}
  <2>7. /\ SetsAgree(A, {}, F, on, mix, m.missing \ {f}, ToSet(m.list) \cup {f}, m.arranged)
        /\ SetsAgree(A, {}, F, on, m.mixed, m.missing \cup {f}, ToSet(m.list), m.arranged)
        /\ f \notin ToSet(m.list)
    <3>1. Inputs(m) \in SUBSET MixerStreams /\ m.id \in PlaceMaps /\ m.mixed \in Engines
      BY <1>0, ListsOf
    <3>2. SetsAgree(Inputs(m), {}, ToSet(m.free), m.id, m.mixed, m.missing, ToSet(m.list), m.arranged)
      BY <1>0, <2>1
    <3>3. s \in MixerStreams \ Inputs(m) /\ f \in ToSet(m.free)
      BY <2>1, <2>3
    <3> DEFINE B == Inputs(m)
               G == ToSet(m.free)
               place == m.id
               engine == m.mixed
               lacks == m.missing
               L == ToSet(m.list)
               arr == m.arranged
    <3> HIDE DEF f, B, G, place, engine, lacks, L, arr
    <3>4. /\ B \in SUBSET MixerStreams /\ place \in PlaceMaps /\ engine \in Engines
          /\ s \in MixerStreams \ B /\ f \in G
          /\ SetsAgree(B, {}, G, place, engine, lacks, L, arr)
      BY <3>1, <3>2, <3>3 DEF B, G, place, engine, lacks, L, arr
    <3>5. /\ SetsAgree(B \cup {s}, {}, G \ {f}, Put(place, s, f), Put(engine, f, s), lacks \ {f}, L \cup {f}, arr)
          /\ SetsAgree(B \cup {s}, {}, G \ {f}, Put(place, s, f), engine, lacks \cup {f}, L, arr)
          /\ f \notin L
      BY <3>4, TakesPlace
    <3> QED
      BY <3>5 DEF B, G, place, engine, lacks, L, arr
  <2>8. CASE ok
    <3> DEFINE x == [EngineAdd(in, f, s, TRUE) EXCEPT !.missing = @ \ {f}]
    <3>1. r = LayoutAddInput(x, f) /\ ~Refused(m, s, ok)
      BY <1>4, <2>8 DEF AddInput, Refused
    <3>2. x = [m EXCEPT !.remote = m.remote \cup {s}, !.active = a, !.id = on, !.count = c, !.free = g,
                        !.mixed = mix, !.missing = m.missing \ {f}]
      BY <1>0, <2>6 DEF EngineAdd, MixerStates, Put
    <3> HIDE DEF a, g, c, on, mix, f, x, got, in
    <3>3. /\ x \in MixerStates /\ SamePicture(x, m) /\ x.active = a /\ x.id = on /\ x.free = g
          /\ x.mixed = mix /\ x.missing = m.missing \ {f} /\ x.pending = m.pending
          /\ x.engine = m.engine /\ x.remote = m.remote \cup {s}
      BY <1>0, <2>2, <2>3, <2>5, <3>2 DEF MixerStates, SamePicture
    <3>4. Pictured(x) /\ x.list = m.list /\ x.arranged = m.arranged
      BY <1>0, <3>3, PictureStays DEF SamePicture
    <3>5. r \in MixerStates /\ SameInputs(r, x) /\ Pictured(r) /\ ToSet(r.list) = ToSet(m.list) \cup {f}
      BY <2>4, <2>7, <3>1, <3>3, <3>4, ListGrows
    <3>6. /\ r.active = a /\ r.id = on /\ r.free = g /\ r.mixed = mix /\ r.missing = m.missing \ {f}
          /\ r.pending = m.pending /\ r.engine = m.engine /\ r.remote = m.remote \cup {s}
          /\ r.arranged = m.arranged
      BY <3>3, <3>4, <3>5 DEF SameInputs
    <3>7. Inputs(r) = A /\ ToSet(r.free) = F /\ ToSet(r.pending) = {}
      BY <2>1, <2>2, <2>4, <3>6 DEF Inputs
    <3>8. NodeAgrees(r)
      BY <1>0, <2>2, <2>3, <2>7, <3>5, <3>6, <3>7 DEF NodeAgrees
    <3>9. Streams(r) = Streams(m) \cup {s}
      BY <2>1, <3>7 DEF Streams
    <3> QED
      BY <3>1, <3>6, <3>8, <3>9
  <2>9. CASE ~ok
    <3>1. r = [DestroyRemoteSource(in, s) EXCEPT !.missing = @ \cup {f}] /\ Refused(m, s, ok)
      BY <1>4, <2>9 DEF AddInput, Refused
    <3>2. r = [m EXCEPT !.remote = m.remote \ {s}, !.active = a, !.id = on, !.count = c, !.free = g,
                        !.missing = m.missing \cup {f}]
      <4>1. (m.remote \cup {s}) \ {s} = m.remote \ {s}
        OBVIOUS
      <4>2. in.remote = m.remote \cup {s} /\ in.missing = m.missing
        BY <1>0, <2>6 DEF MixerStates
      <4>3. r = [in EXCEPT !.remote = m.remote \ {s}, !.missing = m.missing \cup {f}]
        BY <3>1, <4>1, <4>2 DEF DestroyRemoteSource
      <4> QED
        BY <1>0, <2>6, <4>3 DEF MixerStates
    <3> HIDE DEF a, g, c, on, mix, f, got, in
    <3>3. /\ r \in MixerStates /\ SamePicture(r, m) /\ r.active = a /\ r.id = on /\ r.free = g
          /\ r.mixed = m.mixed /\ r.missing = m.missing \cup {f} /\ r.pending = m.pending
          /\ r.engine = m.engine /\ r.remote = m.remote \ {s}
      <4>1. m.missing \cup {f} \in SUBSET Ids /\ m.remote \ {s} \in SUBSET MixerStreams
        BY <1>0, <2>4
      <4>2. r \in MixerStates
        BY <1>0, <2>2, <2>3, <2>5, <3>2, <4>1 DEF MixerStates
      <4> QED
        BY <1>0, <3>2, <4>2 DEF MixerStates, SamePicture
    <3>4. Pictured(r) /\ r.list = m.list /\ r.arranged = m.arranged
      BY <1>0, <3>3, PictureStays DEF SamePicture
    <3>7. Inputs(r) = A /\ ToSet(r.free) = F /\ ToSet(r.pending) = {}
      BY <2>1, <2>2, <2>4, <3>3 DEF Inputs
    <3>8. NodeAgrees(r)
      BY <1>0, <2>2, <2>3, <2>7, <3>3, <3>4, <3>7 DEF NodeAgrees
    <3>9. Streams(r) = Streams(m) \cup {s}
      BY <2>1, <3>7 DEF Streams
    <3> QED
      BY <3>1, <3>3, <3>8, <3>9
  <2> QED
    BY <2>8, <2>9
<1> QED
  BY <1>2, <1>3, <1>4

\* removeInput, up to the source: the first that waits gets the place of an input that had one.
LEMMA PlaceLeft ==
  ASSUME NEW m, NodeAgrees(m), NEW s \in Inputs(m), NEW ok \in BOOLEAN, NEW r,
         r = PromotePendingStream(EngineRemove(ManagerRemove(m, s), m.id[s]), m.id[s], ok)
  PROVE  /\ NodeAgrees(r) /\ Streams(r) = Streams(m) \ {s}
         /\ r.engine = m.engine /\ r.remote = m.remote
<1> DEFINE f == m.id[s]
           a == RemoveFirst(m.active, s)
           g == Append(m.free, f)
           on == Put(m.id, s, NoId)
           mix == Put(m.mixed, f, NoStream)
           x == EngineRemove(ManagerRemove(m, s), f)
<1>0. /\ m \in MixerStates /\ m.missing \subseteq Ids /\ Pictured(m)
      /\ IsInjective(m.active) /\ IsInjective(m.pending) /\ IsInjective(m.free)
      /\ SetsAgree(Inputs(m), ToSet(m.pending), ToSet(m.free), m.id, m.mixed, m.missing,
                   ToSet(m.list), m.arranged)
  BY DEF NodeAgrees, MixerStates
<1>1. f \in Ids /\ f \notin ToSet(m.free) /\ s \in MixerStreams /\ s \notin ToSet(m.pending)
  BY <1>0, ListsOf DEF SetsAgree, Placed
<1>2. a \in Seq(MixerStreams) /\ ToSet(a) = Inputs(m) \ {s} /\ IsInjective(a)
  BY <1>0, ListsOf, WithoutOne DEF Inputs
<1>3. g \in Seq(Ids) /\ ToSet(g) = ToSet(m.free) \cup {f} /\ IsInjective(g) /\ Front(g) = m.free
  BY <1>0, <1>1, ListsOf, Appended
<1>4. on \in PlaceMaps /\ mix \in Engines
  BY <1>0, <1>1, ListsOf DEF PlaceMaps, Engines, Put
<1>5. x = [m EXCEPT !.active = a, !.free = g, !.id = on, !.mixed = mix]
  BY <1>0 DEF ManagerRemove, EngineRemove, MixerStates, Put
<1> HIDE DEF a, g, on, mix
<1>6. /\ x \in MixerStates /\ SamePicture(x, m) /\ x.active = a /\ x.free = g /\ x.id = on /\ x.mixed = mix
      /\ x.pending = m.pending /\ x.missing = m.missing /\ x.engine = m.engine /\ x.remote = m.remote
      /\ x.count = m.count
  <2>1. x \in MixerStates
    BY <1>0, <1>2, <1>3, <1>4, <1>5 DEF MixerStates
  <2> QED
    BY <1>0, <1>5, <2>1 DEF MixerStates, SamePicture
<1>7. r = PromotePendingStream(x, f, ok)
  OBVIOUS
<1> HIDE DEF x
<1> DEFINE B == Inputs(m)
           P == ToSet(m.pending)
           G == ToSet(m.free)
           place == m.id
           engine == m.mixed
           lacks == m.missing
           L == ToSet(m.list)
           arranged == m.arranged
<1>8. CASE m.pending = <<>>
  <2> DEFINE y == [x EXCEPT !.missing = @ \ {f}]
  <2>1. r = LayoutRemoveInput(y, f)
    BY <1>6, <1>7, <1>8 DEF PromotePendingStream
  <2>2. /\ y \in MixerStates /\ SamePicture(y, m) /\ y.active = a /\ y.free = g /\ y.id = on /\ y.mixed = mix
        /\ y.pending = m.pending /\ y.missing = m.missing \ {f} /\ y.engine = m.engine /\ y.remote = m.remote
    <3>1. y = [x EXCEPT !.missing = m.missing \ {f}] /\ m.missing \ {f} \in SUBSET Ids
      BY <1>0, <1>6
    <3> HIDE DEF y
    <3>2. y \in MixerStates
      BY <1>6, <3>1 DEF MixerStates
    <3> QED
      BY <1>6, <3>1, <3>2 DEF MixerStates, SamePicture
  <2> HIDE DEF y
  <2>3. Pictured(y) /\ y.list = m.list /\ y.arranged = m.arranged
    BY <1>0, <2>2, PictureStays DEF SamePicture
  <2>4. r \in MixerStates /\ SameInputs(r, y) /\ Pictured(r) /\ ToSet(r.list) = ToSet(m.list) \ {f}
    BY <2>1, <2>2, <2>3, ListShrinks
  <2>5. /\ r.active = a /\ r.id = on /\ r.free = g /\ r.mixed = mix /\ r.missing = m.missing \ {f}
        /\ r.pending = m.pending /\ r.engine = m.engine /\ r.remote = m.remote /\ r.arranged = m.arranged
    BY <2>2, <2>3, <2>4 DEF SameInputs
  <2>6. SetsAgree(B \ {s}, {}, G \cup {f}, on, mix, lacks \ {f}, L \ {f}, arranged)
    <3> HIDE DEF f, B, G, place, engine, lacks, L, arranged
    <3>1. /\ B \in SUBSET MixerStreams /\ place \in PlaceMaps /\ engine \in Engines /\ s \in B
          /\ SetsAgree(B, {}, G, place, engine, lacks, L, arranged) /\ f = place[s]
      BY <1>0, <1>8, ListsOf DEF f, B, G, place, engine, lacks, L, arranged
    <3>2. SetsAgree(B \ {s}, {}, G \cup {place[s]}, Put(place, s, NoId), Put(engine, place[s], NoStream),
                    lacks \ {place[s]}, L \ {place[s]}, arranged)
      BY <3>1, LeavesPlace
    <3> QED
      BY <3>1, <3>2 DEF on, mix, place, engine
  <2>7. Inputs(r) = B \ {s} /\ ToSet(r.free) = G \cup {f} /\ ToSet(r.pending) = {}
    BY <1>0, <1>2, <1>3, <1>8, <2>5, ListsOf DEF Inputs
  <2>8. NodeAgrees(r)
    BY <1>0, <1>2, <1>3, <2>4, <2>5, <2>6, <2>7 DEF NodeAgrees
  <2>9. Streams(r) = Streams(m) \ {s}
    BY <1>0, <1>8, <2>7, ListsOf DEF Streams
  <2> QED
    BY <2>5, <2>8, <2>9
<1>9. CASE m.pending # <<>>
  <2> DEFINE h == Head(m.pending)
             q == Tail(m.pending)
             b == Append(a, h)
             to == Put(on, h, f)
             y == [x EXCEPT !.active = b, !.id = to, !.pending = q, !.free = m.free]
             got == Put(mix, f, h)
  <2>1. /\ h \in P /\ q \in Seq(MixerStreams) /\ P = {h} \cup ToSet(q) /\ IsInjective(q) /\ h \notin ToSet(q)
        /\ h \in MixerStreams /\ h # s /\ h \notin B /\ G = {}
    BY <1>0, <1>1, <1>9, ListsOf, Shifted DEF SetsAgree, Placed
  <2>2. b \in Seq(MixerStreams) /\ ToSet(b) = (B \ {s}) \cup {h} /\ IsInjective(b)
    BY <1>2, <2>1, Appended
  <2>3. to \in PlaceMaps /\ got \in Engines
    BY <1>1, <1>4, <2>1 DEF PlaceMaps, Engines, Put
  <2>4. r = IF ok THEN EngineAdd(y, f, h, ok)
            ELSE [LayoutRemoveInput(EngineAdd(y, f, h, ok), f) EXCEPT !.missing = @ \cup {f}]
    BY <1>3, <1>6, <1>7, <1>9 DEF PromotePendingStream, Put, MixerStates
  <2> HIDE DEF b, to, q, h, got
  <2>5. /\ y \in MixerStates /\ SamePicture(y, m) /\ y.active = b /\ y.free = m.free /\ y.id = to /\ y.mixed = mix
        /\ y.pending = q /\ y.missing = m.missing /\ y.engine = m.engine /\ y.remote = m.remote
    <3>1. m.free \in Seq(Ids)
      BY <1>0, ListsOf
    <3>2. y \in MixerStates
      BY <1>6, <2>1, <2>2, <2>3, <3>1 DEF MixerStates
    <3> QED
      BY <1>6, <3>2 DEF MixerStates, SamePicture
  <2> HIDE DEF y
  <2>6. Pictured(y) /\ y.list = m.list /\ y.arranged = m.arranged
    BY <1>0, <2>5, PictureStays DEF SamePicture
  <2>7. /\ SetsAgree((B \ {s}) \cup {h}, ToSet(q), {}, to, got, lacks, L, arranged)
        /\ SetsAgree((B \ {s}) \cup {h}, ToSet(q), {}, to, mix, lacks \cup {f}, L \ {f}, arranged)
    <3> HIDE DEF f, B, P, G, place, engine, lacks, L, arranged
    <3>1. /\ B \in SUBSET MixerStreams /\ P \in SUBSET MixerStreams /\ place \in PlaceMaps /\ engine \in Engines
          /\ s \in B /\ h \in P /\ SetsAgree(B, P, {}, place, engine, lacks, L, arranged) /\ f = place[s]
          /\ ToSet(q) = P \ {h}
      BY <1>0, <2>1, ListsOf DEF f, B, P, G, place, engine, lacks, L, arranged
    <3> DEFINE Q == ToSet(q)
    <3> HIDE DEF Q
    <3>2. /\ SetsAgree((B \ {s}) \cup {h}, Q, {}, Put(Put(place, s, NoId), h, place[s]),
                       Put(Put(engine, place[s], NoStream), place[s], h), lacks, L, arranged)
          /\ SetsAgree((B \ {s}) \cup {h}, Q, {}, Put(Put(place, s, NoId), h, place[s]),
                       Put(engine, place[s], NoStream), lacks \cup {place[s]}, L \ {place[s]}, arranged)
      <4>1. Q = P \ {h}
        BY <3>1 DEF Q
      <4> QED
        BY <3>1, <4>1, TakesOver
    <3> QED
      BY <3>1, <3>2 DEF on, mix, to, got, place, engine, Q
  <2>8. CASE ok
    <3>1. r = [y EXCEPT !.mixed = got]
      BY <2>4, <2>5, <2>8 DEF EngineAdd, got, Put
    <3>2. /\ r \in MixerStates /\ SamePicture(r, y) /\ r.active = b /\ r.free = m.free /\ r.id = to
          /\ r.mixed = got /\ r.pending = q /\ r.missing = m.missing /\ r.engine = m.engine /\ r.remote = m.remote
      BY <2>3, <2>5, <3>1 DEF MixerStates, SamePicture
    <3>3. Pictured(r) /\ r.list = m.list /\ r.arranged = m.arranged
      BY <2>6, <3>2, PictureStays DEF SamePicture
    <3>4. Inputs(r) = (B \ {s}) \cup {h} /\ ToSet(r.free) = {} /\ ToSet(r.pending) = ToSet(q)
      BY <2>1, <2>2, <3>2 DEF Inputs
    <3>5. NodeAgrees(r)
      BY <1>0, <2>1, <2>2, <2>7, <3>2, <3>3, <3>4 DEF NodeAgrees
    <3>6. Streams(r) = Streams(m) \ {s}
      BY <1>1, <2>1, <3>4 DEF Streams
    <3> QED
      BY <3>2, <3>5, <3>6
  <2>9. CASE ~ok
    <3> DEFINE z == LayoutRemoveInput(y, f)
    <3>1. r = [z EXCEPT !.missing = @ \cup {f}]
      BY <2>4, <2>9 DEF EngineAdd
    <3>2. z \in MixerStates /\ SameInputs(z, y) /\ Pictured(z) /\ ToSet(z.list) = L \ {f}
      BY <2>5, <2>6, ListShrinks
    <3> HIDE DEF z
    <3>3. /\ r \in MixerStates /\ SamePicture(r, z) /\ r.active = b /\ r.free = m.free /\ r.id = to
          /\ r.mixed = mix /\ r.pending = q /\ r.missing = m.missing \cup {f} /\ r.engine = m.engine
          /\ r.remote = m.remote /\ z.arranged = m.arranged
      <4>1. z.missing \cup {f} \in SUBSET Ids /\ z.missing = m.missing
        BY <1>0, <1>1, <2>5, <3>2 DEF SameInputs
      <4>2. r \in MixerStates
        BY <3>1, <3>2, <4>1 DEF MixerStates
      <4>3. SamePicture(r, z) /\ r.missing = m.missing \cup {f}
        BY <3>1, <3>2, <4>1 DEF MixerStates, SamePicture
      <4> QED
        BY <2>5, <2>6, <3>1, <3>2, <4>2, <4>3 DEF MixerStates, SameInputs
    <3>4. Pictured(r) /\ r.list = z.list /\ r.arranged = m.arranged
      BY <3>2, <3>3, PictureStays DEF SamePicture
    <3>5. Inputs(r) = (B \ {s}) \cup {h} /\ ToSet(r.free) = {} /\ ToSet(r.pending) = ToSet(q)
      BY <2>1, <2>2, <3>3 DEF Inputs
    <3>6. NodeAgrees(r)
      BY <1>0, <2>1, <2>2, <2>7, <3>2, <3>3, <3>4, <3>5 DEF NodeAgrees
    <3>7. Streams(r) = Streams(m) \ {s}
      BY <1>1, <2>1, <3>5 DEF Streams
    <3> QED
      BY <3>3, <3>6, <3>7
  <2> QED
    BY <2>8, <2>9
<1> QED
  BY <1>8, <1>9

\* removeInput: the input is gone, with its source, and nothing else is.
LEMMA RemoveInputKeeps ==
  ASSUME NEW m, NodeAgrees(m), NEW s \in MixerStreams, NEW ok \in BOOLEAN, NEW r, r = RemoveInput(m, s, ok)
  PROVE  /\ NodeAgrees(r) /\ Streams(r) = Streams(m) \ {s} /\ r.engine = m.engine
         /\ r.remote = IF Has(m, s) THEN m.remote \ {s} ELSE m.remote
<1>0. /\ m \in MixerStates /\ Pictured(m) /\ m.remote \ {s} \in SUBSET MixerStreams
      /\ IsInjective(m.active) /\ IsInjective(m.pending) /\ IsInjective(m.free)
      /\ SetsAgree(Inputs(m), ToSet(m.pending), ToSet(m.free), m.id, m.mixed, m.missing,
                   ToSet(m.list), m.arranged)
  BY DEF NodeAgrees, MixerStates
<1>1. CASE ~Has(m, s)
  BY <1>1 DEF RemoveInput, Has, Streams
<1>2. CASE s \in Inputs(m)
  <2> DEFINE x == PromotePendingStream(EngineRemove(ManagerRemove(m, s), m.id[s]), m.id[s], ok)
  <2>1. NodeAgrees(x) /\ Streams(x) = Streams(m) \ {s} /\ x.engine = m.engine /\ x.remote = m.remote
    BY <1>2, PlaceLeft
  <2>2. Has(m, s) /\ r = DestroyRemoteSource(x, s)
    BY <1>2 DEF RemoveInput, Has
  <2> HIDE DEF x
  <2>3. r = [x EXCEPT !.remote = m.remote \ {s}]
    BY <2>1, <2>2 DEF DestroyRemoteSource
  <2>4. NodeAgrees(r) /\ Streams(r) = Streams(x) /\ r.engine = x.engine /\ r.remote = m.remote \ {s}
    BY <1>0, <2>1, <2>3, SourceKept
  <2> QED
    BY <2>1, <2>2, <2>4
<1>3. CASE Has(m, s) /\ s \notin Inputs(m)
  <2> DEFINE q == RemoveFirst(m.pending, s)
             x == [m EXCEPT !.pending = q]
  <2>1. s \in ToSet(m.pending)
    BY <1>3 DEF Has
  <2>2. q \in Seq(MixerStreams) /\ ToSet(q) = ToSet(m.pending) \ {s} /\ IsInjective(q)
    BY <1>0, <2>1, ListsOf, WithoutOne
  <2>3. r = DestroyRemoteSource(x, s)
    BY <1>3 DEF RemoveInput, ManagerRemove
  <2> HIDE DEF q
  <2>4. /\ x \in MixerStates /\ SamePicture(x, m) /\ x.active = m.active /\ x.free = m.free /\ x.id = m.id
        /\ x.mixed = m.mixed /\ x.pending = q /\ x.missing = m.missing /\ x.engine = m.engine
        /\ x.remote = m.remote
    BY <1>0, <2>2 DEF MixerStates, SamePicture
  <2> HIDE DEF x
  <2>5. Pictured(x) /\ x.list = m.list /\ x.arranged = m.arranged
    BY <1>0, <2>4, PictureStays DEF SamePicture
  <2>6. SetsAgree(Inputs(m), ToSet(m.pending) \ {s}, ToSet(m.free), m.id, m.mixed, m.missing,
                  ToSet(m.list), m.arranged)
    <3> DEFINE B == Inputs(m)
               P == ToSet(m.pending)
               G == ToSet(m.free)
               place == m.id
               engine == m.mixed
               lacks == m.missing
               L == ToSet(m.list)
               arranged == m.arranged
    <3>1. SetsAgree(B, P, G, place, engine, lacks, L, arranged)
      BY <1>0
    <3> HIDE DEF B, P, G, place, engine, lacks, L, arranged
    <3>2. SetsAgree(B, P \ {s}, G, place, engine, lacks, L, arranged)
      BY <3>1, WaitsNoMore
    <3> QED
      BY <3>2 DEF B, P, G, place, engine, lacks, L, arranged
  <2>7. Inputs(x) = Inputs(m) /\ ToSet(x.pending) = ToSet(m.pending) \ {s}
    BY <2>2, <2>4 DEF Inputs
  <2>8. NodeAgrees(x)
    BY <1>0, <2>2, <2>4, <2>5, <2>6, <2>7 DEF NodeAgrees
  <2>9. Streams(x) = Streams(m) \ {s}
    BY <1>3, <2>7 DEF Streams
  <2>10. r = [x EXCEPT !.remote = m.remote \ {s}]
    BY <2>3, <2>4 DEF DestroyRemoteSource
  <2>11. NodeAgrees(r) /\ Streams(r) = Streams(x) /\ r.engine = x.engine /\ r.remote = m.remote \ {s}
    BY <1>0, <2>8, <2>10, SourceKept
  <2> QED
    BY <1>3, <2>4, <2>9, <2>11
<1> QED
  BY <1>1, <1>2, <1>3 DEF Has

\* enable: the two inputs change places, one with a place and one that waits.
LEMMA EnableKeeps ==
  ASSUME NEW m, NodeAgrees(m), NEW s \in ToSet(m.pending), NEW other \in Inputs(m), NEW ok \in BOOLEAN,
         NEW r, r = Enable(m, s, other, ok)
  PROVE  NodeAgrees(r) /\ Streams(r) = Streams(m) /\ r.engine = m.engine /\ r.remote = m.remote
<1> DEFINE f == m.id[other]
           a == RemoveFirst(m.active, other)
           b == Append(a, s)
           p == RemoveFirst(m.pending, s)
           q == Append(p, other)
           to == Put(Put(m.id, other, NoId), s, f)
           mix == Put(m.mixed, f, NoStream)
           got == Put(mix, f, s)
           x == [m EXCEPT !.active = b, !.pending = q, !.id = to, !.mixed = mix]
           B == Inputs(m)
           P == ToSet(m.pending)
           place == m.id
           engine == m.mixed
           lacks == m.missing
           L == ToSet(m.list)
           arranged == m.arranged
<1>0. /\ m \in MixerStates /\ m.missing \subseteq Ids /\ Pictured(m)
      /\ IsInjective(m.active) /\ IsInjective(m.pending) /\ IsInjective(m.free)
      /\ SetsAgree(Inputs(m), ToSet(m.pending), ToSet(m.free), m.id, m.mixed, m.missing,
                   ToSet(m.list), m.arranged)
  BY DEF NodeAgrees, MixerStates
<1>1. /\ f \in Ids /\ s \in MixerStreams /\ other \in MixerStreams /\ s \notin Inputs(m)
      /\ other \notin ToSet(m.pending) /\ s # other /\ ToSet(m.free) = {}
  BY <1>0, ListsOf DEF SetsAgree, Placed
<1>2. a \in Seq(MixerStreams) /\ ToSet(a) = B \ {other} /\ IsInjective(a)
  BY <1>0, ListsOf, WithoutOne DEF Inputs
<1>3. p \in Seq(MixerStreams) /\ ToSet(p) = P \ {s} /\ IsInjective(p)
  BY <1>0, ListsOf, WithoutOne
<1>4. b \in Seq(MixerStreams) /\ ToSet(b) = (B \ {other}) \cup {s} /\ IsInjective(b)
  <2>1. s \notin ToSet(a)
    BY <1>1, <1>2
  <2> HIDE DEF a
  <2> QED
    BY <1>1, <1>2, <2>1, Appended
<1>5. q \in Seq(MixerStreams) /\ ToSet(q) = (P \ {s}) \cup {other} /\ IsInjective(q)
  <2>1. other \notin ToSet(p)
    BY <1>1, <1>3
  <2> HIDE DEF p
  <2> QED
    BY <1>1, <1>3, <2>1, Appended
<1>6. to \in PlaceMaps /\ mix \in Engines /\ got \in Engines
  BY <1>0, <1>1, ListsOf DEF PlaceMaps, Engines, Put
<1>7. to = [m.id EXCEPT ![s] = f, ![other] = NoId]
  BY <1>0, <1>1, ListsOf DEF PlaceMaps, Put
<1>8. EngineRemove([m EXCEPT !.active = b, !.pending = q, !.id = to], f) = x
  BY <1>0 DEF EngineRemove, MixerStates, Put
<1>9. r = IF ok THEN EngineAdd(x, f, s, ok) ELSE [LayoutRemoveInput(EngineAdd(x, f, s, ok), f) EXCEPT !.missing = @ \cup {f}]
  <2>1. [m EXCEPT !.active = Append(RemoveFirst(@, other), s), !.pending = Append(RemoveFirst(@, s), other),
                  !.id[s] = f, !.id[other] = NoId]
        = [m EXCEPT !.active = b, !.pending = q, !.id = to]
    <3> HIDE DEF to
    <3> QED
      BY <1>0, <1>7 DEF MixerStates
  <2> HIDE DEF b, q, to, x
  <2> QED
    BY <1>8, <2>1 DEF Enable
<1> HIDE DEF a, b, p, q, to, mix
<1>10. /\ x \in MixerStates /\ SamePicture(x, m) /\ x.active = b /\ x.free = m.free /\ x.id = to /\ x.mixed = mix
       /\ x.pending = q /\ x.missing = m.missing /\ x.engine = m.engine /\ x.remote = m.remote
  <2>1. x \in MixerStates
    BY <1>0, <1>4, <1>5, <1>6 DEF MixerStates
  <2> QED
    BY <1>0, <2>1 DEF MixerStates, SamePicture
<1> HIDE DEF x, got
<1>11. Pictured(x) /\ x.list = m.list /\ x.arranged = m.arranged
  BY <1>0, <1>10, PictureStays DEF SamePicture
<1>12. /\ SetsAgree((B \ {other}) \cup {s}, ToSet(q), {}, to, got, lacks, L, arranged)
       /\ SetsAgree((B \ {other}) \cup {s}, ToSet(q), {}, to, mix, lacks \cup {f}, L \ {f}, arranged)
  <2> DEFINE Q == ToSet(q)
  <2> HIDE DEF f, B, P, place, engine, lacks, L, arranged, Q
  <2>1. /\ B \in SUBSET MixerStreams /\ P \in SUBSET MixerStreams /\ place \in PlaceMaps /\ engine \in Engines
        /\ other \in B /\ s \in P /\ SetsAgree(B, P, {}, place, engine, lacks, L, arranged) /\ f = place[other]
        /\ Q = (P \ {s}) \cup {other}
    BY <1>0, <1>1, <1>5, ListsOf DEF f, B, P, place, engine, lacks, L, arranged, Q
  <2>2. /\ SetsAgree((B \ {other}) \cup {s}, Q, {}, Put(Put(place, other, NoId), s, place[other]),
                     Put(Put(engine, place[other], NoStream), place[other], s), lacks, L, arranged)
        /\ SetsAgree((B \ {other}) \cup {s}, Q, {}, Put(Put(place, other, NoId), s, place[other]),
                     Put(engine, place[other], NoStream), lacks \cup {place[other]}, L \ {place[other]}, arranged)
    BY <2>1, TakesOver
  <2> QED
    BY <2>1, <2>2 DEF mix, to, got, place, engine, Q
<1>13. CASE ok
  <2>1. r = [x EXCEPT !.mixed = got]
    BY <1>9, <1>10, <1>13 DEF EngineAdd, got, Put
  <2>2. /\ r \in MixerStates /\ SamePicture(r, x) /\ r.active = b /\ r.free = m.free /\ r.id = to
        /\ r.mixed = got /\ r.pending = q /\ r.missing = m.missing /\ r.engine = m.engine /\ r.remote = m.remote
    BY <1>6, <1>10, <2>1 DEF MixerStates, SamePicture
  <2>3. Pictured(r) /\ r.list = m.list /\ r.arranged = m.arranged
    BY <1>11, <2>2, PictureStays DEF SamePicture
  <2>4. Inputs(r) = (B \ {other}) \cup {s} /\ ToSet(r.free) = {}
    BY <1>1, <1>4, <2>2 DEF Inputs
  <2>5. NodeAgrees(r)
    BY <1>0, <1>4, <1>5, <1>12, <2>2, <2>3, <2>4 DEF NodeAgrees
  <2>6. Streams(r) = Streams(m)
    BY <1>1, <1>5, <2>2, <2>4 DEF Streams
  <2> QED
    BY <2>2, <2>5, <2>6
<1>14. CASE ~ok
  <2> DEFINE z == LayoutRemoveInput(x, f)
  <2>1. r = [z EXCEPT !.missing = @ \cup {f}]
    BY <1>9, <1>14 DEF EngineAdd
  <2>2. z \in MixerStates /\ SameInputs(z, x) /\ Pictured(z) /\ ToSet(z.list) = L \ {f}
    BY <1>10, <1>11, ListShrinks
  <2> HIDE DEF z
  <2>3. /\ r \in MixerStates /\ SamePicture(r, z) /\ r.active = b /\ r.free = m.free /\ r.id = to
        /\ r.mixed = mix /\ r.pending = q /\ r.missing = m.missing \cup {f} /\ r.engine = m.engine
        /\ r.remote = m.remote /\ z.arranged = m.arranged
    <3>1. z.missing \cup {f} \in SUBSET Ids /\ z.missing = m.missing
      BY <1>0, <1>1, <1>10, <2>2 DEF SameInputs
    <3>2. r \in MixerStates
      BY <2>1, <2>2, <3>1 DEF MixerStates
    <3>3. SamePicture(r, z) /\ r.missing = m.missing \cup {f}
      BY <2>1, <2>2, <3>1 DEF MixerStates, SamePicture
    <3> QED
      BY <1>10, <1>11, <2>1, <2>2, <3>2, <3>3 DEF MixerStates, SameInputs
  <2>4. Pictured(r) /\ r.list = z.list /\ r.arranged = m.arranged
    BY <2>2, <2>3, PictureStays DEF SamePicture
  <2>5. Inputs(r) = (B \ {other}) \cup {s} /\ ToSet(r.free) = {}
    BY <1>1, <1>4, <2>3 DEF Inputs
  <2>6. NodeAgrees(r)
    BY <1>0, <1>4, <1>5, <1>12, <2>2, <2>3, <2>4, <2>5 DEF NodeAgrees
  <2>7. Streams(r) = Streams(m)
    BY <1>1, <1>5, <2>3, <2>5 DEF Streams
  <2> QED
    BY <2>3, <2>6, <2>7
<1> QED
  BY <1>13, <1>14

\* The one that was made primary least often is an input with a place.
LEMMA LeastPrimaryIs ==
  ASSUME NEW m, NodeAgrees(m), NEW s \in ToSet(m.pending)
  PROVE  LeastPrimary(m) \in Inputs(m)
<1> DEFINE C == {m.count[t] : t \in Inputs(m)}
           I == {i \in 1..Len(m.active) : m.count[m.active[i]] = Min(C)}
<1>1. m \in MixerStates /\ m.active \in Seq(MixerStreams) /\ m.count \in [MixerStreams -> Nat]
  BY DEF NodeAgrees, MixerStates
<1>2. Inputs(m) \subseteq MixerStreams
  BY <1>1, ListsOf
<1>3. Inputs(m) # {}
  BY NoIdIsNone DEF NodeAgrees, SetsAgree, Placed
<1>4. C \subseteq Nat /\ C # {}
  BY <1>1, <1>2, <1>3
<1>5. Min(C) \in C
  BY <1>4, LeastIs
<1> DEFINE least == Min(C)
<1>6. /\ Len(m.active) \in Nat
      /\ \A x : x \in ToSet(m.active) <=> \E i \in 1..Len(m.active) : m.active[i] = x
  BY <1>1, PlacesOf
<1>7. I \subseteq Nat /\ I # {}
  <2>1. PICK t \in Inputs(m) : m.count[t] = Min(C)
    BY <1>5
  <2>2. PICK i \in 1..Len(m.active) : m.active[i] = t
    BY <1>6 DEF Inputs
  <2>3. i \in I
    BY <2>1, <2>2
  <2>4. \A j \in I : j \in Nat
    BY <1>6
  <2> HIDE DEF I
  <2> QED
    BY <2>3, <2>4
<1>8. Min(I) \in I
  BY <1>7, LeastIs
<1>9. LeastPrimary(m) = m.active[Min(I)]
  BY <1>7 DEF LeastPrimary, SelectInSeq
<1> QED
  BY <1>6, <1>8, <1>9 DEF Inputs

\* The region of a layout that is occupied shows an input with a place.
LEMMA StreamOfIs ==
  ASSUME NEW m, NodeAgrees(m), NEW r \in Nat \ {0}, Occupied(m, r)
  PROVE  StreamOf(m, m.list[r]) \in Inputs(m)
<1>1. m.list \in Seq(Ids)
  BY DEF NodeAgrees, MixerStates
<1>2. r \in 1..Len(m.list)
  BY <1>1 DEF Occupied
<1>3. m.list[r] \in ToSet(m.list)
  BY <1>1, <1>2, PlacesOf
<1>4. \E s \in Inputs(m) : m.id[s] = m.list[r]
  BY <1>3 DEF NodeAgrees, SetsAgree, Listed
<1> QED
  BY <1>4 DEF StreamOf

-----------------------------------------------------------------------------
(* setLayout: everything in another order                                   *)

LEMMA WiderList ==
  ASSUME NEW T, NEW U, T \subseteq U, NEW q \in Seq(T)
  PROVE  q \in Seq(U)
<1>1. Len(q) \in Nat /\ q \in [1..Len(q) -> T]
  OBVIOUS
<1>2. q \in [1..Len(q) -> U]
  BY <1>1
<1> QED
  BY <1>1, <1>2

\* The two parts of a list.
LEMMA Divided ==
  ASSUME NEW T, NEW q \in Seq(T), NEW n \in 0..Len(q)
  PROVE  /\ SubSeq(q, 1, n) \in Seq(T) /\ SubSeq(q, n + 1, Len(q)) \in Seq(T)
         /\ Len(SubSeq(q, 1, n)) = n /\ Len(SubSeq(q, n + 1, Len(q))) = Len(q) - n
         /\ \A x : x \in ToSet(SubSeq(q, 1, n)) <=> \E i \in 1..n : q[i] = x
         /\ \A x : x \in ToSet(SubSeq(q, n + 1, Len(q))) <=> \E i \in (n + 1)..Len(q) : q[i] = x
         /\ IsInjective(q) => IsInjective(SubSeq(q, 1, n)) /\ IsInjective(SubSeq(q, n + 1, Len(q)))
<1> DEFINE a == SubSeq(q, 1, n)
           b == SubSeq(q, n + 1, Len(q))
<1>1. Len(q) \in Nat /\ n \in Nat /\ n <= Len(q)
  OBVIOUS
<1>2. a \in Seq(T) /\ Len(a) = n /\ \A i \in 1..n : a[i] = q[i]
  BY <1>1
<1>3. b \in Seq(T) /\ Len(b) = Len(q) - n /\ \A i \in 1..(Len(q) - n) : b[i] = q[n + i]
  BY <1>1
<1> HIDE DEF a, b
<1>4. \A x : x \in ToSet(a) <=> \E i \in 1..n : q[i] = x
  <2>1. \A x : x \in ToSet(a) <=> \E i \in 1..n : a[i] = x
    BY <1>2, PlacesOf
  <2> QED
    BY <1>2, <2>1
<1>5. \A x : x \in ToSet(b) <=> \E i \in (n + 1)..Len(q) : q[i] = x
  <2>1. \A x : x \in ToSet(b) <=> \E i \in 1..(Len(q) - n) : b[i] = x
    BY <1>3, PlacesOf
  <2>2. \A i \in (n + 1)..Len(q) : i - n \in 1..(Len(q) - n) /\ n + (i - n) = i
    BY <1>1
  <2>3. \A i \in 1..(Len(q) - n) : n + i \in (n + 1)..Len(q)
    BY <1>1
  <2> QED
    BY <1>3, <2>1, <2>2, <2>3
<1>6. ASSUME IsInjective(q) PROVE IsInjective(a) /\ IsInjective(b)
  <2>1. \A i, j \in 1..Len(q) : q[i] = q[j] => i = j
    BY <1>6, PlacesOf
  <2>2. \A i, j \in 1..n : a[i] = a[j] => i = j
    BY <1>1, <1>2, <2>1
  <2>3. ASSUME NEW i \in 1..(Len(q) - n), NEW j \in 1..(Len(q) - n), b[i] = b[j] PROVE i = j
    <3>1. n + i \in 1..Len(q) /\ n + j \in 1..Len(q)
      BY <1>1
    <3>2. n + i = n + j
      BY <1>3, <2>1, <2>3, <3>1
    <3> QED
      BY <1>1, <3>2
  <2>4. IsInjective(a)
    BY <1>2, <2>2, PlacesOf
  <2>5. IsInjective(b)
    BY <1>3, <2>3, PlacesOf
  <2> QED
    BY <2>4, <2>5
<1> QED
  BY <1>2, <1>3, <1>4, <1>5, <1>6 DEF a, b

\* The first n of a list of streams get the first n of a list of all the places, and are mixed
\* there or refused.
InOrder(order, ids, n, B, P, F, on, mix, lacks) ==
  /\ order \in Seq(MixerStreams) /\ IsInjective(order)
  /\ ids \in Seq(Ids) /\ IsInjective(ids) /\ ToSet(ids) = Ids
  /\ n \in 0..Len(order) /\ n <= Len(ids) /\ (n = Len(order) \/ n = Len(ids))
  /\ on \in PlaceMaps /\ mix \in Engines
  /\ \A s : s \in B <=> \E k \in 1..n : order[k] = s
  /\ \A s : s \in P <=> \E k \in (n + 1)..Len(order) : order[k] = s
  /\ \A i : i \in F <=> \E k \in (n + 1)..Len(ids) : ids[k] = i
  /\ \A k \in 1..n : on[order[k]] = ids[k]
  /\ \A k \in 1..n : mix[ids[k]] = order[k] \/ (mix[ids[k]] = NoStream /\ ids[k] \in lacks)
  /\ \A s \in MixerStreams \ B : on[s] = NoId
  /\ \A k \in (n + 1)..Len(ids) : mix[ids[k]] = NoStream

SameTaken(A, id, ids, n) == \A i : (\E s \in A : id[s] = i) <=> (\E k \in 1..n : ids[k] = i)

LEMMA Rearranged ==
  ASSUME NEW A, NEW id, NEW missing, NEW L, NEW arranged, Listed(A, id, L, missing, arranged),
         NEW order, NEW ids, NEW n, NEW B, NEW P, NEW F, NEW on, NEW mix, NEW lacks, missing \subseteq lacks,
         InOrder(order, ids, n, B, P, F, on, mix, lacks), SameTaken(A, id, ids, n)
  PROVE  SetsAgree(B, P, F, on, mix, lacks, L, arranged)
<1>0. /\ \A s : s \in B <=> \E k \in 1..n : order[k] = s
      /\ \A s : s \in P <=> \E k \in (n + 1)..Len(order) : order[k] = s
      /\ \A i : i \in F <=> \E k \in (n + 1)..Len(ids) : ids[k] = i
      /\ \A k \in 1..n : on[order[k]] = ids[k]
      /\ \A k \in 1..n : mix[ids[k]] = order[k] \/ (mix[ids[k]] = NoStream /\ ids[k] \in lacks)
      /\ \A s \in MixerStreams \ B : on[s] = NoId
      /\ \A k \in (n + 1)..Len(ids) : mix[ids[k]] = NoStream
      /\ \A i : (\E s \in A : id[s] = i) <=> (\E k \in 1..n : ids[k] = i)
  BY DEF InOrder, SameTaken
<1>0a. /\ order \in Seq(MixerStreams) /\ ids \in Seq(Ids) /\ IsInjective(order) /\ IsInjective(ids)
       /\ ToSet(ids) = Ids /\ n \in 0..Len(order) /\ n <= Len(ids) /\ (n = Len(order) \/ n = Len(ids))
  BY DEF InOrder
<1> USE <1>0, <1>0a
<1>1. /\ Len(order) \in Nat /\ Len(ids) \in Nat /\ n \in Nat /\ n <= Len(order)
      /\ \A i, j \in 1..Len(order) : order[i] = order[j] => i = j
      /\ \A i, j \in 1..Len(ids) : ids[i] = ids[j] => i = j
      /\ \A i : i \in Ids <=> \E k \in 1..Len(ids) : ids[k] = i
  BY PlacesOf
<1>2. \A k \in 1..n : k \in 1..Len(order) /\ k \in 1..Len(ids) /\ order[k] \in B /\ ids[k] \in Ids
  <2> SUFFICES ASSUME NEW k \in 1..n
               PROVE  k \in 1..Len(order) /\ k \in 1..Len(ids) /\ order[k] \in B /\ ids[k] \in Ids
    OBVIOUS
  <2>1. k \in 1..Len(order) /\ k \in 1..Len(ids)
    BY <1>1
  <2>2. \E j \in 1..n : order[j] = order[k]
    OBVIOUS
  <2>3. \E j \in 1..Len(ids) : ids[j] = ids[k]
    BY <2>1
  <2> QED
    BY <1>1, <2>1, <2>2, <2>3
<1>2a. \A s \in B : \E k \in 1..n : order[k] = s /\ on[s] = ids[k]
  OBVIOUS
<1>2b. \A i \in Ids : i \in F \/ \E k \in 1..n : ids[k] = i
  <2> SUFFICES ASSUME NEW i \in Ids, i \notin F PROVE \E k \in 1..n : ids[k] = i
    OBVIOUS
  <2>1. PICK k \in 1..Len(ids) : ids[k] = i
    BY <1>1
  <2>2. k \notin (n + 1)..Len(ids)
    BY <2>1
  <2>3. k \in 1..n
    BY <1>1, <2>2
  <2> QED
    BY <2>1, <2>3
<1>3. Placed(B, P, F, on)
  <2>1. ASSUME NEW s \in B, s \in P PROVE FALSE
    <3>1. PICK j \in 1..n : order[j] = s
      BY <1>2a
    <3>2. PICK k \in (n + 1)..Len(order) : order[k] = s
      BY <2>1
    <3>3. j \in 1..Len(order) /\ k \in 1..Len(order) /\ j # k
      BY <1>1, <3>1, <3>2
    <3> QED
      BY <1>1, <3>1, <3>2, <3>3
  <2>2. P # {} => F = {}
    BY <1>1
  <2>3. F \subseteq Ids
    BY <1>1
  <2>4. ASSUME NEW s \in B, NEW t \in B, on[s] = on[t] PROVE s = t
    <3>1. PICK j \in 1..n : order[j] = s /\ on[s] = ids[j]
      BY <1>2a
    <3>2. PICK k \in 1..n : order[k] = t /\ on[t] = ids[k]
      BY <1>2a
    <3>3. ids[j] = ids[k] /\ j \in 1..Len(ids) /\ k \in 1..Len(ids)
      BY <1>2, <2>4, <3>1, <3>2
    <3>4. j = k
      BY <1>1, <3>3
    <3> QED
      BY <3>1, <3>2, <3>4
  <2>5. ASSUME NEW s \in B PROVE on[s] \in Ids /\ on[s] \notin F
    <3>1. PICK j \in 1..n : order[j] = s /\ on[s] = ids[j]
      BY <1>2a
    <3>2. \A k \in (n + 1)..Len(ids) : ids[k] # ids[j]
      <4>1. \A k \in (n + 1)..Len(ids) : k \in 1..Len(ids) /\ k # j
        BY <1>1, <1>2
      <4> QED
        BY <1>1, <1>2, <4>1
    <3> QED
      BY <1>2, <3>1, <3>2
  <2>6. ASSUME NEW i \in Ids PROVE i \in F \/ \E s \in B : on[s] = i
    BY <1>2, <1>2b
  <2> QED
    BY <2>1, <2>2, <2>3, <2>4, <2>5, <2>6 DEF Placed
<1>4. MixedIn(B, on, mix, lacks)
  <2>1. \A s \in B : mix[on[s]] = s \/ (mix[on[s]] = NoStream /\ on[s] \in lacks)
    BY <1>2a
  <2>2. ASSUME NEW i \in Ids, mix[i] # NoStream PROVE mix[i] \in B /\ on[mix[i]] = i
    <3>1. PICK k \in 1..Len(ids) : ids[k] = i
      BY <1>1
    <3>2. k \in 1..n
      <4>1. k \notin (n + 1)..Len(ids)
        BY <2>2, <3>1
      <4> QED
        BY <1>1, <4>1
    <3>3. mix[i] = order[k] /\ on[order[k]] = i /\ order[k] \in B
      BY <1>2, <2>2, <3>1, <3>2
    <3> QED
      BY <3>3
  <2> QED
    BY <2>1, <2>2 DEF MixedIn
<1>5. \A i : (\E s \in A : id[s] = i) <=> (\E s \in B : on[s] = i)
  <2>1. ASSUME NEW i PROVE (\E k \in 1..n : ids[k] = i) <=> (\E s \in B : on[s] = i)
    <3>1. ASSUME NEW k \in 1..n, ids[k] = i PROVE \E s \in B : on[s] = i
      BY <1>2, <3>1
    <3>2. ASSUME NEW s \in B, on[s] = i PROVE \E k \in 1..n : ids[k] = i
      BY <1>2a, <3>2
    <3> QED
      BY <3>1, <3>2
  <2> QED
    BY <1>0, <2>1, Zenon
<1>6. Listed(B, on, L, lacks, arranged)
  <2>1. \A i \in L : \E s \in B : on[s] = i
    BY <1>5 DEF Listed
  <2>2. ~arranged => \A i : (\E s \in A : id[s] = i) => i \in L \cup missing
    BY DEF Listed
  <2>3. ~arranged => \A s \in B : on[s] \in L \cup lacks
    BY <1>5, <2>2
  <2> QED
    BY <2>1, <2>3 DEF Listed
<1> QED
  BY <1>3, <1>4, <1>6 DEF SetsAgree

\* All the streams, in the order in which they are added again.
LEMMA ReorderedIs ==
  ASSUME NEW m, NodeAgrees(m), NEW S
  PROVE  /\ Reordered(m, S) \in Seq(MixerStreams) /\ IsInjective(Reordered(m, S))
         /\ ToSet(Reordered(m, S)) = Streams(m)
         /\ Len(Reordered(m, S)) = Len(m.active) + Len(m.pending)
<1> DEFINE all == m.active \o m.pending
           a == Kept(all, S)
           b == Kept(all, MixerStreams \ S)
           c == Reverse(a)
           q == c \o b
<1>1. /\ m.active \in Seq(MixerStreams) /\ m.pending \in Seq(MixerStreams)
      /\ IsInjective(m.active) /\ IsInjective(m.pending)
      /\ ToSet(m.active) \cap ToSet(m.pending) = {}
      /\ Streams(m) = ToSet(m.active) \cup ToSet(m.pending) /\ Streams(m) \subseteq MixerStreams
  BY ListsOf DEF NodeAgrees, SetsAgree, Placed, Streams, Inputs
<1>2. /\ all \in Seq(MixerStreams) /\ IsInjective(all) /\ ToSet(all) = Streams(m)
      /\ Len(all) = Len(m.active) + Len(m.pending)
  BY <1>1, Chained
<1> HIDE DEF all
<1>3. a \in Seq(MixerStreams \cap S) /\ ToSet(a) = Streams(m) \cap S /\ IsInjective(a)
  BY <1>2, KeptIs
<1>4. /\ b \in Seq(MixerStreams \cap (MixerStreams \ S)) /\ ToSet(b) = Streams(m) \cap (MixerStreams \ S)
      /\ IsInjective(b)
  BY <1>2, KeptIs
<1> HIDE DEF a, b
<1>5. a \in Seq(MixerStreams)
  BY <1>3, WiderList
<1>6. b \in Seq(MixerStreams)
  BY <1>4, WiderList
<1>7. c \in Seq(MixerStreams) /\ ToSet(c) = Streams(m) \cap S /\ IsInjective(c)
  BY <1>3, <1>5, Reversed
<1> HIDE DEF c
<1>8. q \in Seq(MixerStreams) /\ IsInjective(q) /\ ToSet(q) = ToSet(c) \cup ToSet(b)
  <2>1. ToSet(c) \cap ToSet(b) = {}
    BY <1>4, <1>7
  <2> QED
    BY <1>4, <1>6, <1>7, <2>1, Chained
<1>9. ToSet(q) = Streams(m)
  BY <1>1, <1>4, <1>7, <1>8
<1> HIDE DEF q
<1>10. Len(q) = Len(all)
  BY <1>2, <1>8, <1>9, LengthIs
<1>11. Reordered(m, S) = q
  BY DEF Reordered, q, c, b, a, all
<1> QED
  BY <1>2, <1>8, <1>9, <1>10, <1>11

TakenPlaces(m) == [i \in 1..Len(m.active) |-> m.id[m.active[i]]]

\* The places of the streams that have one.
LEMMA TakenPlacesAre ==
  ASSUME NEW m, NodeAgrees(m)
  PROVE  /\ TakenPlaces(m) \in Seq(Ids) /\ IsInjective(TakenPlaces(m)) /\ Len(TakenPlaces(m)) = Len(m.active)
         /\ ToSet(TakenPlaces(m)) = {m.id[s] : s \in Inputs(m)}
         /\ ToSet(m.free) \cap ToSet(TakenPlaces(m)) = {} /\ ToSet(m.free) \cup ToSet(TakenPlaces(m)) = Ids
<1> DEFINE p == TakenPlaces(m)
           n == Len(m.active)
<1>1. /\ m.active \in Seq(MixerStreams) /\ IsInjective(m.active) /\ Inputs(m) = ToSet(m.active)
      /\ Placed(Inputs(m), ToSet(m.pending), ToSet(m.free), m.id)
  BY ListsOf DEF NodeAgrees, SetsAgree, Inputs
<1>2. /\ n \in Nat /\ \A i, j \in 1..n : m.active[i] = m.active[j] => i = j
      /\ \A s : s \in Inputs(m) <=> \E i \in 1..n : m.active[i] = s
  BY <1>1, PlacesOf
<1>3. \A i \in 1..n : m.active[i] \in Inputs(m)
  BY <1>2
<1>4. p \in [1..n -> Ids] /\ \A i \in 1..n : p[i] = m.id[m.active[i]]
  BY <1>1, <1>3 DEF Placed, TakenPlaces
<1> HIDE DEF p
<1>5. p \in Seq(Ids) /\ Len(p) = n
  BY <1>2, <1>4
<1>6. \A i, j \in 1..n : p[i] = p[j] => i = j
  <2> SUFFICES ASSUME NEW i \in 1..n, NEW j \in 1..n, p[i] = p[j] PROVE i = j
    OBVIOUS
  <2>1. m.active[i] \in Inputs(m) /\ m.active[j] \in Inputs(m) /\ m.id[m.active[i]] = m.id[m.active[j]]
    BY <1>3, <1>4
  <2>2. m.active[i] = m.active[j]
    BY <1>1, <2>1 DEF Placed
  <2> QED
    BY <1>2, <2>2
<1>7. IsInjective(p) /\ \A x : x \in ToSet(p) <=> \E i \in 1..n : p[i] = x
  BY <1>5, <1>6, PlacesOf
<1>8. ToSet(p) = {m.id[s] : s \in Inputs(m)}
  BY <1>2, <1>3, <1>4, <1>7
<1> QED
  BY <1>1, <1>5, <1>7, <1>8 DEF Placed, p

\* The places in the order in which they are taken again: first those that were taken.
LEMMA PlacesAgain ==
  ASSUME NEW m, NodeAgrees(m), NEW ids, ids = Reverse(m.free \o TakenPlaces(m))
  PROVE  /\ ids \in Seq(Ids) /\ IsInjective(ids) /\ ToSet(ids) = Ids /\ Len(ids) = MaxInput
         /\ Len(m.active) \in 0..MaxInput /\ MaxInput = Len(m.free) + Len(m.active)
         /\ SameTaken(Inputs(m), m.id, ids, Len(m.active))
<1> DEFINE p == TakenPlaces(m)
           n == Len(m.active)
           g == m.free
           all == g \o p
<1>1. /\ p \in Seq(Ids) /\ IsInjective(p) /\ Len(p) = n /\ ToSet(p) = {m.id[s] : s \in Inputs(m)}
      /\ ToSet(g) \cap ToSet(p) = {} /\ ToSet(g) \cup ToSet(p) = Ids
  BY TakenPlacesAre
<1>2. g \in Seq(Ids) /\ IsInjective(g) /\ n \in Nat /\ Len(g) \in Nat
  <2>1. m.active \in Seq(MixerStreams) /\ g \in Seq(Ids) /\ IsInjective(g)
    BY ListsOf DEF NodeAgrees
  <2> QED
    BY <2>1, PlacesOf
<1> HIDE DEF p, g, n
<1>3. /\ all \in Seq(Ids) /\ Len(all) = Len(g) + n /\ ToSet(all) = Ids /\ IsInjective(all)
      /\ \A i \in 1..n : all[Len(g) + i] = p[i]
  <2>1. /\ g \o p \in Seq(Ids) /\ Len(g \o p) = Len(g) + Len(p) /\ ToSet(g \o p) = ToSet(g) \cup ToSet(p)
        /\ IsInjective(g \o p) /\ \A i \in 1..Len(p) : (g \o p)[Len(g) + i] = p[i]
    <3> DEFINE x == g \o p
    <3>1. g \in Seq(Ids) /\ p \in Seq(Ids)
      BY <1>1, <1>2
    <3>2. x \in Seq(Ids) /\ Len(x) = Len(g) + Len(p) /\ ToSet(x) = ToSet(g) \cup ToSet(p)
      BY <3>1, Chained
    <3>2a. IsInjective(g) /\ IsInjective(p) /\ ToSet(g) \cap ToSet(p) = {} => IsInjective(x)
      BY <3>1, Chained
    <3>2b. \A i \in 1..Len(p) : x[Len(g) + i] = p[i]
      BY <3>1, Chained
    <3> HIDE DEF x
    <3>3. IsInjective(x)
      BY <1>1, <1>2, <3>2a, Zenon
    <3> QED
      BY <3>2, <3>2b, <3>3 DEF x
  <2> HIDE DEF all
  <2>2. all = g \o p
    BY DEF all
  <2> QED
    BY <1>1, <2>1, <2>2
<1>4. ids = Reverse(all)
  BY DEF p, g
<1> HIDE DEF all
<1>5. ids \in Seq(Ids) /\ Len(ids) = Len(all) /\ ToSet(ids) = Ids /\ IsInjective(ids)
  BY <1>3, <1>4, Reversed
<1>6. Len(ids) = MaxInput
  <2>1. Cardinality(Ids) = Len(ids)
    BY <1>5, LengthIs
  <2>2. Cardinality(Ids) = MaxInput
    BY MixerAssumption, FS_Interval DEF Ids
  <2> QED
    BY <2>1, <2>2
<1>7. Len(g) \in Nat /\ n \in 0..MaxInput /\ MaxInput = Len(g) + n
  <2>1. Len(g) + n = MaxInput
    BY <1>3, <1>5, <1>6
  <2> QED
    BY <1>2, <2>1
<1>8. \A k \in 1..n : ids[k] = p[(n - k) + 1] /\ (n - k) + 1 \in 1..n
  <2> SUFFICES ASSUME NEW k \in 1..n PROVE ids[k] = p[(n - k) + 1] /\ (n - k) + 1 \in 1..n
    OBVIOUS
  <2>1. Len(all) = Len(g) + n /\ k \in 1..Len(all)
    BY <1>3, <1>7
  <2>2. ids[k] = all[(Len(all) - k) + 1]
    BY <1>4, <2>1 DEF Reverse
  <2>3. (n - k) + 1 \in 1..n /\ (Len(all) - k) + 1 = Len(g) + ((n - k) + 1)
    BY <1>2, <2>1
  <2> QED
    BY <1>3, <2>2, <2>3
<1>9. \A i \in 1..n : ids[(n - i) + 1] = p[i] /\ (n - i) + 1 \in 1..n
  <2> SUFFICES ASSUME NEW i \in 1..n PROVE ids[(n - i) + 1] = p[i] /\ (n - i) + 1 \in 1..n
    OBVIOUS
  <2>1. (n - i) + 1 \in 1..n /\ (n - ((n - i) + 1)) + 1 = i
    BY <1>2
  <2> QED
    BY <1>8, <2>1
<1>10. \A x : x \in ToSet(p) <=> \E i \in 1..n : p[i] = x
  BY <1>1, PlacesOf
<1>11. \A i : (\E s \in Inputs(m) : m.id[s] = i) <=> i \in ToSet(p)
  BY <1>1
<1>12. \A i : (\E k \in 1..n : ids[k] = i) <=> i \in ToSet(p)
  BY <1>8, <1>9, <1>10
<1> QED
  BY <1>5, <1>6, <1>7, <1>11, <1>12 DEF g, n, SameTaken

\* setLayout, up to the layout: as many inputs as before have the same places.
LEMMA AddedAgainKeeps ==
  ASSUME NEW m, NodeAgrees(m), NEW S, NEW refused, NEW r, r = AddedAgain(m, S, refused)
  PROVE  NodeAgrees(r) /\ Streams(r) = Streams(m) /\ r.engine = m.engine /\ r.remote = m.remote
<1> DEFINE order == Reordered(m, S)
           ids == Reverse(m.free \o TakenPlaces(m))
           n == Len(m.active)
           place(s) == SelectInSeq(order, LAMBDA t : t = s)
           at(i) == SelectInSeq(ids, LAMBDA j : j = i)
           on == [s \in MixerStreams |-> IF Has(m, s) /\ place(s) <= n THEN ids[place(s)] ELSE NoId]
           mix == [i \in Ids |-> IF at(i) <= n /\ order[at(i)] \notin refused THEN order[at(i)] ELSE NoStream]
           lacks == m.missing \cup {i \in Ids : at(i) <= n /\ order[at(i)] \in refused}
           a == SubSeq(order, 1, n)
           p == SubSeq(order, n + 1, Len(order))
           g == SubSeq(ids, n + 1, MaxInput)
           G == Reverse(g)
           zero == [s \in MixerStreams |-> 0]
<1>0. /\ m \in MixerStates /\ m.missing \subseteq Ids /\ Pictured(m)
      /\ IsInjective(m.active) /\ IsInjective(m.pending) /\ IsInjective(m.free)
      /\ SetsAgree(Inputs(m), ToSet(m.pending), ToSet(m.free), m.id, m.mixed, m.missing,
                   ToSet(m.list), m.arranged)
  BY DEF NodeAgrees, MixerStates
<1>1. /\ order \in Seq(MixerStreams) /\ IsInjective(order) /\ ToSet(order) = Streams(m)
      /\ Len(order) = n + Len(m.pending)
  BY ReorderedIs
<1>2. /\ ids \in Seq(Ids) /\ IsInjective(ids) /\ ToSet(ids) = Ids /\ Len(ids) = MaxInput
      /\ n \in 0..MaxInput /\ MaxInput = Len(m.free) + n
      /\ SameTaken(Inputs(m), m.id, ids, n)
  <2>1. ids = Reverse(m.free \o TakenPlaces(m))
    OBVIOUS
  <2> HIDE DEF ids
  <2> QED
    <3>1. ids \in Seq(Ids) /\ IsInjective(ids) /\ ToSet(ids) = Ids /\ Len(ids) = MaxInput
      BY <2>1, PlacesAgain
    <3>2. n \in 0..MaxInput /\ MaxInput = Len(m.free) + n
      BY PlacesAgain
    <3>3. SameTaken(Inputs(m), m.id, ids, n)
      BY <2>1, PlacesAgain
    <3> QED
      BY <3>1, <3>2, <3>3
<1>3. /\ Len(m.pending) \in Nat /\ Len(m.free) \in Nat /\ (Len(m.pending) = 0 \/ Len(m.free) = 0)
  BY <1>0, ListsOf, PlacesOf DEF SetsAgree, Placed
<1>4. Streams(m) \subseteq MixerStreams /\ \A s : Has(m, s) <=> s \in Streams(m)
  BY <1>0, ListsOf DEF Streams, Has
<1>5. Min({Len(order), MaxInput}) = n
  <2> DEFINE C == {Len(order), MaxInput}
  <2>0. n \in Nat /\ n <= MaxInput /\ MaxInput \in Nat
    <3> HIDE DEF n
    <3> QED
      BY <1>2, MixerAssumption
  <2>1. Len(order) \in Nat /\ MaxInput \in Nat /\ n \in C /\ n <= Len(order) /\ n <= MaxInput /\ n \in Nat
    <3> DEFINE x == Len(m.pending)
               y == Len(m.free)
               z == Len(order)
    <3>1. x \in Nat /\ y \in Nat /\ (x = 0 \/ y = 0) /\ z = n + x /\ MaxInput = y + n
      BY <1>1, <1>2, <1>3
    <3> HIDE DEF x, y, z, n
    <3>2. z \in Nat /\ n <= z /\ (n = z \/ n = MaxInput)
      BY <2>0, <3>1
    <3> QED
      BY <2>0, <3>2 DEF z
  <2>2. C \subseteq Nat /\ C # {}
    BY <2>1
  <2>3. Min(C) \in C /\ \A i \in C : Min(C) <= i
    BY <2>2, LeastIs
  <2>4. n <= Min(C) /\ Min(C) <= n /\ Min(C) \in Nat
    BY <2>1, <2>3
  <2> HIDE DEF C, n
  <2> QED
    BY <2>1, <2>4 DEF C
<1>6. r = [m EXCEPT !.active = a, !.pending = p, !.id = on, !.free = G, !.mixed = mix,
                    !.missing = lacks, !.count = zero]
  BY <1>5 DEF AddedAgain, TakenPlaces
<1>7. /\ \A s \in Streams(m) : place(s) \in 1..Len(order) /\ order[place(s)] = s
      /\ \A i \in Ids : at(i) \in 1..Len(ids) /\ ids[at(i)] = i
  BY <1>1, <1>2, FoundAt
<1> HIDE DEF order, ids, n, place, at
<1>8. n \in 0..Len(order) /\ n <= Len(ids) /\ (n = Len(order) \/ n = Len(ids)) /\ n \in Nat
      /\ Len(order) \in Nat /\ Len(ids) = MaxInput /\ MaxInput \in Nat /\ n \in 0..Len(ids)
  BY <1>1, <1>2, <1>3
<1>9. /\ \A i, j \in 1..Len(order) : order[i] = order[j] => i = j
      /\ \A i, j \in 1..Len(ids) : ids[i] = ids[j] => i = j
      /\ \A s : s \in Streams(m) <=> \E k \in 1..Len(order) : order[k] = s
      /\ \A i : i \in Ids <=> \E k \in 1..Len(ids) : ids[k] = i
  <2>1. /\ \A i, j \in 1..Len(order) : order[i] = order[j] => i = j
        /\ \A s : s \in ToSet(order) <=> \E k \in 1..Len(order) : order[k] = s
    BY <1>1, PlacesOf
  <2>2. /\ \A i, j \in 1..Len(ids) : ids[i] = ids[j] => i = j
        /\ \A i : i \in ToSet(ids) <=> \E k \in 1..Len(ids) : ids[k] = i
    BY <1>2, PlacesOf
  <2> QED
    BY <1>1, <1>2, <2>1, <2>2
<1>10. \A k \in 1..Len(order) : order[k] \in Streams(m) /\ place(order[k]) = k
  BY <1>7, <1>9
<1>11. \A k \in 1..Len(ids) : ids[k] \in Ids /\ at(ids[k]) = k
  BY <1>7, <1>9
<1>12. on \in PlaceMaps
  <2>1. \A s \in MixerStreams : Has(m, s) /\ place(s) <= n => ids[place(s)] \in Ids
    BY <1>4, <1>7, <1>8, <1>11
  <2> QED
    BY <2>1 DEF PlaceMaps
<1>13. mix \in Engines
  <2>1. \A i \in Ids : at(i) <= n => order[at(i)] \in MixerStreams
    BY <1>4, <1>7, <1>8, <1>10
  <2> QED
    BY <2>1 DEF Engines
<1>14. /\ \A k \in 1..n : on[order[k]] = ids[k]
       /\ \A k \in 1..n : mix[ids[k]] = order[k] \/ (mix[ids[k]] = NoStream /\ ids[k] \in lacks)
  <2> SUFFICES ASSUME NEW k \in 1..n
               PROVE  /\ on[order[k]] = ids[k]
                      /\ mix[ids[k]] = order[k] \/ (mix[ids[k]] = NoStream /\ ids[k] \in lacks)
    OBVIOUS
  <2>1. k \in 1..Len(order) /\ k \in 1..Len(ids) /\ k <= n
    BY <1>8
  <2>2. order[k] \in MixerStreams /\ Has(m, order[k]) /\ place(order[k]) = k
    BY <1>4, <1>10, <2>1
  <2>3. ids[k] \in Ids /\ at(ids[k]) = k
    BY <1>11, <2>1
  <2> QED
    BY <2>1, <2>2, <2>3
<1>14a. lacks \subseteq Ids /\ m.missing \subseteq lacks
  BY <1>0
<1>15. \A k \in (n + 1)..Len(ids) : mix[ids[k]] = NoStream
  BY <1>8, <1>11
<1>16. /\ a \in Seq(MixerStreams) /\ p \in Seq(MixerStreams) /\ IsInjective(a) /\ IsInjective(p)
       /\ \A s : s \in ToSet(a) <=> \E k \in 1..n : order[k] = s
       /\ \A s : s \in ToSet(p) <=> \E k \in (n + 1)..Len(order) : order[k] = s
  BY <1>1, <1>8, Divided
<1>17. /\ g \in Seq(Ids) /\ IsInjective(g)
       /\ \A i : i \in ToSet(g) <=> \E k \in (n + 1)..Len(ids) : ids[k] = i
  BY <1>2, <1>8, Divided
<1> HIDE DEF g
<1>18. G \in Seq(Ids) /\ IsInjective(G) /\ ToSet(G) = ToSet(g)
  BY <1>17, Reversed
<1>19. \A s \in MixerStreams \ ToSet(a) : on[s] = NoId
  <2> SUFFICES ASSUME NEW s \in MixerStreams \ ToSet(a), Has(m, s), place(s) <= n PROVE FALSE
    OBVIOUS
  <2>1. place(s) \in 1..n /\ order[place(s)] = s
    BY <1>4, <1>7, <1>8
  <2> QED
    BY <1>16, <2>1
<1>20. ToSet(a) \cup ToSet(p) = Streams(m)
  <2>1. \A k : k \in 1..Len(order) <=> k \in 1..n \/ k \in (n + 1)..Len(order)
    BY <1>8
  <2> QED
    BY <1>9, <1>16, <2>1
<1> HIDE DEF on, mix, lacks, a, p, G
<1> DEFINE B == Inputs(m)
           was == m.id
           lacked == m.missing
           L == ToSet(m.list)
           arranged == m.arranged
           A == ToSet(a)
           P == ToSet(p)
           F == ToSet(G)
<1>21. SetsAgree(A, P, F, on, mix, lacks, L, arranged)
  <2>1. Listed(B, was, L, lacked, arranged) /\ SameTaken(B, was, ids, n) /\ lacked \subseteq lacks
    BY <1>0, <1>2, <1>14a DEF SetsAgree
  <2>2. InOrder(order, ids, n, A, P, F, on, mix, lacks)
    BY <1>1, <1>2, <1>8, <1>12, <1>13, <1>14, <1>15, <1>16, <1>17, <1>18, <1>19 DEF InOrder
  <2> HIDE DEF B, was, lacked, L, arranged, A, P, F
  <2> QED
    BY <2>1, <2>2, Rearranged
<1>22. /\ r \in MixerStates /\ SamePicture(r, m) /\ r.active = a /\ r.pending = p /\ r.id = on /\ r.free = G
       /\ r.mixed = mix /\ r.missing = lacks /\ r.engine = m.engine /\ r.remote = m.remote
  <2>1. zero \in [MixerStreams -> Nat]
    OBVIOUS
  <2> HIDE DEF zero
  <2>2. r \in MixerStates
    BY <1>0, <1>6, <1>12, <1>13, <1>14a, <1>16, <1>18, <2>1 DEF MixerStates
  <2> QED
    BY <1>0, <1>6, <2>2 DEF MixerStates, SamePicture
<1>23. Pictured(r) /\ r.list = m.list /\ r.arranged = m.arranged
  BY <1>0, <1>22, PictureStays DEF SamePicture
<1>24. Inputs(r) = A /\ ToSet(r.pending) = P /\ ToSet(r.free) = F
  BY <1>22 DEF Inputs
<1>25. NodeAgrees(r)
  BY <1>14a, <1>16, <1>18, <1>21, <1>22, <1>23, <1>24 DEF NodeAgrees
<1>26. Streams(r) = Streams(m)
  BY <1>20, <1>24 DEF Streams
<1> QED
  BY <1>21, <1>22, <1>24, <1>25, <1>26

-----------------------------------------------------------------------------
(* setLayout: the regions                                                   *)

IsLayout(layout) ==
  /\ layout \in Seq(MixerStreams \cup {NoStream})
  /\ \A p, q \in 1..Len(layout) : layout[p] = layout[q] => p = q \/ layout[p] = NoStream

\* What fills the regions that a layout leaves empty is in no region that it names.
LEMMA FilledIs ==
  ASSUME NEW m, NodeAgrees(m), NEW layout, IsLayout(layout), NEW f, f = Filled(m, layout)
  PROVE  IsLayout(f) /\ Len(f) = Len(layout)
<1> DEFINE others == Kept(m.active, MixerStreams \ ToSet(layout))
           n == Len(layout)
           I == {q \in 1..n : layout[q] = NoStream}
<1>1. /\ n \in Nat /\ layout \in [1..n -> MixerStreams \cup {NoStream}]
      /\ \A x : x \in ToSet(layout) <=> \E q \in 1..n : layout[q] = x
  BY PlacesOf DEF IsLayout
<1>2. m.active \in Seq(MixerStreams) /\ IsInjective(m.active)
  BY ListsOf DEF NodeAgrees
<1>3. /\ others \in Seq(MixerStreams \cap (MixerStreams \ ToSet(layout))) /\ IsInjective(others)
      /\ ToSet(others) = ToSet(m.active) \cap (MixerStreams \ ToSet(layout))
  BY <1>2, KeptIs
<1>4. I \in SUBSET (1..n)
  OBVIOUS
<1>5. \A r \in 1..n : Cardinality({q \in 1..r : layout[q] = NoStream}) = Rank(I, r)
  <2> SUFFICES ASSUME NEW r \in 1..n PROVE {q \in 1..r : layout[q] = NoStream} = {q \in I : q <= r}
    BY DEF Rank
  <2> QED
    BY <1>1
<1> HIDE DEF others
<1>6. f = [r \in 1..n |-> IF layout[r] = NoStream /\ Rank(I, r) <= Len(others)
                          THEN others[Rank(I, r)] ELSE layout[r]]
  BY <1>5 DEF Filled, others
<1>7. \A r \in 1..n : r \in I <=> layout[r] = NoStream
  OBVIOUS
<1> HIDE DEF I, n
<1>8. /\ \A i \in I : Rank(I, i) \in 1..Cardinality(I)
      /\ Cardinality(I) \in Nat
  BY <1>1, <1>4, Ranked
<1>9. /\ Len(others) \in Nat /\ \A i, j \in 1..Len(others) : others[i] = others[j] => i = j
      /\ \A x : x \in ToSet(others) <=> \E i \in 1..Len(others) : others[i] = x
  BY <1>3, PlacesOf
<1>10. \A i \in 1..Len(others) : others[i] \in MixerStreams /\ others[i] \notin ToSet(layout)
  BY <1>3, <1>9
<1> DEFINE Fills(r) == r \in I /\ Rank(I, r) <= Len(others)
<1>11. \A r \in 1..n : Fills(r) => Rank(I, r) \in 1..Len(others)
  BY <1>8, <1>9
<1>12. /\ \A r \in 1..n : Fills(r) => f[r] = others[Rank(I, r)]
       /\ \A r \in 1..n : ~Fills(r) => f[r] = layout[r]
  BY <1>6, <1>7
<1> HIDE DEF Fills
<1>13. f \in [1..n -> MixerStreams \cup {NoStream}]
  <2>1. DOMAIN f = 1..n /\ f = [r \in 1..n |-> f[r]]
    BY <1>6
  <2>2. \A r \in 1..n : f[r] \in MixerStreams \cup {NoStream}
    BY <1>1, <1>10, <1>11, <1>12
  <2> QED
    BY <2>1, <2>2
<1>14. f \in Seq(MixerStreams \cup {NoStream}) /\ Len(f) = n
  BY <1>1, <1>13
<1>15. ASSUME NEW p \in 1..n, NEW q \in 1..n, f[p] = f[q], f[p] # NoStream PROVE p = q
  <2>1. CASE Fills(p) /\ Fills(q)
    <3>1. Rank(I, p) = Rank(I, q) /\ p \in I /\ q \in I
      BY <1>9, <1>11, <1>12, <1>15, <2>1 DEF Fills
    <3> QED
      BY <1>1, <1>4, <3>1, RanksDiffer
  <2>2. CASE ~Fills(p) /\ ~Fills(q)
    <3>1. layout[p] = layout[q] /\ layout[p] # NoStream
      BY <1>12, <1>15, <2>2
    <3> QED
      BY <3>1 DEF IsLayout, n
  <2>3. CASE Fills(p) /\ ~Fills(q)
    <3>1. f[q] \in ToSet(layout) /\ f[p] \notin ToSet(layout)
      BY <1>1, <1>10, <1>11, <1>12, <2>3
    <3> QED
      BY <1>15, <3>1
  <2>4. CASE ~Fills(p) /\ Fills(q)
    <3>1. f[p] \in ToSet(layout) /\ f[q] \notin ToSet(layout)
      BY <1>1, <1>10, <1>11, <1>12, <2>4
    <3> QED
      BY <1>15, <3>1
  <2> QED
    BY <2>1, <2>2, <2>3, <2>4
<1> QED
  BY <1>14, <1>15 DEF IsLayout, n

\* The layout processor is given the places of the streams in the regions.
LEMMA LayoutSetLayoutKeeps ==
  ASSUME NEW m, NodeAgrees(m), NEW f, IsLayout(f), NEW r,
         r = LayoutSetLayout(m, [q \in 1..Len(f) |-> IF f[q] = NoStream THEN NoId ELSE m.id[f[q]]])
  PROVE  NodeAgrees(r) /\ Streams(r) = Streams(m) /\ r.engine = m.engine /\ r.remote = m.remote
<1> DEFINE n == Len(f)
           ids == [q \in 1..n |-> IF f[q] = NoStream THEN NoId ELSE m.id[f[q]]]
           list == Kept(ids, Ids)
           lacks == {i \in m.missing : m.mixed[i] = NoStream}
<1>0. /\ m \in MixerStates /\ IsInjective(m.active) /\ IsInjective(m.pending) /\ IsInjective(m.free)
      /\ Placed(Inputs(m), ToSet(m.pending), ToSet(m.free), m.id) /\ m.id \in [MixerStreams -> Ids \cup {NoId}]
  BY DEF NodeAgrees, MixerStates, SetsAgree, PlaceMaps
<1>1. n \in Nat /\ f \in [1..n -> MixerStreams \cup {NoStream}]
  BY DEF IsLayout
<1>2. ids \in [1..n -> Ids \cup {NoId}]
  BY <1>0, <1>1
<1>3. ids \in Seq(Ids \cup {NoId}) /\ Len(ids) = n
  BY <1>1, <1>2
<1>4. \A q \in 1..n : ids[q] \in Ids => f[q] \in Inputs(m) /\ ids[q] = m.id[f[q]]
  <2> SUFFICES ASSUME NEW q \in 1..n, ids[q] \in Ids PROVE f[q] \in Inputs(m) /\ ids[q] = m.id[f[q]]
    OBVIOUS
  <2>1. f[q] \in MixerStreams /\ ids[q] = m.id[f[q]]
    BY <1>1, NoIdIsNone
  <2> QED
    BY <1>0, <2>1, NoIdIsNone DEF Placed
<1>5. \A p, q \in 1..n : ids[p] = ids[q] /\ ids[p] \in Ids => p = q
  <2> SUFFICES ASSUME NEW p \in 1..n, NEW q \in 1..n, ids[p] = ids[q], ids[p] \in Ids PROVE p = q
    OBVIOUS
  <2> HIDE DEF ids
  <2>1. f[p] \in Inputs(m) /\ f[q] \in Inputs(m) /\ m.id[f[p]] = m.id[f[q]]
    BY <1>4
  <2>2. f[p] = f[q]
    BY <1>0, <2>1 DEF Placed
  <2>3. f[p] # NoStream
    BY <1>0, <2>1, ListsOf, NoIdIsNone
  <2> QED
    BY <2>2, <2>3 DEF IsLayout
<1>6. r = [m EXCEPT !.templates = {n}, !.regions = n, !.list = list, !.shown = ids, !.arranged = TRUE,
                    !.missing = lacks]
  <2> HIDE DEF ids
  <2> QED
    BY <1>3 DEF LayoutSetLayout, ids
<1> HIDE DEF ids
<1>7. list \in Seq((Ids \cup {NoId}) \cap Ids) /\ ToSet(list) = ToSet(ids) \cap Ids /\ IsInjective(list)
  BY <1>3, <1>5, KeptIs
<1> HIDE DEF list, n
<1>8. list \in Seq(Ids)
  <2>1. (Ids \cup {NoId}) \cap Ids \subseteq Ids
    OBVIOUS
  <2> QED
    BY <1>7, <2>1, WiderList
<1>9. \A x : x \in ToSet(ids) <=> \E q \in 1..n : ids[q] = x
  BY <1>3, PlacesOf
<1>10. ToSet(ids) \subseteq ToSet(list) \cup {NoId}
  BY <1>2, <1>7, <1>9
<1>11. \A i \in ToSet(list) : \E s \in Inputs(m) : m.id[s] = i
  BY <1>4, <1>7, <1>9
<1>12. /\ r \in MixerStates /\ r.active = m.active /\ r.pending = m.pending /\ r.id = m.id /\ r.free = m.free
       /\ r.mixed = m.mixed /\ r.missing = lacks /\ r.engine = m.engine /\ r.remote = m.remote
       /\ r.arranged = TRUE /\ r.list = list /\ r.shown = ids
  <2>1. {n} \in SUBSET Nat /\ lacks \in SUBSET Ids
    BY <1>0, <1>1 DEF MixerStates
  <2> HIDE DEF lacks
  <2>2. r \in MixerStates
    BY <1>0, <1>1, <1>3, <1>6, <1>8, <2>1 DEF MixerStates
  <2> QED
    BY <1>0, <1>6, <2>2 DEF MixerStates
<1>13. Pictured(r)
  BY <1>7, <1>10, <1>12 DEF Pictured
<1>14. Inputs(r) = Inputs(m) /\ ToSet(r.pending) = ToSet(m.pending)
  BY <1>12 DEF Inputs
<1>15. Listed(Inputs(m), m.id, ToSet(list), lacks, TRUE)
  BY <1>11 DEF Listed
<1>15a. MixedIn(Inputs(m), m.id, m.mixed, lacks)
  <2>1. MixedIn(Inputs(m), m.id, m.mixed, m.missing)
    BY DEF NodeAgrees, SetsAgree
  <2> QED
    BY <1>0, <2>1 DEF MixedIn, Placed
<1> HIDE DEF lacks
<1>16. NodeAgrees(r)
  BY <1>0, <1>12, <1>13, <1>14, <1>15, <1>15a DEF NodeAgrees, SetsAgree
<1> QED
  BY <1>12, <1>14, <1>16 DEF Streams

-----------------------------------------------------------------------------
(* An empty node, before the first input and when it is closed              *)

LEMMA NothingIn ==
  IsInjective(<<>>) /\ ToSet(<<>>) = {} /\ Len(<<>>) = 0 /\ \A T : <<>> \in Seq(T)
BY DEF IsInjective, ToSet

LEMMA Emptied ==
  ASSUME NEW m \in MixerStates, m.active = <<>>, m.pending = <<>>, m.id = [s \in MixerStreams |-> NoId],
         m.mixed = [i \in Ids |-> NoStream], IsInjective(m.free), ToSet(m.free) = Ids, m.list = <<>>,
         Pictured(m)
  PROVE  NodeAgrees(m) /\ Streams(m) = {}
<1>1. Inputs(m) = {} /\ ToSet(m.pending) = {} /\ ToSet(m.list) = {} /\ IsInjective(m.active)
      /\ IsInjective(m.pending)
  BY NothingIn DEF Inputs
<1>2. Placed({}, {}, Ids, m.id)
  BY DEF Placed
<1>3. MixedIn({}, m.id, m.mixed, m.missing)
  BY DEF MixedIn
<1>4. Listed({}, m.id, {}, m.missing, m.arranged)
  BY DEF Listed
<1> QED
  BY <1>1, <1>2, <1>3, <1>4 DEF NodeAgrees, SetsAgree, Streams

\* deinit: all places are free again, and nothing is shown, mixed or read.
LEMMA DeinitKeeps ==
  ASSUME NodeAgrees(mixer), mixer.remote \subseteq Streams(mixer), Deinit
  PROVE  NodeAgrees(mixer') /\ Streams(mixer') = {} /\ mixer'.remote = {} /\ mixer'.engine = FALSE
<1> DEFINE m == mixer
           r == mixer'
           bare == IF m.list = <<>> THEN m
                   ELSE UpdateInputPositions(ChoseTemplate([m EXCEPT !.list = <<>>], 0))
           g == m.free \o TakenPlaces(m)
           none == [s \in MixerStreams |-> NoId]
           mix == [i \in Ids |-> NoStream]
<1>1. m \in MixerStates /\ Pictured(m) /\ m.missing \subseteq Ids /\ m.remote \in SUBSET MixerStreams
      /\ m.free \in Seq(Ids) /\ IsInjective(m.free)
  BY DEF NodeAgrees, MixerStates
<1>2. /\ bare \in MixerStates /\ Pictured(bare) /\ bare.list = <<>> /\ bare.free = m.free
      /\ bare.missing = m.missing /\ bare.remote = m.remote
  <2>1. CASE m.list = <<>>
    BY <1>1, <2>1
  <2>2. CASE m.list # <<>>
    <3> DEFINE q == <<>>
    <3>1. bare = UpdateInputPositions(ChoseTemplate([m EXCEPT !.list = q], Len(q)))
      BY <2>2, NothingIn
    <3>2. q \in Seq(Ids) /\ IsInjective(q)
      BY NothingIn
    <3> HIDE DEF bare, q
    <3>3. bare \in MixerStates /\ SameInputs(bare, m) /\ bare.list = q /\ Pictured(bare)
      BY <1>1, <3>1, <3>2, LaidOut
    <3> QED
      BY <3>3 DEF SameInputs, q
  <2> QED
    BY <2>1, <2>2
<1> DEFINE away == m.missing \ TakenIds
           kept == m.remote \ (Inputs(m) \cup ToSet(m.pending))
<1>3. r = [bare EXCEPT !.engine = FALSE, !.mixed = mix, !.missing = away, !.active = <<>>, !.pending = <<>>,
                       !.id = none, !.free = g, !.remote = kept]
  <2>1. r = [bare EXCEPT !.engine = FALSE, !.mixed = mix, !.missing = @ \ TakenIds, !.active = <<>>,
                         !.pending = <<>>, !.id = none, !.free = @ \o TakenPlaces(m),
                         !.remote = @ \ (Inputs(m) \cup ToSet(m.pending))]
    BY DEF Deinit, TakenPlaces
  <2> HIDE DEF bare, mix, none
  <2> QED
    BY <1>2, <2>1
<1>4. g \in Seq(Ids) /\ IsInjective(g) /\ ToSet(g) = Ids
  <2> DEFINE p == TakenPlaces(m)
             f == m.free
  <2>1. /\ p \in Seq(Ids) /\ IsInjective(p) /\ ToSet(f) \cap ToSet(p) = {} /\ ToSet(f) \cup ToSet(p) = Ids
        /\ f \in Seq(Ids) /\ IsInjective(f)
    BY <1>1, TakenPlacesAre
  <2> HIDE DEF p, f
  <2>2. f \o p \in Seq(Ids) /\ ToSet(f \o p) = ToSet(f) \cup ToSet(p)
    BY <2>1, Chained
  <2>3. IsInjective(f) /\ IsInjective(p) /\ ToSet(f) \cap ToSet(p) = {} => IsInjective(f \o p)
    BY <2>1, Chained
  <2>4. f \o p \in Seq(Ids) /\ IsInjective(f \o p) /\ ToSet(f \o p) = Ids
    <3> HIDE DEF p, f
    <3> QED
      BY <2>1, <2>2, <2>3, Zenon
  <2> QED
    BY <2>4 DEF p, f
<1>5. kept = {} /\ away \in SUBSET Ids /\ none \in PlaceMaps /\ mix \in Engines
  BY <1>1 DEF Streams, PlaceMaps, Engines
<1> HIDE DEF bare, g, none, mix, away, kept
<1>6. /\ r \in MixerStates /\ r.active = <<>> /\ r.pending = <<>> /\ r.id = none /\ r.mixed = mix
      /\ r.free = g /\ r.list = <<>> /\ r.remote = kept /\ r.engine = FALSE /\ SamePicture(r, bare)
  <2>1. <<>> \in Seq(MixerStreams) /\ FALSE \in BOOLEAN /\ kept \in SUBSET MixerStreams
    BY <1>5, NothingIn
  <2>2. r \in MixerStates
    BY <1>2, <1>3, <1>4, <1>5, <2>1 DEF MixerStates
  <2> QED
    BY <1>2, <1>3, <2>2 DEF MixerStates, SamePicture
<1>7. Pictured(r)
  BY <1>2, <1>6, PictureStays
<1>8. IsInjective(r.free) /\ ToSet(r.free) = Ids
  BY <1>4, <1>6
<1>9. NodeAgrees(r) /\ Streams(r) = {}
  BY <1>6, <1>7, <1>8, Emptied DEF none, mix
<1> QED
  BY <1>5, <1>6, <1>9

-----------------------------------------------------------------------------
(* The room's view of the node                                              *)

\* The streams of the mixer are published, and read from their nodes unless the engine refused one.
RoomKnows(m, pub, gone, refused) ==
  /\ pub \subseteq MixerStreams /\ gone \subseteq pub /\ refused \in Nat
  /\ pub \ gone \subseteq Streams(m) /\ m.remote \subseteq Streams(m)
  /\ refused = 0 => Streams(m) \subseteq m.remote /\ Streams(m) \subseteq pub
  /\ ~m.engine => Streams(m) = {}

MixerInv == NodeAgrees(mixer) /\ primaries \in Nat /\ RoomKnows(mixer, published, lost, refusals)

LEMMA NodeAtFirst ==
  ASSUME MixerInit
  PROVE  MixerInv
<1> DEFINE q == [i \in 1..MaxInput |-> i - 1]
           g == Reverse(q)
           none == [s \in MixerStreams |-> NoId]
           mix == [i \in Ids |-> NoStream]
           zero == [s \in MixerStreams |-> 0]
<1>1. q \in Seq(Ids) /\ IsInjective(q) /\ ToSet(q) = Ids
  <2>1. MaxInput \in Nat /\ \A i \in 1..MaxInput : i - 1 \in Ids
    BY MixerAssumption DEF Ids
  <2>2. q \in [1..MaxInput -> Ids] /\ \A i \in 1..MaxInput : q[i] = i - 1
    BY <2>1
  <2> HIDE DEF q
  <2>3. q \in Seq(Ids) /\ Len(q) = MaxInput
    BY <2>1, <2>2
  <2>4. \A i, j \in 1..MaxInput : q[i] = q[j] => i = j
    BY <2>1, <2>2
  <2>5. IsInjective(q) /\ ToSet(q) \subseteq Ids /\ \A x : x \in ToSet(q) <=> \E i \in 1..MaxInput : q[i] = x
    BY <2>3, <2>4, PlacesOf
  <2>6. ASSUME NEW x \in Ids PROVE x \in ToSet(q)
    <3>1. x + 1 \in 1..MaxInput /\ q[x + 1] = x
      BY <2>1, <2>2 DEF Ids
    <3> QED
      BY <2>5, <3>1
  <2> QED
    BY <2>3, <2>5, <2>6
<1> HIDE DEF q
<1>2. g \in Seq(Ids) /\ IsInjective(g) /\ ToSet(g) = Ids
  BY <1>1, Reversed
<1>3. none \in PlaceMaps /\ mix \in Engines /\ zero \in [MixerStreams -> Nat]
  BY DEF PlaceMaps, Engines
<1>4. mixer = [engine |-> TRUE, active |-> <<>>, pending |-> <<>>, id |-> none, count |-> zero, free |-> g,
               mixed |-> mix, templates |-> Templates, regions |-> 0, list |-> <<>>, shown |-> <<>>,
               arranged |-> FALSE, remote |-> {}, missing |-> {}]
  BY DEF MixerInit, q
<1> HIDE DEF g, none, mix, zero
<1>5. mixer \in MixerStates
  <2>1. <<>> \in Seq(MixerStreams) /\ <<>> \in Seq(Ids) /\ <<>> \in Seq(Ids \cup {NoId}) /\ 0 \in Nat
        /\ {} \in SUBSET MixerStreams /\ {} \in SUBSET Ids /\ Templates \in SUBSET Nat
    BY NothingIn, MixerAssumption
  <2> QED
    BY <1>2, <1>3, <1>4, <2>1 DEF MixerStates
<1>6. /\ mixer.active = <<>> /\ mixer.pending = <<>> /\ mixer.id = none /\ mixer.mixed = mix /\ mixer.free = g
      /\ mixer.list = <<>> /\ mixer.shown = <<>> /\ mixer.regions = 0 /\ mixer.remote = {} /\ mixer.engine
  BY <1>4
<1>7. Pictured(mixer)
  <2>1. <<>> = [r \in 1..0 |-> IF r <= Len(mixer.list) THEN mixer.list[r] ELSE NoId]
    OBVIOUS
  <2>2. Positioned(mixer)
    BY <1>6, <2>1, NothingIn DEF Positioned
  <2> QED
    BY <1>6, <2>2, NothingIn DEF Pictured
<1>8. NodeAgrees(mixer) /\ Streams(mixer) = {}
  BY <1>2, <1>5, <1>6, <1>7, Emptied DEF none, mix
<1> QED
  BY <1>6, <1>8 DEF MixerInit, MixerInv, RoomKnows

\* A call that changes neither the streams nor their sources.
LEMMA SameStreams ==
  ASSUME MixerInv, NodeAgrees(mixer'), Streams(mixer') = Streams(mixer), mixer'.remote = mixer.remote,
         mixer'.engine = mixer.engine, published' = published, lost' = lost,
         NEW p \in Nat, primaries' = p, NEW n \in Nat, refusals' = refusals + n
  PROVE  MixerInv'
<1>1. refusals' \in Nat /\ (refusals' = 0 => refusals = 0)
  BY DEF MixerInv, RoomKnows
<1> QED
  BY <1>1 DEF MixerInv, RoomKnows

LEMMA RefusalsGrow ==
  ASSUME NEW ok, Refuse(~ok), refusals \in Nat
  PROVE  \E n \in Nat : refusals' = refusals + n /\ (ok <=> n = 0)
BY DEF Refuse

LEMMA PublishKeeps ==
  ASSUME MixerInv, NEW s \in MixerStreams, PublishToMixer(s)
  PROVE  MixerInv'
<1>0. PICK ok \in BOOLEAN :
      /\ mixer.engine
      /\ IF Has(mixer, s)
           THEN mixer' = mixer /\ ok /\ published' = published \cup {s} /\ UNCHANGED <<lost, refusals>>
           ELSE /\ mixer' = AddInput(mixer, s, ok) /\ (ok \/ mixer.free # <<>>)
                /\ Refuse(~ok)
                /\ published' = IF Refused(mixer, s, ok) THEN published \ {s} ELSE published \cup {s}
                /\ lost' = lost \ {s}
      /\ UNCHANGED primaries
  BY DEF PublishToMixer
<1>1. CASE Has(mixer, s)
  <2>1. s \in Streams(mixer)
    BY <1>1 DEF Has, Streams
  <2> QED
    BY <1>0, <1>1, <2>1 DEF MixerInv, RoomKnows
<1>2. CASE ~Has(mixer, s)
  <2>1. /\ NodeAgrees(mixer') /\ Streams(mixer') = Streams(mixer) \cup {s} /\ mixer'.engine = mixer.engine
        /\ Refused(mixer, s, ok) => mixer'.remote = mixer.remote \ {s}
        /\ ~Refused(mixer, s, ok) => mixer'.remote = mixer.remote \cup {s}
    <3> DEFINE r == mixer'
               m == mixer
    <3>1. NodeAgrees(m) /\ r = AddInput(m, s, ok)
      BY <1>0, <1>2 DEF MixerInv
    <3> HIDE DEF r, m
    <3>2. NodeAgrees(r) /\ Streams(r) = Streams(m) \cup {s} /\ r.engine = m.engine
      BY <3>1, AddInputKeeps
    <3>3. /\ Refused(m, s, ok) => r.remote = m.remote \ {s}
          /\ ~Refused(m, s, ok) => r.remote = m.remote \cup {s}
      BY <3>1, AddInputKeeps
    <3> QED
      BY <3>2, <3>3 DEF r, m
  <2>2. Refused(mixer, s, ok) <=> ~ok
    BY <1>0, <1>2 DEF Refused
  <2>3. PICK n \in Nat : refusals' = refusals + n /\ (ok <=> n = 0)
    BY <1>0, <1>2, RefusalsGrow DEF MixerInv, RoomKnows
  <2>4. refusals' \in Nat /\ (refusals' = 0 => refusals = 0 /\ ok)
    BY <2>3 DEF MixerInv, RoomKnows
  <2> QED
    BY <1>0, <1>2, <2>1, <2>2, <2>4 DEF MixerInv, RoomKnows
<1> QED
  BY <1>1, <1>2

LEMMA UnpublishKeeps ==
  ASSUME MixerInv, NEW s \in MixerStreams, UnpublishFromMixer(s) \/ Disconnected(s)
  PROVE  MixerInv'
<1> PICK ok \in BOOLEAN :
      /\ mixer' = RemoveInput(mixer, s, ok) /\ Refuse(~ok) /\ UNCHANGED primaries
      /\ \/ published' = published \ {s} /\ lost' = lost \ {s}
         \/ published' = published /\ lost' = IF s \in published THEN lost \cup {s} ELSE lost
  BY DEF UnpublishFromMixer, Disconnected
<1>1. /\ NodeAgrees(mixer') /\ Streams(mixer') = Streams(mixer) \ {s} /\ mixer'.engine = mixer.engine
      /\ mixer'.remote = IF Has(mixer, s) THEN mixer.remote \ {s} ELSE mixer.remote
  BY RemoveInputKeeps DEF MixerInv
<1>2. mixer'.remote = mixer.remote \ {s}
  BY <1>1 DEF MixerInv, RoomKnows, Has, Streams
<1>3. PICK n \in Nat : refusals' = refusals + n /\ (ok <=> n = 0)
  BY RefusalsGrow DEF MixerInv, RoomKnows
<1>4. refusals' \in Nat /\ (refusals' = 0 => refusals = 0)
  BY <1>3 DEF MixerInv, RoomKnows
<1> QED
  BY <1>1, <1>2, <1>4 DEF MixerInv, RoomKnows

LEMMA SetPrimaryKeeps ==
  ASSUME MixerInv, NEW s \in MixerStreams, SetPrimary(s)
  PROVE  MixerInv'
<1> DEFINE On(ok) == IF s \in Inputs(mixer) THEN mixer ELSE Enable(mixer, s, LeastPrimary(mixer), ok)
<1> PICK ok \in BOOLEAN :
      /\ Has(mixer, s) /\ primaries' = primaries + 1 /\ Refuse(~ok) /\ UNCHANGED <<published, lost>>
      /\ mixer' = IF ok THEN [LayoutSetPrimary(On(ok), On(ok).id[s]) EXCEPT !.count[s] = @ + 1] ELSE On(ok)
  BY DEF SetPrimary
<1> DEFINE on == On(ok)
           x == LayoutSetPrimary(on, on.id[s])
<1>1. /\ NodeAgrees(on) /\ Streams(on) = Streams(mixer) /\ on.engine = mixer.engine
      /\ on.remote = mixer.remote
  <2>1. CASE s \in Inputs(mixer)
    BY <2>1 DEF MixerInv
  <2>2. CASE s \notin Inputs(mixer)
    <3>1. NodeAgrees(mixer) /\ s \in ToSet(mixer.pending)
      BY <2>2 DEF MixerInv, Has
    <3>2. LeastPrimary(mixer) \in Inputs(mixer)
      BY <3>1, LeastPrimaryIs
    <3>3. on = Enable(mixer, s, LeastPrimary(mixer), ok)
      BY <2>2
    <3> HIDE DEF on
    <3> QED
      BY <3>1, <3>2, <3>3, EnableKeeps
  <2> QED
    BY <2>1, <2>2
<1>2. mixer' = IF ok THEN [x EXCEPT !.count[s] = @ + 1] ELSE on
  OBVIOUS
<1>3. x = LayoutSetPrimary(on, on.id[s])
  OBVIOUS
<1> HIDE DEF on, x
<1>4. NodeAgrees(x) /\ Streams(x) = Streams(on) /\ x.remote = on.remote /\ x.engine = on.engine
  BY <1>1, <1>3, LayoutSetPrimaryKeeps
<1>5. /\ NodeAgrees(mixer') /\ Streams(mixer') = Streams(mixer) /\ mixer'.engine = mixer.engine
      /\ mixer'.remote = mixer.remote
  <2>1. CASE ok
    <3> DEFINE c == [x.count EXCEPT ![s] = @ + 1]
    <3>1. x.count \in [MixerStreams -> Nat]
      BY <1>4 DEF NodeAgrees, MixerStates
    <3>2. c \in [MixerStreams -> Nat]
      BY <3>1
    <3>3. mixer' = [x EXCEPT !.count = c]
      BY <1>2, <2>1
    <3> HIDE DEF c
    <3> DEFINE r == mixer'
    <3>4. r = [x EXCEPT !.count = c]
      BY <3>3
    <3> HIDE DEF r
    <3>5. NodeAgrees(r) /\ Streams(r) = Streams(x) /\ r.engine = x.engine /\ r.remote = x.remote
      BY <1>4, <3>2, <3>4, Counted
    <3> QED
      BY <1>1, <1>4, <3>5 DEF r
  <2>2. CASE ~ok
    BY <1>1, <1>2, <2>2
  <2> QED
    BY <2>1, <2>2
<1>6. PICK n \in Nat : refusals' = refusals + n
  BY RefusalsGrow DEF MixerInv, RoomKnows
<1>7. primaries + 1 \in Nat
  BY DEF MixerInv
<1> QED
  BY <1>5, <1>6, <1>7, SameStreams

LEMMA SetRegionKeeps ==
  ASSUME MixerInv, NEW s \in MixerStreams, NEW r \in 1..MaxRegions, SetRegion(s, r)
  PROVE  MixerInv'
<1> PICK ok \in BOOLEAN :
      /\ Has(mixer, s) /\ Refuse(~ok) /\ UNCHANGED <<published, lost, primaries>>
      /\ mixer' = IF s \in Inputs(mixer) THEN SpecifyInputRegion(mixer, mixer.id[s], r)
                  ELSE IF Occupied(mixer, r) THEN Enable(mixer, s, StreamOf(mixer, mixer.list[r]), ok)
                  ELSE mixer
  BY DEF SetRegion
<1>1. r \in Nat \ {0}
  BY MixerAssumption
<1>2. NodeAgrees(mixer)
  BY DEF MixerInv
<1>3. /\ NodeAgrees(mixer') /\ Streams(mixer') = Streams(mixer) /\ mixer'.engine = mixer.engine
      /\ mixer'.remote = mixer.remote
  <2>1. CASE s \in Inputs(mixer)
    BY <1>1, <1>2, <2>1, SpecifyInputRegionKeeps
  <2>2. CASE s \notin Inputs(mixer) /\ Occupied(mixer, r)
    <3>1. StreamOf(mixer, mixer.list[r]) \in Inputs(mixer)
      BY <1>1, <1>2, <2>2, StreamOfIs
    <3>2. s \in ToSet(mixer.pending)
      BY <2>2 DEF Has
    <3> DEFINE on == mixer'
               m == mixer
               other == StreamOf(mixer, mixer.list[r])
    <3>3. NodeAgrees(m) /\ other \in Inputs(m) /\ s \in ToSet(m.pending) /\ on = Enable(m, s, other, ok)
      BY <1>2, <2>2, <3>1, <3>2
    <3> HIDE DEF on, m, other
    <3>4. NodeAgrees(on) /\ Streams(on) = Streams(m) /\ on.engine = m.engine /\ on.remote = m.remote
      BY <3>3, EnableKeeps
    <3> QED
      BY <3>4 DEF on, m
  <2>3. CASE s \notin Inputs(mixer) /\ ~Occupied(mixer, r)
    BY <1>2, <2>3
  <2> QED
    BY <2>1, <2>2, <2>3
<1>4. PICK n \in Nat : refusals' = refusals + n
  BY RefusalsGrow DEF MixerInv, RoomKnows
<1>5. primaries \in Nat /\ primaries' = primaries
  BY DEF MixerInv
<1> QED
  BY <1>3, <1>4, <1>5, SameStreams

LEMMA SetLayoutKeeps ==
  ASSUME MixerInv, NEW layout \in Layouts, SetLayout(layout)
  PROVE  MixerInv'
<1>0. PICK refused \in SUBSET MixerStreams :
        LET on     == AddedAgain(mixer, ToSet(layout), refused)
            filled == Filled(on, layout)
        IN  /\ mixer' = on \/ mixer' = LayoutSetLayout(on, [r \in 1..Len(filled) |->
                                        IF filled[r] = NoStream THEN NoId ELSE on.id[filled[r]]])
            /\ refusals' = refusals + (IF refused # {} THEN 1 ELSE 0)
            /\ UNCHANGED <<published, lost, primaries>>
  BY DEF SetLayout, Refuse
<1> DEFINE on == AddedAgain(mixer, ToSet(layout), refused)
           extra == IF refused # {} THEN 1 ELSE 0
           f == Filled(on, layout)
           ids == [r \in 1..Len(f) |-> IF f[r] = NoStream THEN NoId ELSE on.id[f[r]]]
<1>1. IsLayout(layout)
  <2>1. PICK n \in 1..MaxRegions :
          /\ layout \in [1..n -> MixerStreams \cup {NoStream}]
          /\ \A p, q \in 1..n : layout[p] = layout[q] => p = q \/ layout[p] = NoStream
    BY DEF Layouts
  <2>2. n \in Nat
    BY MixerAssumption
  <2>3. layout \in Seq(MixerStreams \cup {NoStream}) /\ Len(layout) = n
    BY <2>1, <2>2
  <2> QED
    BY <2>1, <2>3 DEF IsLayout
<1>2. /\ NodeAgrees(on) /\ Streams(on) = Streams(mixer) /\ on.engine = mixer.engine
      /\ on.remote = mixer.remote
  <2>1. on = AddedAgain(mixer, ToSet(layout), refused) /\ NodeAgrees(mixer)
    BY DEF MixerInv
  <2> HIDE DEF on
  <2> QED
    BY <2>1, AddedAgainKeeps
<1>3. /\ (mixer' = on \/ mixer' = LayoutSetLayout(on, ids))
      /\ refusals' = refusals + extra /\ UNCHANGED <<published, lost, primaries>>
  BY <1>0
<1> HIDE DEF on
<1>4. IsLayout(f)
  <2>1. f = Filled(on, layout)
    OBVIOUS
  <2> HIDE DEF f
  <2> QED
    BY <1>1, <1>2, <2>1, FilledIs
<1> HIDE DEF f
<1>5. /\ NodeAgrees(mixer') /\ Streams(mixer') = Streams(mixer) /\ mixer'.engine = mixer.engine
      /\ mixer'.remote = mixer.remote
  <2>1. CASE mixer' = on
    BY <1>2, <2>1
  <2>2. CASE mixer' = LayoutSetLayout(on, ids)
    BY <1>2, <1>4, <2>2, LayoutSetLayoutKeeps
  <2> QED
    BY <1>3, <2>1, <2>2
<1>6. /\ primaries \in Nat /\ primaries' = primaries /\ extra \in Nat /\ refusals' = refusals + extra
  BY <1>3 DEF MixerInv, RoomKnows
<1> QED
  BY <1>3, <1>5, <1>6, SameStreams

LEMMA CloseKeeps ==
  ASSUME MixerInv, Deinit
  PROVE  MixerInv'
<1>1. NodeAgrees(mixer') /\ Streams(mixer') = {} /\ mixer'.remote = {} /\ mixer'.engine = FALSE
  BY DeinitKeeps DEF MixerInv, RoomKnows
<1>2. published' = {} /\ lost' = {} /\ primaries' = primaries /\ refusals' = refusals
  BY DEF Deinit
<1> QED
  BY <1>1, <1>2 DEF MixerInv, RoomKnows

\* What the room and the node agree on is what the run checks.
LEMMA AgreementIsConsistent ==
  ASSUME MixerInv
  PROVE  MixerConsistent
<1> DEFINE m == mixer
<1>0. /\ m \in MixerStates /\ IsInjective(m.active) /\ IsInjective(m.free) /\ IsInjective(m.list)
      /\ Placed(Inputs(m), ToSet(m.pending), ToSet(m.free), m.id) /\ MixedIn(Inputs(m), m.id, m.mixed, m.missing)
      /\ Listed(Inputs(m), m.id, ToSet(m.list), m.missing, m.arranged) /\ Pictured(m)
  BY DEF MixerInv, NodeAgrees, SetsAgree, Pictured
<1>1. MixerTypeOK
  BY <1>0 DEF MixerTypeOK, MixerStates, PlaceMaps, Engines, MixerInv, RoomKnows
<1>2. PlacesAgree
  <2> DEFINE p == TakenPlaces(m)
  <2>1. /\ p \in Seq(Ids) /\ IsInjective(p) /\ Len(p) = Len(m.active) /\ ToSet(p) = TakenIds
        /\ ToSet(m.free) \cap TakenIds = {} /\ ToSet(m.free) \cup TakenIds = Ids
    BY TakenPlacesAre DEF MixerInv, TakenIds
  <2> HIDE DEF p
  <2>2. Cardinality(TakenIds) = Len(m.active)
    BY <2>1, LengthIs
  <2>3. Inputs(m) \cap ToSet(m.pending) = {} /\ (m.pending # <<>> => m.free = <<>>)
    BY <1>0, ListsOf DEF Placed
  <2> QED
    BY <1>0, <2>1, <2>2, <2>3 DEF PlacesAgree
<1>3. EngineAgrees
  BY <1>0 DEF EngineAgrees, MixedIn
<1>4. PictureAgrees
  <2>1. ToSet(m.list) \subseteq TakenIds /\ (~m.arranged => TakenIds \ ToSet(m.list) \subseteq m.missing)
    BY <1>0 DEF Listed, TakenIds
  <2>2. ToSet(m.shown) \subseteq ToSet(m.list) \cup {NoId}
    BY <1>0 DEF Pictured
  <2>3. ASSUME ~m.arranged, \E t \in m.templates : Len(m.list) <= t
        PROVE  /\ Len(m.list) <= Len(m.shown)
               /\ \A r \in DOMAIN m.shown : m.shown[r] = IF r <= Len(m.list) THEN m.list[r] ELSE NoId
    <3>1. /\ m.shown = [r \in 1..m.regions |-> IF r <= Len(m.list) THEN m.list[r] ELSE NoId]
          /\ Len(m.list) <= m.regions /\ m.regions \in Nat
      BY <1>0, <2>3 DEF Pictured, Positioned, MixerStates
    <3>2. DOMAIN m.shown = 1..m.regions /\ m.shown \in Seq(Ids \cup {NoId})
      BY <1>0, <3>1 DEF MixerStates
    <3>3. Len(m.shown) = m.regions
      BY <3>1, <3>2
    <3> QED
      BY <3>1, <3>2, <3>3
  <2> QED
    BY <1>0, <2>1, <2>2, <2>3 DEF PictureAgrees
<1>5. RoomAgrees
  <2>1. \A s : Has(m, s) <=> s \in Streams(m)
    BY DEF Has, Streams
  <2>2. ASSUME ~m.engine PROVE m.active = <<>> /\ m.pending = <<>> /\ m.list = <<>> /\ m.remote = {}
    <3>1. Inputs(m) = {} /\ ToSet(m.pending) = {} /\ m.remote = {}
      BY <2>2 DEF MixerInv, RoomKnows, Streams
    <3>2. ToSet(m.list) = {} /\ m.list \in Seq(Ids)
      BY <1>0, <3>1, ListsOf DEF Listed
    <3>3. m.list = <<>>
      BY <3>2, PlacesOf
    <3> QED
      BY <1>0, <3>1, <3>3, ListsOf
  <2> QED
    BY <2>1, <2>2 DEF RoomAgrees, MixerInv, RoomKnows
<1> QED
  BY <1>1, <1>2, <1>3, <1>4, <1>5 DEF MixerConsistent

\* Whatever is published, unpublished, lost, refused, promoted or laid out in another order: each place of
\* the mixer is free or one stream's, nobody waits while one is free, the engine mixes the streams that
\* have a place, the picture shows taken places only, each once, and the room's streams are the mixer's
\* (InputManager and VMixer of vmixer.js, LayoutProcessor of layout.js).
THEOREM MixerStaysConsistent == MixerSpec => []MixerConsistent
<1>1. MixerInit => MixerInv
  BY NodeAtFirst
<1>2. MixerInv /\ [MixerNext]_mixerVars => MixerInv'
  <2> SUFFICES ASSUME MixerInv, [MixerNext]_mixerVars PROVE MixerInv'
    OBVIOUS
  <2>1. ASSUME NEW s \in MixerStreams, PublishToMixer(s) PROVE MixerInv'
    BY <2>1, PublishKeeps
  <2>2. ASSUME NEW s \in MixerStreams, UnpublishFromMixer(s) \/ Disconnected(s) PROVE MixerInv'
    BY <2>2, UnpublishKeeps
  <2>3. ASSUME NEW s \in MixerStreams, SetPrimary(s) PROVE MixerInv'
    BY <2>3, SetPrimaryKeeps
  <2>4. ASSUME NEW s \in MixerStreams, NEW r \in 1..MaxRegions, SetRegion(s, r) PROVE MixerInv'
    BY <2>4, SetRegionKeeps
  <2>5. ASSUME NEW layout \in Layouts, SetLayout(layout) PROVE MixerInv'
    BY <2>5, SetLayoutKeeps
  <2>6. CASE Deinit
    BY <2>6, CloseKeeps
  <2>7. CASE UNCHANGED mixerVars
    BY <2>7 DEF mixerVars, MixerInv, NodeAgrees, RoomKnows, Streams
  <2> QED
    BY <2>1, <2>2, <2>3, <2>4, <2>5, <2>6, <2>7 DEF MixerNext
<1>3. MixerInv => MixerConsistent
  BY AgreementIsConsistent
<1> QED
  BY <1>1, <1>2, <1>3, PTL DEF MixerSpec
=============================================================================
