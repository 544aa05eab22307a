------------------------ MODULE ServerSessions_proofs ------------------------
(***************************************************************************)
(* The sessions of the management API, for any number of streams,           *)
(* subscriptions, nodes and troubles: when nothing is under way and no call *)
(* has failed, the room, its access controller, the nodes and the leases    *)
(* agree about every session.                                               *)
(*                                                                          *)
(* The invariant says of each session on its own what the parts of the      *)
(* system know of it while it is set up and ended (Good), and of the room   *)
(* only that a subscription that is ready has a source that is.  A call of  *)
(* one session reaches others when a stream is removed with the             *)
(* subscriptions to it, and when the room ends every session: both walk     *)
(* over a set, in an order of their own, and stop when something throws.    *)
(***************************************************************************)
EXTENDS ServerSessions, FiniteSetTheorems, NaturalsInduction, TLAPS

-----------------------------------------------------------------------------
(* Walks over a finite set, an element at a time                            *)

Pick(s) == CHOOSE x \in s : TRUE

\* A set of numbers that holds 0 and with each number the next one holds all.
LEMMA Counting ==
  ASSUME NEW N, 0 \in N, \A n \in Nat : n \in N => n + 1 \in N
  PROVE  Nat \subseteq N
<1> DEFINE R == {p \in Nat \X Nat : p[1] < p[2]}
           A == Nat \ N
<1>1. IsWellFoundedOn(R, Nat)
  BY NatLessThanWellFounded DEF OpToRel
<1> SUFFICES ASSUME A # {} PROVE FALSE
  OBVIOUS
<1>2. PICK x \in A : \A y \in A : ~(<<y, x>> \in R)
  BY <1>1, WFMin
<1>3. x \in Nat /\ x # 0 /\ x - 1 \in Nat /\ (x - 1) + 1 = x
  BY <1>2
<1>4. x - 1 \in A
  BY <1>3
<1>5. <<x - 1, x>> \in R
  BY <1>3
<1> QED
  BY <1>2, <1>4, <1>5

\* What holds of no element, and of each more when it held of those before, holds of all.
LEMMA OneByOne ==
  ASSUME NEW S, IsFiniteSet(S), NEW Q, {} \in Q,
         \A s \in SUBSET S : s # {} /\ s \ {Pick(s)} \in Q => s \in Q
  PROVE  \A s \in SUBSET S : s \in Q
<1> DEFINE N == {n \in Nat : \A s \in SUBSET S : Cardinality(s) = n => s \in Q}
<1>1. \A s \in SUBSET S : IsFiniteSet(s) /\ Cardinality(s) \in Nat
  BY FS_Subset, FS_CardinalityType
<1>2. 0 \in N
  BY <1>1, FS_EmptySet
<1>3. ASSUME NEW n \in Nat, n \in N PROVE n + 1 \in N
  <2> SUFFICES ASSUME NEW s \in SUBSET S, Cardinality(s) = n + 1 PROVE s \in Q
    OBVIOUS
  <2>1. s # {}
    BY FS_EmptySet
  <2>2. Pick(s) \in s
    BY <2>1 DEF Pick
  <2>3. s \ {Pick(s)} \in SUBSET S /\ Cardinality(s \ {Pick(s)}) = n
    BY <1>1, <2>2, FS_RemoveElement
  <2> QED
    BY <1>3, <2>1, <2>3
<1> HIDE DEF N
<1>4. Nat \subseteq N
  BY <1>2, <1>3, Counting
<1> QED
  BY <1>1, <1>4 DEF N

TakesAll(it, S, C, F, base) ==
  /\ it \in [SUBSET S -> C]
  /\ \A s \in SUBSET S : it[s] = IF s = {} THEN base ELSE F[<<Pick(s), it[s \ {Pick(s)}]>>]

\* A function on the parts of a finite set that takes the elements one by one exists.
LEMMA Taken ==
  ASSUME NEW S, IsFiniteSet(S), NEW C, NEW F \in [S \X C -> C], NEW base \in C
  PROVE  \E it : TakesAll(it, S, C, F, base)
<1> DEFINE D(n) == {s \in SUBSET S : Cardinality(s) <= n}
           Eq(it, s) == it[s] = IF s = {} THEN base ELSE F[<<Pick(s), it[s \ {Pick(s)}]>>]
           N == {n \in Nat : \E it \in [D(n) -> C] : \A s \in D(n) : Eq(it, s)}
<1>1. \A s \in SUBSET S : IsFiniteSet(s) /\ Cardinality(s) \in Nat
  BY FS_Subset, FS_CardinalityType
<1>1a. \A s \in SUBSET S : Cardinality(s) = 0 => s = {}
  BY <1>1, FS_EmptySet
<1>2. \A s \in SUBSET S : s # {} => /\ Pick(s) \in S /\ s \ {Pick(s)} \in SUBSET S
                                    /\ Cardinality(s \ {Pick(s)}) = Cardinality(s) - 1
  <2> SUFFICES ASSUME NEW s \in SUBSET S, s # {}
               PROVE  Pick(s) \in S /\ s \ {Pick(s)} \in SUBSET S /\ Cardinality(s \ {Pick(s)}) = Cardinality(s) - 1
    OBVIOUS
  <2>1. Pick(s) \in s
    BY DEF Pick
  <2> QED
    BY <1>1, <2>1, FS_RemoveElement
<1>3. 0 \in N
  <2> DEFINE it == [s \in D(0) |-> base]
  <2>1. \A s \in D(0) : s = {}
    BY <1>1, <1>1a
  <2>2. it \in [D(0) -> C] /\ \A s \in D(0) : Eq(it, s)
    BY <2>1
  <2> QED
    BY <2>2
<1>4. ASSUME NEW n \in Nat, n \in N PROVE n + 1 \in N
  <2>1. PICK it \in [D(n) -> C] : \A s \in D(n) : Eq(it, s)
    BY <1>4
  <2> DEFINE on == [s \in D(n + 1) |-> IF s \in D(n) THEN it[s] ELSE F[<<Pick(s), it[s \ {Pick(s)}]>>]]
  <2>2. \A s \in D(n + 1) : s # {} => Pick(s) \in S /\ s \ {Pick(s)} \in D(n) /\ s \ {Pick(s)} \in D(n + 1)
    <3> SUFFICES ASSUME NEW s \in D(n + 1), s # {}
                 PROVE  Pick(s) \in S /\ s \ {Pick(s)} \in D(n) /\ s \ {Pick(s)} \in D(n + 1)
      OBVIOUS
    <3>1. Cardinality(s) \in Nat /\ Cardinality(s) <= n + 1
      BY <1>1
    <3> QED
      BY <1>2, <3>1
  <2>3. \A s \in D(n + 1) : s \notin D(n) => s # {}
    <3>1. {} \in SUBSET S /\ Cardinality({}) = 0 /\ 0 <= n
      BY FS_EmptySet
    <3> QED
      BY <3>1
  <2>4. \A s \in D(n + 1) : on[s] \in C
    <3> SUFFICES ASSUME NEW s \in D(n + 1) PROVE on[s] \in C
      OBVIOUS
    <3>1. CASE s \in D(n)
      BY <3>1
    <3>2. CASE s \notin D(n)
      <4>1. Pick(s) \in S /\ it[s \ {Pick(s)}] \in C
        BY <2>2, <2>3, <3>2
      <4> HIDE DEF D
      <4>2. on[s] = F[<<Pick(s), it[s \ {Pick(s)}]>>]
        BY <3>2
      <4> QED
        BY <4>1, <4>2
    <3> QED
      BY <3>1, <3>2
  <2>5. \A s \in D(n + 1) : Eq(on, s)
    <3> SUFFICES ASSUME NEW s \in D(n + 1) PROVE Eq(on, s)
      OBVIOUS
    <3>1. s # {} => on[s \ {Pick(s)}] = it[s \ {Pick(s)}]
      BY <2>2
    <3>2. CASE s \in D(n)
      BY <2>1, <3>1, <3>2
    <3>3. CASE s \notin D(n)
      <4>1. s # {} /\ on[s] = F[<<Pick(s), it[s \ {Pick(s)}]>>]
        BY <2>3, <3>3
      <4> HIDE DEF on, D
      <4> QED
        BY <3>1, <4>1
    <3> QED
      BY <3>2, <3>3
  <2>6. on \in [D(n + 1) -> C]
    BY <2>4
  <2>7. \E x \in [D(n + 1) -> C] : \A s \in D(n + 1) : Eq(x, s)
    <3> HIDE DEF on, D, Eq
    <3> QED
      BY <2>5, <2>6
  <2> HIDE DEF D, Eq
  <2> QED
    BY <2>7
<1>5. Cardinality(S) \in N
  <2>1. Cardinality(S) \in Nat
    BY FS_CardinalityType
  <2> HIDE DEF N
  <2> QED
    BY <1>3, <1>4, <2>1, Counting
<1>6. D(Cardinality(S)) = SUBSET S
  BY <1>1, FS_Subset
<1> QED
  BY <1>5, <1>6 DEF TakesAll

-----------------------------------------------------------------------------
(* The parts of the conference, and a walk over the subscriptions to a stream*)

Entries == {"none", "connecting", "ready"}
States == {"none", "initialized", "connecting", "connected"}
Steps == [step : {"none", "scheduling", "initiating"}, node : AccessNodes \cup {NoWhere}]
Endings == [terminate : Nat, stop : Nat, recycle : Nat]
Oddities == {"ghost", "stuck", "misaddressed", "unreleased"}
Parts == [entry : [SessionIds -> Entries], session : [SessionIds -> States],
          ending : [SessionIds -> Endings], chain : [Chains -> Steps],
          odd : SUBSET (SessionIds \X Oddities), threw : BOOLEAN]

Subscribers(c, i) == FoldSet(LAMBDA o, x : EndSubscriber(o, x, i), c, ServerOutputs)

\* What holds before the first subscription, and of each more when it did before, holds after all.
LEMMA SubscribersFolded ==
  ASSUME NEW i, NEW c \in Parts, \A o \in ServerOutputs, x \in Parts : EndSubscriber(o, x, i) \in Parts,
         NEW P, <<{}, c>> \in P,
         \A s \in SUBSET ServerOutputs, o \in ServerOutputs, x \in Parts :
           o \notin s /\ <<s, x>> \in P => <<s \cup {o}, EndSubscriber(o, x, i)>> \in P
  PROVE  Subscribers(c, i) \in Parts /\ <<ServerOutputs, Subscribers(c, i)>> \in P
<1> DEFINE S == ServerOutputs
           F == [p \in S \X Parts |-> EndSubscriber(p[1], p[2], i)]
           Eq(it) == it = [s \in SUBSET S |-> IF s = {} THEN c ELSE EndSubscriber(Pick(s), it[s \ {Pick(s)}], i)]
           found == CHOOSE it : Eq(it)
<1>1. IsFiniteSet(S)
  BY SourceAssumption, FS_Subset DEF SessionIds
<1>2. \A s \in SUBSET S : s # {} => Pick(s) \in s /\ s \ {Pick(s)} \in SUBSET S
  BY DEF Pick
<1>3. \E it : Eq(it)
  <2>1. F \in [S \X Parts -> Parts]
    OBVIOUS
  <2>2. PICK it \in [SUBSET S -> Parts] :
          \A s \in SUBSET S : it[s] = IF s = {} THEN c ELSE F[<<Pick(s), it[s \ {Pick(s)}]>>]
    <3> DEFINE C == Parts
               b == c
    <3>1. IsFiniteSet(S) /\ F \in [S \X C -> C] /\ b \in C
      BY <1>1, <2>1
    <3> HIDE DEF F, S, Eq, found, C, b
    <3>2. PICK it : TakesAll(it, S, C, F, b)
      BY <3>1, Taken
    <3> QED
      BY <3>2 DEF C, b, TakesAll
  <2>3. \A s \in SUBSET S : it[s] = IF s = {} THEN c ELSE EndSubscriber(Pick(s), it[s \ {Pick(s)}], i)
    <3> SUFFICES ASSUME NEW s \in SUBSET S, s # {} PROVE it[s] = EndSubscriber(Pick(s), it[s \ {Pick(s)}], i)
      BY <2>2
    <3>1. <<Pick(s), it[s \ {Pick(s)}]>> \in S \X Parts
      BY <1>2
    <3>2. it[s] = F[<<Pick(s), it[s \ {Pick(s)}]>>]
      BY <2>2
    <3> QED
      BY <3>1, <3>2
  <2> QED
    BY <2>3
<1>4. Eq(found)
  BY <1>3
<1>5. Subscribers(c, i) = found[S]
  BY DEF Subscribers, FoldSet, MapThenFoldSet, Pick
<1> DEFINE Q == {s \in SUBSET S : found[s] \in Parts /\ <<s, found[s]>> \in P}
<1>6. \A s \in SUBSET S : found[s] = IF s = {} THEN c ELSE EndSubscriber(Pick(s), found[s \ {Pick(s)}], i)
  <2> HIDE DEF found
  <2> QED
    BY <1>4
<1> HIDE DEF found
<1>7. {} \in Q
  BY <1>6
<1>8. ASSUME NEW s \in SUBSET S, s # {}, s \ {Pick(s)} \in Q PROVE s \in Q
  <2> DEFINE x == found[s \ {Pick(s)}]
             t == s \ {Pick(s)}
             o == Pick(s)
  <2>1. o \in S /\ t \in SUBSET S /\ o \notin t /\ s = t \cup {o}
    BY <1>2, <1>8
  <2>2. x \in Parts /\ <<t, x>> \in P
    BY <1>8
  <2>3. found[s] = EndSubscriber(o, x, i)
    BY <1>6, <1>8
  <2> HIDE DEF x, t, o
  <2>4. EndSubscriber(o, x, i) \in Parts /\ <<t \cup {o}, EndSubscriber(o, x, i)>> \in P
    BY <2>1, <2>2
  <2> QED
    BY <2>1, <2>3, <2>4
<1> HIDE DEF Q
<1>9. S \in Q
  BY <1>1, <1>7, <1>8, OneByOne
<1> QED
  BY <1>5, <1>9 DEF Q

-----------------------------------------------------------------------------
(* What the calls of a step do to the parts                                 *)

First(i) == <<i, "first">>
Again(i) == <<i, "rebuild">>

\* Of one session: it is ended, it is forgotten, or the call throws.
LEMMA TerminateSessionIs ==
  ASSUME NEW c \in Parts, NEW i \in SessionIds, NEW r, r = TerminateSession(c, i)
  PROVE  /\ r \in Parts /\ r.entry = c.entry /\ r.chain = c.chain /\ r.odd = c.odd
         /\ \A j \in SessionIds \ {i} : r.session[j] = c.session[j] /\ r.ending[j] = c.ending[j]
         /\ r.ending[i].stop = c.ending[i].stop /\ r.ending[i].recycle = c.ending[i].recycle
         /\ \/ r.threw /\ r.session = c.session /\ r.ending = c.ending
            \/ /\ r.threw = c.threw /\ r.session = c.session /\ c.session[i] \in {"connecting", "connected"}
               /\ r.ending[i].terminate = c.ending[i].terminate + 1
            \/ /\ r.threw = c.threw /\ r.ending = c.ending /\ c.session[i] \in {"none", "initialized"}
               /\ r.session[i] = "none"
<1>0. /\ c.ending \in [SessionIds -> Endings] /\ c.session \in [SessionIds -> States] /\ c.threw \in BOOLEAN
      /\ c.ending[i] \in Endings /\ c.session[i] \in States
  BY DEF Parts
<1>1. CASE c.session[i] \notin {"connecting", "connected"}
  <2>1. r = [c EXCEPT !.session = [@ EXCEPT ![i] = "none"]]
    BY <1>1 DEF TerminateSession
  <2>2. [c.session EXCEPT ![i] = "none"] \in [SessionIds -> States]
    BY <1>0 DEF States
  <2> QED
    BY <1>0, <1>1, <2>1, <2>2 DEF Parts, States
<1>2. CASE c.session[i] \in {"connecting", "connected"} /\ locality[i] \notin nodes.clients
  <2>1. r = [c EXCEPT !.threw = TRUE]
    BY <1>2 DEF TerminateSession, Throws
  <2> QED
    BY <1>0, <2>1 DEF Parts
<1>3. CASE c.session[i] \in {"connecting", "connected"} /\ locality[i] \in nodes.clients
  <2> DEFINE one == [c.ending[i] EXCEPT !.terminate = @ + 1]
             all == [c.ending EXCEPT ![i] = one]
  <2>1. r = [c EXCEPT !.ending = all]
    BY <1>3 DEF TerminateSession
  <2>2. one \in Endings /\ one.stop = c.ending[i].stop /\ one.recycle = c.ending[i].recycle
        /\ one.terminate = c.ending[i].terminate + 1
    BY <1>0 DEF Endings
  <2> HIDE DEF one
  <2>3. all \in [SessionIds -> Endings] /\ all[i] = one /\ \A j \in SessionIds \ {i} : all[j] = c.ending[j]
    BY <1>0, <2>2
  <2> HIDE DEF all
  <2>4. /\ r \in Parts /\ r.entry = c.entry /\ r.chain = c.chain /\ r.odd = c.odd /\ r.ending = all
        /\ r.threw = c.threw /\ r.session = c.session
    BY <1>0, <2>1, <2>3 DEF Parts
  <2> QED
    BY <1>3, <2>2, <2>3, <2>4
<1> QED
  BY <1>1, <1>2, <1>3

\* An entry goes alone.
LEMMA EntryGone ==
  ASSUME NEW c \in Parts, NEW i \in SessionIds, NEW r, r = RemoveSubscription(c, i)
  PROVE  /\ r \in Parts /\ r.session = c.session /\ r.ending = c.ending /\ r.chain = c.chain
         /\ r.odd = c.odd /\ r.threw = c.threw /\ r.entry[i] = "none"
         /\ \A j \in SessionIds \ {i} : r.entry[j] = c.entry[j]
BY DEF Parts, Entries, RemoveSubscription

\* A note changes nothing else.
LEMMA Noted ==
  ASSUME NEW c \in Parts, NEW i \in SessionIds, NEW what \in Oddities, NEW r, r = Note(c, i, what)
  PROVE  /\ r \in Parts /\ r.session = c.session /\ r.ending = c.ending /\ r.chain = c.chain
         /\ r.entry = c.entry /\ r.threw = c.threw /\ r.odd = c.odd \cup {<<i, what>>}
BY DEF Parts, Note

LEMMA EndSubscriberTyped ==
  ASSUME NEW i, NEW o \in ServerOutputs, NEW x \in Parts
  PROVE  EndSubscriber(o, x, i) \in Parts
<1> DEFINE on == TerminateSession(x, o)
<1>0. o \in SessionIds
  BY DEF SessionIds
<1>1. on \in Parts
  BY <1>0, TerminateSessionIs
<1> HIDE DEF on
<1>2. RemoveSubscription(on, o) \in Parts
  BY <1>0, <1>1, EntryGone
<1>3. EndOutput(x, o) \in Parts
  BY <1>1, <1>2 DEF EndOutput, on
<1>4. Throws(x) \in Parts
  BY DEF Throws, Parts
<1> QED
  BY <1>3, <1>4 DEF EndSubscriber

LEMMA RemoveStreamTyped ==
  ASSUME NEW c \in Parts, NEW i \in SessionIds
  PROVE  RemoveStream(c, i) \in Parts
<1> DEFINE e == Subscribers(c, i)
           P == (SUBSET ServerOutputs) \X Parts
           t == Note(e, i, "stuck")
<1>1. <<{}, c>> \in P
  OBVIOUS
<1>2. \A s \in SUBSET ServerOutputs, o \in ServerOutputs, x \in Parts :
           o \notin s /\ <<s, x>> \in P => <<s \cup {o}, EndSubscriber(o, x, i)>> \in P
  BY EndSubscriberTyped
<1> HIDE DEF P
<1>3. e \in Parts
  BY <1>1, <1>2, EndSubscriberTyped, SubscribersFolded
<1> HIDE DEF e
<1>4. t \in Parts
  BY <1>3, Noted DEF Oddities
<1>5. [t EXCEPT !.threw = FALSE] \in Parts
  BY <1>4 DEF Parts
<1>6. RemoveSubscription(e, i) \in Parts
  BY <1>3, EntryGone
<1> QED
  BY <1>5, <1>6 DEF RemoveStream, RemoveSubscription, e, t, Subscribers

-----------------------------------------------------------------------------
(* Calls of more than one session                                           *)

LEMMA AbortedTyped ==
  ASSUME NEW c \in Parts, NEW i \in SessionIds
  PROVE  Aborted(c, i) \in Parts
<1>1. RemoveStream(c, i) \in Parts
  BY RemoveStreamTyped
<1>2. RemoveSubscription(c, i) \in Parts
  BY EntryGone
<1> QED
  BY <1>1, <1>2 DEF Aborted

\* A session and its entry are ended, unless something has thrown before.
EndSession(c, i) ==
  IF c.threw THEN c ELSE LET on == TerminateSession(c, i) IN IF on.threw THEN on ELSE Aborted(on, i)

LEMMA EndSessionTyped ==
  ASSUME NEW c \in Parts, NEW i \in SessionIds
  PROVE  EndSession(c, i) \in Parts
<1> DEFINE on == TerminateSession(c, i)
<1>1. on \in Parts
  BY TerminateSessionIs
<1> HIDE DEF on
<1>2. Aborted(on, i) \in Parts
  BY <1>1, AbortedTyped
<1> QED
  BY <1>1, <1>2 DEF EndSession, on

LEMMA TerminateIs ==
  ASSUME NEW c \in Parts, NEW i \in SessionIds, ~c.threw
  PROVE  Terminate(c, i) = (IF c.session[i] = "none" THEN c ELSE EndSession(c, i))
BY DEF Terminate, EndSession

LEMMA TerminateTyped ==
  ASSUME NEW c \in Parts, NEW i \in SessionIds, ~c.threw
  PROVE  Terminate(c, i) \in Parts
BY TerminateIs, EndSessionTyped

LEMMA ImpactedTyped ==
  ASSUME NEW c \in Parts, NEW i \in SessionIds
  PROVE  Impacted(c, i) \in Parts
<1> DEFINE on == Aborted(c, i)
           new == [Idle EXCEPT !.step = "scheduling"]
<1>1. on \in Parts
  BY AbortedTyped
<1>2. new \in Steps
  BY DEF Idle, Steps
<1> HIDE DEF on, new
<1>3. TerminateSession(on, i) \in Parts
  BY <1>1, TerminateSessionIs
<1>4. [on EXCEPT !.session[i] = "initialized", !.chain[<<i, "rebuild">>] = new] \in Parts
  BY <1>1, <1>2 DEF Parts, States, Chains
<1> QED
  BY <1>3, <1>4 DEF Impacted, RebuildAnalyticsSubscriber, on, new

\* The same for destroyRoom and the sessions there are, ...
LEMMA SessionsEnded ==
  ASSUME NEW c \in Parts, NEW S \in SUBSET SessionIds, \A i \in S, x \in Parts : EndSession(x, i) \in Parts,
         S = {i \in SessionIds : c.session[i] # "none"}, NEW P, <<{}, c>> \in P,
         \A s \in SUBSET S, o \in S, x \in Parts :
           o \notin s /\ <<s, x>> \in P => <<s \cup {o}, EndSession(x, o)>> \in P
  PROVE  Destroy(c) \in Parts /\ <<S, Destroy(c)>> \in P
<1> DEFINE F == [p \in S \X Parts |-> EndSession(p[2], p[1])]
           Eq(it) == it = [s \in SUBSET S |-> IF s = {} THEN c ELSE EndSession(it[s \ {Pick(s)}], Pick(s))]
           found == CHOOSE it : Eq(it)
<1>1. IsFiniteSet(S)
  BY SourceAssumption, FS_Subset
<1>2. \A s \in SUBSET S : s # {} => Pick(s) \in s /\ s \ {Pick(s)} \in SUBSET S
  BY DEF Pick
<1>3. \E it : Eq(it)
  <2>1. F \in [S \X Parts -> Parts]
    OBVIOUS
  <2>2. PICK it \in [SUBSET S -> Parts] :
          \A s \in SUBSET S : it[s] = IF s = {} THEN c ELSE F[<<Pick(s), it[s \ {Pick(s)}]>>]
    <3> DEFINE C == Parts
               b == c
    <3>1. IsFiniteSet(S) /\ F \in [S \X C -> C] /\ b \in C
      BY <1>1, <2>1
    <3> HIDE DEF F, Eq, found, C, b
    <3>2. PICK it : TakesAll(it, S, C, F, b)
      BY <3>1, Taken
    <3> QED
      BY <3>2 DEF C, b, TakesAll
  <2>3. \A s \in SUBSET S : it[s] = IF s = {} THEN c ELSE EndSession(it[s \ {Pick(s)}], Pick(s))
    <3> SUFFICES ASSUME NEW s \in SUBSET S, s # {} PROVE it[s] = EndSession(it[s \ {Pick(s)}], Pick(s))
      BY <2>2
    <3>1. <<Pick(s), it[s \ {Pick(s)}]>> \in S \X Parts
      BY <1>2
    <3>2. it[s] = F[<<Pick(s), it[s \ {Pick(s)}]>>]
      BY <2>2
    <3> QED
      BY <3>1, <3>2
  <2> QED
    BY <2>3
<1>4. Eq(found)
  BY <1>3
<1>5. Destroy(c) = found[S]
  BY DEF EndSession, Destroy, FoldSet, MapThenFoldSet, Pick
<1> DEFINE Q == {s \in SUBSET S : found[s] \in Parts /\ <<s, found[s]>> \in P}
<1>6. \A s \in SUBSET S : found[s] = IF s = {} THEN c ELSE EndSession(found[s \ {Pick(s)}], Pick(s))
  <2> HIDE DEF found
  <2> QED
    BY <1>4
<1> HIDE DEF found
<1>7. {} \in Q
  BY <1>6
<1>8. ASSUME NEW s \in SUBSET S, s # {}, s \ {Pick(s)} \in Q PROVE s \in Q
  <2> DEFINE x == found[s \ {Pick(s)}]
             t == s \ {Pick(s)}
             o == Pick(s)
  <2>1. o \in S /\ t \in SUBSET S /\ o \notin t /\ s = t \cup {o}
    BY <1>2, <1>8
  <2>2. x \in Parts /\ <<t, x>> \in P
    BY <1>8
  <2>3. found[s] = EndSession(x, o)
    BY <1>6, <1>8
  <2> HIDE DEF x, t, o
  <2>4. EndSession(x, o) \in Parts /\ <<t \cup {o}, EndSession(x, o)>> \in P
    BY <2>1, <2>2
  <2> QED
    BY <2>1, <2>3, <2>4
<1> HIDE DEF Q
<1>9. S \in Q
  BY <1>1, <1>7, <1>8, OneByOne
<1> QED
  BY <1>5, <1>9 DEF Q

\* ... and for the sessions of a node that is lost.
LEMMA SessionsImpacted ==
  ASSUME NEW c \in Parts, NEW S \in SUBSET SessionIds, \A i \in S, x \in Parts : Impacted(x, i) \in Parts
  PROVE  FoldSet(LAMBDA i, x : Impacted(x, i), c, S) \in Parts
<1> DEFINE F == [p \in S \X Parts |-> Impacted(p[2], p[1])]
           Eq(it) == it = [s \in SUBSET S |-> IF s = {} THEN c ELSE Impacted(it[s \ {Pick(s)}], Pick(s))]
           found == CHOOSE it : Eq(it)
<1>1. IsFiniteSet(S)
  BY SourceAssumption, FS_Subset
<1>2. \A s \in SUBSET S : s # {} => Pick(s) \in s /\ s \ {Pick(s)} \in SUBSET S
  BY DEF Pick
<1>3. \E it : Eq(it)
  <2>1. F \in [S \X Parts -> Parts]
    OBVIOUS
  <2>2. PICK it \in [SUBSET S -> Parts] :
          \A s \in SUBSET S : it[s] = IF s = {} THEN c ELSE F[<<Pick(s), it[s \ {Pick(s)}]>>]
    <3> DEFINE C == Parts
               b == c
    <3>1. IsFiniteSet(S) /\ F \in [S \X C -> C] /\ b \in C
      BY <1>1, <2>1
    <3> HIDE DEF F, Eq, found, C, b
    <3>2. PICK it : TakesAll(it, S, C, F, b)
      BY <3>1, Taken
    <3> QED
      BY <3>2 DEF C, b, TakesAll
  <2>3. \A s \in SUBSET S : it[s] = IF s = {} THEN c ELSE Impacted(it[s \ {Pick(s)}], Pick(s))
    <3> SUFFICES ASSUME NEW s \in SUBSET S, s # {} PROVE it[s] = Impacted(it[s \ {Pick(s)}], Pick(s))
      BY <2>2
    <3>1. <<Pick(s), it[s \ {Pick(s)}]>> \in S \X Parts
      BY <1>2
    <3>2. it[s] = F[<<Pick(s), it[s \ {Pick(s)}]>>]
      BY <2>2
    <3> QED
      BY <3>1, <3>2
  <2> QED
    BY <2>3
<1>4. Eq(found)
  BY <1>3
<1>5. FoldSet(LAMBDA i, x : Impacted(x, i), c, S) = found[S]
  BY DEF FoldSet, MapThenFoldSet, Pick
<1> DEFINE Q == {s \in SUBSET S : found[s] \in Parts}
<1>6. \A s \in SUBSET S : found[s] = IF s = {} THEN c ELSE Impacted(found[s \ {Pick(s)}], Pick(s))
  <2> HIDE DEF found
  <2> QED
    BY <1>4
<1> HIDE DEF found
<1>7. {} \in Q
  BY <1>6
<1>8. ASSUME NEW s \in SUBSET S, s # {}, s \ {Pick(s)} \in Q PROVE s \in Q
  <2> DEFINE x == found[s \ {Pick(s)}]
             t == s \ {Pick(s)}
             o == Pick(s)
  <2>1. o \in S /\ t \in SUBSET S /\ o \notin t /\ s = t \cup {o}
    BY <1>2, <1>8
  <2>2. x \in Parts
    BY <1>8
  <2>3. found[s] = Impacted(x, o)
    BY <1>6, <1>8
  <2> HIDE DEF x, t, o
  <2>4. Impacted(x, o) \in Parts
    BY <2>1, <2>2
  <2> QED
    BY <2>1, <2>3, <2>4
<1> HIDE DEF Q
<1>9. S \in Q
  BY <1>1, <1>7, <1>8, OneByOne
<1> QED
  BY <1>5, <1>9 DEF Q

-----------------------------------------------------------------------------
(* What is known of a session                                               *)

Ending(c, i) == c.ending[i].terminate > 0 \/ c.ending[i].recycle > 0
Ghost(c, i) == <<i, "ghost">> \in c.odd
Misaddressed(c, i) == <<i, "misaddressed">> \in c.odd
Leased(w, i) == \E n \in AccessNodes : <<n, i>> \in w.nodes.leases
Step(c, i) == c.chain[First(i)].step

\* An entry has a session that is not being ended.
EntryBacked(c, i) ==
  c.entry[i] # "none" => \/ c.session[i] # "none" /\ ~Ending(c, i)
                         \/ Ghost(c, i)
                         \/ i \in StreamingIns /\ <<i, "stuck">> \in c.odd

\* A session has an entry that is ready or is awaited by its call, or it is being ended.
SessionNamed(c, i, w) ==
  c.session[i] # "none" =>
    \/ c.entry[i] = "ready" \/ Misaddressed(c, i) \/ Ending(c, i)
    \/ c.entry[i] = "connecting" /\ w.call[i] \in {"initiating", "waiting"}

\* A session has a node that is leased and carries it, until it is recycled.
SessionCarried(c, i, w) ==
  c.session[i] # "none" =>
    \/ Step(c, i) = "scheduling"
    \/ /\ w.locality[i] \in AccessNodes /\ <<w.locality[i], i>> \in w.nodes.leases
       /\ <<w.locality[i], i>> \in w.nodes.carried \/ c.ending[i].recycle > 0

\* A lease is that of a session, or is given back; there is one for a session.
LeaseUsed(c, i, w) ==
  /\ Leased(w, i) => \/ c.session[i] # "none" \/ c.ending[i].recycle > 0 \/ Step(c, i) = "initiating"
                     \/ <<i, "unreleased">> \in c.odd
  /\ \A n, m \in AccessNodes : <<n, i>> \in w.nodes.leases /\ <<m, i>> \in w.nodes.leases => n = m

\* No node has been found for the session yet.
Unplaced(w, i) ==
  /\ ~Leased(w, i) /\ \A n \in AccessNodes : <<n, i>> \notin w.nodes.carried
  /\ \A what \in {"ready", "failed"} : <<i, what>> \notin w.notices

InOrder(c, i, w) ==
  /\ c.ending[i].stop > 0 => c.session[i] = "none"
  /\ c.session[i] = "initialized" => Step(c, i) # "none"
  /\ c.chain[Again(i)].step = "none"
  /\ Step(c, i) = "scheduling" => /\ c.session[i] \in {"none", "initialized"} /\ ~Ending(c, i)
                                  /\ Unplaced(w, i)
  /\ w.call[i] = "new" => /\ c.entry[i] = "none" /\ c.session[i] = "none" /\ Step(c, i) = "none"
                          /\ ~Ending(c, i) /\ c.ending[i].stop = 0 /\ i \notin w.adding /\ Unplaced(w, i)

Rest(c, i, w) == SessionCarried(c, i, w) /\ LeaseUsed(c, i, w) /\ InOrder(c, i, w)
Good(c, i, w) == EntryBacked(c, i) /\ SessionNamed(c, i, w) /\ Rest(c, i, w)

\* A subscription that is ready has a source that is.
SourceReady(c) ==
  \A o \in ServerOutputs : c.entry[o] = "ready" => c.entry[SourceOf[o]] = "ready" \/ Ghost(c, o)

AllGood(c, w) == (\A i \in SessionIds : Good(c, i, w)) /\ SourceReady(c)

\* Nothing is different for j but what has been noted, or but that and the entry.
SessionSame(c, r, j) ==
  /\ r.session[j] = c.session[j] /\ r.ending[j] = c.ending[j]
  /\ r.chain[First(j)] = c.chain[First(j)] /\ r.chain[Again(j)] = c.chain[Again(j)]
  /\ c.odd \subseteq r.odd
Same(c, r, j) == r.entry[j] = c.entry[j] /\ SessionSame(c, r, j)

\* What is known of a session is about its own parts, ...
LEMMA SameGood ==
  ASSUME NEW c, NEW r, NEW j, Same(c, r, j), NEW w, Good(c, j, w)
  PROVE  Good(r, j, w)
BY DEF Same, SessionSame, Good, Rest, EntryBacked, SessionNamed, SessionCarried, LeaseUsed, InOrder, Ending, Ghost,
       Misaddressed, Step

\* ... and little of it about its entry.
LEMMA SameRest ==
  ASSUME NEW c, NEW r, NEW j, SessionSame(c, r, j), r.entry[j] \in {"none", c.entry[j]},
         NEW w, Rest(c, j, w)
  PROVE  Rest(r, j, w)
BY DEF SessionSame, Rest, SessionCarried, LeaseUsed, InOrder, Ending, Step

\* What ends a session without its entry.
LEMMA SessionEnds ==
  ASSUME NEW c \in Parts, NEW i \in SessionIds, NEW r, r = TerminateSession(c, i), ~r.threw, ~c.threw,
         NEW w, Rest(c, i, w)
  PROVE  Rest(r, i, w) /\ (r.session[i] = "none" \/ Ending(r, i))
<1>1. /\ r \in Parts /\ r.entry = c.entry /\ r.chain = c.chain /\ r.odd = c.odd
      /\ r.ending[i].stop = c.ending[i].stop /\ r.ending[i].recycle = c.ending[i].recycle
      /\ \/ /\ r.session = c.session /\ c.session[i] \in {"connecting", "connected"}
            /\ r.ending[i].terminate = c.ending[i].terminate + 1
         \/ /\ r.ending = c.ending /\ c.session[i] \in {"none", "initialized"}
            /\ r.session[i] = "none"
  BY TerminateSessionIs
<1>2. /\ c.ending[i].terminate \in Nat /\ c.chain[First(i)].step \in {"none", "scheduling", "initiating"}
  BY DEF Parts, Endings, Steps, First, Chains
<1>3. CASE r.session = c.session /\ c.session[i] \in {"connecting", "connected"}
           /\ r.ending[i].terminate = c.ending[i].terminate + 1
  <2>1. Ending(r, i)
    BY <1>2, <1>3 DEF Ending
  <2>2. w.call[i] # "new"
    BY <1>3 DEF Rest, InOrder
  <2>3. InOrder(r, i, w)
    BY <1>1, <1>3, <2>2 DEF Rest, InOrder, Step
  <2>4. SessionCarried(r, i, w) /\ LeaseUsed(r, i, w)
    BY <1>1, <1>3 DEF Rest, SessionCarried, LeaseUsed, Step
  <2> QED
    BY <2>1, <2>3, <2>4 DEF Rest
<1>4. CASE r.ending = c.ending /\ c.session[i] \in {"none", "initialized"} /\ r.session[i] = "none"
  <2>1. InOrder(r, i, w)
    BY <1>1, <1>4 DEF Rest, InOrder, Step, Ending
  <2>2. SessionCarried(r, i, w)
    BY <1>4 DEF SessionCarried
  <2>3. LeaseUsed(r, i, w)
    BY <1>1, <1>2, <1>4 DEF Rest, LeaseUsed, InOrder, Step, Unplaced
  <2> QED
    BY <1>4, <2>1, <2>2, <2>3 DEF Rest
<1> QED
  BY <1>1, <1>3, <1>4

\* One subscription is ended with its session.
LEMMA EndOutputKeeps ==
  ASSUME NEW c \in Parts, NEW o \in ServerOutputs, ~c.threw, NEW r, r = EndOutput(c, o),
         NEW w, Good(c, o, w), SourceReady(c)
  PROVE  /\ r \in Parts /\ Good(r, o, w) /\ SourceReady(r)
         /\ \A j \in SessionIds \ {o} : Same(c, r, j)
         /\ r.odd = c.odd /\ (r.threw \/ r.entry[o] = "none" \/ Ghost(r, o))
<1> DEFINE x == TerminateSession(c, o)
<1>0. o \in SessionIds /\ o \notin StreamingIns /\ \A p \in ServerOutputs : SourceOf[p] # o
  BY SourceAssumption DEF SessionIds
<1>1. /\ x \in Parts /\ x.entry = c.entry /\ x.chain = c.chain /\ x.odd = c.odd
      /\ \A j \in SessionIds \ {o} : x.session[j] = c.session[j] /\ x.ending[j] = c.ending[j]
      /\ \/ x.threw /\ x.session = c.session /\ x.ending = c.ending
         \/ x.threw = c.threw
  BY <1>0, TerminateSessionIs
<1>2. \A j \in SessionIds \ {o} : Same(c, x, j)
  BY <1>1 DEF Same, SessionSame
<1>3. CASE c.session[o] = "none"
  <2>1. r = c
    BY <1>3 DEF EndOutput
  <2>2. r.entry[o] = "none" \/ Ghost(r, o)
    BY <1>0, <1>3, <2>1 DEF Good, EntryBacked
  <2> QED
    BY <2>1, <2>2 DEF Same, SessionSame
<1>4. CASE c.session[o] # "none" /\ x.threw
  <2>1. r = x
    BY <1>4 DEF EndOutput
  <2>2. Same(c, x, o)
    BY <1>1, <1>4 DEF Same, SessionSame
  <2>3. Good(r, o, w)
    BY <2>1, <2>2, SameGood
  <2> QED
    BY <1>1, <1>2, <1>4, <2>1, <2>3 DEF SourceReady, Ghost
<1>5. CASE c.session[o] # "none" /\ ~x.threw
  <2>1. r = RemoveSubscription(x, o)
    BY <1>5 DEF EndOutput
  <2> HIDE DEF x
  <2>2. /\ r \in Parts /\ r.session = x.session /\ r.ending = x.ending /\ r.chain = x.chain
        /\ r.odd = x.odd /\ r.threw = x.threw /\ r.entry[o] = "none"
        /\ \A j \in SessionIds \ {o} : r.entry[j] = x.entry[j]
    <3>1. x \in Parts /\ o \in SessionIds
      BY <1>0, <1>1
    <3> QED
      BY <2>1, <3>1, EntryGone
  <2>3. Rest(x, o, w) /\ (x.session[o] = "none" \/ Ending(x, o))
    BY <1>0, <1>1, <1>5, SessionEnds DEF Good, x
  <2>4. Rest(r, o, w)
    BY <2>2, <2>3, SameRest DEF SessionSame
  <2>5. EntryBacked(r, o)
    BY <2>2 DEF EntryBacked
  <2>6. SessionNamed(r, o, w)
    BY <2>2, <2>3 DEF SessionNamed, Ending
  <2>7. \A j \in SessionIds \ {o} : Same(c, r, j)
    BY <1>1, <2>2 DEF Same, SessionSame
  <2>8. SourceReady(r)
    <3> SUFFICES ASSUME NEW p \in ServerOutputs, r.entry[p] = "ready"
                 PROVE  r.entry[SourceOf[p]] = "ready" \/ Ghost(r, p)
      BY DEF SourceReady
    <3>1. p # o /\ p \in SessionIds /\ SourceOf[p] \in SessionIds /\ SourceOf[p] # o
      BY <1>0, <2>2, SourceAssumption DEF SessionIds
    <3>2. r.entry[p] = c.entry[p] /\ r.entry[SourceOf[p]] = c.entry[SourceOf[p]]
      BY <1>1, <2>2, <3>1
    <3> QED
      BY <1>1, <2>2, <3>2 DEF SourceReady, Ghost
  <2> QED
    BY <1>1, <2>2, <2>4, <2>5, <2>6, <2>7, <2>8 DEF Good
<1> QED
  BY <1>3, <1>4, <1>5
\* One subscription after another is looked at, and the stream is forgotten or stays.
LEMMA RemoveStreamKeeps ==
  ASSUME NEW c \in Parts, NEW i \in StreamingIns, ~c.threw, NEW r, r = RemoveStream(c, i),
         NEW w, \A o \in ServerOutputs : Good(c, o, w), SourceReady(c)
  PROVE  /\ r \in Parts /\ ~r.threw /\ SourceReady(r)
         /\ \A o \in ServerOutputs : Good(r, o, w)
         /\ \A j \in StreamingIns \ {i} : Same(c, r, j)
         /\ SessionSame(c, r, i)
         /\ r.entry[i] = "none" \/ (r.entry[i] = c.entry[i] /\ <<i, "stuck">> \in r.odd)
<1> DEFINE Kept(s, x) == /\ \A o \in ServerOutputs : Good(x, o, w)
                         /\ SourceReady(x) /\ x.odd = c.odd
                         /\ \A j \in StreamingIns : Same(c, x, j)
                         /\ ~x.threw => \A o \in s : SourceOf[o] = i => x.entry[o] = "none" \/ Ghost(x, o)
           P == {p \in (SUBSET ServerOutputs) \X Parts : Kept(p[1], p[2])}
           e == Subscribers(c, i)
<1>0. i \in SessionIds /\ i \notin ServerOutputs /\ StreamingIns \cap ServerOutputs = {}
  BY SourceAssumption DEF SessionIds
<1>1. <<{}, c>> \in P
  BY DEF Same, SessionSame
<1>2. ASSUME NEW s \in SUBSET ServerOutputs, NEW o \in ServerOutputs, NEW x \in Parts, <<s, x>> \in P
      PROVE  <<s \cup {o}, EndSubscriber(o, x, i)>> \in P
  <2> DEFINE y == EndSubscriber(o, x, i)
  <2>0. Kept(s, x)
    BY <1>2
  <2> SUFFICES Kept(s \cup {o}, y)
    BY EndSubscriberTyped
  <2>1. CASE y = x /\ (x.threw \/ x.entry[o] = "none" \/ SourceOf[o] # i)
    BY <2>0, <2>1
  <2>2. CASE y = Throws(x)
    <3>1. /\ y.threw /\ y.entry = x.entry /\ y.session = x.session /\ y.ending = x.ending
          /\ y.chain = x.chain /\ y.odd = x.odd
      BY <2>2 DEF Throws, Parts
    <3> HIDE DEF y
    <3>2. \A j \in SessionIds : Same(x, y, j)
      BY <3>1 DEF Same, SessionSame
    <3>3. \A p \in ServerOutputs : Good(y, p, w)
      BY <2>0, <3>2, SameGood DEF SessionIds
    <3>4. \A j \in StreamingIns : Same(c, y, j)
      BY <2>0, <3>1 DEF Same, SessionSame
    <3>5. SourceReady(y)
      BY <2>0, <3>1 DEF SourceReady, Ghost
    <3> QED
      BY <2>0, <3>1, <3>3, <3>4, <3>5
  <2>3. CASE y = EndOutput(x, o) /\ ~x.threw
    <3> HIDE DEF y
    <3>1. /\ y \in Parts /\ Good(y, o, w) /\ SourceReady(y)
          /\ \A j \in SessionIds \ {o} : Same(x, y, j)
          /\ y.odd = x.odd /\ (y.threw \/ y.entry[o] = "none" \/ Ghost(y, o))
      BY <2>0, <2>3, EndOutputKeeps
    <3>2. \A p \in ServerOutputs : Good(y, p, w)
      BY <2>0, <3>1, SameGood DEF SessionIds
    <3>3. \A j \in StreamingIns : Same(c, y, j)
      BY <1>0, <2>0, <3>1 DEF Same, SessionSame, SessionIds
    <3>4. \A p \in s \cup {o} : ~y.threw /\ SourceOf[p] = i => y.entry[p] = "none" \/ Ghost(y, p)
      BY <2>0, <2>3, <3>1 DEF Same, SessionIds, Ghost
    <3> QED
      BY <2>0, <3>1, <3>2, <3>3, <3>4
  <2>4. \/ y = x /\ (x.threw \/ x.entry[o] = "none" \/ SourceOf[o] # i)
        \/ y = Throws(x)
        \/ y = EndOutput(x, o) /\ ~x.threw
    BY DEF EndSubscriber
  <2> HIDE DEF y
  <2> QED
    BY <2>1, <2>2, <2>3, <2>4
<1> HIDE DEF P
<1>3. e \in Parts /\ <<ServerOutputs, e>> \in P
  BY <1>1, <1>2, EndSubscriberTyped, SubscribersFolded
<1>4. e \in Parts /\ Kept(ServerOutputs, e)
  BY <1>3 DEF P
<1> HIDE DEF e
<1>5. CASE c.entry[i] = "none"
  <2>1. r = c
    BY <1>5 DEF RemoveStream
  <2> QED
    BY <1>5, <2>1 DEF Same, SessionSame
<1> DEFINE t == Note(e, i, "stuck")
<1>6. CASE c.entry[i] # "none" /\ e.threw
  <2>1. r = [t EXCEPT !.threw = FALSE]
    BY <1>6 DEF RemoveStream, Subscribers, e
  <2>2. /\ t \in Parts /\ t.session = e.session /\ t.ending = e.ending /\ t.chain = e.chain
        /\ t.entry = e.entry /\ t.odd = e.odd \cup {<<i, "stuck">>}
    <3>1. e \in Parts /\ i \in SessionIds /\ "stuck" \in Oddities
      BY <1>0, <1>4 DEF Oddities
    <3> QED
      BY <3>1, Noted
  <2> HIDE DEF t
  <2>3. /\ r \in Parts /\ ~r.threw /\ r.session = e.session /\ r.ending = e.ending /\ r.chain = e.chain
        /\ r.entry = e.entry /\ r.odd = e.odd \cup {<<i, "stuck">>}
    BY <2>1, <2>2 DEF Parts
  <2>4. \A j \in SessionIds : Same(e, r, j)
    BY <2>3 DEF Same, SessionSame
  <2>5. \A o \in ServerOutputs : Good(r, o, w)
    BY <1>4, <2>4, SameGood DEF SessionIds
  <2>6. \A j \in StreamingIns : Same(c, r, j)
    BY <1>4, <2>3 DEF Same, SessionSame
  <2>7. SourceReady(r)
    BY <1>4, <2>3 DEF SourceReady, Ghost
  <2> QED
    BY <2>3, <2>5, <2>6, <2>7 DEF Same
<1>7. CASE c.entry[i] # "none" /\ ~e.threw
  <2>1. r = RemoveSubscription(e, i)
    BY <1>7 DEF RemoveStream, RemoveSubscription, Subscribers, e
  <2>2. /\ r \in Parts /\ r.session = e.session /\ r.ending = e.ending /\ r.chain = e.chain
        /\ r.odd = e.odd /\ r.threw = e.threw /\ r.entry[i] = "none"
        /\ \A j \in SessionIds \ {i} : r.entry[j] = e.entry[j]
    BY <1>0, <1>4, <2>1, EntryGone
  <2>3. \A j \in SessionIds \ {i} : Same(e, r, j)
    BY <2>2 DEF Same, SessionSame
  <2>4. \A o \in ServerOutputs : Good(r, o, w)
    BY <1>0, <1>4, <2>3, SameGood DEF SessionIds
  <2>5. \A j \in StreamingIns \ {i} : Same(c, r, j)
    BY <1>4, <2>2 DEF Same, SessionSame, SessionIds
  <2>6. SessionSame(c, r, i)
    BY <1>4, <2>2 DEF Same, SessionSame
  <2>7. SourceReady(r)
    <3> SUFFICES ASSUME NEW p \in ServerOutputs, r.entry[p] = "ready"
                 PROVE  r.entry[SourceOf[p]] = "ready" \/ Ghost(r, p)
      BY DEF SourceReady
    <3>1. p # i /\ p \in SessionIds /\ SourceOf[p] \in SessionIds /\ e.entry[p] = "ready"
      BY <1>0, <2>2, SourceAssumption DEF SessionIds
    <3>2. CASE SourceOf[p] = i
      BY <1>4, <1>7, <2>2, <3>1, <3>2 DEF Ghost
    <3>3. CASE SourceOf[p] # i
      BY <1>4, <2>2, <3>1, <3>3 DEF Ghost, SourceReady
    <3> QED
      BY <3>2, <3>3
  <2>8. r \in Parts /\ ~r.threw /\ r.entry[i] = "none"
    BY <1>7, <2>2
  <2> QED
    BY <2>4, <2>5, <2>6, <2>7, <2>8
<1> QED
  BY <1>5, <1>6, <1>7
\* The entry of a session that has ended, is being ended or is not named goes, or its removal throws.
LEMMA AbortedKeeps ==
  ASSUME NEW c \in Parts, NEW i \in SessionIds, ~c.threw, NEW r, r = Aborted(c, i),
         NEW w, \A j \in SessionIds \ {i} : Good(c, j, w),
         Rest(c, i, w), SourceReady(c),
         c.session[i] = "none" \/ Misaddressed(c, i) \/ Ending(c, i)
  PROVE  r \in Parts /\ ~r.threw /\ AllGood(r, w)
<1>1. CASE i \in StreamingIns
  <2>1. r = RemoveStream(c, i) /\ \A o \in ServerOutputs : o \in SessionIds \ {i}
    BY <1>1, SourceAssumption DEF Aborted, SessionIds
  <2>2. /\ r \in Parts /\ ~r.threw /\ SourceReady(r)
        /\ \A o \in ServerOutputs : Good(r, o, w)
        /\ \A j \in StreamingIns \ {i} : Same(c, r, j)
        /\ SessionSame(c, r, i)
        /\ r.entry[i] = "none" \/ (r.entry[i] = c.entry[i] /\ <<i, "stuck">> \in r.odd)
    BY <1>1, <2>1, RemoveStreamKeeps
  <2>3. \A j \in SessionIds \ {i} : Good(r, j, w)
    BY <2>2, SameGood DEF SessionIds
  <2>4. Rest(r, i, w)
    BY <2>2, SameRest
  <2>5. EntryBacked(r, i)
    BY <1>1, <2>2 DEF EntryBacked
  <2>6. SessionNamed(r, i, w)
    BY <2>2 DEF SessionNamed, SessionSame, Misaddressed, Ending
  <2>7. Good(r, i, w)
    BY <2>4, <2>5, <2>6 DEF Good
  <2> QED
    BY <2>2, <2>3, <2>7 DEF AllGood
<1>2. CASE i \notin StreamingIns
  <2>1. r = RemoveSubscription(c, i) /\ \A p \in ServerOutputs : SourceOf[p] \in SessionIds \ {i}
    BY <1>2, SourceAssumption DEF Aborted, SessionIds
  <2>2. /\ r \in Parts /\ r.session = c.session /\ r.ending = c.ending /\ r.chain = c.chain
        /\ r.odd = c.odd /\ r.threw = c.threw /\ r.entry[i] = "none"
        /\ \A j \in SessionIds \ {i} : r.entry[j] = c.entry[j]
    BY <2>1, EntryGone
  <2>3. \A j \in SessionIds \ {i} : Same(c, r, j)
    BY <2>2 DEF Same, SessionSame
  <2>4. \A j \in SessionIds \ {i} : Good(r, j, w)
    BY <2>3, SameGood
  <2>5. Rest(r, i, w)
    BY <2>2, SameRest DEF SessionSame
  <2>6. EntryBacked(r, i)
    BY <2>2 DEF EntryBacked
  <2>7. SessionNamed(r, i, w)
    BY <2>2 DEF SessionNamed, Misaddressed, Ending
  <2>8. Good(r, i, w)
    BY <2>5, <2>6, <2>7 DEF Good
  <2>9. SourceReady(r)
    <3> SUFFICES ASSUME NEW p \in ServerOutputs, r.entry[p] = "ready"
                 PROVE  r.entry[SourceOf[p]] = "ready" \/ Ghost(r, p)
      BY DEF SourceReady
    <3>1. p \in SessionIds /\ p # i
      BY <2>2 DEF SessionIds
    <3> QED
      BY <2>1, <2>2, <3>1 DEF SourceReady, Ghost
  <2> QED
    BY <2>2, <2>4, <2>8, <2>9 DEF AllGood
<1> QED
  BY <1>1, <1>2

\* A session is ended with its entry.
LEMMA EndSessionKeeps ==
  ASSUME NEW c \in Parts, NEW i \in SessionIds, NEW r, r = EndSession(c, i),
         NEW w, AllGood(c, w)
  PROVE  r \in Parts /\ AllGood(r, w)
<1> DEFINE x == TerminateSession(c, i)
<1>1. CASE c.threw
  BY <1>1 DEF EndSession
<1> SUFFICES ASSUME ~c.threw PROVE r \in Parts /\ AllGood(r, w)
  BY <1>1
<1>2. /\ x \in Parts /\ x.entry = c.entry /\ x.chain = c.chain /\ x.odd = c.odd
      /\ \A j \in SessionIds \ {i} : x.session[j] = c.session[j] /\ x.ending[j] = c.ending[j]
      /\ \/ x.threw /\ x.session = c.session /\ x.ending = c.ending
         \/ x.threw = c.threw
  BY TerminateSessionIs
<1>3. \A j \in SessionIds \ {i} : Same(c, x, j)
  BY <1>2 DEF Same, SessionSame
<1>4. \A j \in SessionIds \ {i} : Good(x, j, w)
  BY <1>3, SameGood DEF AllGood
<1>5. SourceReady(x)
  BY <1>2 DEF AllGood, SourceReady, Ghost
<1>6. CASE x.threw
  <2>1. r = x
    BY <1>6 DEF EndSession
  <2>2. Same(c, x, i)
    BY <1>2, <1>6 DEF Same, SessionSame
  <2>3. Good(x, i, w)
    BY <2>2, SameGood DEF AllGood
  <2> QED
    BY <1>2, <1>4, <1>5, <2>1, <2>3 DEF AllGood
<1>7. CASE ~x.threw
  <2>1. r = Aborted(x, i)
    BY <1>7 DEF EndSession
  <2>2. Rest(x, i, w) /\ (x.session[i] = "none" \/ Ending(x, i))
    BY <1>7, SessionEnds DEF AllGood, Good
  <2> HIDE DEF x
  <2> QED
    BY <1>2, <1>4, <1>5, <1>7, <2>1, <2>2, AbortedKeeps
<1> QED
  BY <1>6, <1>7

LEMMA TerminateKeeps ==
  ASSUME NEW c \in Parts, NEW i \in SessionIds, ~c.threw, NEW r, r = Terminate(c, i),
         NEW w, AllGood(c, w)
  PROVE  r \in Parts /\ AllGood(r, w)
BY TerminateIs, EndSessionKeeps

\* Every session is ended, until something throws.
LEMMA DestroyTyped ==
  ASSUME NEW c \in Parts
  PROVE  Destroy(c) \in Parts
<1> DEFINE S == {i \in SessionIds : c.session[i] # "none"}
           P == (SUBSET SessionIds) \X Parts
<1>1. \A s \in SUBSET S, o \in S, x \in Parts :
        o \notin s /\ <<s, x>> \in P => <<s \cup {o}, EndSession(x, o)>> \in P
  BY EndSessionTyped
<1>2. <<{}, c>> \in P /\ S \in SUBSET SessionIds
  OBVIOUS
<1>3. \A i \in S, x \in Parts : EndSession(x, i) \in Parts
  BY EndSessionTyped
<1>4. S = {i \in SessionIds : c.session[i] # "none"}
  OBVIOUS
<1> HIDE DEF P, S
<1>5. <<S, Destroy(c)>> \in P
  BY <1>1, <1>2, <1>3, <1>4, SessionsEnded
<1> QED
  BY <1>5 DEF P

LEMMA DestroyKeeps ==
  ASSUME NEW c \in Parts, NEW w, AllGood(c, w)
  PROVE  Destroy(c) \in Parts /\ AllGood(Destroy(c), w)
<1> DEFINE S == {i \in SessionIds : c.session[i] # "none"}
           P == {p \in (SUBSET SessionIds) \X Parts : AllGood(p[2], w)}
<1>1. \A s \in SUBSET S, o \in S, x \in Parts :
        o \notin s /\ <<s, x>> \in P => <<s \cup {o}, EndSession(x, o)>> \in P
  BY EndSessionKeeps
<1>2. <<{}, c>> \in P /\ S \in SUBSET SessionIds
  OBVIOUS
<1>3. \A i \in S, x \in Parts : EndSession(x, i) \in Parts
  BY EndSessionTyped
<1>4. S = {i \in SessionIds : c.session[i] # "none"}
  OBVIOUS
<1> HIDE DEF P, S
<1>5. <<S, Destroy(c)>> \in P
  BY <1>1, <1>2, <1>3, <1>4, SessionsEnded
<1> QED
  BY <1>5 DEF P
-----------------------------------------------------------------------------
(* The invariant                                                            *)

World == [call |-> call, locality |-> locality, nodes |-> nodes, notices |-> notices, adding |-> adding]

NodesType == [clients : SUBSET AccessNodes, leases : SUBSET (AccessNodes \X SessionIds),
              carried : SUBSET (AccessNodes \X SessionIds), down : SUBSET AccessNodes]

OtherTypes ==
  /\ roomState \in {"up", "leaving", "gone"} /\ selfCleaning \in BOOLEAN /\ adding \subseteq SessionIds
  /\ call \in [SessionIds -> {"new", "initiating", "waiting", "ok", "error"}]
  /\ locality \in [SessionIds -> AccessNodes \cup {NoWhere}] /\ nodes \in NodesType
  /\ progress \in [SessionIds -> {"quiet", "ready", "failed"}]
  /\ placement \in [SessionIds -> AccessNodes] /\ losses \in 0..MaxTroubles /\ ends \in Nat

NoFault == nodes.down = {} /\ \A n \in AccessNodes : <<n, "fault">> \notin notices
Calm == NoFault /\ AllGood(Conference, World)

IInv == Conference \in Parts /\ OtherTypes /\ (losses = 0 => Calm)

\* What is known of j is the same, or less is on its way.
WorldSame(w, v, j) ==
  /\ v.call[j] = w.call[j] /\ v.locality[j] = w.locality[j]
  /\ \A n \in AccessNodes : /\ <<n, j>> \in v.nodes.leases <=> <<n, j>> \in w.nodes.leases
                            /\ <<n, j>> \in v.nodes.carried <=> <<n, j>> \in w.nodes.carried
  /\ \A what \in {"ready", "failed"} : <<j, what>> \in v.notices => <<j, what>> \in w.notices
  /\ j \in v.adding => j \in w.adding

\* Nothing is lost when less is on its way.
LEMMA WorldRest ==
  ASSUME NEW c, NEW j, NEW w, NEW v, WorldSame(w, v, j), Rest(c, j, w)
  PROVE  Rest(c, j, v)
<1>1. Leased(v, j) <=> Leased(w, j)
  BY DEF WorldSame, Leased
<1>2. SessionCarried(c, j, v)
  BY DEF WorldSame, SessionCarried, Rest
<1>3. LeaseUsed(c, j, v)
  BY <1>1 DEF WorldSame, LeaseUsed, Rest
<1>4. Unplaced(w, j) => Unplaced(v, j)
  BY <1>1 DEF WorldSame, Unplaced
<1>5. InOrder(c, j, v)
  BY <1>4 DEF WorldSame, InOrder, Rest
<1> QED
  BY <1>2, <1>3, <1>5 DEF Rest

LEMMA WorldGood ==
  ASSUME NEW c, NEW j, NEW w, NEW v, WorldSame(w, v, j), Good(c, j, w)
  PROVE  Good(c, j, v)
<1>1. SessionNamed(c, j, v)
  BY DEF WorldSame, SessionNamed, Good
<1> QED
  BY <1>1, WorldRest DEF Good

\* The state after a step is the one the step has worked out.
LEMMA Became ==
  ASSUME NEW c \in Parts, Become(c)
  PROVE  /\ Conference' \in Parts
         /\ \A w : AllGood(c, w) => AllGood(Conference', w)
<1>1. /\ Conference'.entry = c.entry /\ Conference'.session = c.session /\ Conference'.ending = c.ending
      /\ Conference'.chain = c.chain /\ Conference'.odd = c.odd
  BY DEF Become, Conference
<1>2. Conference' \in Parts
  BY DEF Become, Conference, Parts
<1>3. ASSUME NEW w, AllGood(c, w) PROVE AllGood(Conference', w)
  <2> DEFINE d == Conference'
  <2>1. \A j \in SessionIds : Same(c, d, j)
    BY <1>1 DEF Same, SessionSame
  <2>2. SourceReady(d)
    BY <1>1, <1>3 DEF SourceReady, AllGood, Ghost
  <2> HIDE DEF d
  <2>3. \A j \in SessionIds : Good(d, j, w)
    BY <1>3, <2>1, SameGood DEF AllGood
  <2>4. AllGood(d, w)
    BY <2>2, <2>3 DEF AllGood
  <2> QED
    BY <2>4 DEF d
<1> QED
  BY <1>2, <1>3

LEMMA ConferenceIs ==
  /\ Conference.entry = entry /\ Conference.session = session /\ Conference.ending = ending
  /\ Conference.chain = chain /\ Conference.odd = odd /\ Conference.threw = FALSE
BY DEF Conference

LEMMA WorldIs ==
  /\ World.call = call /\ World.locality = locality /\ World.nodes = nodes
  /\ World.notices = notices /\ World.adding = adding
BY DEF World

-----------------------------------------------------------------------------
(* The requests                                                             *)

Initiating(c, i) ==
  [c EXCEPT !.entry[i] = "connecting", !.session[i] = "initialized",
            !.chain[<<i, "first">>] = [Idle EXCEPT !.step = "scheduling"]]

LEMMA InitiatingIs ==
  ASSUME NEW c \in Parts, NEW i \in SessionIds, NEW r, r = Initiating(c, i)
  PROVE  /\ r \in Parts /\ r.entry[i] = "connecting" /\ r.session[i] = "initialized"
         /\ r.ending = c.ending /\ r.odd = c.odd /\ Step(r, i) = "scheduling"
         /\ r.chain[Again(i)] = c.chain[Again(i)]
         /\ \A j \in SessionIds \ {i} : Same(c, r, j)
<1> DEFINE new == [Idle EXCEPT !.step = "scheduling"]
           e == [c.entry EXCEPT ![i] = "connecting"]
           s == [c.session EXCEPT ![i] = "initialized"]
           h == [c.chain EXCEPT ![<<i, "first">>] = new]
<1>0. new \in Steps /\ new.step = "scheduling"
  BY DEF Idle, Steps
<1> HIDE DEF new
<1>1. r = [c EXCEPT !.entry = e, !.session = s, !.chain = h]
  BY DEF Initiating, new
<1>2. /\ e \in [SessionIds -> Entries] /\ s \in [SessionIds -> States] /\ e[i] = "connecting"
      /\ s[i] = "initialized" /\ \A j \in SessionIds \ {i} : e[j] = c.entry[j] /\ s[j] = c.session[j]
  BY DEF Parts, Entries, States
<1>3. \A j \in SessionIds : First(j) \in Chains /\ Again(j) \in Chains /\ Again(j) # First(i)
                            /\ (j # i => First(j) # First(i))
  BY DEF First, Again, Chains
<1>4. /\ h \in [Chains -> Steps] /\ h[First(i)].step = "scheduling"
      /\ \A k \in Chains \ {First(i)} : h[k] = c.chain[k]
  BY <1>0, <1>3 DEF Parts, First
<1> HIDE DEF e, s, h
<1>5. /\ r \in Parts /\ r.entry = e /\ r.session = s /\ r.chain = h /\ r.ending = c.ending /\ r.odd = c.odd
  BY <1>1, <1>2, <1>4 DEF Parts
<1> QED
  BY <1>2, <1>3, <1>4, <1>5 DEF Same, SessionSame, Step
\* A step of one session leaves the others alone.
LEMMA Others ==
  ASSUME NEW c, NEW r, NEW w, NEW v, NEW i \in SessionIds, AllGood(c, w),
         \A j \in SessionIds \ {i} : Same(c, r, j) /\ WorldSame(w, v, j)
  PROVE  \A j \in SessionIds \ {i} : Good(r, j, v)
BY SameGood, WorldGood DEF AllGood

\* The call of i is answered, and nothing else is different.
LEMMA Answered ==
  ASSUME OtherTypes, NEW i \in SessionIds, NEW answer \in {"initiating", "waiting", "ok", "error"},
         AnswerCall(i, answer), UNCHANGED <<adding, locality, nodes, notices>>
  PROVE  /\ call' \in [SessionIds -> {"new", "initiating", "waiting", "ok", "error"}] /\ call'[i] = answer
         /\ \A j \in SessionIds \ {i} : WorldSame(World, World', j)
         /\ \A j \in SessionIds : Unplaced(World, j) => Unplaced(World', j)
         /\ \A j \in SessionIds : Leased(World', j) <=> Leased(World, j)
<1>1. /\ call' \in [SessionIds -> {"new", "initiating", "waiting", "ok", "error"}] /\ call'[i] = answer
      /\ \A j \in SessionIds \ {i} : call'[j] = call[j]
  BY DEF OtherTypes, AnswerCall
<1> QED
  BY <1>1 DEF WorldSame, World, Unplaced, Leased

\* A session is asked for, ...
LEMMA InitiateKeeps ==
  ASSUME IInv, NEW i \in SessionIds, call[i] = "new", InitiateSession(i),
         UNCHANGED <<roomState, adding, locality, chosen, nodes, progress, notices, losses, ends>>
  PROVE  IInv'
<1> DEFINE c == Initiating(Conference, i)
<1>1. Become(c) /\ AnswerCall(i, "initiating") /\ UNCHANGED selfCleaning
  BY DEF InitiateSession, Initiating
<1>2. /\ c \in Parts /\ c.entry[i] = "connecting" /\ c.session[i] = "initialized"
      /\ c.ending = ending /\ c.odd = odd /\ Step(c, i) = "scheduling"
      /\ c.chain[Again(i)] = chain[Again(i)]
      /\ \A j \in SessionIds \ {i} : Same(Conference, c, j)
  BY InitiatingIs, ConferenceIs DEF IInv
<1> HIDE DEF c
<1>3. /\ call' \in [SessionIds -> {"new", "initiating", "waiting", "ok", "error"}] /\ call'[i] = "initiating"
      /\ \A j \in SessionIds \ {i} : WorldSame(World, World', j)
      /\ \A j \in SessionIds : Unplaced(World, j) => Unplaced(World', j)
      /\ \A j \in SessionIds : Leased(World', j) <=> Leased(World, j)
  BY <1>1, Answered DEF IInv
<1>4. Conference' \in Parts /\ (AllGood(c, World') => AllGood(Conference', World'))
  BY <1>1, <1>2, Became
<1>5. OtherTypes'
  BY <1>1, <1>3 DEF IInv, OtherTypes, chosen
<1>6. ASSUME losses' = 0 PROVE Calm'
  <2>1. Calm
    BY <1>6 DEF IInv
  <2>2. \A j \in SessionIds \ {i} : Good(c, j, World')
    BY <1>2, <1>3, <2>1, Others DEF Calm
  <2>3. Good(Conference, i, World) /\ SourceReady(Conference)
    BY <2>1 DEF Calm, AllGood
  <2>4. /\ entry[i] = "none" /\ ~Ending(Conference, i) /\ ending[i].stop = 0
        /\ Unplaced(World, i) /\ chain[Again(i)].step = "none"
    BY <2>3, ConferenceIs, WorldIs DEF Good, Rest, InOrder
  <2>5. ~Ending(c, i)
    BY <1>2, <2>4, ConferenceIs DEF Ending
  <2>6. EntryBacked(c, i) /\ SessionNamed(c, i, World') /\ SessionCarried(c, i, World')
    BY <1>2, <1>3, <2>5 DEF EntryBacked, SessionNamed, SessionCarried, World
  <2>7. LeaseUsed(c, i, World')
    <3>1. ~Leased(World', i)
      BY <1>3, <2>4 DEF Unplaced
    <3> QED
      BY <3>1 DEF LeaseUsed, Leased
  <2>8. InOrder(c, i, World')
    BY <1>2, <1>3, <2>4, <2>5 DEF InOrder, World
  <2>9. SourceReady(c)
    <3> SUFFICES ASSUME NEW p \in ServerOutputs, c.entry[p] = "ready"
                 PROVE  c.entry[SourceOf[p]] = "ready" \/ Ghost(c, p)
      BY DEF SourceReady
    <3>1. p \in SessionIds \ {i} /\ SourceOf[p] \in SessionIds /\ entry[p] = "ready"
      BY <1>2, SourceAssumption, ConferenceIs DEF SessionIds, Same
    <3>2. entry[SourceOf[p]] = "ready" \/ Ghost(c, p)
      BY <1>2, <2>3, <3>1, ConferenceIs DEF SourceReady, Ghost
    <3>3. entry[SourceOf[p]] = "ready" => SourceOf[p] # i
      BY <2>4
    <3> QED
      BY <1>2, <3>1, <3>2, <3>3, ConferenceIs DEF Same
  <2>10. AllGood(c, World')
    BY <2>2, <2>6, <2>7, <2>8, <2>9 DEF AllGood, Good, Rest
  <2>11. NoFault'
    BY <2>1 DEF Calm, NoFault
  <2> QED
    BY <1>4, <2>10, <2>11 DEF Calm
<1> QED
  BY <1>4, <1>5, <1>6 DEF IInv

\* ... or refused.
LEMMA RefuseKeeps ==
  ASSUME IInv, NEW i \in SessionIds, call[i] = "new", RefuseCall(i),
         UNCHANGED <<roomState, adding, locality, chosen, nodes, progress, notices, losses, ends>>
  PROVE  IInv'
<1>1. AnswerCall(i, "error") /\ selfCleaning' = TRUE /\ Conference' = Conference
  BY DEF RefuseCall, Conference
<1>2. /\ call' \in [SessionIds -> {"new", "initiating", "waiting", "ok", "error"}] /\ call'[i] = "error"
      /\ \A j \in SessionIds \ {i} : WorldSame(World, World', j)
      /\ \A j \in SessionIds : Unplaced(World, j) => Unplaced(World', j)
      /\ \A j \in SessionIds : Leased(World', j) <=> Leased(World, j)
  BY <1>1, Answered DEF IInv
<1>3. OtherTypes'
  BY <1>1, <1>2 DEF IInv, OtherTypes, chosen
<1>4. ASSUME losses' = 0 PROVE Calm'
  <2>1. Calm
    BY <1>4 DEF IInv
  <2>2. \A j \in SessionIds : Same(Conference, Conference, j)
    BY DEF Same, SessionSame
  <2>3. \A j \in SessionIds \ {i} : Good(Conference, j, World')
    BY <1>2, <2>1, <2>2, Others DEF Calm
  <2>4. Good(Conference, i, World) /\ SourceReady(Conference)
    BY <2>1 DEF Calm, AllGood
  <2>5. /\ session[i] = "none" /\ Step(Conference, i) = "none"
    BY <2>4, ConferenceIs, WorldIs DEF Good, Rest, InOrder
  <2>6. SessionNamed(Conference, i, World') /\ SessionCarried(Conference, i, World')
    BY <2>5, ConferenceIs DEF SessionNamed, SessionCarried
  <2>7. LeaseUsed(Conference, i, World')
    BY <1>2, <2>4 DEF LeaseUsed, Good, Rest, World
  <2>8. InOrder(Conference, i, World')
    BY <1>2, <2>4, <2>5 DEF InOrder, Good, Rest, World
  <2>9. AllGood(Conference, World')
    BY <2>3, <2>4, <2>6, <2>7, <2>8 DEF AllGood, Good, Rest
  <2>10. NoFault'
    BY <2>1 DEF Calm, NoFault
  <2> QED
    BY <1>1, <2>9, <2>10 DEF Calm
<1> QED
  BY <1>1, <1>3, <1>4 DEF IInv

LEMMA AddsKeep ==
  ASSUME IInv, NEW i \in SessionIds, AddStreamingIn(i) \/ AddServerSideSubscription(i)
  PROVE  IInv'
<1>1. CASE AddStreamingIn(i)
  BY <1>1, InitiateKeeps, RefuseKeeps DEF AddStreamingIn
<1>2. CASE AddServerSideSubscription(i)
  BY <1>2, InitiateKeeps, RefuseKeeps DEF AddServerSideSubscription
<1> QED
  BY <1>1, <1>2
-----------------------------------------------------------------------------
(* The end of a promise chain                                               *)

Idled(c, k) == [c EXCEPT !.chain[k] = Idle]

\* A chain that ends is idle, and the others are where they were.
LEMMA IdledIs ==
  ASSUME NEW c \in Parts, NEW k \in Chains, NEW r, r = Idled(c, k)
  PROVE  /\ r \in Parts /\ r.entry = c.entry /\ r.session = c.session /\ r.ending = c.ending
         /\ r.odd = c.odd /\ r.threw = c.threw /\ r.chain[k].step = "none"
         /\ \A l \in Chains \ {k} : r.chain[l] = c.chain[l]
<1> DEFINE h == [c.chain EXCEPT ![k] = Idle]
<1>1. r = [c EXCEPT !.chain = h]
  BY DEF Idled
<1>2. h \in [Chains -> Steps] /\ h[k].step = "none" /\ \A l \in Chains \ {k} : h[l] = c.chain[l]
  BY DEF Parts, Idle, Steps
<1> HIDE DEF h
<1> QED
  BY <1>1, <1>2 DEF Parts

LEMMA ChainsOf ==
  \A i \in SessionIds : First(i) \in Chains /\ Again(i) \in Chains
    /\ \A j \in SessionIds : Again(j) # First(i) /\ (j # i => First(j) # First(i))
BY DEF First, Again, Chains

\* A session has two chains.
LEMMA ChainIs ==
  ASSUME NEW k \in Chains
  PROVE  k[1] \in SessionIds /\ (k = First(k[1]) \/ (k = Again(k[1]) /\ k[2] = "rebuild"))
BY DEF Chains, First, Again

\* How a chain ends: without a word, with a call that waits, or with one that is refused.
LEMMA EndedIs ==
  ASSUME NEW c, NEW k \in Chains, NEW ok \in BOOLEAN, Ended(c, k, ok), NEW i, i = k[1],
         NEW on, on = Idled(c, k)
  PROVE  \/ k[2] = "rebuild" /\ Become(on) /\ UNCHANGED <<call, selfCleaning>>
         \/ ok /\ k[2] # "rebuild" /\ Become(on) /\ AnswerCall(i, "waiting") /\ UNCHANGED selfCleaning
         \/ /\ Become(Aborted(IF ok THEN Note(on, i, "misaddressed") ELSE on, i))
            /\ AnswerCall(i, "error") /\ selfCleaning' = TRUE /\ k[2] # "rebuild"
BY DEF Ended, Idled, RefusedCall

LEMMA EndedTyped ==
  ASSUME NEW c \in Parts, NEW k \in Chains, NEW ok \in BOOLEAN, Ended(c, k, ok), OtherTypes
  PROVE  /\ Conference' \in Parts /\ selfCleaning' \in BOOLEAN
         /\ call' \in [SessionIds -> {"new", "initiating", "waiting", "ok", "error"}]
<1> DEFINE i == k[1]
           on == Idled(c, k)
           x == IF ok THEN Note(on, i, "misaddressed") ELSE on
<1>1. on \in Parts /\ i \in SessionIds
  BY IdledIs, ChainIs
<1>2. \/ k[2] = "rebuild" /\ Become(on) /\ UNCHANGED <<call, selfCleaning>>
      \/ Become(on) /\ AnswerCall(i, "waiting") /\ UNCHANGED selfCleaning
      \/ Become(Aborted(x, i)) /\ AnswerCall(i, "error") /\ selfCleaning' = TRUE
  BY EndedIs
<1> HIDE DEF on, i
<1>3. "misaddressed" \in Oddities
  BY DEF Oddities
<1>4. x \in Parts
  BY <1>1, <1>3, Noted
<1> HIDE DEF x
<1>5. Conference' \in Parts
  BY <1>1, <1>2, <1>4, AbortedTyped, Became
<1> QED
  BY <1>1, <1>2, <1>5 DEF OtherTypes, AnswerCall

LEMMA EndedCall ==
  ASSUME NEW c, NEW i \in SessionIds, NEW ok \in BOOLEAN, Ended(c, First(i), ok), OtherTypes
  PROVE  call'[i] \in {"waiting", "error"} /\ \A j \in SessionIds \ {i} : call'[j] = call[j]
<1>1. First(i) \in Chains /\ First(i)[1] = i /\ First(i)[2] # "rebuild"
  BY DEF First, Chains
<1>2. AnswerCall(i, "waiting") \/ AnswerCall(i, "error")
  BY <1>1, EndedIs
<1> QED
  BY <1>2 DEF AnswerCall, OtherTypes

\* The first chain ends with its session there, and the call waits, or without, and the entry goes.
LEMMA EndedKeeps ==
  ASSUME NEW c \in Parts, ~c.threw, NEW i \in SessionIds, NEW ok \in BOOLEAN, Ended(c, First(i), ok),
         OtherTypes, NEW v, v.call = call', \A j \in SessionIds \ {i} : Good(c, j, v),
         SourceReady(c), Rest(Idled(c, First(i)), i, v), EntryBacked(c, i),
         ok => c.entry[i] \in {"connecting", "ready"} \/ Misaddressed(c, i) \/ Ending(c, i),
         ~ok => c.session[i] = "none"
  PROVE  Conference' \in Parts /\ AllGood(Conference', v)
<1> DEFINE on == Idled(c, First(i))
           x == IF ok THEN Note(on, i, "misaddressed") ELSE on
<1>1. First(i) \in Chains /\ First(i)[1] = i /\ First(i)[2] # "rebuild"
  BY DEF First, Chains
<1>2. /\ on \in Parts /\ on.entry = c.entry /\ on.session = c.session /\ on.ending = c.ending
      /\ on.odd = c.odd /\ on.threw = c.threw
      /\ \A l \in Chains \ {First(i)} : on.chain[l] = c.chain[l]
  BY <1>1, IdledIs
<1>3. \/ ok /\ Become(on) /\ AnswerCall(i, "waiting")
      \/ Become(Aborted(x, i)) /\ AnswerCall(i, "error")
  BY <1>1, EndedIs
<1>4. Rest(on, i, v)
  OBVIOUS
<1> HIDE DEF on
<1>5. \A j \in SessionIds \ {i} : Same(c, on, j)
  BY <1>2, ChainsOf DEF Same, SessionSame
<1>6. \A j \in SessionIds \ {i} : Good(on, j, v)
  BY <1>5, SameGood
<1>7. EntryBacked(on, i) /\ SourceReady(on)
  BY <1>2 DEF EntryBacked, SourceReady, Ghost, Ending
<1>8. CASE ok /\ Become(on) /\ AnswerCall(i, "waiting")
  <2>1. call'[i] = "waiting"
    BY <1>8 DEF AnswerCall, OtherTypes
  <2>2. SessionNamed(on, i, v)
    BY <1>2, <1>8, <2>1 DEF SessionNamed, Misaddressed, Ending
  <2>3. AllGood(on, v)
    BY <1>4, <1>6, <1>7, <2>2 DEF AllGood, Good
  <2> QED
    BY <1>2, <1>8, <2>3, Became
<1>9. CASE Become(Aborted(x, i))
  <2>1. /\ x \in Parts /\ x.session = on.session /\ x.ending = on.ending /\ x.chain = on.chain
        /\ x.entry = on.entry /\ x.threw = on.threw /\ on.odd \subseteq x.odd
        /\ ok => <<i, "misaddressed">> \in x.odd
    <3>1. "misaddressed" \in Oddities
      BY DEF Oddities
    <3>2. CASE ok
      <4>1. x = Note(on, i, "misaddressed")
        BY <3>2
      <4> QED
        BY <1>2, <3>1, <4>1, Noted
    <3>3. CASE ~ok
      BY <1>2, <3>3
    <3> QED
      BY <3>2, <3>3
  <2> HIDE DEF x
  <2>2. \A j \in SessionIds : Same(on, x, j)
    BY <2>1 DEF Same, SessionSame
  <2>3. \A j \in SessionIds \ {i} : Good(x, j, v)
    BY <1>6, <2>2, SameGood
  <2>4. Rest(x, i, v)
    BY <1>4, <2>1, <2>2, SameRest DEF Same
  <2>5. SourceReady(x)
    BY <1>7, <2>1 DEF SourceReady, Ghost
  <2>6. x.session[i] = "none" \/ Misaddressed(x, i)
    BY <1>2, <2>1 DEF Misaddressed
  <2>7. ~x.threw
    BY <1>2, <2>1
  <2>8. Aborted(x, i) \in Parts /\ AllGood(Aborted(x, i), v)
    BY <2>1, <2>3, <2>4, <2>5, <2>6, <2>7, AbortedKeeps
  <2> QED
    BY <1>9, <2>8, Became
<1> QED
  BY <1>3, <1>8, <1>9
\* The answer of a call does not matter for nodes and leases.
LEMMA AnsweredRest ==
  ASSUME OtherTypes, NEW i \in SessionIds, NEW answer \in {"initiating", "waiting", "ok", "error"},
         AnswerCall(i, answer), UNCHANGED <<adding, locality, nodes, notices>>,
         NEW c, Rest(c, i, World)
  PROVE  Rest(c, i, World')
<1>1. /\ call'[i] = answer
      /\ \A j \in SessionIds : Unplaced(World, j) => Unplaced(World', j)
      /\ \A j \in SessionIds : Leased(World', j) <=> Leased(World, j)
  BY Answered
<1>2. SessionCarried(c, i, World')
  BY DEF SessionCarried, Rest, World
<1>3. LeaseUsed(c, i, World')
  BY <1>1 DEF LeaseUsed, Rest, World
<1>4. InOrder(c, i, World')
  BY <1>1 DEF InOrder, Rest, World
<1> QED
  BY <1>2, <1>3, <1>4 DEF Rest

LEMMA SameWorld ==
  ASSUME UNCHANGED <<call, locality, nodes, notices, adding>>
  PROVE  World' = World /\ (NoFault => NoFault')
BY DEF World, NoFault

-----------------------------------------------------------------------------
(* The interval, and deletions                                              *)

LEMMA PollKeeps ==
  ASSUME IInv, NEW i \in SessionIds, Poll(i)
  PROVE  IInv'
<1> DEFINE c == IF session[i] = "none" \/ ending[i] # NoEnding[i] THEN Conference
                ELSE Note(Conference, i, "misaddressed")
           r == Aborted(c, i)
<1>0. UNCHANGED <<roomState, adding, locality, chosen, nodes, progress, notices, losses, ends>>
  BY DEF Poll
<1>1. \/ entry[i] = "ready" /\ AnswerCall(i, "ok") /\ UNCHANGED <<selfCleaning, entry, session, chain, ending, odd>>
      \/ AnswerCall(i, "error") /\ selfCleaning' = TRUE /\ Become(r)
  BY DEF Poll, RefusedCall
<1>2. /\ c \in Parts /\ c.session = session /\ c.ending = ending /\ c.chain = chain
      /\ c.entry = entry /\ ~c.threw /\ odd \subseteq c.odd
      /\ session[i] = "none" \/ ending[i] # NoEnding[i] \/ <<i, "misaddressed">> \in c.odd
  <2>1. CASE session[i] = "none" \/ ending[i] # NoEnding[i]
    BY <2>1, ConferenceIs DEF IInv
  <2>2. CASE ~(session[i] = "none" \/ ending[i] # NoEnding[i])
    <3>1. "misaddressed" \in Oddities
      BY DEF Oddities
    <3>2. c = Note(Conference, i, "misaddressed")
      BY <2>2
    <3> QED
      BY <3>1, <3>2, Noted, ConferenceIs DEF IInv
  <2> QED
    BY <2>1, <2>2
<1> HIDE DEF c
<1>3. r \in Parts
  BY <1>2, AbortedTyped
<1>4. Conference' \in Parts
  BY <1>1, <1>3, Became DEF IInv, Conference
<1>5. OtherTypes'
  BY <1>0, <1>1 DEF IInv, OtherTypes, chosen, AnswerCall
<1>6. ASSUME losses' = 0 PROVE Calm'
  <2>1. Calm
    BY <1>0, <1>6 DEF IInv
  <2>2. NoFault'
    BY <1>0, <2>1 DEF Calm, NoFault
  <2>3. \A j \in SessionIds \ {i} : WorldSame(World, World', j)
    BY <1>0, <1>1, Answered DEF IInv
  <2>4. Rest(Conference, i, World')
    BY <1>0, <1>1, <2>1, AnsweredRest DEF Calm, AllGood, Good, IInv
  <2>5. \A j \in SessionIds : Same(Conference, c, j)
    BY <1>2, ConferenceIs DEF Same, SessionSame
  <2>6. \A j \in SessionIds \ {i} : Same(Conference, Conference, j)
    BY DEF Same, SessionSame
  <2>7. CASE entry[i] = "ready" /\ UNCHANGED <<entry, session, chain, ending, odd>>
    <3>1. \A j \in SessionIds \ {i} : Good(Conference, j, World')
      BY <2>1, <2>3, <2>6, Others DEF Calm
    <3>2. SessionNamed(Conference, i, World')
      BY <2>7, ConferenceIs DEF SessionNamed
    <3>3. EntryBacked(Conference, i) /\ SourceReady(Conference)
      BY <2>1 DEF Calm, AllGood, Good
    <3>4. AllGood(Conference, World')
      BY <2>4, <3>1, <3>2, <3>3 DEF AllGood, Good
    <3>5. Conference' = Conference
      BY <2>7 DEF Conference
    <3> QED
      BY <2>2, <3>4, <3>5 DEF Calm
  <2>8. CASE Become(r)
    <3>1. \A j \in SessionIds \ {i} : Good(c, j, World')
      BY <2>1, <2>3, <2>5, Others DEF Calm
    <3>2. Rest(c, i, World')
      BY <2>4, <2>5, SameRest DEF Same
    <3>3. SourceReady(c)
      BY <1>2, <2>1, ConferenceIs DEF Calm, AllGood, SourceReady, Ghost
    <3>4. session[i] = "none" \/ Misaddressed(c, i) \/ Ending(c, i)
      <4>1. CASE ending[i] # NoEnding[i]
        <5>1. ending[i] \in Endings
          BY ConferenceIs DEF IInv, Parts
        <5>2. ending[i].terminate > 0 \/ ending[i].stop > 0 \/ ending[i].recycle > 0
          BY <4>1, <5>1 DEF Endings, NoEnding
        <5>3. ending[i].stop > 0 => session[i] = "none"
          BY <2>4, ConferenceIs DEF Rest, InOrder
        <5> QED
          BY <1>2, <5>2, <5>3 DEF Ending
      <4> QED
        BY <1>2, <4>1 DEF Misaddressed
    <3>5. AllGood(r, World')
      BY <1>2, <3>1, <3>2, <3>3, <3>4, AbortedKeeps
    <3> HIDE DEF r
    <3> QED
      BY <1>3, <2>2, <2>8, <3>5, Became DEF Calm
  <2> QED
    BY <1>1, <2>7, <2>8
<1> QED
  BY <1>4, <1>5, <1>6 DEF IInv

LEMMA DeletesKeep ==
  ASSUME IInv, NEW i \in SessionIds, DeleteStream(i) \/ DeleteSubscription(i)
  PROVE  IInv'
<1> DEFINE c == Terminate(Conference, i)
<1>1. /\ Become(c) /\ selfCleaning' = TRUE /\ End
      /\ UNCHANGED <<roomState, adding, call, locality, chosen, nodes, progress, notices, losses>>
  BY DEF DeleteStream, DeleteSubscription, DeleteSession
<1>2. c \in Parts
  BY ConferenceIs, TerminateTyped DEF IInv
<1>3. Calm => AllGood(c, World)
  BY ConferenceIs, TerminateKeeps DEF IInv, Calm
<1> HIDE DEF c
<1>4. Conference' \in Parts /\ (Calm => AllGood(Conference', World))
  BY <1>1, <1>2, <1>3, Became
<1>5. OtherTypes'
  BY <1>1 DEF IInv, OtherTypes, chosen, End
<1>6. Calm => Calm'
  BY <1>1, <1>4, SameWorld DEF Calm
<1> QED
  BY <1>1, <1>4, <1>5, <1>6 DEF IInv
-----------------------------------------------------------------------------
(* A node is found, and initiate is answered                                *)

Recycling(c, i) == [c EXCEPT !.ending[i].recycle = @ + 1]
Stopping(c, i) == [c EXCEPT !.ending[i].stop = @ + 1, !.ending[i].recycle = @ + 1]
Placed(c, k, n) == [c EXCEPT !.chain[k] = [step |-> "initiating", node |-> n]]
Stated(c, i, state) == [c EXCEPT !.session[i] = state]

\* One more call to recycle the node, ...
LEMMA RecyclingIs ==
  ASSUME NEW c \in Parts, NEW i \in SessionIds, NEW r, r = Recycling(c, i)
  PROVE  /\ r \in Parts /\ r.entry = c.entry /\ r.session = c.session /\ r.chain = c.chain
         /\ r.odd = c.odd /\ r.threw = c.threw /\ r.ending[i].recycle > 0
         /\ \A j \in SessionIds \ {i} : r.ending[j] = c.ending[j]
<1> DEFINE one == [c.ending[i] EXCEPT !.recycle = @ + 1]
           all == [c.ending EXCEPT ![i] = one]
<1>0. c.ending \in [SessionIds -> Endings] /\ c.ending[i] \in Endings
  BY DEF Parts
<1>1. r = [c EXCEPT !.ending = all]
  BY DEF Recycling
<1>2. one \in Endings /\ one.recycle > 0
  BY <1>0 DEF Endings
<1> HIDE DEF one
<1>3. all \in [SessionIds -> Endings] /\ all[i] = one /\ \A j \in SessionIds \ {i} : all[j] = c.ending[j]
  BY <1>0, <1>2
<1> HIDE DEF all
<1> QED
  BY <1>1, <1>2, <1>3 DEF Parts

\* ... with one that stops the session there.
LEMMA StoppingIs ==
  ASSUME NEW c \in Parts, NEW i \in SessionIds, NEW r, r = Stopping(c, i)
  PROVE  /\ r \in Parts /\ r.entry = c.entry /\ r.session = c.session /\ r.chain = c.chain
         /\ r.odd = c.odd /\ r.threw = c.threw /\ r.ending[i].recycle > 0
         /\ \A j \in SessionIds \ {i} : r.ending[j] = c.ending[j]
<1> DEFINE one == [c.ending[i] EXCEPT !.stop = @ + 1, !.recycle = @ + 1]
           all == [c.ending EXCEPT ![i] = one]
<1>0. c.ending \in [SessionIds -> Endings] /\ c.ending[i] \in Endings
  BY DEF Parts
<1>1. r = [c EXCEPT !.ending = all]
  BY <1>0 DEF Stopping, Parts, Endings
<1>2. one \in Endings /\ one.recycle > 0
  <2> DEFINE e == c.ending[i]
             u == [e EXCEPT !.stop = @ + 1]
  <2>1. u \in Endings /\ u.recycle = e.recycle
    BY <1>0 DEF Endings
  <2>2. one = [u EXCEPT !.recycle = e.recycle + 1]
    OBVIOUS
  <2> HIDE DEF u, one
  <2> QED
    BY <1>0, <2>1, <2>2 DEF Endings
<1> HIDE DEF one
<1>3. all \in [SessionIds -> Endings] /\ all[i] = one /\ \A j \in SessionIds \ {i} : all[j] = c.ending[j]
  BY <1>0, <1>2
<1> HIDE DEF all
<1> QED
  BY <1>1, <1>2, <1>3 DEF Parts

LEMMA PlacedIs ==
  ASSUME NEW c \in Parts, NEW k \in Chains, NEW n \in AccessNodes, NEW r, r = Placed(c, k, n)
  PROVE  /\ r \in Parts /\ r.entry = c.entry /\ r.session = c.session /\ r.ending = c.ending
         /\ r.odd = c.odd /\ r.threw = c.threw /\ r.chain[k].step = "initiating"
         /\ \A l \in Chains \ {k} : r.chain[l] = c.chain[l]
<1> DEFINE h == [c.chain EXCEPT ![k] = [step |-> "initiating", node |-> n]]
<1>1. r = [c EXCEPT !.chain = h]
  BY DEF Placed
<1>2. h \in [Chains -> Steps] /\ h[k].step = "initiating" /\ \A l \in Chains \ {k} : h[l] = c.chain[l]
  BY DEF Parts, Steps
<1> HIDE DEF h
<1> QED
  BY <1>1, <1>2 DEF Parts

LEMMA StatedIs ==
  ASSUME NEW c \in Parts, NEW i \in SessionIds, NEW state \in States, NEW r, r = Stated(c, i, state)
  PROVE  /\ r \in Parts /\ r.entry = c.entry /\ r.ending = c.ending /\ r.chain = c.chain
         /\ r.odd = c.odd /\ r.threw = c.threw /\ r.session[i] = state
         /\ \A j \in SessionIds \ {i} : r.session[j] = c.session[j]
BY DEF Parts, States, Stated

\* Where something is lost there is nothing to show of the agreement.
LEMMA Lost ==
  ASSUME OtherTypes, Lose
  PROVE  losses' # 0 /\ losses' \in 0..MaxTroubles
BY SourceAssumption DEF OtherTypes, Lose

LEMMA InitiateFailsKeeps ==
  ASSUME IInv, NEW k \in Chains, InitiateFails(k)
  PROVE  IInv'
<1> DEFINE i == k[1]
           c == [Conference EXCEPT !.session[i] = "none"]
<1>1. /\ Ended(c, k, FALSE)
      /\ UNCHANGED <<roomState, adding, locality, chosen, progress, notices, ends>>
      /\ (chain[k].step = "initiating" /\ chain[k].node \in nodes.down /\ UNCHANGED losses) \/ Lose
  BY DEF InitiateFails
<1>2. i \in SessionIds
  BY ChainIs
<1>3. c \in Parts
  BY <1>2 DEF IInv, Parts, States
<1> HIDE DEF c
<1>4. /\ Conference' \in Parts /\ selfCleaning' \in BOOLEAN
      /\ call' \in [SessionIds -> {"new", "initiating", "waiting", "ok", "error"}]
  BY <1>1, <1>3, EndedTyped DEF IInv
<1>5. losses' \in 0..MaxTroubles
  BY <1>1, Lost DEF IInv, OtherTypes
<1>6. nodes' \in NodesType
  <2>1. nodes' = nodes \/ nodes' = [nodes EXCEPT !.carried = @ \ {<<chain[k].node, i>>}]
    BY DEF InitiateFails
  <2> QED
    BY <2>1 DEF IInv, OtherTypes, NodesType
<1>7. OtherTypes'
  BY <1>1, <1>4, <1>5, <1>6 DEF IInv, OtherTypes, chosen
<1>8. losses' # 0
  <2>1. CASE Lose
    BY <2>1, Lost DEF IInv
  <2>2. CASE chain[k].node \in nodes.down /\ UNCHANGED losses
    BY <2>2 DEF IInv, Calm, NoFault
  <2> QED
    BY <1>1, <2>1, <2>2
<1> QED
  BY <1>4, <1>7, <1>8 DEF IInv

\* Only the first chain of a session is under way when nothing has failed.
LEMMA FirstOnly ==
  ASSUME Calm, NEW k \in Chains, chain[k].step # "none"
  PROVE  k = First(k[1]) /\ k[1] \in SessionIds
<1>1. Good(Conference, k[1], World) /\ k[1] \in SessionIds /\ (k = First(k[1]) \/ k = Again(k[1]))
  BY ChainIs DEF Calm, AllGood
<1>2. chain[Again(k[1])].step = "none"
  BY <1>1, ConferenceIs DEF Good, Rest, InOrder
<1> QED
  BY <1>1, <1>2
\* A node has been found: the lease is that of the session, or is to be given back.
LEMMA ScheduledKeeps ==
  ASSUME IInv, NEW k \in Chains, Scheduled(k)
  PROVE  IInv'
<1> DEFINE i == k[1]
           n == IF placement[i] \in nodes.down THEN Spare ELSE placement[i]
           c == Recycling(Conference, i)
           p == Placed(Conference, k, n)
<1>0. /\ chain[k].step = "scheduling" /\ UNCHANGED <<roomState, adding, chosen, ends>>
      /\ i \in SessionIds /\ n \in AccessNodes
  BY ChainIs, SourceAssumption DEF Scheduled, IInv, OtherTypes
<1>1. PICK refuses \in BOOLEAN :
        /\ (refuses /\ Lose) \/ (~refuses /\ UNCHANGED losses)
        /\ nodes' = [nodes EXCEPT !.clients = @ \cup {n}, !.leases = @ \cup {<<n, i>>},
                       !.carried = IF session[i] = "none" \/ refuses THEN @ ELSE @ \cup {<<n, i>>}]
        /\ notices' = IF refuses THEN notices \cup {<<i, "failed">>} ELSE notices
  BY DEF Scheduled
<1>2. \/ session[i] = "none" /\ Ended(c, k, FALSE) /\ UNCHANGED <<locality, progress>>
      \/ /\ session[i] # "none" /\ Become(p) /\ UNCHANGED <<call, selfCleaning>>
         /\ locality' = [locality EXCEPT ![i] = n] /\ progress' = [progress EXCEPT ![i] = "quiet"]
  BY DEF Scheduled, Recycling, Placed
<1> HIDE DEF i, n
<1>3. /\ c \in Parts /\ c.entry = entry /\ c.session = session /\ c.chain = chain
      /\ c.odd = odd /\ ~c.threw /\ c.ending[i].recycle > 0
      /\ \A j \in SessionIds \ {i} : c.ending[j] = ending[j]
  BY <1>0, RecyclingIs, ConferenceIs DEF IInv
<1>4. /\ p \in Parts /\ p.entry = entry /\ p.session = session /\ p.ending = ending
      /\ p.odd = odd /\ p.chain[k].step = "initiating"
      /\ \A l \in Chains \ {k} : p.chain[l] = chain[l]
  BY <1>0, PlacedIs, ConferenceIs DEF IInv
<1> HIDE DEF c, p
<1>5. /\ Conference' \in Parts /\ selfCleaning' \in BOOLEAN
      /\ call' \in [SessionIds -> {"new", "initiating", "waiting", "ok", "error"}]
  <2>1. CASE Ended(c, k, FALSE)
    BY <1>3, <2>1, EndedTyped DEF IInv
  <2>2. CASE Become(p) /\ UNCHANGED <<call, selfCleaning>>
    BY <1>4, <2>2, Became DEF IInv, OtherTypes
  <2> QED
    BY <1>2, <2>1, <2>2
<1>6. /\ nodes' \in NodesType /\ nodes'.leases = nodes.leases \cup {<<n, i>>} /\ nodes'.down = nodes.down
      /\ nodes'.carried = IF session[i] = "none" \/ refuses THEN nodes.carried ELSE nodes.carried \cup {<<n, i>>}
  <2>1. nodes \in NodesType
    BY DEF IInv, OtherTypes
  <2> DEFINE held == IF session[i] = "none" \/ refuses THEN nodes.carried ELSE nodes.carried \cup {<<n, i>>}
             leased == nodes.leases \cup {<<n, i>>}
             known == nodes.clients \cup {n}
  <2>2. /\ held \in SUBSET (AccessNodes \X SessionIds) /\ leased \in SUBSET (AccessNodes \X SessionIds)
        /\ known \in SUBSET AccessNodes
    BY <1>0, <2>1 DEF NodesType
  <2>3. nodes' = [nodes EXCEPT !.clients = known, !.leases = leased, !.carried = held]
    BY <1>1
  <2> HIDE DEF held, leased, known
  <2>4. nodes' \in NodesType /\ nodes'.leases = leased /\ nodes'.down = nodes.down /\ nodes'.carried = held
    BY <2>1, <2>2, <2>3 DEF NodesType
  <2> QED
    BY <2>4 DEF held, leased
<1>7. losses' \in 0..MaxTroubles
  BY <1>1, Lost DEF IInv, OtherTypes
<1>8. OtherTypes'
  <2>1. /\ locality' \in [SessionIds -> AccessNodes \cup {NoWhere}]
        /\ progress' \in [SessionIds -> {"quiet", "ready", "failed"}]
    BY <1>0, <1>2 DEF IInv, OtherTypes
  <2> QED
    BY <1>0, <1>5, <1>6, <1>7, <2>1 DEF IInv, OtherTypes, chosen
<1>9. ASSUME losses' = 0 PROVE Calm'
  <2>1. ~refuses /\ losses = 0 /\ Calm
    BY <1>1, <1>9, Lost DEF IInv
  <2>2. k = First(i)
    BY <1>0, <2>1, FirstOnly DEF i
  <2>3. Good(Conference, i, World) /\ SourceReady(Conference)
    BY <1>0, <2>1 DEF Calm, AllGood
  <2>4. /\ session[i] \in {"none", "initialized"} /\ ~Ending(Conference, i) /\ Unplaced(World, i)
        /\ call[i] # "new" /\ chain[Again(i)].step = "none"
        /\ ending[i].stop > 0 => session[i] = "none"
    BY <1>0, <2>2, <2>3, ConferenceIs, WorldIs DEF Good, Rest, InOrder, Step
  <2>5. \A m \in AccessNodes : <<m, i>> \notin nodes.leases
    BY <2>4, WorldIs DEF Unplaced, Leased
  <2>6. \A m, l \in AccessNodes : <<m, i>> \in nodes'.leases /\ <<l, i>> \in nodes'.leases => m = l
    BY <1>6, <2>5
  <2>7. NoFault'
    BY <1>1, <1>6, <2>1 DEF Calm, NoFault
  <2>8. ASSUME \A j \in SessionIds \ {i} : call'[j] = call[j] /\ locality'[j] = locality[j]
        PROVE  \A j \in SessionIds \ {i} : WorldSame(World, World', j)
    <3> SUFFICES ASSUME NEW j \in SessionIds \ {i} PROVE WorldSame(World, World', j)
      OBVIOUS
    <3>1. \A m \in AccessNodes : /\ <<m, j>> \in nodes'.leases <=> <<m, j>> \in nodes.leases
                                 /\ <<m, j>> \in nodes'.carried <=> <<m, j>> \in nodes.carried
      BY <1>6
    <3>2. adding' = adding /\ notices' = notices
      BY <1>0, <1>1, <2>1
    <3> QED
      BY <2>8, <3>1, <3>2 DEF WorldSame, World
  <2>9. CASE session[i] = "none" /\ Ended(c, k, FALSE) /\ UNCHANGED locality
    <3>1. call'[i] \in {"waiting", "error"} /\ \A j \in SessionIds \ {i} : call'[j] = call[j]
      BY <1>0, <2>2, <2>9, EndedCall DEF IInv
    <3>2. \A j \in SessionIds \ {i} : Same(Conference, c, j)
      BY <1>3, ConferenceIs DEF Same, SessionSame
    <3>3. \A j \in SessionIds \ {i} : Good(c, j, World')
      BY <1>0, <2>1, <2>8, <2>9, <3>1, <3>2, Others DEF Calm
    <3> DEFINE on == Idled(c, First(i))
    <3>4. /\ on.session = session /\ on.ending = c.ending /\ on.chain[First(i)].step = "none"
          /\ on.chain[Again(i)].step = "none"
      <4>1. First(i) \in Chains /\ Again(i) \in Chains \ {First(i)}
        BY <1>0, ChainsOf
      <4> QED
        BY <1>3, <2>4, <4>1, IdledIs
    <3> HIDE DEF on
    <3>5. SessionCarried(on, i, World') /\ LeaseUsed(on, i, World') /\ InOrder(on, i, World')
      BY <1>3, <2>6, <2>9, <3>1, <3>4 DEF SessionCarried, LeaseUsed, InOrder, Step, World
    <3>6. Rest(Idled(c, First(i)), i, World')
      BY <3>5 DEF Rest, on
    <3>7. EntryBacked(c, i) /\ SourceReady(c)
      BY <1>3, <2>3, <2>9, ConferenceIs DEF Good, EntryBacked, SourceReady, Ghost
    <3>8. World'.call = call'
      BY DEF World
    <3>9. AllGood(Conference', World')
      BY <1>0, <1>3, <1>8, <2>2, <2>9, <3>3, <3>6, <3>7, <3>8, EndedKeeps DEF IInv
    <3> QED
      BY <2>7, <3>9 DEF Calm
  <2>10. CASE session[i] # "none" /\ Become(p) /\ UNCHANGED call /\ locality' = [locality EXCEPT ![i] = n]
    <3>1. locality'[i] = n /\ \A j \in SessionIds \ {i} : call'[j] = call[j] /\ locality'[j] = locality[j]
      BY <1>0, <2>10 DEF IInv, OtherTypes
    <3>2. \A j \in SessionIds \ {i} : Same(Conference, p, j)
      BY <1>0, <1>4, <2>2, ChainsOf, ConferenceIs DEF Same, SessionSame
    <3>3. \A j \in SessionIds \ {i} : Good(p, j, World')
      BY <1>0, <2>1, <2>8, <3>1, <3>2, Others DEF Calm
    <3>4. EntryBacked(p, i) /\ SourceReady(p)
      BY <1>4, <2>3, ConferenceIs DEF Good, EntryBacked, SourceReady, Ghost, Ending
    <3>5. SessionNamed(p, i, World')
      BY <1>4, <2>3, <2>10, ConferenceIs DEF Good, SessionNamed, Misaddressed, Ending, World
    <3>6. SessionCarried(p, i, World')
      BY <1>0, <1>6, <2>1, <2>10, <3>1 DEF SessionCarried, World
    <3>7. LeaseUsed(p, i, World')
      BY <1>4, <2>6, <2>10 DEF LeaseUsed, World
    <3>8. p.chain[Again(i)] = chain[Again(i)]
      BY <1>0, <1>4, <2>2, ChainsOf
    <3>9. InOrder(p, i, World')
      BY <1>4, <2>2, <2>4, <2>10, <3>8 DEF InOrder, World, Step
    <3>10. AllGood(p, World')
      BY <3>3, <3>4, <3>5, <3>6, <3>7, <3>9 DEF AllGood, Good, Rest
    <3> QED
      BY <1>4, <2>7, <2>10, <3>10, Became DEF Calm
  <2> QED
    BY <1>2, <2>9, <2>10
<1> QED
  BY <1>5, <1>8, <1>9 DEF IInv

\* The node has answered: it carries the session, or has to stop it.
LEMMA InitiatedKeeps ==
  ASSUME IInv, NEW k \in Chains, Initiated(k)
  PROVE  IInv'
<1> DEFINE i == k[1]
           n == chain[k].node
           ok == session[i] # "none"
           c == InitiatedAt(Conference, i, n)
<1>0. /\ chain[k].step = "initiating" /\ i \in SessionIds /\ Ended(c, k, ok)
      /\ UNCHANGED <<roomState, adding, locality, chosen, nodes, progress, notices, losses, ends>>
  BY ChainIs DEF Initiated
<1>1. \/ ok /\ c = Stated(Conference, i, "connecting")
      \/ ~ok /\ c = Note(Conference, i, "unreleased")
      \/ ~ok /\ c = Stopping(Conference, i)
  BY DEF InitiatedAt, Stated, Stopping, Conference
<1> HIDE DEF i, n, c
<1>2. "connecting" \in States /\ "unreleased" \in Oddities
  BY DEF States, Oddities
<1>3. /\ c \in Parts /\ c.entry = entry /\ c.chain = chain /\ odd \subseteq c.odd /\ ~c.threw
      /\ \A j \in SessionIds \ {i} : c.session[j] = session[j] /\ c.ending[j] = ending[j]
      /\ ok => c.session[i] = "connecting" /\ c.ending = ending
      /\ ~ok => c.session[i] = "none" /\ (c.ending[i].recycle > 0 \/ <<i, "unreleased">> \in c.odd)
  <2>1. CASE ok /\ c = Stated(Conference, i, "connecting")
    BY <1>0, <1>2, <2>1, StatedIs, ConferenceIs DEF IInv
  <2>2. CASE ~ok /\ c = Note(Conference, i, "unreleased")
    BY <1>0, <1>2, <2>2, Noted, ConferenceIs DEF IInv
  <2>3. CASE ~ok /\ c = Stopping(Conference, i)
    BY <1>0, <1>2, <2>3, StoppingIs, ConferenceIs DEF IInv
  <2> QED
    BY <1>1, <2>1, <2>2, <2>3
<1>4. /\ Conference' \in Parts /\ selfCleaning' \in BOOLEAN
      /\ call' \in [SessionIds -> {"new", "initiating", "waiting", "ok", "error"}]
  BY <1>0, <1>3, EndedTyped DEF IInv
<1>5. OtherTypes'
  BY <1>0, <1>4 DEF IInv, OtherTypes, chosen
<1>6. ASSUME losses' = 0 PROVE Calm'
  <2>1. Calm
    BY <1>0, <1>6 DEF IInv
  <2>2. k = First(i)
    BY <1>0, <2>1, FirstOnly DEF i
  <2>3. Good(Conference, i, World) /\ SourceReady(Conference)
    BY <1>0, <2>1 DEF Calm, AllGood
  <2>4. call'[i] \in {"waiting", "error"} /\ \A j \in SessionIds \ {i} : call'[j] = call[j]
    BY <1>0, <2>2, EndedCall DEF IInv
  <2>5. \A j \in SessionIds \ {i} : Same(Conference, c, j) /\ WorldSame(World, World', j)
    BY <1>0, <1>3, <2>4, ConferenceIs DEF Same, SessionSame, WorldSame, World
  <2>6. \A j \in SessionIds \ {i} : Good(c, j, World')
    BY <1>0, <2>1, <2>5, Others DEF Calm
  <2> DEFINE on == Idled(c, First(i))
  <2>7. /\ on.session = c.session /\ on.ending = c.ending /\ on.odd = c.odd
        /\ on.chain[First(i)].step = "none" /\ on.chain[Again(i)] = chain[Again(i)]
    <3>1. First(i) \in Chains /\ Again(i) \in Chains \ {First(i)}
      BY <1>0, ChainsOf
    <3> QED
      BY <1>3, <3>1, IdledIs
  <2> HIDE DEF on
  <2>8. SessionCarried(on, i, World')
    BY <1>0, <1>3, <2>2, <2>3, <2>7, ConferenceIs DEF Good, Rest, SessionCarried, World, Step
  <2>9. LeaseUsed(on, i, World')
    <3>1. on.session[i] # "none" \/ on.ending[i].recycle > 0 \/ <<i, "unreleased">> \in on.odd
      BY <1>3, <2>7
    <3>2. \A m, l \in AccessNodes : <<m, i>> \in nodes.leases /\ <<l, i>> \in nodes.leases => m = l
      BY <2>3, WorldIs DEF Good, Rest, LeaseUsed
    <3> QED
      BY <1>0, <3>1, <3>2 DEF LeaseUsed, World
  <2>10. InOrder(on, i, World')
    <3>1. chain[Again(i)].step = "none" /\ (ending[i].stop > 0 => session[i] = "none")
      BY <2>3, ConferenceIs DEF Good, Rest, InOrder
    <3> QED
      BY <1>3, <2>4, <2>7, <3>1 DEF InOrder, World, Step
  <2>11. Rest(Idled(c, First(i)), i, World')
    BY <2>8, <2>9, <2>10 DEF Rest, on
  <2>12. EntryBacked(c, i)
    BY <1>3, <2>3, ConferenceIs DEF Good, EntryBacked, Ghost, Ending
  <2>13. SourceReady(c)
    BY <1>3, <2>3, ConferenceIs DEF SourceReady, Ghost
  <2>14. ok => c.entry[i] \in {"connecting", "ready"} \/ Misaddressed(c, i) \/ Ending(c, i)
    BY <1>3, <2>3, ConferenceIs DEF Good, SessionNamed, Misaddressed, Ending
  <2>15. World'.call = call' /\ ok \in BOOLEAN /\ (~ok => c.session[i] = "none") /\ Ended(c, First(i), ok)
    BY <1>0, <1>3, <2>2 DEF World
  <2> HIDE DEF ok
  <2>16. AllGood(Conference', World')
    BY <1>0, <1>3, <2>6, <2>11, <2>12, <2>13, <2>14, <2>15, EndedKeeps DEF IInv
  <2>17. NoFault'
    BY <1>0, <2>1 DEF Calm, NoFault
  <2> QED
    BY <2>16, <2>17 DEF Calm
<1> QED
  BY <1>4, <1>5, <1>6 DEF IInv
-----------------------------------------------------------------------------
(* Answers of the nodes                                                     *)

\* The parts of the conference that an answer of a node changes.
LEMMA AnsweredParts ==
  ASSUME IInv, NEW i \in SessionIds, NEW e \in Endings, ending' = [ending EXCEPT ![i] = e],
         session' = session \/ session' = [session EXCEPT ![i] = "none"], UNCHANGED <<entry, chain, odd>>
  PROVE  /\ Conference' \in Parts /\ ending'[i] = e
         /\ \A j \in SessionIds \ {i} : Same(Conference, Conference', j)
<1>1. /\ ending \in [SessionIds -> Endings] /\ session \in [SessionIds -> States]
      /\ entry \in [SessionIds -> Entries] /\ chain \in [Chains -> Steps] /\ odd \in SUBSET (SessionIds \X Oddities)
  BY DEF IInv, Parts, Conference
<1>2. /\ ending' \in [SessionIds -> Endings] /\ ending'[i] = e
      /\ \A j \in SessionIds \ {i} : ending'[j] = ending[j]
  BY <1>1
<1>3. session' \in [SessionIds -> States] /\ \A j \in SessionIds \ {i} : session'[j] = session[j]
  BY <1>1 DEF States
<1>4. Conference' \in Parts
  BY <1>1, <1>2, <1>3 DEF Parts, Conference
<1>5. \A j \in SessionIds \ {i} : Same(Conference, Conference', j)
  BY <1>2, <1>3 DEF Same, SessionSame, Conference
<1> QED
  BY <1>2, <1>4, <1>5

\* What all these have in common.
LEMMA AnsweredKeeps ==
  ASSUME IInv, NEW i \in SessionIds, Conference' \in Parts, OtherTypes', UNCHANGED <<entry, odd>>,
         \A j \in SessionIds \ {i} : Same(Conference, Conference', j),
         \A j \in SessionIds \ {i} : WorldSame(World, World', j), UNCHANGED <<losses, notices>>, nodes'.down = nodes.down,
         Calm => Good(Conference', i, World')
  PROVE  IInv'
<1>1. ASSUME Calm PROVE Calm'
  <2> DEFINE d == Conference'
  <2>1. \A j \in SessionIds \ {i} : Good(d, j, World')
    BY <1>1, Others DEF Calm
  <2>2. Good(d, i, World')
    BY <1>1
  <2>3. SourceReady(d)
    BY <1>1 DEF Calm, AllGood, SourceReady, Ghost, Conference
  <2> HIDE DEF d
  <2>4. AllGood(d, World')
    BY <2>1, <2>2, <2>3 DEF AllGood
  <2>5. NoFault'
    BY <1>1 DEF Calm, NoFault
  <2> QED
    BY <2>4, <2>5 DEF Calm, d
<1> QED
  BY <1>1 DEF IInv

\* A node that carried the session is recycled next; one that did not was being recycled.
LEMMA TerminateAnsweredKeeps ==
  ASSUME IInv, NEW i \in SessionIds, TerminateAnswered(i)
  PROVE  IInv'
<1> DEFINE n == locality[i]
           due == IF <<n, i>> \in nodes.carried THEN ending[i].recycle + 1 ELSE ending[i].recycle
           e == [terminate |-> ending[i].terminate - 1, stop |-> ending[i].stop, recycle |-> due]
<1>0. /\ ending[i].terminate > 0 /\ nodes' = [nodes EXCEPT !.carried = @ \ {<<n, i>>}]
      /\ UNCHANGED <<roomState, selfCleaning, entry, adding, call, session, locality, chain, chosen,
                     progress, notices, odd, losses, ends>>
  BY DEF TerminateAnswered
<1>1. ending \in [SessionIds -> Endings] /\ ending[i] \in Endings
  BY DEF IInv, Parts, Conference
<1>2. e \in Endings /\ e.stop = ending[i].stop /\ e.recycle = due
  BY <1>0, <1>1 DEF Endings
<1>3. ending' = [ending EXCEPT ![i] = e]
  <2>1. CASE <<n, i>> \in nodes.carried
    <3>1. e = [ending[i] EXCEPT !.terminate = @ - 1, !.recycle = @ + 1]
      <4> DEFINE u == [ending[i] EXCEPT !.terminate = @ - 1]
      <4>1. u = [terminate |-> ending[i].terminate - 1, stop |-> ending[i].stop, recycle |-> ending[i].recycle]
        BY <1>1 DEF Endings
      <4>2. due = ending[i].recycle + 1
        BY <2>1
      <4> HIDE DEF u, due
      <4>3. e = [u EXCEPT !.recycle = ending[i].recycle + 1]
        BY <4>1, <4>2
      <4> QED
        BY <4>3 DEF u
    <3>2. ending' = [ending EXCEPT ![i].terminate = @ - 1, ![i].recycle = @ + 1]
      BY <2>1 DEF TerminateAnswered
    <3>3. ending' = [ending EXCEPT ![i] = [ending[i] EXCEPT !.terminate = @ - 1, !.recycle = @ + 1]]
      BY <1>1, <3>2
    <3> QED
      BY <3>1, <3>3
  <2>2. CASE <<n, i>> \notin nodes.carried
    <3>1. e = [ending[i] EXCEPT !.terminate = @ - 1]
      BY <1>1, <2>2 DEF Endings
    <3> QED
      BY <2>2, <3>1 DEF TerminateAnswered
  <2> QED
    BY <2>1, <2>2
<1> HIDE DEF e
<1>4. /\ Conference' \in Parts /\ ending'[i] = e
      /\ \A j \in SessionIds \ {i} : Same(Conference, Conference', j)
  BY <1>0, <1>2, <1>3, AnsweredParts
<1>5. /\ nodes' \in NodesType /\ nodes'.down = nodes.down /\ nodes'.leases = nodes.leases
      /\ nodes'.carried = nodes.carried \ {<<n, i>>}
  BY <1>0 DEF IInv, OtherTypes, NodesType
<1>6. OtherTypes'
  BY <1>0, <1>5 DEF IInv, OtherTypes, chosen
<1>7. \A j \in SessionIds \ {i} : WorldSame(World, World', j)
  BY <1>0, <1>5 DEF WorldSame, World
<1>8. ASSUME Calm PROVE Good(Conference', i, World')
  <2> DEFINE d == Conference'
  <2>0. /\ d.entry = entry /\ d.session = session /\ d.chain = chain /\ d.odd = odd /\ d.ending[i] = e
    BY <1>0, <1>4 DEF Conference
  <2>1. EntryBacked(Conference, i) /\ Rest(Conference, i, World) /\ Ending(Conference, i)
    BY <1>0, <1>8, ConferenceIs DEF Calm, AllGood, Good, Ending
  <2>2. Step(Conference, i) # "scheduling" /\ call[i] # "new"
    BY <2>1, WorldIs DEF Rest, InOrder
  <2>3. session[i] # "none" => /\ locality[i] \in AccessNodes /\ <<locality[i], i>> \in nodes.leases
                               /\ <<n, i>> \in nodes.carried \/ ending[i].recycle > 0
    BY <2>1, <2>2, ConferenceIs, WorldIs DEF Rest, SessionCarried
  <2>4. due \in Nat /\ due >= ending[i].recycle /\ (<<n, i>> \in nodes.carried => due > 0)
    BY <1>1 DEF Endings
  <2>5. ending[i].recycle > 0 => due > 0
    BY <1>1, <2>4 DEF Endings
  <2> HIDE DEF d, due
  <2>6. EntryBacked(d, i)
    BY <2>0, <2>1, ConferenceIs DEF EntryBacked, Ghost
  <2>7. SessionNamed(d, i, World')
    BY <1>2, <2>0, <2>3, <2>4, <2>5 DEF SessionNamed, Ending
  <2>8. SessionCarried(d, i, World')
    BY <1>0, <1>2, <1>5, <2>0, <2>3, <2>4, <2>5 DEF SessionCarried, World
  <2>9. LeaseUsed(d, i, World')
    BY <1>2, <1>5, <2>0, <2>1, <2>5, ConferenceIs DEF LeaseUsed, Rest, World, Leased, Step
  <2>10. InOrder(d, i, World')
    BY <1>0, <1>2, <2>0, <2>1, <2>2, ConferenceIs DEF InOrder, Rest, World, Step
  <2>11. Good(d, i, World')
    BY <2>6, <2>7, <2>8, <2>9, <2>10 DEF Good, Rest
  <2> QED
    BY <2>11 DEF d
<1> QED
  BY <1>0, <1>4, <1>5, <1>6, <1>7, <1>8, AnsweredKeeps
LEMMA StopAnsweredKeeps ==
  ASSUME IInv, NEW i \in SessionIds, StopAnswered(i)
  PROVE  IInv'
<1> DEFINE e == [ending[i] EXCEPT !.stop = @ - 1]
           n == locality[i]
<1>0. /\ ending[i].stop > 0 /\ nodes' = [nodes EXCEPT !.carried = @ \ {<<n, i>>}]
      /\ ending' = [ending EXCEPT ![i] = e]
      /\ UNCHANGED <<roomState, selfCleaning, entry, adding, call, session, locality, chain, chosen,
                     progress, notices, odd, losses, ends>>
  BY DEF StopAnswered
<1>1. ending[i] \in Endings
  BY DEF IInv, Parts, Conference
<1>2. e \in Endings /\ e.terminate = ending[i].terminate /\ e.recycle = ending[i].recycle
  BY <1>0, <1>1 DEF Endings
<1> HIDE DEF e, n
<1>4. /\ Conference' \in Parts /\ ending'[i] = e
      /\ \A j \in SessionIds \ {i} : Same(Conference, Conference', j)
  BY <1>0, <1>2, AnsweredParts
<1>5. /\ nodes' \in NodesType /\ nodes'.down = nodes.down /\ nodes'.leases = nodes.leases
      /\ nodes'.carried = nodes.carried \ {<<n, i>>}
  BY <1>0 DEF IInv, OtherTypes, NodesType
<1>6. OtherTypes'
  BY <1>0, <1>5 DEF IInv, OtherTypes, chosen
<1>7. \A j \in SessionIds \ {i} : WorldSame(World, World', j)
  BY <1>0, <1>5 DEF WorldSame, World
<1>8. ASSUME Calm PROVE Good(Conference', i, World')
  <2> DEFINE d == Conference'
  <2>0. /\ d.entry = entry /\ d.session = session /\ d.chain = chain /\ d.odd = odd /\ d.ending[i] = e
    BY <1>0, <1>4 DEF Conference
  <2>1. Good(Conference, i, World)
    BY <1>8 DEF Calm, AllGood
  <2>2. session[i] = "none" /\ call[i] # "new"
    BY <1>0, <2>1, ConferenceIs, WorldIs DEF Good, Rest, InOrder
  <2>3. Unplaced(World, i) => Unplaced(World', i)
    BY <1>0, <1>5 DEF Unplaced, World, Leased
  <2> HIDE DEF d
  <2>4. EntryBacked(d, i)
    BY <2>0, <2>1, <2>2, ConferenceIs DEF Good, EntryBacked, Ghost
  <2>5. SessionNamed(d, i, World') /\ SessionCarried(d, i, World')
    BY <2>0, <2>2 DEF SessionNamed, SessionCarried
  <2>6. LeaseUsed(d, i, World')
    BY <1>2, <1>5, <2>0, <2>1, ConferenceIs DEF Good, LeaseUsed, Rest, World, Leased, Step
  <2>7. InOrder(d, i, World')
    BY <1>0, <1>2, <2>0, <2>1, <2>2, <2>3, ConferenceIs DEF Good, InOrder, Rest, World, Step, Ending
  <2>8. Good(d, i, World')
    BY <2>4, <2>5, <2>6, <2>7 DEF Good, Rest
  <2> QED
    BY <2>8 DEF d
<1> QED
  BY <1>0, <1>4, <1>5, <1>6, <1>7, <1>8, AnsweredKeeps

\* With the only lease of the session the session goes.
LEMMA RecycleAnsweredKeeps ==
  ASSUME IInv, NEW i \in SessionIds, RecycleAnswered(i)
  PROVE  IInv'
<1> DEFINE e == [ending[i] EXCEPT !.recycle = @ - 1]
<1>0. /\ ending[i].recycle > 0 /\ session' = [session EXCEPT ![i] = "none"]
      /\ ending' = [ending EXCEPT ![i] = e]
      /\ UNCHANGED <<roomState, selfCleaning, entry, adding, call, locality, chain, chosen,
                     progress, notices, odd, losses, ends>>
  BY DEF RecycleAnswered
<1>n. PICK n \in AccessNodes : /\ OnNodes(nodes.leases, i) => <<n, i>> \in nodes.leases
                               /\ nodes' = [nodes EXCEPT !.leases = @ \ {<<n, i>>}, !.clients = @ \ {n}]
  BY DEF RecycleAnswered
<1>1. ending[i] \in Endings
  BY DEF IInv, Parts, Conference
<1>2. e \in Endings /\ e.terminate = ending[i].terminate /\ e.stop = ending[i].stop
  BY <1>0, <1>1 DEF Endings
<1> HIDE DEF e
<1>4. /\ Conference' \in Parts /\ ending'[i] = e
      /\ \A j \in SessionIds \ {i} : Same(Conference, Conference', j)
  BY <1>0, <1>2, AnsweredParts
<1>5. /\ nodes' \in NodesType /\ nodes'.down = nodes.down /\ nodes'.carried = nodes.carried
      /\ nodes'.leases = nodes.leases \ {<<n, i>>}
  BY <1>n DEF IInv, OtherTypes, NodesType
<1>6. OtherTypes'
  BY <1>0, <1>5 DEF IInv, OtherTypes, chosen
<1>7. \A j \in SessionIds \ {i} : WorldSame(World, World', j)
  BY <1>0, <1>5 DEF WorldSame, World
<1>8. ASSUME Calm PROVE Good(Conference', i, World')
  <2> DEFINE d == Conference'
  <2>0. /\ d.entry = entry /\ d.session[i] = "none" /\ d.chain = chain /\ d.odd = odd /\ d.ending[i] = e
    BY <1>0, <1>4 DEF Conference, IInv, Parts
  <2>1. Good(Conference, i, World)
    BY <1>8 DEF Calm, AllGood
  <2>2. Step(Conference, i) # "scheduling" /\ call[i] # "new" /\ Ending(Conference, i)
    BY <1>0, <2>1, ConferenceIs, WorldIs DEF Good, Rest, InOrder, Ending
  <2>3. ~Leased(World', i)
    <3>1. \A m, l \in AccessNodes : <<m, i>> \in nodes.leases /\ <<l, i>> \in nodes.leases => m = l
      BY <2>1, WorldIs DEF Good, Rest, LeaseUsed
    <3>2. \A m \in AccessNodes : <<m, i>> \notin nodes'.leases
      BY <1>n, <1>5, <3>1 DEF OnNodes
    <3> QED
      BY <3>2 DEF Leased, World
  <2> HIDE DEF d
  <2>4. EntryBacked(d, i)
    BY <2>0, <2>1, <2>2, ConferenceIs DEF Good, EntryBacked, Ghost
  <2>5. SessionNamed(d, i, World') /\ SessionCarried(d, i, World')
    BY <2>0 DEF SessionNamed, SessionCarried
  <2>6. LeaseUsed(d, i, World')
    BY <2>3 DEF LeaseUsed, Leased
  <2>7. InOrder(d, i, World')
    BY <1>0, <2>0, <2>1, <2>2, ConferenceIs DEF Good, InOrder, Rest, World, Step
  <2>8. Good(d, i, World')
    BY <2>4, <2>5, <2>6, <2>7 DEF Good, Rest
  <2> QED
    BY <2>8 DEF d
<1> QED
  BY <1>0, <1>4, <1>5, <1>6, <1>7, <1>8, AnsweredKeeps

LEMMA EndingFailsKeeps ==
  ASSUME IInv, NEW i \in SessionIds, EndingFails(i)
  PROVE  IInv'
<1> DEFINE e == [ending[i] EXCEPT !.terminate = @ - 1]
<1>0. /\ ending[i].terminate > 0 /\ Lose /\ ending' = [ending EXCEPT ![i] = e]
      /\ UNCHANGED <<roomState, selfCleaning, entry, adding, call, session, locality, chain, chosen,
                     nodes, progress, notices, odd, ends>>
  BY DEF EndingFails
<1>1. ending[i] \in Endings
  BY DEF IInv, Parts, Conference
<1>2. e \in Endings
  BY <1>0, <1>1 DEF Endings
<1> HIDE DEF e
<1>3. Conference' \in Parts
  BY <1>0, <1>2, AnsweredParts
<1>4. losses' # 0 /\ losses' \in 0..MaxTroubles
  BY <1>0, Lost DEF IInv
<1>5. OtherTypes'
  BY <1>0, <1>4 DEF IInv, OtherTypes, chosen
<1> QED
  BY <1>3, <1>4, <1>5 DEF IInv

LEMMA ReportsKeep ==
  ASSUME IInv, NEW i \in SessionIds, NEW what \in {"ready", "failed"}, Reports(i, what)
  PROVE  IInv'
<1>0. /\ \E n \in AccessNodes : <<n, i>> \in nodes.carried
      /\ progress' = [progress EXCEPT ![i] = what] /\ notices' = notices \cup {<<i, what>>}
      /\ End \/ UNCHANGED ends
      /\ UNCHANGED <<roomState, selfCleaning, entry, adding, call, session, locality, chain, ending,
                     analytics, placement, nodes, odd, losses>>
  BY DEF Reports, sessionVars, chosen
<1>1. ends' \in Nat
  BY <1>0 DEF End, IInv, OtherTypes
<1>2. OtherTypes'
  BY <1>0, <1>1 DEF IInv, OtherTypes
<1>3. Conference' = Conference
  BY <1>0 DEF Conference
<1>4. ASSUME Calm PROVE Calm'
  <2>1. \A j \in SessionIds \ {i} : WorldSame(World, World', j)
    BY <1>0 DEF WorldSame, World
  <2>2. \A j \in SessionIds \ {i} : Same(Conference, Conference, j)
    BY DEF Same, SessionSame
  <2>3. \A j \in SessionIds \ {i} : Good(Conference, j, World')
    BY <1>4, <2>1, <2>2, Others DEF Calm
  <2>4. Good(Conference, i, World) /\ SourceReady(Conference)
    BY <1>4 DEF Calm, AllGood
  <2>5. Step(Conference, i) # "scheduling" /\ call[i] # "new"
    BY <1>0, <2>4, WorldIs DEF Good, Rest, InOrder, Unplaced
  <2>6. SessionNamed(Conference, i, World') /\ SessionCarried(Conference, i, World')
    BY <1>0, <2>4 DEF SessionNamed, SessionCarried, Good, Rest, World
  <2>7. LeaseUsed(Conference, i, World')
    BY <1>0, <2>4 DEF LeaseUsed, Leased, Good, Rest, World
  <2>8. InOrder(Conference, i, World')
    BY <1>0, <2>4, <2>5 DEF InOrder, Good, Rest, World
  <2>9. AllGood(Conference, World')
    BY <2>3, <2>4, <2>6, <2>7, <2>8 DEF AllGood, Good, Rest
  <2>10. NoFault'
    BY <1>0, <1>4 DEF Calm, NoFault
  <2> QED
    BY <1>3, <2>9, <2>10 DEF Calm
<1> QED
  BY <1>0, <1>2, <1>3, <1>4 DEF IInv
-----------------------------------------------------------------------------
(* Reports, and the answer of the room controller                           *)

\* A report makes a session ready or ends it; one that comes too late changes nothing.
LEMMA SessionStatusKeeps ==
  ASSUME IInv, NEW i \in SessionIds, NEW what \in {"ready", "failed"}, SessionStatus(i, what)
  PROVE  IInv'
<1> DEFINE known == Stated(Conference, i, "connected")
           ended == Terminate(known, i)
           failed == Terminate(Conference, i)
<1>0. /\ <<i, what>> \in notices /\ notices' = notices \ {<<i, what>>}
      /\ UNCHANGED <<roomState, selfCleaning, call, locality, chosen, nodes, progress, losses, ends>>
  BY DEF SessionStatus
<1>1. \/ Become(Conference) /\ UNCHANGED adding
      \/ Become(failed) /\ UNCHANGED adding
      \/ session[i] # "none" /\ Become(ended) /\ UNCHANGED adding
      \/ session[i] # "none" /\ Become(known) /\ adding' = adding \cup {i}
  BY DEF SessionStatus, OnSessionEstablished, Stated
<1>2. /\ known \in Parts /\ known.entry = entry /\ known.ending = ending /\ known.chain = chain
      /\ known.odd = odd /\ ~known.threw /\ known.session[i] = "connected"
      /\ \A j \in SessionIds \ {i} : known.session[j] = session[j]
  <2>1. "connected" \in States
    BY DEF States
  <2> QED
    BY <2>1, StatedIs, ConferenceIs DEF IInv
<1> HIDE DEF known
<1>3. ended \in Parts /\ failed \in Parts
  BY <1>2, TerminateTyped, ConferenceIs DEF IInv
<1> HIDE DEF ended, failed
<1>4. Conference' \in Parts
  BY <1>1, <1>2, <1>3, Became DEF IInv
<1>5. OtherTypes'
  BY <1>0, <1>1 DEF IInv, OtherTypes, chosen
<1>6. ASSUME Calm PROVE Calm'
  <2>1. \A j \in SessionIds \ {i} : WorldSame(World, World', j)
    BY <1>0, <1>1 DEF WorldSame, World
  <2>2. NoFault'
    BY <1>0, <1>6 DEF Calm, NoFault
  <2>3. Good(Conference, i, World) /\ SourceReady(Conference)
    BY <1>6 DEF Calm, AllGood
  <2>4. Step(Conference, i) # "scheduling" /\ call[i] # "new"
    BY <1>0, <2>3, WorldIs DEF Good, Rest, InOrder, Unplaced
  <2>5. CASE UNCHANGED adding /\ (Become(Conference) \/ Become(failed))
    <3>1. \A j \in SessionIds : WorldSame(World, World', j) /\ Same(Conference, Conference, j)
      BY <1>0, <2>5 DEF WorldSame, World, Same, SessionSame
    <3>2. AllGood(Conference, World')
      BY <1>6, <3>1, WorldGood DEF Calm, AllGood
    <3>3. AllGood(failed, World')
      BY <3>2, TerminateKeeps, ConferenceIs DEF IInv, failed
    <3> QED
      BY <1>3, <2>2, <2>5, <3>2, <3>3, Became DEF Calm, IInv
  <2>6. CASE session[i] # "none" /\ (Become(known) \/ Become(ended))
    <3>1. \A j \in SessionIds \ {i} : Same(Conference, known, j)
      BY <1>2, ConferenceIs DEF Same, SessionSame
    <3>2. \A j \in SessionIds \ {i} : Good(known, j, World')
      BY <1>6, <2>1, <3>1, Others DEF Calm
    <3>3. EntryBacked(known, i) /\ SourceReady(known)
      BY <1>2, <2>3, <2>6, ConferenceIs DEF Good, EntryBacked, SourceReady, Ghost, Ending
    <3>4. SessionNamed(known, i, World')
      BY <1>0, <1>2, <2>3, <2>6, ConferenceIs DEF Good, SessionNamed, Misaddressed, Ending, World
    <3>5. SessionCarried(known, i, World')
      BY <1>0, <1>2, <2>3, <2>6, ConferenceIs DEF Good, Rest, SessionCarried, Step, World
    <3>6. LeaseUsed(known, i, World')
      BY <1>0, <1>2, <2>3, ConferenceIs DEF Good, Rest, LeaseUsed, Leased, World
    <3>7. InOrder(known, i, World')
      BY <1>0, <1>2, <2>3, <2>4, <2>6, ConferenceIs DEF Good, Rest, InOrder, Step, World
    <3>8. AllGood(known, World')
      BY <3>2, <3>3, <3>4, <3>5, <3>6, <3>7 DEF AllGood, Good, Rest
    <3>9. AllGood(ended, World')
      BY <1>2, <3>8, TerminateKeeps DEF ended
    <3> QED
      BY <1>2, <1>3, <2>2, <2>6, <3>8, <3>9, Became DEF Calm
  <2> QED
    BY <1>1, <2>5, <2>6
<1> QED
  BY <1>0, <1>4, <1>5, <1>6 DEF IInv

Readied(c, i) == [c EXCEPT !.entry[i] = "ready"]

LEMMA ReadiedIs ==
  ASSUME NEW c \in Parts, NEW i \in SessionIds, NEW r, r = Readied(c, i)
  PROVE  /\ r \in Parts /\ r.session = c.session /\ r.ending = c.ending /\ r.chain = c.chain
         /\ r.odd = c.odd /\ r.threw = c.threw /\ r.entry[i] = "ready"
         /\ \A j \in SessionIds \ {i} : r.entry[j] = c.entry[j]
BY DEF Parts, Entries, Readied

\* The entry is ready, and a ghost when its session has gone.
LEMMA AddedKeeps ==
  ASSUME IInv, NEW i \in SessionIds, Added(i)
  PROVE  IInv'
<1> DEFINE gone == session[i] = "none" \/ entry[i] = "none" \/ ending[i].terminate + ending[i].recycle > 0
           ready == Readied(Conference, i)
           c == IF gone THEN Note(ready, i, "ghost") ELSE ready
           failed == Terminate(Conference, i)
<1>0. /\ i \in adding /\ adding' = adding \ {i}
      /\ UNCHANGED <<roomState, selfCleaning, call, locality, chosen, nodes, progress, notices, ends>>
  BY DEF Added
<1>1. \/ (i \in ServerOutputs => entry[SourceOf[i]] = "ready") /\ Become(c) /\ UNCHANGED losses
      \/ Become(failed) /\ (UNCHANGED losses \/ Lose)
  BY DEF Added, Readied
<1>2. /\ ready \in Parts /\ ready.session = session /\ ready.ending = ending /\ ready.chain = chain
      /\ ready.odd = odd /\ ~ready.threw /\ ready.entry[i] = "ready"
      /\ \A j \in SessionIds \ {i} : ready.entry[j] = entry[j]
  BY ReadiedIs, ConferenceIs DEF IInv
<1> HIDE DEF ready
<1>3. /\ c \in Parts /\ c.session = session /\ c.ending = ending /\ c.chain = chain
      /\ odd \subseteq c.odd /\ ~c.threw /\ c.entry[i] = "ready" /\ (gone => <<i, "ghost">> \in c.odd)
      /\ \A j \in SessionIds \ {i} : c.entry[j] = entry[j]
  <2>1. CASE gone
    <3>1. "ghost" \in Oddities /\ c = Note(ready, i, "ghost")
      BY <2>1 DEF Oddities
    <3> QED
      BY <1>2, <3>1, Noted
  <2>2. CASE ~gone
    BY <1>2, <2>2
  <2> QED
    BY <2>1, <2>2
<1>4. failed \in Parts
  BY TerminateTyped, ConferenceIs DEF IInv
<1> HIDE DEF c, failed
<1>5. Conference' \in Parts
  BY <1>1, <1>3, <1>4, Became
<1>6. losses' \in 0..MaxTroubles /\ (losses' = 0 => losses = 0)
  BY <1>1, Lost DEF IInv, OtherTypes
<1>7. OtherTypes'
  BY <1>0, <1>6 DEF IInv, OtherTypes, chosen
<1>8. ASSUME Calm PROVE Calm'
  <2>1. \A j \in SessionIds : WorldSame(World, World', j)
    BY <1>0 DEF WorldSame, World
  <2>2. NoFault'
    BY <1>0, <1>8 DEF Calm, NoFault
  <2>3. AllGood(Conference, World')
    BY <1>8, <2>1, WorldGood DEF Calm, AllGood
  <2>4. CASE Become(failed)
    <3>1. AllGood(failed, World')
      BY <2>3, TerminateKeeps, ConferenceIs DEF IInv, failed
    <3> QED
      BY <1>4, <2>2, <2>4, <3>1, Became DEF Calm
  <2>5. CASE (i \in ServerOutputs => entry[SourceOf[i]] = "ready") /\ Become(c)
    <3>1. \A j \in SessionIds \ {i} : Same(Conference, c, j)
      BY <1>3, ConferenceIs DEF Same, SessionSame
    <3>2. \A j \in SessionIds \ {i} : Good(c, j, World')
      BY <2>3, <3>1, SameGood DEF AllGood
    <3>3. Rest(Conference, i, World') /\ Rest(Conference, i, World)
      BY <1>8, <2>3 DEF Calm, AllGood, Good
    <3>4. call'[i] # "new"
      BY <1>0, <3>3, WorldIs DEF Rest, InOrder
    <3>5. EntryBacked(c, i)
      <4>1. ending[i] \in Endings
        BY DEF IInv, Parts, Conference
      <4>2. ~gone => session[i] # "none" /\ ~Ending(c, i)
        BY <1>3, <4>1 DEF Endings, Ending
      <4> QED
        BY <1>3, <4>2 DEF EntryBacked, Ghost
    <3>6. SessionNamed(c, i, World')
      BY <1>3 DEF SessionNamed
    <3>7. Rest(c, i, World')
      BY <1>3, <3>3, <3>4, ConferenceIs DEF Rest, SessionCarried, LeaseUsed, InOrder, Step, Ending, World
    <3>8. SourceReady(c)
      <4> SUFFICES ASSUME NEW p \in ServerOutputs, c.entry[p] = "ready"
                   PROVE  c.entry[SourceOf[p]] = "ready" \/ Ghost(c, p)
        BY DEF SourceReady
      <4>1. p \in SessionIds /\ SourceOf[p] \in SessionIds /\ SourceOf[p] # p
        BY SourceAssumption DEF SessionIds
      <4>2. CASE p = i
        BY <1>3, <2>5, <4>1, <4>2
      <4>3. CASE p # i
        <5>1. entry[SourceOf[p]] = "ready" \/ Ghost(c, p)
          BY <1>3, <2>3, <4>1, <4>3, ConferenceIs DEF AllGood, SourceReady, Ghost
        <5> QED
          BY <1>3, <4>1, <5>1
      <4> QED
        BY <4>2, <4>3
    <3>9. AllGood(c, World')
      BY <3>2, <3>5, <3>6, <3>7, <3>8 DEF AllGood, Good
    <3> QED
      BY <1>3, <2>2, <2>5, <3>9, Became DEF Calm
  <2> QED
    BY <1>1, <2>4, <2>5
<1> QED
  BY <1>5, <1>6, <1>7, <1>8 DEF IInv
-----------------------------------------------------------------------------
(* Nodes that are lost, and the end of the room                             *)

LEMMA NodeLostKeeps ==
  ASSUME IInv, NEW n \in AccessNodes, NodeLost(n)
  PROVE  IInv'
<1> DEFINE carried == {x \in nodes.carried : x[1] # n}
           leases == {x \in nodes.leases : x[1] # n}
           down == nodes.down \cup {n}
<1>0. /\ Lose /\ nodes' = [nodes EXCEPT !.down = down, !.carried = carried, !.leases = leases]
      /\ UNCHANGED <<roomState, selfCleaning, entry, adding, call, session, locality, chain, ending,
                     analytics, placement, progress, odd, ends>>
  BY DEF NodeLost, sessionVars, chosen
<1>1. nodes \in NodesType
  BY DEF IInv, OtherTypes
<1>2. /\ carried \in SUBSET (AccessNodes \X SessionIds) /\ leases \in SUBSET (AccessNodes \X SessionIds)
      /\ down \in SUBSET AccessNodes
  BY <1>1 DEF NodesType
<1> HIDE DEF carried, leases, down
<1>3. nodes' \in NodesType
  BY <1>0, <1>1, <1>2 DEF NodesType
<1>4. losses' # 0 /\ losses' \in 0..MaxTroubles
  BY <1>0, Lost DEF IInv
<1>5. OtherTypes'
  BY <1>0, <1>3, <1>4 DEF IInv, OtherTypes
<1>6. Conference' = Conference
  BY <1>0 DEF Conference
<1> QED
  BY <1>4, <1>5, <1>6 DEF IInv

\* A node that is lost is outside the agreement: only the types remain to be shown.
LEMMA FaultDetectedKeeps ==
  ASSUME IInv, NEW n \in AccessNodes, FaultDetected(n)
  PROVE  IInv'
<1> DEFINE S == {i \in SessionIds : session[i] # "none" /\ locality[i] = n}
           c == FoldSet(LAMBDA i, x : Impacted(x, i), Conference, S)
<1>0. /\ <<n, "fault">> \in notices /\ Become(c)
      /\ UNCHANGED <<roomState, selfCleaning, adding, call, locality, chosen, nodes, progress, losses, ends>>
  BY DEF FaultDetected
<1>1. c \in Parts
  <2>1. S \in SUBSET SessionIds
    OBVIOUS
  <2> HIDE DEF S
  <2> QED
    BY <2>1, ImpactedTyped, SessionsImpacted DEF IInv
<1> HIDE DEF c
<1>2. Conference' \in Parts
  BY <1>0, <1>1, Became
<1>3. OtherTypes'
  BY <1>0 DEF IInv, OtherTypes, chosen
<1>4. losses' # 0
  BY <1>0 DEF IInv, Calm, NoFault
<1> QED
  BY <1>2, <1>3, <1>4 DEF IInv

LEMMA DestroysKeep ==
  ASSUME IInv, SelfClean \/ DestroyByApi
  PROVE  IInv'
<1> DEFINE c == Destroy(Conference)
<1>0. /\ UNCHANGED <<adding, call, locality, chosen, nodes, progress, notices, losses>>
      /\ roomState' \in {roomState, "leaving"} /\ selfCleaning' \in {FALSE, selfCleaning}
      /\ End \/ UNCHANGED ends
      /\ Become(c) \/ UNCHANGED <<entry, session, ending, chain, odd>>
  BY DEF SelfClean, DestroyByApi, DestroyRoom, sessionVars, chosen
<1>1. c \in Parts /\ (Calm => AllGood(c, World))
  BY DestroyTyped, DestroyKeeps DEF IInv, Calm
<1> HIDE DEF c
<1>2. Conference' \in Parts /\ (Calm => AllGood(Conference', World))
  <2>1. CASE Become(c)
    BY <1>1, <2>1, Became
  <2>2. CASE UNCHANGED <<entry, session, ending, chain, odd>>
    <3>1. Conference' = Conference
      BY <2>2 DEF Conference
    <3> QED
      BY <3>1 DEF IInv, Calm
  <2> QED
    BY <1>0, <2>1, <2>2
<1>3. ends' \in Nat
  BY <1>0 DEF IInv, OtherTypes, End
<1>4. OtherTypes'
  BY <1>0, <1>3 DEF IInv, OtherTypes, chosen
<1>5. Calm => Calm'
  BY <1>0, <1>2, SameWorld DEF Calm
<1> QED
  BY <1>0, <1>2, <1>4, <1>5 DEF IInv

\* The room takes everything with it, but the leases of what was under way.
LEMMA RoomGoneKeeps ==
  ASSUME IInv, RoomGone
  PROVE  IInv'
<1> DEFINE left == {i \in SessionIds : session[i] # "none" \/ ending[i] # NoEnding[i]
                            \/ \E k \in Chains : k[1] = i /\ chain[k] # Idle}
           d == Conference'
<1>0. /\ roomState' = "gone" /\ selfCleaning' = FALSE
      /\ entry' = [i \in SessionIds |-> "none"] /\ session' = [i \in SessionIds |-> "none"]
      /\ chain' = [k \in Chains |-> Idle] /\ adding' = {} /\ notices' = {}
      /\ ending' = NoEnding /\ odd' = odd \cup (left \X {"unreleased"})
      /\ UNCHANGED <<call, locality, chosen, nodes, progress, losses, ends>>
  BY DEF RoomGone
<1>1. d \in Parts
  <2>1. entry' \in [SessionIds -> Entries] /\ session' \in [SessionIds -> States]
    BY <1>0 DEF Entries, States
  <2>2. chain' \in [Chains -> Steps] /\ ending' \in [SessionIds -> Endings]
    BY <1>0 DEF Steps, Idle, Endings, NoEnding
  <2>3. odd' \in SUBSET (SessionIds \X Oddities)
    BY <1>0 DEF IInv, Parts, Conference, Oddities
  <2> QED
    BY <2>1, <2>2, <2>3 DEF Parts, Conference
<1>2. OtherTypes'
  BY <1>0 DEF IInv, OtherTypes, chosen
<1>3. ASSUME Calm PROVE Calm'
  <2>1. NoFault'
    BY <1>0, <1>3 DEF Calm, NoFault
  <2>2. ASSUME NEW i \in SessionIds PROVE Good(d, i, World')
    <3>1. /\ d.entry[i] = "none" /\ d.session[i] = "none" /\ Step(d, i) = "none"
          /\ d.chain[Again(i)].step = "none" /\ ~Ending(d, i) /\ d.ending[i].stop = 0
          /\ d.odd = odd'
      BY <1>0, ChainsOf DEF Conference, Step, Ending, Idle, NoEnding
    <3>2. Good(Conference, i, World)
      BY <1>3 DEF Calm, AllGood
    <3>3. Leased(World, i) => <<i, "unreleased">> \in odd'
      <4> SUFFICES ASSUME Leased(World, i), <<i, "unreleased">> \notin odd PROVE i \in left
        BY <1>0
      <4>1. session[i] # "none" \/ ending[i].recycle > 0 \/ chain[First(i)].step = "initiating"
        BY <3>2, ConferenceIs DEF Good, Rest, LeaseUsed, Step
      <4>2. ending[i].recycle > 0 => ending[i] # NoEnding[i]
        BY DEF NoEnding
      <4>3. chain[First(i)].step = "initiating" => \E k \in Chains : k[1] = i /\ chain[k] # Idle
        BY DEF First, Chains, Idle
      <4> QED
        BY <4>1, <4>2, <4>3
    <3> HIDE DEF d, left
    <3>4. EntryBacked(d, i) /\ SessionNamed(d, i, World') /\ SessionCarried(d, i, World')
      BY <3>1 DEF EntryBacked, SessionNamed, SessionCarried
    <3>5. LeaseUsed(d, i, World')
      BY <1>0, <3>1, <3>2, <3>3 DEF Good, Rest, LeaseUsed, Leased, World
    <3>6. InOrder(d, i, World')
      BY <1>0, <3>1, <3>2 DEF Good, Rest, InOrder, Unplaced, Leased, World
    <3> QED
      BY <3>4, <3>5, <3>6 DEF Good, Rest
  <2>3. SourceReady(d)
    <3>1. \A o \in ServerOutputs : d.entry[o] = "none"
      BY <1>0 DEF Conference, SessionIds
    <3> QED
      BY <3>1 DEF SourceReady
  <2> QED
    BY <2>1, <2>2, <2>3 DEF Calm, AllGood
<1> QED
  BY <1>0, <1>1, <1>2, <1>3 DEF IInv
-----------------------------------------------------------------------------
(* The theorem                                                              *)

LEMMA InitInv ==
  ASSUME ServerInit
  PROVE  IInv
<1>1. Conference \in Parts
  BY DEF ServerInit, Conference, Parts, Entries, States, Steps, Idle, Endings, NoEnding
<1>2. OtherTypes
  <2>1. placement \in [SessionIds -> AccessNodes] /\ losses \in 0..MaxTroubles
    BY SourceAssumption DEF ServerInit
  <2>2. nodes \in NodesType
    BY DEF ServerInit, NodesType
  <2>3. /\ call \in [SessionIds -> {"new", "initiating", "waiting", "ok", "error"}]
        /\ locality \in [SessionIds -> AccessNodes \cup {NoWhere}]
        /\ progress \in [SessionIds -> {"quiet", "ready", "failed"}]
    BY DEF ServerInit
  <2> QED
    BY <2>1, <2>2, <2>3 DEF ServerInit, OtherTypes
<1>3. NoFault
  BY DEF ServerInit, NoFault
<1>4. ASSUME NEW i \in SessionIds PROVE Good(Conference, i, World)
  <2>1. /\ entry[i] = "none" /\ session[i] = "none" /\ Step(Conference, i) = "none"
        /\ chain[Again(i)].step = "none" /\ ~Ending(Conference, i) /\ ending[i].stop = 0
    BY ChainsOf DEF ServerInit, Conference, Step, Ending, Idle, NoEnding
  <2>2. nodes.leases = {} /\ nodes.carried = {} /\ notices = {} /\ adding = {}
    BY DEF ServerInit
  <2>3. EntryBacked(Conference, i) /\ SessionNamed(Conference, i, World) /\ SessionCarried(Conference, i, World)
    BY <2>1, ConferenceIs DEF EntryBacked, SessionNamed, SessionCarried
  <2>4. LeaseUsed(Conference, i, World) /\ Unplaced(World, i)
    BY <2>2 DEF LeaseUsed, Unplaced, Leased, World
  <2>5. InOrder(Conference, i, World)
    BY <2>1, <2>2, <2>4, ConferenceIs, WorldIs DEF InOrder
  <2> QED
    BY <2>3, <2>4, <2>5 DEF Good, Rest
<1>5. SourceReady(Conference)
  BY DEF SourceReady, ServerInit, Conference, SessionIds
<1> QED
  BY <1>1, <1>2, <1>3, <1>4, <1>5 DEF IInv, Calm, AllGood

LEMMA NextInv ==
  ASSUME IInv, [ServerNext]_serverVars
  PROVE  IInv'
<1>1. ASSUME NEW i \in SessionIds, AddStreamingIn(i) \/ AddServerSideSubscription(i) PROVE IInv'
  BY <1>1, AddsKeep
<1>2. ASSUME NEW i \in SessionIds, DeleteStream(i) \/ DeleteSubscription(i) PROVE IInv'
  BY <1>2, DeletesKeep
<1>3. ASSUME NEW i \in SessionIds, Poll(i) \/ Added(i) PROVE IInv'
  BY <1>3, PollKeeps, AddedKeeps
<1>4. ASSUME NEW i \in SessionIds, TerminateAnswered(i) \/ StopAnswered(i) \/ RecycleAnswered(i) \/ EndingFails(i)
      PROVE  IInv'
  BY <1>4, TerminateAnsweredKeeps, StopAnsweredKeeps, RecycleAnsweredKeeps, EndingFailsKeeps
<1>5. ASSUME NEW i \in SessionIds, NEW what \in {"ready", "failed"}, Reports(i, what) \/ SessionStatus(i, what)
      PROVE  IInv'
  BY <1>5, ReportsKeep, SessionStatusKeeps
<1>6. ASSUME NEW k \in Chains, Initiated(k) \/ InitiateFails(k) \/ Scheduled(k) PROVE IInv'
  BY <1>6, InitiatedKeeps, InitiateFailsKeeps, ScheduledKeeps
<1>7. ASSUME NEW n \in AccessNodes, NodeLost(n) \/ FaultDetected(n) PROVE IInv'
  BY <1>7, NodeLostKeeps, FaultDetectedKeeps
<1>8. CASE SelfClean \/ DestroyByApi
  BY <1>8, DestroysKeep
<1>9. CASE RoomGone
  BY <1>9, RoomGoneKeeps
<1>10. CASE UNCHANGED serverVars
  <2>1. /\ Conference' = Conference /\ UNCHANGED losses
        /\ UNCHANGED <<call, locality, nodes, notices, adding>>
    BY <1>10 DEF serverVars, sessionVars, Conference
  <2>2. OtherTypes'
    BY <1>10 DEF serverVars, sessionVars, IInv, OtherTypes
  <2>3. Calm => Calm'
    BY <2>1, SameWorld DEF Calm
  <2> QED
    BY <2>1, <2>2, <2>3 DEF IInv
<1> QED
  BY <1>1, <1>2, <1>3, <1>4, <1>5, <1>6, <1>7, <1>8, <1>9, <1>10 DEF ServerNext

\* When nothing is under way, what the invariant says of each session is what SessionsAgree says.
LEMMA InvAgrees ==
  ASSUME IInv
  PROVE  SessionsAgree
<1>1. ServerTypeOK
  <2>1. /\ entry \in [SessionIds -> Entries] /\ session \in [SessionIds -> States]
        /\ ending \in [SessionIds -> Endings] /\ chain \in [Chains -> Steps]
    BY DEF IInv, Parts, Conference
  <2>2. nodes.leases \cup nodes.carried \subseteq AccessNodes \X SessionIds
    BY DEF IInv, OtherTypes, NodesType
  <2> QED
    BY <2>1, <2>2 DEF IInv, OtherTypes, ServerTypeOK, Entries, States, Endings, Steps
<1>2. ASSUME losses = 0, Settled, NEW i \in SessionIds
      PROVE  /\ entry[i] # "none" => session[i] # "none" \/ Odd(i) \cap {"ghost", "stuck"} # {}
             /\ session[i] # "none" => entry[i] = "ready" \/ "misaddressed" \in Odd(i)
             /\ session[i] # "none" => OnNodes(nodes.carried, i) /\ OnNodes(nodes.leases, i)
             /\ OnNodes(nodes.leases, i) => session[i] # "none" \/ "unreleased" \in Odd(i)
             /\ i \in ServerOutputs /\ entry[i] = "ready" => entry[SourceOf[i]] = "ready" \/ "ghost" \in Odd(i)
  <2>1. Good(Conference, i, World) /\ SourceReady(Conference)
    BY <1>2 DEF IInv, Calm, AllGood
  <2>2. /\ ~Ending(Conference, i) /\ ending[i].recycle = 0 /\ Step(Conference, i) = "none"
        /\ call[i] \notin {"initiating", "waiting"}
    BY <1>2, ChainsOf DEF Settled, NoEnding, Ending, Conference, Step, Idle
  <2>3. \A what : <<i, what>> \in odd => what \in Odd(i)
    <3> SUFFICES ASSUME NEW what, <<i, what>> \in odd PROVE what \in Odd(i)
      OBVIOUS
    <3>1. <<i, what>> \in {y \in odd : y[1] = i} /\ <<i, what>>[2] = what
      OBVIOUS
    <3> QED
      BY <3>1 DEF Odd
  <2>4. entry[i] # "none" => session[i] # "none" \/ Odd(i) \cap {"ghost", "stuck"} # {}
    BY <2>1, <2>3, ConferenceIs DEF Good, EntryBacked, Ghost
  <2>5. session[i] # "none" => entry[i] = "ready" \/ "misaddressed" \in Odd(i)
    BY <2>1, <2>2, <2>3, ConferenceIs, WorldIs DEF Good, SessionNamed, Misaddressed
  <2>6. session[i] # "none" => OnNodes(nodes.carried, i) /\ OnNodes(nodes.leases, i)
    BY <2>1, <2>2, ConferenceIs, WorldIs DEF Good, Rest, SessionCarried, OnNodes
  <2>7. OnNodes(nodes.leases, i) => session[i] # "none" \/ "unreleased" \in Odd(i)
    BY <2>1, <2>2, <2>3, ConferenceIs, WorldIs DEF Good, Rest, LeaseUsed, Leased, OnNodes
  <2>8. i \in ServerOutputs /\ entry[i] = "ready" => entry[SourceOf[i]] = "ready" \/ "ghost" \in Odd(i)
    BY <2>1, <2>3, ConferenceIs DEF SourceReady, Ghost
  <2> QED
    BY <2>4, <2>5, <2>6, <2>7, <2>8
<1> QED
  BY <1>1, <1>2 DEF SessionsAgree

\* Whatever sessions the management API asks for and deletes, and however reports, answers and the
\* end of the room are interleaved: when nothing is under way and no call has failed, the room,
\* its access controller, the nodes and the leases agree about every session, but for the named
\* exceptions (conference.js, accessController.js).
THEOREM SessionsStayInAgreement == ServerSpec => []SessionsAgree
<1>1. ServerInit => IInv
  BY InitInv
<1>2. IInv /\ [ServerNext]_serverVars => IInv'
  BY NextInv
<1>3. IInv => SessionsAgree
  BY InvAgrees
<1> QED
  BY <1>1, <1>2, <1>3, PTL DEF ServerSpec
=============================================================================
