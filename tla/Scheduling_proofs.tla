-------------------------- MODULE Scheduling_proofs --------------------------
(***************************************************************************)
(* Where a task runs: the agent the cluster manager finds for it            *)
(* (ClusterSchedule), and the process of that agent (NodePool).             *)
(*                                                                          *)
(* For any workers, tasks and bounds: as long as no call is lost a task     *)
(* runs on one worker only, and the manager's view of a worker agrees with  *)
(* the worker's own once everything it has cast has arrived.                *)
(*                                                                          *)
(* The views of the two are related through what is under way: a worker has *)
(* a task exactly if the manager would have it executed there after all the *)
(* casts of the worker.  That no two workers get the same task rests on the *)
(* scheduler's entry: in service it names whoever has anything to do with   *)
(* the task, and only while it initializes it may not know.                 *)
(*                                                                          *)
(* And for every number of calls, rooms, processes and failures: the lists  *)
(* and tables an agent keeps of its processes stay consistent.              *)
(***************************************************************************)
EXTENDS ClusterSchedule, NodePool, FiniteSetTheorems, SequenceTheorems, NaturalsInduction, TLAPS

-----------------------------------------------------------------------------
(* The cluster manager and its workers                                      *)

\* What a cast says of a task.
Picks(c, t) == c.type = "pickUpTasks" /\ t \in c.tasks
Lays(c, t) == c.type = "layDownTask" /\ t \in c.tasks
Mentions(s, t) == \E i \in 1..Len(s) : t \in s[i].tasks

\* A manager that has the tasks of E for a worker has t among them once the casts of s arrived.
Brings(s, t, E) ==
  \/ t \in E /\ \A i \in 1..Len(s) : ~Lays(s[i], t)
  \/ \E k \in 1..Len(s) : Picks(s[k], t) /\ \A j \in 1..Len(s) : j > k => ~Lays(s[j], t)

\* The casts of s lay down t only where it has been picked up before.
LaysWhatIsThere(s, t, E) ==
  \A i \in 1..Len(s) : Lays(s[i], t) =>
    /\ t \in E \/ \E k \in 1..Len(s) : k < i /\ Picks(s[k], t)
    /\ \A j \in 1..Len(s) : j < i /\ Lays(s[j], t) =>
         \E k \in 1..Len(s) : j < k /\ k < i /\ Picks(s[k], t)

\* A task is laid down alone, and only a worker that has gone quits.
CastsFormed ==
  \A w \in Workers : \A i \in 1..Len(casts[w]) :
    /\ casts[w][i].type = "layDownTask" => \E t \in Tasks : casts[w][i].tasks = {t}
    /\ casts[w][i].type = "quit" => casts[w][i].tasks = {} /\ status[w] = "gone"

\* The states of a worker, and what the manager knows of it.
StatesAgree ==
  \A w \in Workers :
    /\ status[w] = "unregistered" =>
         /\ ownTasks[w] = {} /\ casts[w] = <<>> /\ w \notin workers
         /\ \A t \in Tasks : <<t, w>> \notin asked
    /\ status[w] = "recovering" => casts[w] = <<>> /\ w \notin workers
    /\ status[w] = "gone" => ownTasks[w] = {}
    /\ w \notin workers => executing[w] = {}
    /\ service = "in-service" =>
         status[w] # "recovering" /\ (status[w] = "registered" => w \in workers)

LaidDownInOrder ==
  \A w \in workers : \A t \in Tasks : LaysWhatIsThere(casts[w], t, executing[w])

ViewsMeet ==
  \A w \in workers : status[w] = "registered" =>
    \A t \in Tasks : t \in ownTasks[w] <=> Brings(casts[w], t, executing[w])

\* Worker w has t, may get it, or the manager takes it or will take it to have t.
Has(t, w) ==
  \/ status[w] # "gone" /\ (t \in ownTasks[w] \/ <<t, w>> \in asked)
  \/ (status[w] # "gone" \/ w \in workers) /\ (t \in executing[w] \/ Mentions(casts[w], t))

OneHasIt == \A t \in Tasks : \A v, w \in Workers : Has(t, v) /\ Has(t, w) => v = w

ExecutedAsScheduled == \A w \in workers : \A t \in executing[w] : scheduled[t] = Executed(w)

ScheduledWhereItIs ==
  service = "in-service" => \A t \in Tasks, w \in Workers : Has(t, w) => scheduled[t].worker = w

\* What holds until a call is lost.
Undisturbed == /\ StatesAgree /\ LaidDownInOrder /\ ViewsMeet
               /\ OneHasIt /\ ExecutedAsScheduled /\ ScheduledWhereItIs

ScheduleInv == ScheduleTypeOK /\ CastsFormed /\ (lostCalls = 0 => Undisturbed)

-----------------------------------------------------------------------------
(* Casts that are sent and received                                         *)

LEMMA HeadAndTail ==
  ASSUME NEW s \in Seq(Casts), s # <<>>
  PROVE  /\ Head(s) = s[1] /\ s[1] \in Casts /\ Tail(s) \in Seq(Casts)
         /\ Len(s) \in Nat /\ Len(s) > 0 /\ Len(Tail(s)) = Len(s) - 1
         /\ \A i \in 1..Len(Tail(s)) : Tail(s)[i] = s[i + 1] /\ i + 1 \in 1..Len(s)
OBVIOUS

\* What remains of the casts means the same, once the first one has been handled.
LEMMA ReceivedCast ==
  ASSUME NEW s \in Seq(Casts), s # <<>>, NEW t, NEW E, NEW F,
         Picks(Head(s), t) => t \in F,
         Lays(Head(s), t) => t \notin F,
         ~Picks(Head(s), t) /\ ~Lays(Head(s), t) => (t \in F <=> t \in E)
  PROVE  /\ Brings(Tail(s), t, F) <=> Brings(s, t, E)
         /\ LaysWhatIsThere(s, t, E) => LaysWhatIsThere(Tail(s), t, F)
<1> DEFINE n == Len(s)  r == Tail(s)
<1>1. /\ n \in Nat /\ n > 0 /\ Len(r) = n - 1
      /\ \A i \in 1..(n - 1) : r[i] = s[i + 1] /\ i + 1 \in 1..n
  BY HeadAndTail
<1>2. \A i \in 1..n : i = 1 \/ (i - 1 \in 1..(n - 1) /\ r[i - 1] = s[i])
  BY <1>1
<1>3. /\ Picks(s[1], t) => t \in F
      /\ Lays(s[1], t) => t \notin F
      /\ ~Picks(s[1], t) /\ ~Lays(s[1], t) => (t \in F <=> t \in E)
      /\ ~(Picks(s[1], t) /\ Lays(s[1], t))
  BY HeadAndTail DEF Picks, Lays
<1>4. 1 \in 1..n
  BY <1>1
<1> HIDE DEF n, r
<1>5. ASSUME Brings(r, t, F) PROVE Brings(s, t, E)
  <2>1. CASE t \in F /\ \A i \in 1..(n - 1) : ~Lays(r[i], t)
    <3>1. \A i \in 1..n : i > 1 => ~Lays(s[i], t)
      BY <1>1, <1>2, <2>1
    <3>2. CASE Picks(s[1], t)
      BY <1>4, <3>1, <3>2 DEF Brings, n
    <3>3. CASE ~Picks(s[1], t)
      <4>1. t \in E /\ ~Lays(s[1], t)
        BY <1>3, <2>1, <3>3
      <4>2. \A i \in 1..n : ~Lays(s[i], t)
        BY <1>2, <2>1, <4>1
      <4> QED
        BY <4>1, <4>2 DEF Brings, n
    <3> QED
      BY <3>2, <3>3
  <2>2. ASSUME NEW k \in 1..(n - 1), Picks(r[k], t),
               \A j \in 1..(n - 1) : j > k => ~Lays(r[j], t)
        PROVE  Brings(s, t, E)
    <3>1. k + 1 \in 1..n /\ Picks(s[k + 1], t)
      BY <1>1, <2>2
    <3>2. \A j \in 1..n : j > k + 1 => ~Lays(s[j], t)
      BY <1>1, <1>2, <2>2
    <3> QED
      BY <3>1, <3>2 DEF Brings, n
  <2> QED
    BY <1>1, <1>5, <2>1, <2>2 DEF Brings
<1>6. ASSUME Brings(s, t, E) PROVE Brings(r, t, F)
  <2>1. CASE t \in E /\ \A i \in 1..n : ~Lays(s[i], t)
    BY <1>1, <1>3, <1>4, <2>1 DEF Brings
  <2>2. ASSUME NEW k \in 1..n, Picks(s[k], t), \A j \in 1..n : j > k => ~Lays(s[j], t)
        PROVE  Brings(r, t, F)
    <3>1. CASE k = 1
      BY <1>1, <1>3, <2>2, <3>1 DEF Brings
    <3>2. CASE k # 1
      <4>1. k - 1 \in 1..(n - 1) /\ Picks(r[k - 1], t)
        BY <1>2, <2>2, <3>2
      <4>2. \A j \in 1..(n - 1) : j > k - 1 => ~Lays(r[j], t)
        BY <1>1, <2>2
      <4> QED
        BY <1>1, <4>1, <4>2 DEF Brings
    <3> QED
      BY <3>1, <3>2
  <2> QED
    BY <1>6, <2>1, <2>2 DEF Brings, n
<1>7. ASSUME LaysWhatIsThere(s, t, E) PROVE LaysWhatIsThere(r, t, F)
  <2> SUFFICES ASSUME NEW i \in 1..(n - 1), Lays(r[i], t)
               PROVE  /\ t \in F \/ \E k \in 1..(n - 1) : k < i /\ Picks(r[k], t)
                      /\ \A j \in 1..(n - 1) : j < i /\ Lays(r[j], t) =>
                           \E k \in 1..(n - 1) : j < k /\ k < i /\ Picks(r[k], t)
    BY <1>1 DEF LaysWhatIsThere
  <2>1. i + 1 \in 1..n /\ Lays(s[i + 1], t)
    BY <1>1
  <2>2. ASSUME NEW j \in 1..n, j < i + 1, Lays(s[j], t)
        PROVE  \E k \in 1..(n - 1) : j - 1 < k /\ k < i /\ Picks(r[k], t)
    <3>1. PICK k \in 1..n : j < k /\ k < i + 1 /\ Picks(s[k], t)
      BY <1>7, <2>1, <2>2 DEF LaysWhatIsThere, n
    <3>2. k - 1 \in 1..(n - 1) /\ j - 1 < k - 1 /\ k - 1 < i /\ Picks(r[k - 1], t)
      BY <1>1, <1>2, <3>1
    <3> QED
      BY <3>2
  <2>3. ASSUME NEW j \in 1..(n - 1), j < i, Lays(r[j], t)
        PROVE  \E k \in 1..(n - 1) : j < k /\ k < i /\ Picks(r[k], t)
    <3>1. j + 1 \in 1..n /\ Lays(s[j + 1], t) /\ j + 1 < i + 1
      BY <1>1, <2>3
    <3>2. PICK k \in 1..(n - 1) : (j + 1) - 1 < k /\ k < i /\ Picks(r[k], t)
      BY <2>2, <3>1
    <3> QED
      BY <1>1, <3>2
  <2>4. t \in F \/ \E k \in 1..(n - 1) : k < i /\ Picks(r[k], t)
    <3>1. CASE Lays(s[1], t)
      <4>1. 1 < i + 1
        BY <1>1
      <4> QED
        BY <1>4, <2>2, <3>1, <4>1
    <3>2. CASE ~Lays(s[1], t)
      <4>1. CASE \E k \in 1..n : k < i + 1 /\ Picks(s[k], t)
        <5>1. PICK k \in 1..n : k < i + 1 /\ Picks(s[k], t)
          BY <4>1
        <5>2. CASE k = 1
          BY <1>3, <5>1, <5>2
        <5>3. CASE k # 1
          <6>1. k - 1 \in 1..(n - 1) /\ k - 1 < i /\ Picks(r[k - 1], t)
            BY <1>1, <1>2, <5>1, <5>3
          <6> QED
            BY <6>1
        <5> QED
          BY <5>2, <5>3
      <4>2. CASE ~\E k \in 1..n : k < i + 1 /\ Picks(s[k], t)
        <5>1. t \in E
          BY <1>7, <2>1, <4>2 DEF LaysWhatIsThere, n
        <5>2. 1 < i + 1
          BY <1>1
        <5>3. ~Picks(s[1], t)
          BY <1>4, <4>2, <5>2
        <5> QED
          BY <1>3, <3>2, <5>1, <5>3
      <4> QED
        BY <4>1, <4>2
    <3> QED
      BY <3>1, <3>2
  <2> QED
    BY <2>3, <2>4
<1> QED
  BY <1>5, <1>6, <1>7 DEF r

\* A cast of a worker joins those under way: a task is picked up, laid down if it was there, or
\* not spoken of.
LEMMA SentCast ==
  ASSUME NEW s \in Seq(Casts), NEW c \in Casts, NEW t, NEW E
  PROVE  /\ Picks(c, t) => Brings(Append(s, c), t, E)
         /\ Lays(c, t) => ~Brings(Append(s, c), t, E)
         /\ ~Picks(c, t) /\ ~Lays(c, t) => (Brings(Append(s, c), t, E) <=> Brings(s, t, E))
         /\ LaysWhatIsThere(s, t, E) /\ (Lays(c, t) => Brings(s, t, E))
              => LaysWhatIsThere(Append(s, c), t, E)
<1> DEFINE n == Len(s)  r == Append(s, c)
<1>1. /\ n \in Nat /\ Len(r) = n + 1 /\ r[n + 1] = c
      /\ \A i \in 1..n : r[i] = s[i]
  OBVIOUS
<1>2. \A i \in 1..(n + 1) : i \in 1..n \/ i = n + 1
  BY <1>1
<1>3. ~(Picks(c, t) /\ Lays(c, t))
  BY DEF Picks, Lays
<1> HIDE DEF n, r
<1>4. (Picks(c, t) => Brings(r, t, E)) /\ (Lays(c, t) => ~Brings(r, t, E))
  BY <1>1, <1>2, <1>3 DEF Brings
<1>5. ASSUME ~Picks(c, t), ~Lays(c, t) PROVE Brings(r, t, E) <=> Brings(s, t, E)
  <2>1. ASSUME Brings(r, t, E) PROVE Brings(s, t, E)
    BY <1>1, <1>2, <1>5, <2>1 DEF Brings, n
  <2>2. ASSUME Brings(s, t, E) PROVE Brings(r, t, E)
    BY <1>1, <1>2, <1>5, <2>2 DEF Brings, n
  <2> QED
    BY <2>1, <2>2
<1>6. ASSUME LaysWhatIsThere(s, t, E), Lays(c, t) => Brings(s, t, E)
      PROVE  LaysWhatIsThere(r, t, E)
  <2> SUFFICES ASSUME NEW i \in 1..(n + 1), Lays(r[i], t)
               PROVE  /\ t \in E \/ \E k \in 1..(n + 1) : k < i /\ Picks(r[k], t)
                      /\ \A j \in 1..(n + 1) : j < i /\ Lays(r[j], t) =>
                           \E k \in 1..(n + 1) : j < k /\ k < i /\ Picks(r[k], t)
    BY <1>1 DEF LaysWhatIsThere
  <2>1. CASE i \in 1..n
    BY <1>1, <1>2, <1>6, <2>1 DEF LaysWhatIsThere, n
  <2>2. CASE i = n + 1
    <3>1. Brings(s, t, E) /\ Lays(c, t)
      BY <1>1, <1>6, <2>2
    <3>2. CASE t \in E /\ \A j \in 1..n : ~Lays(s[j], t)
      BY <1>1, <1>2, <2>2, <3>2
    <3>3. CASE \E k \in 1..n : Picks(s[k], t) /\ \A j \in 1..n : j > k => ~Lays(s[j], t)
      <4>1. PICK k \in 1..n : Picks(s[k], t) /\ \A j \in 1..n : j > k => ~Lays(s[j], t)
        BY <3>3
      <4>2. ~Lays(s[k], t)
        BY <4>1 DEF Picks, Lays
      <4>3. k \in 1..(n + 1) /\ k < i /\ Picks(r[k], t)
        BY <1>1, <2>2, <4>1
      <4>4. \A j \in 1..(n + 1) : j < i /\ Lays(r[j], t) => j < k
        BY <1>1, <1>2, <2>2, <4>1, <4>2
      <4> QED
        BY <4>3, <4>4
    <3> QED
      BY <3>1, <3>2, <3>3 DEF Brings, n
  <2> QED
    BY <1>2, <2>1, <2>2
<1> QED
  BY <1>4, <1>5, <1>6 DEF r

\* What is mentioned before or after.
LEMMA MentionedLess ==
  ASSUME NEW s \in Seq(Casts), NEW t
  PROVE  /\ s # <<>> => (Mentions(Tail(s), t) => Mentions(s, t))
         /\ s # <<>> => (t \in Head(s).tasks => Mentions(s, t))
         /\ \A c \in Casts : Mentions(Append(s, c), t) <=> Mentions(s, t) \/ t \in c.tasks
<1>1. ASSUME s # <<>>
      PROVE  (Mentions(Tail(s), t) => Mentions(s, t)) /\ (t \in Head(s).tasks => Mentions(s, t))
  BY <1>1, HeadAndTail DEF Mentions
<1>2. ASSUME NEW c \in Casts PROVE Mentions(Append(s, c), t) <=> Mentions(s, t) \/ t \in c.tasks
  <2>1. /\ Len(s) \in Nat /\ Len(Append(s, c)) = Len(s) + 1 /\ Append(s, c)[Len(s) + 1] = c
        /\ \A i \in 1..Len(s) : Append(s, c)[i] = s[i]
    OBVIOUS
  <2>2. \A i \in 1..(Len(s) + 1) : i \in 1..Len(s) \/ i = Len(s) + 1
    BY <2>1
  <2> QED
    BY <2>1, <2>2 DEF Mentions
<1> QED
  BY <1>1, <1>2

-----------------------------------------------------------------------------
(* Types, and the form of casts                                             *)

\* No worker comes back from having gone.
GoneStays == \A v \in Workers : status[v] = "gone" => status'[v] = "gone"

LEMMA SameCasts ==
  ASSUME CastsFormed, UNCHANGED casts, GoneStays
  PROVE  CastsFormed'
BY DEF CastsFormed, GoneStays

\* What most steps do with the casts of one worker: one is added, one is taken, or all go.
LEMMA CastAdded ==
  ASSUME ScheduleTypeOK, CastsFormed, GoneStays, NEW w \in Workers, NEW c \in Casts,
         casts' = [casts EXCEPT ![w] = Append(@, c)],
         c.type = "layDownTask" => \E t \in Tasks : c.tasks = {t},
         c.type = "quit" => c.tasks = {} /\ status'[w] = "gone"
  PROVE  CastsFormed' /\ casts' \in [Workers -> Seq(Casts)]
<1>1. casts \in [Workers -> Seq(Casts)]
  BY DEF ScheduleTypeOK
<1>2. casts' \in [Workers -> Seq(Casts)]
  BY <1>1
<1>3. ASSUME NEW v \in Workers, NEW i \in 1..Len(casts'[v])
      PROVE  /\ casts'[v][i].type = "layDownTask" => \E t \in Tasks : casts'[v][i].tasks = {t}
             /\ casts'[v][i].type = "quit" => casts'[v][i].tasks = {} /\ status'[v] = "gone"
  <2>1. CASE v # w
    BY <1>1, <2>1 DEF CastsFormed, GoneStays
  <2>2. CASE v = w
    <3>1. casts'[v] = Append(casts[w], c) /\ casts[w] \in Seq(Casts)
      BY <1>1, <2>2
    <3>2. (i \in 1..Len(casts[w]) /\ casts'[v][i] = casts[w][i]) \/ casts'[v][i] = c
      BY <3>1
    <3> QED
      BY <2>2, <3>2 DEF CastsFormed, GoneStays
  <2> QED
    BY <2>1, <2>2
<1> QED
  BY <1>2, <1>3 DEF CastsFormed

LEMMA CastsTaken ==
  ASSUME ScheduleTypeOK, CastsFormed, GoneStays, NEW w \in Workers,
         \/ casts[w] # <<>> /\ casts' = [casts EXCEPT ![w] = Tail(@)]
         \/ casts' = [casts EXCEPT ![w] = <<>>]
  PROVE  CastsFormed' /\ casts' \in [Workers -> Seq(Casts)]
<1>1. casts \in [Workers -> Seq(Casts)]
  BY DEF ScheduleTypeOK
<1>2. CASE casts' = [casts EXCEPT ![w] = <<>>]
  <2>1. casts' \in [Workers -> Seq(Casts)]
    BY <1>1, <1>2
  <2>2. \A v \in Workers : casts'[v] = IF v = w THEN <<>> ELSE casts[v]
    BY <1>1, <1>2
  <2>3. ASSUME NEW v \in Workers, NEW i \in 1..Len(casts'[v])
        PROVE  v # w /\ casts'[v] = casts[v]
    BY <2>2, <2>3
  <2> QED
    BY <2>1, <2>3 DEF CastsFormed, GoneStays
<1>3. CASE casts[w] # <<>> /\ casts' = [casts EXCEPT ![w] = Tail(@)]
  <2>1. casts[w] \in Seq(Casts) /\ casts'[w] = Tail(casts[w])
    BY <1>1, <1>3
  <2>2. /\ casts'[w] \in Seq(Casts)
        /\ \A i \in 1..Len(casts'[w]) : casts'[w][i] = casts[w][i + 1] /\ i + 1 \in 1..Len(casts[w])
    BY <1>3, <2>1, HeadAndTail
  <2>3. \A v \in Workers : v # w => casts'[v] = casts[v]
    BY <1>1, <1>3
  <2>4. casts' \in [Workers -> Seq(Casts)]
    BY <1>1, <1>3, <2>1, <2>2, <2>3
  <2> QED
    <3>1. ASSUME NEW v \in Workers, NEW i \in 1..Len(casts'[v])
          PROVE  /\ casts'[v][i].type = "layDownTask" => \E t \in Tasks : casts'[v][i].tasks = {t}
                 /\ casts'[v][i].type = "quit" => casts'[v][i].tasks = {} /\ status'[v] = "gone"
      <4>1. \E j \in 1..Len(casts[v]) : casts'[v][i] = casts[v][j]
        BY <2>2, <2>3
      <4> QED
        BY <4>1 DEF CastsFormed, GoneStays
    <3> QED
      BY <2>4, <3>1 DEF CastsFormed
<1> QED
  BY <1>2, <1>3

\* The casts the workers send.
LEMMA CastsSent ==
  /\ \A S \in SUBSET Tasks : Cast("pickUpTasks", S) \in Casts
  /\ \A t \in Tasks : Cast("layDownTask", {t}) \in Casts
  /\ Cast("quit", {}) \in Casts
  /\ \A type, S : Cast(type, S).type = type /\ Cast(type, S).tasks = S
BY DEF Cast, Casts

\* What the manager does with a worker that goes or comes.
LEMMA WorkerGoesTyped ==
  ASSUME ScheduleTypeOK, NEW w \in Workers, WorkerQuit(w) \/ WorkerJoin(w)
  PROVE  /\ workers' \subseteq Workers /\ available' \subseteq workers'
         /\ executing' \in [Workers -> SUBSET Tasks]
         /\ scheduled' \in [Tasks -> [worker : Workers \cup {NoWorker}, timer : BOOLEAN]]
<1>1. CASE WorkerJoin(w)
  BY <1>1 DEF ScheduleTypeOK, WorkerJoin
<1>2. CASE WorkerQuit(w)
  <2>1. \A t \in Tasks : EntriesWithout(w)[t] \in {Unscheduled, scheduled[t]}
    BY DEF EntriesWithout
  <2>2. Unscheduled \in [worker : Workers \cup {NoWorker}, timer : BOOLEAN]
    BY DEF Unscheduled
  <2>3. scheduled' \in [Tasks -> [worker : Workers \cup {NoWorker}, timer : BOOLEAN]]
    BY <1>2, <2>1, <2>2 DEF ScheduleTypeOK, WorkerQuit, EntriesWithout
  <2> QED
    BY <1>2, <2>3 DEF ScheduleTypeOK, WorkerQuit, AvailableWithout
<1> QED
  BY <1>1, <1>2

\* A call that is lost is counted.
LEMMA LostCounted ==
  ASSUME ScheduleTypeOK
  PROVE  /\ CallLost => lostCalls' \in 1..MaxFaults
         /\ lostCalls < MaxFaults => lostCalls + 1 \in 1..MaxFaults
BY ScheduleAssumption DEF ScheduleTypeOK, CallLost

LEMMA ReceivedTyped ==
  ASSUME ScheduleTypeOK, CastsFormed, NEW w \in Workers, Receive(w)
  PROVE  ScheduleTypeOK' /\ CastsFormed'
<1>1. casts[w] # <<>> /\ casts' = [casts EXCEPT ![w] = Tail(@)]
      /\ UNCHANGED <<status, ownTasks, asked, lostCalls, restarts>>
  BY DEF Receive
<1>2. CastsFormed' /\ casts' \in [Workers -> Seq(Casts)]
  BY <1>1, CastsTaken DEF GoneStays
<1> DEFINE c == Head(casts[w])
<1>3. c \in Casts /\ c = casts[w][1] /\ 1 \in 1..Len(casts[w])
  BY <1>1, HeadAndTail DEF ScheduleTypeOK
<1>4. CASE UNCHANGED managerVars
  BY <1>1, <1>2, <1>4 DEF ScheduleTypeOK, managerVars
<1>5. CASE PickUpTasks(w, c.tasks) /\ UNCHANGED <<service, workers, available>>
  BY <1>1, <1>2, <1>3, <1>5 DEF ScheduleTypeOK, PickUpTasks, Executed, Casts
<1>6. CASE c.type = "layDownTask" /\ (\A t \in c.tasks : LayDownTask(w, t))
           /\ UNCHANGED <<service, workers, available>>
  <2>1. PICK t \in Tasks : c.tasks = {t}
    BY <1>3, <1>6 DEF CastsFormed
  <2>2. LayDownTask(w, t)
    BY <1>6, <2>1
  <2> QED
    BY <1>1, <1>2, <1>6, <2>2
       DEF ScheduleTypeOK, LayDownTask, ReservedAfter, Reserved, Unscheduled
<1>7. CASE WorkerQuit(w) /\ UNCHANGED service
  BY <1>1, <1>2, <1>7, WorkerGoesTyped DEF ScheduleTypeOK
<1> QED
  BY <1>4, <1>5, <1>6, <1>7 DEF Receive

LEMMA WorkerNextTyped ==
  ASSUME ScheduleTypeOK, CastsFormed, WorkerNext
  PROVE  ScheduleTypeOK' /\ CastsFormed'
<1> USE DEF workerVars, managerVars
<1>1. ASSUME NEW w \in Workers, NEW low \in BOOLEAN, ReportLoad(w, low)
      PROVE  ScheduleTypeOK' /\ CastsFormed'
  BY <1>1 DEF ReportLoad, ScheduleTypeOK, CastsFormed
<1>2. ASSUME NEW w \in Workers, LoseCast(w) PROVE ScheduleTypeOK' /\ CastsFormed'
  <2>1. /\ casts[w] # <<>> /\ casts' = [casts EXCEPT ![w] = Tail(@)] /\ CallLost
        /\ UNCHANGED <<managerVars, status, ownTasks, asked, restarts>>
    BY <1>2 DEF LoseCast
  <2>2. CastsFormed' /\ casts' \in [Workers -> Seq(Casts)]
    BY <2>1, CastsTaken DEF GoneStays
  <2> QED
    BY <2>1, <2>2, LostCounted DEF ScheduleTypeOK
<1>3. ASSUME NEW w \in Workers, Join(w) PROVE ScheduleTypeOK' /\ CastsFormed'
  <2>1. /\ WorkerJoin(w) /\ status' = [status EXCEPT ![w] = "registered"] /\ status[w] # "gone"
        /\ UNCHANGED <<service, asked, lostCalls, restarts>>
    BY <1>3 DEF Join
  <2>2. GoneStays
    BY <2>1 DEF ScheduleTypeOK, GoneStays
  <2>3. CASE UNCHANGED casts /\ (UNCHANGED ownTasks \/ ownTasks' = [ownTasks EXCEPT ![w] = {}])
    <3>1. CastsFormed'
      BY <2>2, <2>3, SameCasts
    <3> QED
      BY <2>1, <2>3, <3>1, WorkerGoesTyped DEF ScheduleTypeOK
  <2>4. CASE casts' = PickedUpAgain(w) /\ UNCHANGED ownTasks
    <3>1. Cast("pickUpTasks", ownTasks[w]) \in Casts
      BY CastsSent DEF ScheduleTypeOK
    <3>2. UNCHANGED casts \/ casts' = [casts EXCEPT ![w] = Append(@, Cast("pickUpTasks", ownTasks[w]))]
      BY <2>4 DEF PickedUpAgain
    <3>3. CASE casts' = [casts EXCEPT ![w] = Append(@, Cast("pickUpTasks", ownTasks[w]))]
      <4>1. CastsFormed' /\ casts' \in [Workers -> Seq(Casts)]
        BY <2>2, <3>1, <3>3, CastsSent, CastAdded
      <4> QED
        BY <2>1, <2>4, <4>1, WorkerGoesTyped DEF ScheduleTypeOK
    <3> QED
      BY <2>3, <2>4, <3>2, <3>3
  <2> QED
    BY <1>3, <2>3, <2>4 DEF Join
<1>4. ASSUME NEW w \in Workers, JoinUnanswered(w) PROVE ScheduleTypeOK' /\ CastsFormed'
  <2>1. /\ CallLost /\ WorkerJoin(w)
        /\ UNCHANGED <<service, status, ownTasks, casts, asked, restarts>>
    BY <1>4 DEF JoinUnanswered, workerVars
  <2>2. lostCalls' \in 0..MaxFaults
    BY <2>1, LostCounted
  <2>3. CastsFormed'
    BY <2>1 DEF CastsFormed
  <2> QED
    BY <2>1, <2>2, <2>3, WorkerGoesTyped DEF ScheduleTypeOK
<1>5. ASSUME NEW w \in Workers, WhoAreYou(w) \/ KeepAliveLost(w)
      PROVE  ScheduleTypeOK' /\ CastsFormed'
  <2>1. /\ status' = [status EXCEPT ![w] = "recovering"] /\ status[w] # "gone"
        /\ UNCHANGED <<managerVars, ownTasks, casts, asked, restarts>>
        /\ UNCHANGED lostCalls \/ CallLost
    BY <1>5 DEF WhoAreYou, KeepAliveLost
  <2>2. GoneStays
    BY <2>1 DEF ScheduleTypeOK, GoneStays
  <2>3. CastsFormed'
    BY <2>1, <2>2, SameCasts
  <2> QED
    BY <2>1, <2>3, LostCounted DEF ScheduleTypeOK
<1>6. ASSUME NEW w \in Workers, CheckAlive(w) PROVE ScheduleTypeOK' /\ CastsFormed'
  BY <1>6, WorkerGoesTyped, LostCounted DEF CheckAlive, ScheduleTypeOK, CastsFormed
<1>7. ASSUME NEW w \in Workers, AgentEnds(w) PROVE ScheduleTypeOK' /\ CastsFormed'
  <2>1. /\ status' = [status EXCEPT ![w] = "gone"] /\ ownTasks' = [ownTasks EXCEPT ![w] = {}]
        /\ UNCHANGED <<managerVars, asked, lostCalls, restarts>>
        /\ \/ casts' = [casts EXCEPT ![w] = <<>>]
           \/ casts' = [casts EXCEPT ![w] = Append(@, Cast("quit", {}))]
    BY <1>7 DEF AgentEnds
  <2>2. GoneStays
    BY <2>1 DEF ScheduleTypeOK, GoneStays
  <2>3. status'[w] = "gone" /\ status' \in [Workers -> {"unregistered", "registered", "recovering", "gone"}]
    BY <2>1 DEF ScheduleTypeOK
  <2>4. CastsFormed' /\ casts' \in [Workers -> Seq(Casts)]
    BY <2>1, <2>2, <2>3, CastsSent, CastsTaken, CastAdded
  <2> QED
    BY <2>1, <2>3, <2>4 DEF ScheduleTypeOK
<1> QED
  BY <1>1, <1>2, <1>3, <1>4, <1>5, <1>6, <1>7, ReceivedTyped DEF WorkerNext

LEMMA TaskNextTyped ==
  ASSUME ScheduleTypeOK, CastsFormed, TaskNext
  PROVE  ScheduleTypeOK' /\ CastsFormed'
<1> USE DEF workerVars, managerVars
<1>1. ASSUME NEW t \in Tasks, ScheduleAgain(t) \/ Schedule(t)
      PROVE  ScheduleTypeOK' /\ CastsFormed'
  <2>1. /\ UNCHANGED <<service, workers, available, executing, workerVars, lostCalls, restarts>>
        /\ \/ UNCHANGED scheduled
           \/ \E w \in Workers \cup {NoWorker}, timer \in BOOLEAN :
                scheduled' = [scheduled EXCEPT ![t] = [worker |-> w, timer |-> timer]]
        /\ UNCHANGED asked \/ \E w \in Workers : asked' = asked \cup {<<t, w>>}
    BY <1>1 DEF ScheduleAgain, Schedule, Reserved, Unscheduled, ScheduleTypeOK
  <2>2. CastsFormed'
    BY <2>1, SameCasts DEF GoneStays
  <2> QED
    BY <2>1, <2>2 DEF ScheduleTypeOK
<1>2. ASSUME NEW t \in Tasks, ReservationExpires(t) PROVE ScheduleTypeOK' /\ CastsFormed'
  BY <1>2, LostCounted DEF ReservationExpires, Unscheduled, ScheduleTypeOK, CastsFormed
<1>3. ASSUME NEW t \in Tasks, NEW w \in Workers, AddTask(t, w)
      PROVE  ScheduleTypeOK' /\ CastsFormed'
  <2>1. /\ asked' = asked \ {<<t, w>>} /\ ownTasks' = [ownTasks EXCEPT ![w] = @ \cup {t}]
        /\ UNCHANGED <<managerVars, status, lostCalls, restarts>>
        /\ \/ casts' = [casts EXCEPT ![w] = Append(@, Cast("pickUpTasks", {t}))]
           \/ UNCHANGED casts
    BY <1>3 DEF AddTask
  <2> DEFINE c == Cast("pickUpTasks", {t})
  <2>2. GoneStays /\ c \in Casts /\ c.type = "pickUpTasks" /\ c.tasks = {t}
    BY <2>1, CastsSent DEF GoneStays
  <2> HIDE DEF c
  <2>3. CASE casts' = [casts EXCEPT ![w] = Append(@, c)]
    <3>1. c.type # "quit"
      BY <2>2
    <3>2. CastsFormed' /\ casts' \in [Workers -> Seq(Casts)]
      BY <2>2, <2>3, <3>1, CastAdded
    <3> QED
      BY <2>1, <3>2 DEF ScheduleTypeOK
  <2>4. CASE UNCHANGED casts
    <3>1. CastsFormed'
      BY <2>2, <2>4, SameCasts
    <3> QED
      BY <2>1, <2>4, <3>1 DEF ScheduleTypeOK
  <2> QED
    BY <2>1, <2>3, <2>4 DEF c
<1>4. ASSUME NEW t \in Tasks, NEW w \in Workers, NodeRefused(t, w)
      PROVE  ScheduleTypeOK' /\ CastsFormed'
  BY <1>4 DEF NodeRefused, ScheduleTypeOK, CastsFormed
<1>5. ASSUME NEW t \in Tasks, NEW w \in Workers, RemoveTask(t, w)
      PROVE  ScheduleTypeOK' /\ CastsFormed'
  <2>1. /\ ownTasks' = [ownTasks EXCEPT ![w] = @ \ {t}]
        /\ UNCHANGED <<managerVars, status, asked, lostCalls, restarts>>
        /\ \/ casts' = [casts EXCEPT ![w] = Append(@, Cast("layDownTask", {t}))]
           \/ UNCHANGED casts
    BY <1>5 DEF RemoveTask
  <2> DEFINE c == Cast("layDownTask", {t})
  <2>2. GoneStays /\ c \in Casts /\ c.type = "layDownTask" /\ c.tasks = {t}
    BY <2>1, CastsSent DEF GoneStays
  <2> HIDE DEF c
  <2>3. CASE casts' = [casts EXCEPT ![w] = Append(@, c)]
    <3>1. c.type # "quit"
      BY <2>2
    <3>2. CastsFormed' /\ casts' \in [Workers -> Seq(Casts)]
      BY <2>2, <2>3, <3>1, CastAdded
    <3> QED
      BY <2>1, <3>2 DEF ScheduleTypeOK
  <2>4. CASE UNCHANGED casts
    <3>1. CastsFormed'
      BY <2>2, <2>4, SameCasts
    <3> QED
      BY <2>1, <2>4, <3>1 DEF ScheduleTypeOK
  <2> QED
    BY <2>1, <2>3, <2>4 DEF c
<1> QED
  BY <1>1, <1>2, <1>3, <1>4, <1>5 DEF TaskNext

LEMMA NextKeepsForms ==
  ScheduleTypeOK /\ CastsFormed /\ [ScheduleNext]_scheduleVars => ScheduleTypeOK' /\ CastsFormed'
<1> SUFFICES ASSUME ScheduleTypeOK, CastsFormed, [ScheduleNext]_scheduleVars
             PROVE  ScheduleTypeOK' /\ CastsFormed'
  OBVIOUS
<1> USE DEF workerVars, managerVars
<1>1. CASE Restart
  <2>1. \A w \in Workers : casts'[w] = <<>>
    BY <1>1 DEF Restart
  <2>2. CastsFormed'
    BY <2>1 DEF CastsFormed
  <2> QED
    BY <1>1, <2>2, ScheduleAssumption DEF Restart, ScheduleTypeOK, Unscheduled
<1>2. CASE Serve
  BY <1>2, LostCounted DEF Serve, ScheduleTypeOK, CastsFormed
<1>3. CASE UNCHANGED scheduleVars
  BY <1>3 DEF scheduleVars, ScheduleTypeOK, CastsFormed
<1> QED
  BY <1>1, <1>2, <1>3, WorkerNextTyped, TaskNextTyped DEF ScheduleNext

-----------------------------------------------------------------------------
(* What the parts of the invariant rest on                                  *)

LEMMA NoCasts ==
  ASSUME NEW t, NEW E
  PROVE  /\ ~Mentions(<<>>, t) /\ (Brings(<<>>, t, E) <=> t \in E)
         /\ LaysWhatIsThere(<<>>, t, E)
BY DEF Mentions, Brings, LaysWhatIsThere

\* Of all workers but one nothing changes that the two views of it depend on.
OnlyOf(w) ==
  \A v \in Workers : v # w =>
    /\ casts'[v] = casts[v] /\ executing'[v] = executing[v]
    /\ ownTasks'[v] = ownTasks[v] /\ status'[v] = status[v]
    /\ v \in workers' <=> v \in workers

\* The views of one worker meet, also after the step.
MeetAfter(w) ==
  w \in workers' => \A t \in Tasks :
    /\ LaysWhatIsThere(casts'[w], t, executing'[w])
    /\ status'[w] = "registered" => (t \in ownTasks'[w] <=> Brings(casts'[w], t, executing'[w]))

LEMMA ViewsKept ==
  ASSUME ScheduleTypeOK, ScheduleTypeOK', LaidDownInOrder, ViewsMeet,
         NEW w \in Workers, OnlyOf(w), MeetAfter(w)
  PROVE  LaidDownInOrder' /\ ViewsMeet'
<1>1. workers' \subseteq Workers
  BY DEF ScheduleTypeOK
<1> QED
  BY <1>1 DEF LaidDownInOrder, ViewsMeet, OnlyOf, MeetAfter

\* Whoever has a task after the step had it before.
NoMoreHave == \A t \in Tasks, w \in Workers : Has(t, w)' => Has(t, w)

LEMMA OneStillHasIt ==
  ASSUME OneHasIt, NoMoreHave
  PROVE  OneHasIt'
BY DEF OneHasIt, NoMoreHave

\* The entries of tasks that somebody has keep their worker.
LEMMA StillScheduled ==
  ASSUME ScheduledWhereItIs, NoMoreHave, service' = "in-service" => service = "in-service",
         \A t \in Tasks, w \in Workers :
           Has(t, w)' /\ scheduled[t].worker = w => scheduled'[t].worker = w
  PROVE  ScheduledWhereItIs'
BY DEF ScheduledWhereItIs, NoMoreHave

\* Once the manager is in service it knows whoever has a task.
LEMMA HasInWorkers ==
  ASSUME ScheduleTypeOK, StatesAgree, service = "in-service", NEW t \in Tasks, NEW w \in Workers,
         Has(t, w)
  PROVE  w \in workers
<1> SUFFICES ASSUME w \notin workers PROVE FALSE
  OBVIOUS
<1>1. status[w] # "gone" /\ executing[w] = {}
  BY DEF Has, StatesAgree
<1>2. status[w] = "unregistered"
  BY <1>1 DEF ScheduleTypeOK, StatesAgree
<1>3. ownTasks[w] = {} /\ casts[w] = <<>> /\ <<t, w>> \notin asked
  BY <1>2 DEF StatesAgree
<1> QED
  BY <1>1, <1>3, NoCasts DEF Has

\* A worker with tasks of its own has joined, and has not gone.
LEMMA OwnerIsThere ==
  ASSUME ScheduleTypeOK, StatesAgree, NEW w \in Workers, NEW t \in Tasks, t \in ownTasks[w]
  PROVE  status[w] \in {"registered", "recovering"} /\ Has(t, w)
BY DEF ScheduleTypeOK, StatesAgree, Has

-----------------------------------------------------------------------------
(* Casts that arrive                                                        *)

LEMMA ReceivedByNobody ==
  ASSUME ScheduleTypeOK, ScheduleTypeOK', Undisturbed, NEW w \in Workers,
         casts[w] # <<>>, casts' = [casts EXCEPT ![w] = Tail(@)], w \notin workers,
         UNCHANGED <<managerVars, status, ownTasks, asked>>
  PROVE  Undisturbed'
<1> USE DEF managerVars
<1>1. OnlyOf(w) /\ MeetAfter(w) /\ casts[w] \in Seq(Casts) /\ casts'[w] = Tail(casts[w])
  BY DEF OnlyOf, MeetAfter, ScheduleTypeOK
<1>2. StatesAgree'
  BY <1>1 DEF Undisturbed, StatesAgree, OnlyOf
<1>3. NoMoreHave
  BY <1>1, MentionedLess DEF NoMoreHave, Has, OnlyOf
<1>4. ExecutedAsScheduled' /\ ScheduledWhereItIs'
  BY <1>3, StillScheduled DEF Undisturbed, ExecutedAsScheduled
<1> QED
  BY <1>1, <1>2, <1>3, <1>4, ViewsKept, OneStillHasIt DEF Undisturbed

LEMMA ReceivedPickUp ==
  ASSUME ScheduleTypeOK, ScheduleTypeOK', Undisturbed, NEW w \in workers,
         casts[w] # <<>>, casts' = [casts EXCEPT ![w] = Tail(@)],
         Head(casts[w]).type = "pickUpTasks", PickUpTasks(w, Head(casts[w]).tasks),
         UNCHANGED <<service, workers, available, status, ownTasks, asked>>
  PROVE  Undisturbed'
<1> DEFINE s == casts[w]  c == Head(casts[w])
<1>1. w \in Workers /\ s \in Seq(Casts) /\ c \in Casts /\ casts'[w] = Tail(s)
  BY HeadAndTail DEF ScheduleTypeOK
<1>2. executing'[w] = executing[w] \cup c.tasks /\ OnlyOf(w)
  BY <1>1 DEF PickUpTasks, ScheduleTypeOK, OnlyOf
<1>3. \A t \in Tasks : /\ Brings(Tail(s), t, executing'[w]) <=> Brings(s, t, executing[w])
                       /\ LaysWhatIsThere(s, t, executing[w])
                            => LaysWhatIsThere(Tail(s), t, executing'[w])
  BY <1>1, <1>2, ReceivedCast DEF Picks, Lays
<1>4. MeetAfter(w)
  BY <1>1, <1>3 DEF MeetAfter, Undisturbed, LaidDownInOrder, ViewsMeet
<1>5. StatesAgree'
  <2>1. \A v \in Workers : v \notin workers => executing'[v] = executing[v]
    BY <1>2 DEF OnlyOf
  <2> QED
    BY <1>1, <1>2, <2>1 DEF Undisturbed, StatesAgree, OnlyOf
<1>6. NoMoreHave
  BY <1>1, <1>2, MentionedLess DEF NoMoreHave, Has, OnlyOf
<1>7. \A t \in c.tasks : t \in Tasks /\ Has(t, w)
  BY <1>1, MentionedLess DEF Has, Casts
<1>8. ASSUME NEW t \in c.tasks, NEW v \in Workers, Has(t, v) PROVE v = w
  BY <1>1, <1>7, <1>8 DEF Undisturbed, OneHasIt
<1>9. \A t \in Tasks : scheduled'[t] = IF t \in c.tasks THEN Executed(w) ELSE scheduled[t]
  BY DEF PickUpTasks
<1>10. ExecutedAsScheduled'
  <2> SUFFICES ASSUME NEW v \in workers, NEW t \in executing'[v]
               PROVE  scheduled'[t] = Executed(v)
    BY DEF ExecutedAsScheduled, Executed
  <2>1. t \in Tasks /\ v \in Workers
    BY DEF ScheduleTypeOK
  <2>2. CASE t \in c.tasks
    <3>1. Has(t, v)'
      BY <2>1 DEF Has
    <3>2. v = w
      BY <1>6, <1>8, <2>1, <2>2, <3>1 DEF NoMoreHave
    <3> QED
      BY <1>9, <2>1, <2>2, <3>2
  <2>3. CASE t \notin c.tasks
    <3>1. t \in executing[v]
      BY <1>2, <2>1, <2>3 DEF OnlyOf
    <3> QED
      BY <1>9, <2>1, <2>3, <3>1 DEF Undisturbed, ExecutedAsScheduled
  <2> QED
    BY <2>2, <2>3
<1>11. ScheduledWhereItIs'
  <2>1. \A t \in Tasks, v \in Workers :
          Has(t, v)' /\ scheduled[t].worker = v => scheduled'[t].worker = v
    BY <1>6, <1>8, <1>9 DEF NoMoreHave, Executed
  <2> QED
    BY <1>6, <2>1, StillScheduled DEF Undisturbed
<1> QED
  BY <1>1, <1>2, <1>4, <1>5, <1>6, <1>10, <1>11, ViewsKept, OneStillHasIt DEF Undisturbed

LEMMA ReceivedLayDown ==
  ASSUME ScheduleTypeOK, ScheduleTypeOK', Undisturbed, NEW w \in workers,
         casts[w] # <<>>, casts' = [casts EXCEPT ![w] = Tail(@)],
         NEW d \in Tasks, Head(casts[w]).type = "layDownTask", Head(casts[w]).tasks = {d},
         LayDownTask(w, d),
         UNCHANGED <<service, workers, available, status, ownTasks, asked>>
  PROVE  Undisturbed'
<1> DEFINE s == casts[w]  c == Head(casts[w])
<1>1. w \in Workers /\ s \in Seq(Casts) /\ c \in Casts /\ casts'[w] = Tail(s)
  BY HeadAndTail DEF ScheduleTypeOK
<1>2. executing'[w] = executing[w] \ {d} /\ OnlyOf(w)
  BY <1>1 DEF LayDownTask, ScheduleTypeOK, OnlyOf
<1>3. \A t \in Tasks : /\ Brings(Tail(s), t, executing'[w]) <=> Brings(s, t, executing[w])
                       /\ LaysWhatIsThere(s, t, executing[w])
                            => LaysWhatIsThere(Tail(s), t, executing'[w])
  BY <1>1, <1>2, ReceivedCast DEF Picks, Lays
<1>4. MeetAfter(w)
  BY <1>1, <1>3 DEF MeetAfter, Undisturbed, LaidDownInOrder, ViewsMeet
<1>5. StatesAgree'
  <2>1. \A v \in Workers : v \notin workers => executing'[v] = executing[v]
    BY <1>2 DEF OnlyOf
  <2> QED
    BY <1>1, <1>2, <2>1 DEF Undisturbed, StatesAgree, OnlyOf
<1>6. NoMoreHave
  BY <1>1, <1>2, MentionedLess DEF NoMoreHave, Has, OnlyOf
<1>7. d \in executing[w]
  <2>1. 1 \in 1..Len(s) /\ s[1] = c
    BY <1>1, HeadAndTail
  <2>2. Lays(s[1], d)
    BY <2>1 DEF Lays
  <2>3. LaysWhatIsThere(s, d, executing[w])
    BY DEF Undisturbed, LaidDownInOrder
  <2> QED
    BY <2>1, <2>2, <2>3 DEF LaysWhatIsThere
<1>8. scheduled[d] = Executed(w) /\ w # NoWorker
  BY <1>1, <1>7, ScheduleAssumption DEF Undisturbed, ExecutedAsScheduled
<1>9. scheduled' = [scheduled EXCEPT ![d] = Reserved(w)]
  BY <1>7, <1>8 DEF LayDownTask, Executed, ReservedAfter
<1>10. ExecutedAsScheduled'
  <2> SUFFICES ASSUME NEW v \in workers, NEW t \in executing'[v]
               PROVE  scheduled'[t] = Executed(v)
    BY DEF ExecutedAsScheduled, Executed
  <2>1. t \in Tasks /\ v \in Workers
    BY DEF ScheduleTypeOK
  <2>2. t \in executing[v] /\ (v = w => t # d)
    BY <1>2, <2>1 DEF OnlyOf
  <2>3. scheduled[t] = Executed(v)
    BY <2>2 DEF Undisturbed, ExecutedAsScheduled
  <2>4. t # d
    BY <1>8, <2>2, <2>3 DEF Executed
  <2> QED
    BY <1>9, <2>1, <2>3, <2>4 DEF ScheduleTypeOK
<1>11. ScheduledWhereItIs'
  <2>1. \A t \in Tasks : scheduled'[t].worker = scheduled[t].worker
    BY <1>8, <1>9 DEF ScheduleTypeOK, Executed, Reserved
  <2> QED
    BY <1>6, <2>1, StillScheduled DEF Undisturbed
<1> QED
  BY <1>1, <1>2, <1>4, <1>5, <1>6, <1>10, <1>11, ViewsKept, OneStillHasIt DEF Undisturbed

\* workerQuit, by a cast or by checkAlive, of a worker that has gone.
LEMMA QuitKeeps ==
  ASSUME ScheduleTypeOK, ScheduleTypeOK', Undisturbed, NEW w \in workers,
         \/ casts[w] # <<>> /\ casts' = [casts EXCEPT ![w] = Tail(@)]
         \/ UNCHANGED casts,
         status[w] = "gone", WorkerQuit(w), UNCHANGED <<service, status, ownTasks, asked>>
  PROVE  Undisturbed'
<1>1. w \in Workers /\ casts[w] \in Seq(Casts) /\ w \notin workers' /\ executing'[w] = {}
  BY DEF ScheduleTypeOK, WorkerQuit
<1>2. OnlyOf(w) /\ MeetAfter(w)
  BY <1>1 DEF WorkerQuit, ScheduleTypeOK, OnlyOf, MeetAfter
<1>3. StatesAgree'
  BY <1>1, <1>2 DEF Undisturbed, StatesAgree, OnlyOf
<1>4. NoMoreHave
  BY <1>1, <1>2, MentionedLess DEF NoMoreHave, Has, OnlyOf
<1>5. \A t \in Tasks : scheduled[t].worker # w => scheduled'[t] = scheduled[t]
  BY DEF WorkerQuit, EntriesWithout
<1>6. ExecutedAsScheduled'
  <2> SUFFICES ASSUME NEW v \in workers', NEW t \in executing'[v]
               PROVE  scheduled'[t] = Executed(v)
    BY DEF ExecutedAsScheduled, Executed
  <2>1. v \in workers /\ v # w /\ t \in executing[v] /\ t \in Tasks
    BY <1>1, <1>2 DEF OnlyOf, ScheduleTypeOK
  <2>2. scheduled[t] = Executed(v)
    BY <2>1 DEF Undisturbed, ExecutedAsScheduled
  <2> QED
    BY <1>5, <2>1, <2>2 DEF Executed
<1>7. ScheduledWhereItIs'
  <2>1. \A t \in Tasks : ~Has(t, w)'
    BY <1>1 DEF Has
  <2>2. \A t \in Tasks, v \in Workers :
          Has(t, v)' /\ scheduled[t].worker = v => scheduled'[t].worker = v
    BY <1>5, <2>1
  <2> QED
    BY <1>4, <2>2, StillScheduled DEF Undisturbed
<1> QED
  BY <1>1, <1>2, <1>3, <1>4, <1>6, <1>7, ViewsKept, OneStillHasIt DEF Undisturbed

LEMMA ReceiveKeeps ==
  ASSUME ScheduleTypeOK, ScheduleTypeOK', CastsFormed, Undisturbed, NEW w \in Workers, Receive(w)
  PROVE  Undisturbed'
<1> DEFINE c == Head(casts[w])
<1>1. /\ casts[w] # <<>> /\ casts' = [casts EXCEPT ![w] = Tail(@)]
      /\ UNCHANGED <<status, ownTasks, asked, lostCalls, restarts>>
  BY DEF Receive
<1>2. c \in Casts /\ c = casts[w][1] /\ 1 \in 1..Len(casts[w])
  BY <1>1, HeadAndTail DEF ScheduleTypeOK
<1>3. CASE w \notin workers /\ UNCHANGED managerVars
  BY <1>1, <1>3, ReceivedByNobody
<1>4. CASE w \in workers /\ c.type = "pickUpTasks" /\ PickUpTasks(w, c.tasks)
           /\ UNCHANGED <<service, workers, available>>
  BY <1>1, <1>4, ReceivedPickUp
<1>5. CASE w \in workers /\ c.type = "layDownTask" /\ (\A t \in c.tasks : LayDownTask(w, t))
           /\ UNCHANGED <<service, workers, available>>
  <2>1. PICK d \in Tasks : c.tasks = {d}
    BY <1>2, <1>5 DEF CastsFormed
  <2> QED
    BY <1>1, <1>5, <2>1, ReceivedLayDown
<1>6. CASE w \in workers /\ c.type = "quit" /\ WorkerQuit(w) /\ UNCHANGED service
  <2>1. status[w] = "gone"
    BY <1>2, <1>6 DEF CastsFormed
  <2> QED
    BY <1>1, <1>6, <2>1, QuitKeeps
<1> QED
  BY <1>3, <1>4, <1>5, <1>6 DEF Receive

-----------------------------------------------------------------------------
(* Workers that join, recover and end                                       *)

LEMMA JoinKeeps ==
  ASSUME ScheduleTypeOK, ScheduleTypeOK', Undisturbed, NEW w \in Workers, Join(w)
  PROVE  Undisturbed'
<1>1. /\ status[w] \in {"unregistered", "recovering"} /\ casts[w] = <<>> /\ WorkerJoin(w)
      /\ status' = [status EXCEPT ![w] = "registered"] /\ UNCHANGED <<service, asked>>
  BY DEF Join
<1>2. w \notin workers /\ executing[w] = {} /\ executing'[w] = {}
  BY <1>1 DEF Undisturbed, StatesAgree, WorkerJoin, ScheduleTypeOK
<1>3. \A v \in Workers : executing'[v] = executing[v]
  BY <1>1, <1>2 DEF WorkerJoin, ScheduleTypeOK
<1>4. UNCHANGED ownTasks /\ \/ casts'[w] = <<>> /\ ownTasks[w] = {}
                            \/ casts'[w] = Append(<<>>, Cast("pickUpTasks", ownTasks[w]))
  <2>1. CASE status[w] = "unregistered"
    BY <1>1, <2>1 DEF Join, Undisturbed, StatesAgree
  <2>2. CASE status[w] = "recovering"
    <3>1. service = "initializing"
      BY <2>2 DEF Undisturbed, StatesAgree, ScheduleTypeOK
    <3>2. casts' = PickedUpAgain(w) /\ UNCHANGED ownTasks
      BY <2>2, <3>1 DEF Join
    <3> QED
      BY <1>1, <3>2 DEF PickedUpAgain, ScheduleTypeOK
  <2> QED
    BY <1>1, <2>1, <2>2
<1>5. OnlyOf(w)
  <2>1. \A v \in Workers : v # w => casts'[v] = casts[v]
    BY DEF Join, PickedUpAgain, ScheduleTypeOK
  <2> QED
    BY <1>1, <1>3, <1>4, <2>1 DEF OnlyOf, WorkerJoin, ScheduleTypeOK
<1>6. MeetAfter(w)
  <2> SUFFICES ASSUME NEW t \in Tasks
               PROVE  /\ LaysWhatIsThere(casts'[w], t, {})
                      /\ t \in ownTasks[w] <=> Brings(casts'[w], t, {})
    BY <1>2, <1>4 DEF MeetAfter
  <2>1. CASE casts'[w] = <<>> /\ ownTasks[w] = {}
    BY <2>1, NoCasts
  <2>2. CASE casts'[w] = Append(<<>>, Cast("pickUpTasks", ownTasks[w]))
    <3> DEFINE c == Cast("pickUpTasks", ownTasks[w])
    <3>1. c \in Casts /\ <<>> \in Seq(Casts)
      BY CastsSent DEF ScheduleTypeOK
    <3>2. (Picks(c, t) <=> t \in ownTasks[w]) /\ ~Lays(c, t)
      BY CastsSent DEF Picks, Lays
    <3> HIDE DEF c
    <3>3. LaysWhatIsThere(Append(<<>>, c), t, {})
      BY <3>1, <3>2, NoCasts, SentCast
    <3>4. t \in ownTasks[w] => Brings(Append(<<>>, c), t, {})
      BY <3>1, <3>2, SentCast
    <3>5. t \notin ownTasks[w] => ~Brings(Append(<<>>, c), t, {})
      <4>1. ~Brings(<<>>, t, {})
        BY NoCasts
      <4>2. ~Picks(c, t) /\ ~Lays(c, t) => (Brings(Append(<<>>, c), t, {}) <=> Brings(<<>>, t, {}))
        BY <3>1, SentCast
      <4> QED
        BY <3>2, <4>1, <4>2
    <3> QED
      BY <2>2, <3>3, <3>4, <3>5 DEF c
  <2> QED
    BY <1>4, <2>1, <2>2
<1>7. status'[w] = "registered" /\ w \in workers'
  BY <1>1 DEF ScheduleTypeOK, WorkerJoin
<1>8. StatesAgree'
  BY <1>1, <1>3, <1>4, <1>5, <1>7 DEF Undisturbed, StatesAgree, OnlyOf
<1>9. NoMoreHave
  <2>1. ASSUME NEW t \in Tasks, Mentions(casts'[w], t) PROVE t \in ownTasks[w]
    <3>1. casts'[w] = Append(<<>>, Cast("pickUpTasks", ownTasks[w]))
      BY <1>4, <2>1, NoCasts
    <3>2. Cast("pickUpTasks", ownTasks[w]) \in Casts
      BY CastsSent DEF ScheduleTypeOK
    <3>3. \A c \in Casts : Mentions(Append(<<>>, c), t) <=> Mentions(<<>>, t) \/ t \in c.tasks
      <4>1. <<>> \in Seq(Casts)
        OBVIOUS
      <4> QED
        BY <4>1, MentionedLess
    <3> QED
      BY <2>1, <3>1, <3>2, <3>3, NoCasts, CastsSent
  <2>2. status[w] # "gone"
    BY <1>1
  <2> QED
    BY <1>1, <1>3, <1>4, <1>5, <2>1, <2>2 DEF NoMoreHave, Has, OnlyOf
<1>10. ExecutedAsScheduled'
  BY <1>1, <1>2, <1>3 DEF Undisturbed, ExecutedAsScheduled, WorkerJoin, ScheduleTypeOK, Executed
<1>11. ScheduledWhereItIs'
  BY <1>1, <1>9, StillScheduled DEF Undisturbed, WorkerJoin
<1> QED
  BY <1>5, <1>6, <1>8, <1>9, <1>10, <1>11, ViewsKept, OneStillHasIt DEF Undisturbed

LEMMA WhoAreYouKeeps ==
  ASSUME ScheduleTypeOK, ScheduleTypeOK', Undisturbed, NEW w \in Workers, WhoAreYou(w)
  PROVE  Undisturbed'
<1>1. /\ status[w] = "registered" /\ w \notin workers /\ casts[w] = <<>>
      /\ status' = [status EXCEPT ![w] = "recovering"]
      /\ UNCHANGED <<managerVars, ownTasks, casts, asked>>
  BY DEF WhoAreYou
<1> USE DEF managerVars
<1>2. OnlyOf(w) /\ MeetAfter(w) /\ status'[w] = "recovering"
  BY <1>1 DEF OnlyOf, MeetAfter, ScheduleTypeOK
<1>3. service # "in-service"
  BY <1>1 DEF Undisturbed, StatesAgree
<1>4. StatesAgree'
  BY <1>1, <1>2, <1>3 DEF Undisturbed, StatesAgree, OnlyOf
<1>5. NoMoreHave
  BY <1>1, <1>2 DEF NoMoreHave, Has, OnlyOf
<1>6. ExecutedAsScheduled' /\ ScheduledWhereItIs'
  BY <1>1, <1>3 DEF Undisturbed, ExecutedAsScheduled, ScheduledWhereItIs, Executed
<1> QED
  BY <1>2, <1>4, <1>5, <1>6, ViewsKept, OneStillHasIt DEF Undisturbed

LEMMA AgentEndsKeeps ==
  ASSUME ScheduleTypeOK, ScheduleTypeOK', Undisturbed, NEW w \in Workers, AgentEnds(w)
  PROVE  Undisturbed'
<1>1. /\ status[w] # "gone" /\ status' = [status EXCEPT ![w] = "gone"]
      /\ ownTasks' = [ownTasks EXCEPT ![w] = {}] /\ UNCHANGED <<managerVars, asked>>
      /\ \/ casts' = [casts EXCEPT ![w] = <<>>]
         \/ casts' = [casts EXCEPT ![w] = Append(@, Cast("quit", {}))]
  BY DEF AgentEnds
<1> USE DEF managerVars
<1>2. status'[w] = "gone" /\ ownTasks'[w] = {} /\ OnlyOf(w) /\ casts[w] \in Seq(Casts)
      /\ (casts'[w] = <<>> \/ casts'[w] = Append(casts[w], Cast("quit", {})))
  BY <1>1 DEF ScheduleTypeOK, OnlyOf
<1> DEFINE c == Cast("quit", {})
<1>3. c \in Casts /\ c.tasks = {} /\ \A t \in Tasks : ~Picks(c, t) /\ ~Lays(c, t)
  BY CastsSent DEF Picks, Lays
<1> HIDE DEF c
<1>4. MeetAfter(w)
  <2> SUFFICES ASSUME w \in workers, NEW t \in Tasks
               PROVE  LaysWhatIsThere(casts'[w], t, executing[w])
    BY <1>1, <1>2 DEF MeetAfter
  <2>1. LaysWhatIsThere(casts[w], t, executing[w])
    BY DEF Undisturbed, LaidDownInOrder
  <2>2. LaysWhatIsThere(Append(casts[w], c), t, executing[w])
    BY <1>2, <1>3, <2>1, SentCast
  <2> QED
    BY <1>2, <2>2, NoCasts DEF c
<1>5. StatesAgree'
  BY <1>1, <1>2 DEF Undisturbed, StatesAgree, OnlyOf
<1>6. NoMoreHave
  <2>1. \A t \in Tasks : Mentions(casts'[w], t) => Mentions(casts[w], t)
    <3> SUFFICES ASSUME NEW t \in Tasks, Mentions(casts'[w], t)
                 PROVE  Mentions(casts[w], t)
      OBVIOUS
    <3>1. casts'[w] = Append(casts[w], c)
      BY <1>2, NoCasts DEF c
    <3>2. Mentions(Append(casts[w], c), t) <=> Mentions(casts[w], t) \/ t \in c.tasks
      BY <1>2, <1>3, MentionedLess
    <3> QED
      BY <1>3, <3>1, <3>2
  <2> QED
    BY <1>1, <1>2, <2>1 DEF NoMoreHave, Has, OnlyOf
<1>7. ExecutedAsScheduled' /\ ScheduledWhereItIs'
  BY <1>1, <1>6, StillScheduled DEF Undisturbed, ExecutedAsScheduled, Executed
<1> QED
  BY <1>2, <1>4, <1>5, <1>6, <1>7, ViewsKept, OneStillHasIt DEF Undisturbed

-----------------------------------------------------------------------------
(* Tasks that are scheduled, brought and removed                            *)

\* The answer to schedule(): a worker that is known, and that the task has no other one beside.
LEMMA AskedKeeps ==
  ASSUME ScheduleTypeOK, ScheduleTypeOK', Undisturbed, service = "in-service",
         NEW t \in Tasks, NEW w \in workers, \A v \in Workers : Has(t, v) => v = w,
         asked' = asked \cup {<<t, w>>},
         \/ UNCHANGED scheduled /\ scheduled[t].worker = w
         \/ scheduled' = [scheduled EXCEPT ![t] = Reserved(w)] /\ ~InExecution(t),
         UNCHANGED <<service, workers, executing, workerVars>>
  PROVE  Undisturbed'
<1> USE DEF workerVars
<1>1. w \in Workers /\ OnlyOf(w) /\ MeetAfter(w)
  BY DEF ScheduleTypeOK, OnlyOf, MeetAfter, Undisturbed, LaidDownInOrder, ViewsMeet
<1>2. StatesAgree'
  BY <1>1 DEF Undisturbed, StatesAgree
<1>3. \A s \in Tasks, v \in Workers : Has(s, v)' => Has(s, v) \/ (s = t /\ v = w)
  BY DEF Has
<1>4. OneHasIt'
  BY <1>3 DEF Undisturbed, OneHasIt
<1>5. scheduled'[t].worker = w /\ \A s \in Tasks : s # t => scheduled'[s] = scheduled[s]
  BY DEF ScheduleTypeOK, Reserved
<1>6. ScheduledWhereItIs'
  BY <1>3, <1>5 DEF Undisturbed, ScheduledWhereItIs
<1>7. ExecutedAsScheduled'
  <2> SUFFICES ASSUME NEW v \in workers, NEW s \in executing[v]
               PROVE  scheduled'[s] = Executed(v)
    BY DEF ExecutedAsScheduled, Executed
  <2>1. s \in Tasks /\ v \in Workers /\ scheduled[s] = Executed(v)
    BY DEF ScheduleTypeOK, Undisturbed, ExecutedAsScheduled
  <2>2. CASE s = t
    <3>1. InExecution(t)
      BY <2>1, <2>2 DEF InExecution, Executed
    <3> QED
      BY <2>1, <2>2, <3>1
  <2> QED
    BY <1>5, <2>1, <2>2
<1> QED
  BY <1>1, <1>2, <1>4, <1>6, <1>7, ViewsKept DEF Undisturbed

LEMMA ScheduleAgainKeeps ==
  ASSUME ScheduleTypeOK, ScheduleTypeOK', Undisturbed, NEW t \in Tasks, ScheduleAgain(t)
  PROVE  Undisturbed'
<1> DEFINE w == scheduled[t].worker
<1>1. /\ service = "in-service" /\ w \in workers /\ asked' = asked \cup {<<t, w>>}
      /\ scheduled' = IF InExecution(t) THEN scheduled ELSE [scheduled EXCEPT ![t] = Reserved(w)]
      /\ UNCHANGED <<service, workers, executing, workerVars>>
  BY DEF ScheduleAgain
<1>2. \A v \in Workers : Has(t, v) => v = w
  BY <1>1 DEF Undisturbed, ScheduledWhereItIs
<1> HIDE DEF w
<1> QED
  BY <1>1, <1>2, AskedKeeps DEF w

LEMMA ScheduleKeeps ==
  ASSUME ScheduleTypeOK, ScheduleTypeOK', Undisturbed, NEW t \in Tasks, Schedule(t)
  PROVE  Undisturbed'
<1>1. /\ service = "in-service" /\ scheduled[t].worker \notin workers
      /\ UNCHANGED <<service, workers, executing, workerVars>>
  BY DEF Schedule, NeedsWorker
<1>2. \A v \in Workers : ~Has(t, v)
  BY <1>1, HasInWorkers DEF Undisturbed, ScheduledWhereItIs
<1>3. ~InExecution(t)
  BY <1>1 DEF InExecution
<1>4. ASSUME NEW w \in available, scheduled' = [scheduled EXCEPT ![t] = Reserved(w)],
             asked' = asked \cup {<<t, w>>}
      PROVE  Undisturbed'
  <2>1. w \in workers
    BY DEF ScheduleTypeOK
  <2> QED
    BY <1>1, <1>2, <1>3, <1>4, <2>1, AskedKeeps
<1>5. CASE scheduled' = [scheduled EXCEPT ![t] = Unscheduled] /\ UNCHANGED asked
  <2> USE DEF workerVars
  <2>1. StatesAgree' /\ LaidDownInOrder' /\ ViewsMeet' /\ NoMoreHave
    BY <1>1, <1>5 DEF Undisturbed, StatesAgree, LaidDownInOrder, ViewsMeet, NoMoreHave, Has
  <2>2. \A s \in Tasks : s # t => scheduled'[s] = scheduled[s]
    BY <1>5 DEF ScheduleTypeOK
  <2>3. ExecutedAsScheduled'
    <3> SUFFICES ASSUME NEW v \in workers, NEW s \in executing[v]
                 PROVE  scheduled'[s] = Executed(v)
      BY <1>1 DEF ExecutedAsScheduled, Executed
    <3>1. s \in Tasks /\ v \in Workers /\ Has(s, v)
      BY DEF ScheduleTypeOK, Has
    <3> QED
      BY <1>2, <2>2, <3>1 DEF Undisturbed, ExecutedAsScheduled
  <2>4. ScheduledWhereItIs'
    BY <1>1, <1>2, <2>1, <2>2 DEF Undisturbed, ScheduledWhereItIs, NoMoreHave
  <2> QED
    BY <2>1, <2>3, <2>4, OneStillHasIt DEF Undisturbed
<1> QED
  BY <1>4, <1>5 DEF Schedule

\* A reservation that nobody waits for any more: the task is nowhere.
LEMMA ExpiryKeeps ==
  ASSUME ScheduleTypeOK, ScheduleTypeOK', Undisturbed, NEW t \in Tasks,
         ReservationExpires(t), ~UnderWay(t)
  PROVE  Undisturbed'
<1> USE DEF workerVars
<1>1. /\ scheduled[t].timer /\ scheduled' = [scheduled EXCEPT ![t] = Unscheduled]
      /\ UNCHANGED <<service, workers, available, executing, workerVars, asked>>
  BY DEF ReservationExpires
<1>2. \A w \in Workers : <<t, w>> \notin asked /\ ~Mentions(casts[w], t)
  <2>1. \A w \in Workers : DOMAIN casts[w] = 1..Len(casts[w])
    BY DEF ScheduleTypeOK
  <2> QED
    BY <2>1 DEF UnderWay, Mentions
<1>3. ASSUME NEW w \in workers PROVE t \notin executing[w]
  <2>1. ~Executed(w).timer
    BY DEF Executed
  <2>2. scheduled[t] # Executed(w)
    BY <1>1, <2>1
  <2> QED
    BY <2>2 DEF Undisturbed, ExecutedAsScheduled
<1>4. ASSUME service = "in-service", NEW w \in Workers PROVE ~Has(t, w)
  <2> SUFFICES ASSUME Has(t, w) PROVE FALSE
    OBVIOUS
  <2>1. w \in workers
    BY <1>4, HasInWorkers DEF Undisturbed
  <2>2. t \in ownTasks[w]
    BY <1>2, <1>3, <2>1 DEF Has
  <2>3. status[w] = "registered"
    BY <1>4, <2>2, OwnerIsThere DEF Undisturbed, StatesAgree
  <2>4. Brings(casts[w], t, executing[w])
    BY <2>1, <2>2, <2>3 DEF Undisturbed, ViewsMeet
  <2> QED
    BY <1>2, <1>3, <2>1, <2>4 DEF Brings, Mentions, Picks
<1>5. StatesAgree' /\ LaidDownInOrder' /\ ViewsMeet' /\ NoMoreHave
  BY <1>1 DEF Undisturbed, StatesAgree, LaidDownInOrder, ViewsMeet, NoMoreHave, Has
<1>6. \A s \in Tasks : s # t => scheduled'[s] = scheduled[s]
  BY <1>1 DEF ScheduleTypeOK
<1>7. ExecutedAsScheduled'
  <2> SUFFICES ASSUME NEW v \in workers, NEW s \in executing[v]
               PROVE  scheduled'[s] = Executed(v)
    BY <1>1 DEF ExecutedAsScheduled, Executed
  <2>1. s \in Tasks /\ s # t
    BY <1>3 DEF ScheduleTypeOK
  <2> QED
    BY <1>6, <2>1 DEF Undisturbed, ExecutedAsScheduled
<1>8. ScheduledWhereItIs'
  BY <1>1, <1>4, <1>5, <1>6 DEF Undisturbed, ScheduledWhereItIs, NoMoreHave
<1> QED
  BY <1>5, <1>7, <1>8, OneStillHasIt DEF Undisturbed

\* A task is brought or removed: the worker tells the manager, unless it is recovering.
LEMMA AddTaskKeeps ==
  ASSUME ScheduleTypeOK, ScheduleTypeOK', Undisturbed, NEW t \in Tasks, NEW w \in Workers,
         AddTask(t, w)
  PROVE  Undisturbed'
<1> USE DEF managerVars
<1> DEFINE c == Cast("pickUpTasks", {t})
<1>1. /\ <<t, w>> \in asked /\ asked' = asked \ {<<t, w>>}
      /\ status[w] \in {"registered", "recovering"}
      /\ ownTasks' = [ownTasks EXCEPT ![w] = @ \cup {t}]
      /\ casts' = IF status[w] = "registered" /\ t \notin ownTasks[w]
                  THEN [casts EXCEPT ![w] = Append(@, c)] ELSE casts
      /\ UNCHANGED <<managerVars, status>>
  BY DEF AddTask
<1>2. OnlyOf(w) /\ casts[w] \in Seq(Casts) /\ ownTasks'[w] = ownTasks[w] \cup {t}
      /\ casts'[w] = IF status[w] = "registered" /\ t \notin ownTasks[w]
                     THEN Append(casts[w], c) ELSE casts[w]
  BY <1>1 DEF ScheduleTypeOK, OnlyOf
<1>3. c \in Casts /\ c.tasks = {t} /\ \A s \in Tasks : (Picks(c, s) <=> s = t) /\ ~Lays(c, s)
  BY CastsSent DEF Picks, Lays
<1> HIDE DEF c
<1>4. MeetAfter(w)
  <2> SUFFICES ASSUME w \in workers, NEW s \in Tasks
               PROVE  /\ LaysWhatIsThere(casts'[w], s, executing[w])
                      /\ s \in ownTasks'[w] <=> Brings(casts'[w], s, executing[w])
    BY <1>1 DEF MeetAfter
  <2>1. status[w] = "registered"
    BY <1>1 DEF Undisturbed, StatesAgree
  <2>2. /\ LaysWhatIsThere(casts[w], s, executing[w])
        /\ s \in ownTasks[w] <=> Brings(casts[w], s, executing[w])
    BY <2>1 DEF Undisturbed, LaidDownInOrder, ViewsMeet
  <2>3. CASE t \in ownTasks[w]
    BY <1>2, <2>2, <2>3
  <2>4. CASE t \notin ownTasks[w]
    <3>1. casts'[w] = Append(casts[w], c)
      BY <1>2, <2>1, <2>4
    <3>2. LaysWhatIsThere(Append(casts[w], c), s, executing[w])
      BY <1>2, <1>3, <2>2, SentCast
    <3>3. s = t => Brings(Append(casts[w], c), s, executing[w])
      BY <1>2, <1>3, SentCast
    <3>4. s # t => (Brings(Append(casts[w], c), s, executing[w]) <=> Brings(casts[w], s, executing[w]))
      BY <1>2, <1>3, SentCast
    <3> QED
      BY <1>2, <2>2, <3>1, <3>2, <3>3, <3>4
  <2> QED
    BY <2>3, <2>4
<1>5. StatesAgree'
  BY <1>1, <1>2 DEF Undisturbed, StatesAgree, OnlyOf
<1>6. NoMoreHave
  <2>1. Has(t, w)
    BY <1>1 DEF Has
  <2>2. ASSUME NEW s \in Tasks PROVE Mentions(casts'[w], s) => Mentions(casts[w], s) \/ s = t
    <3>1. Mentions(Append(casts[w], c), s) <=> Mentions(casts[w], s) \/ s \in c.tasks
      BY <1>2, <1>3, MentionedLess
    <3> QED
      BY <1>2, <1>3, <3>1
  <2> QED
    BY <1>1, <1>2, <2>1, <2>2 DEF NoMoreHave, Has, OnlyOf
<1>7. ExecutedAsScheduled' /\ ScheduledWhereItIs'
  BY <1>1, <1>6, StillScheduled DEF Undisturbed, ExecutedAsScheduled, Executed
<1> QED
  BY <1>2, <1>4, <1>5, <1>6, <1>7, ViewsKept, OneStillHasIt DEF Undisturbed

LEMMA RemoveTaskKeeps ==
  ASSUME ScheduleTypeOK, ScheduleTypeOK', Undisturbed, NEW t \in Tasks, NEW w \in Workers,
         RemoveTask(t, w)
  PROVE  Undisturbed'
<1> USE DEF managerVars
<1> DEFINE c == Cast("layDownTask", {t})
<1>1. /\ t \in ownTasks[w] /\ ownTasks' = [ownTasks EXCEPT ![w] = @ \ {t}]
      /\ casts' = IF status[w] = "registered" THEN [casts EXCEPT ![w] = Append(@, c)] ELSE casts
      /\ UNCHANGED <<managerVars, status, asked>>
  BY DEF RemoveTask
<1>2. OnlyOf(w) /\ casts[w] \in Seq(Casts) /\ ownTasks'[w] = ownTasks[w] \ {t}
      /\ casts'[w] = IF status[w] = "registered" THEN Append(casts[w], c) ELSE casts[w]
  BY <1>1 DEF ScheduleTypeOK, OnlyOf
<1>3. c \in Casts /\ c.tasks = {t} /\ \A s \in Tasks : (Lays(c, s) <=> s = t) /\ ~Picks(c, s)
  BY CastsSent DEF Picks, Lays
<1> HIDE DEF c
<1>4. status[w] \in {"registered", "recovering"} /\ Has(t, w)
  BY <1>1, OwnerIsThere DEF Undisturbed
<1>5. MeetAfter(w)
  <2> SUFFICES ASSUME w \in workers, NEW s \in Tasks
               PROVE  /\ LaysWhatIsThere(casts'[w], s, executing[w])
                      /\ s \in ownTasks'[w] <=> Brings(casts'[w], s, executing[w])
    BY <1>1 DEF MeetAfter
  <2>1. status[w] = "registered"
    BY <1>4 DEF Undisturbed, StatesAgree
  <2>2. /\ LaysWhatIsThere(casts[w], s, executing[w])
        /\ s \in ownTasks[w] <=> Brings(casts[w], s, executing[w])
    BY <2>1 DEF Undisturbed, LaidDownInOrder, ViewsMeet
  <2>3. LaysWhatIsThere(Append(casts[w], c), s, executing[w])
    BY <1>1, <1>2, <1>3, <2>2, SentCast
  <2>4. s = t => ~Brings(Append(casts[w], c), s, executing[w])
    BY <1>2, <1>3, SentCast
  <2>5. s # t => (Brings(Append(casts[w], c), s, executing[w]) <=> Brings(casts[w], s, executing[w]))
    BY <1>2, <1>3, SentCast
  <2> QED
    BY <1>2, <2>1, <2>2, <2>3, <2>4, <2>5
<1>6. StatesAgree'
  BY <1>1, <1>2, <1>4 DEF Undisturbed, StatesAgree, OnlyOf
<1>7. NoMoreHave
  <2>1. ASSUME NEW s \in Tasks PROVE Mentions(casts'[w], s) => Mentions(casts[w], s) \/ s = t
    <3>1. Mentions(Append(casts[w], c), s) <=> Mentions(casts[w], s) \/ s \in c.tasks
      BY <1>2, <1>3, MentionedLess
    <3> QED
      BY <1>2, <1>3, <3>1
  <2> QED
    BY <1>1, <1>2, <1>4, <2>1 DEF NoMoreHave, Has, OnlyOf
<1>8. ExecutedAsScheduled' /\ ScheduledWhereItIs'
  BY <1>1, <1>7, StillScheduled DEF Undisturbed, ExecutedAsScheduled, Executed
<1> QED
  BY <1>2, <1>5, <1>6, <1>7, <1>8, ViewsKept, OneStillHasIt DEF Undisturbed

-----------------------------------------------------------------------------
(* The manager that begins, and all steps                                   *)

LEMMA RestartKeeps ==
  ASSUME ScheduleTypeOK, ScheduleTypeOK', Undisturbed, Restart
  PROVE  Undisturbed'
<1>1. /\ service' = "initializing" /\ workers' = {} /\ UNCHANGED <<status, ownTasks, asked>>
      /\ \A w \in Workers : casts'[w] = <<>> /\ executing'[w] = {}
  BY DEF Restart
<1>2. StatesAgree'
  BY <1>1 DEF Undisturbed, StatesAgree
<1>3. NoMoreHave
  BY <1>1, NoCasts DEF NoMoreHave, Has
<1>4. LaidDownInOrder' /\ ViewsMeet' /\ ExecutedAsScheduled' /\ ScheduledWhereItIs'
  BY <1>1 DEF LaidDownInOrder, ViewsMeet, ExecutedAsScheduled, ScheduledWhereItIs
<1> QED
  BY <1>2, <1>3, <1>4, OneStillHasIt DEF Undisturbed

\* When the initial time is over and all are back, the manager knows where every task is.
LEMMA ServeKeeps ==
  ASSUME ScheduleTypeOK, ScheduleTypeOK', Undisturbed, Serve, AllBack
  PROVE  Undisturbed'
<1>1. /\ service' = "in-service"
      /\ UNCHANGED <<workers, available, executing, scheduled, workerVars, asked>>
  BY DEF Serve
<1> USE DEF workerVars
<1>2. StatesAgree'
  BY <1>1 DEF Undisturbed, StatesAgree, AllBack
<1>3. LaidDownInOrder' /\ ViewsMeet' /\ NoMoreHave /\ ExecutedAsScheduled'
  BY <1>1 DEF Undisturbed, LaidDownInOrder, ViewsMeet, NoMoreHave, Has, ExecutedAsScheduled, Executed
<1>4. ASSUME NEW t \in Tasks, NEW w \in Workers, Has(t, w) PROVE scheduled[t].worker = w
  <2>1. <<t, w>> \notin asked /\ casts[w] = <<>>
    BY DEF AllBack
  <2>2. t \in executing[w] /\ w \in workers
    <3>1. CASE t \in executing[w]
      BY <3>1 DEF Undisturbed, StatesAgree
    <3>2. CASE t \in ownTasks[w]
      <4>1. status[w] = "registered" /\ w \in workers
        BY <3>2, OwnerIsThere DEF Undisturbed, AllBack
      <4> QED
        BY <2>1, <3>2, <4>1, NoCasts DEF Undisturbed, ViewsMeet
    <3> QED
      BY <1>4, <2>1, <3>1, <3>2, NoCasts DEF Has
  <2>3. scheduled[t] = Executed(w)
    BY <2>2 DEF Undisturbed, ExecutedAsScheduled
  <2> QED
    BY <2>3 DEF Executed
<1>5. ScheduledWhereItIs'
  BY <1>1, <1>3, <1>4 DEF ScheduledWhereItIs, NoMoreHave
<1> QED
  BY <1>2, <1>3, <1>5, OneStillHasIt DEF Undisturbed

\* What the invariant speaks of does not change.
LEMMA SameKeeps ==
  ASSUME Undisturbed, asked' \subseteq asked,
         UNCHANGED <<service, workers, executing, scheduled, workerVars>>
  PROVE  Undisturbed'
<1> USE DEF workerVars
<1>1. StatesAgree' /\ LaidDownInOrder' /\ ViewsMeet' /\ NoMoreHave /\ ExecutedAsScheduled'
  BY DEF Undisturbed, StatesAgree, LaidDownInOrder, ViewsMeet, NoMoreHave, Has,
         ExecutedAsScheduled, Executed
<1>2. ScheduledWhereItIs'
  BY <1>1, StillScheduled DEF Undisturbed
<1> QED
  BY <1>1, <1>2, OneStillHasIt DEF Undisturbed

LEMMA InitScheduleInv == ScheduleInit => ScheduleInv
<1> SUFFICES ASSUME ScheduleInit PROVE ScheduleInv
  OBVIOUS
<1>1. ScheduleTypeOK
  BY ScheduleAssumption DEF ScheduleInit, ScheduleTypeOK, Unscheduled
<1>2. /\ service = "initializing" /\ workers = {} /\ asked = {}
      /\ status \in [Workers -> {"unregistered", "gone"}]
      /\ \A w \in Workers : casts[w] = <<>> /\ executing[w] = {} /\ ownTasks[w] = {}
  BY DEF ScheduleInit
<1>3. CastsFormed
  BY <1>2 DEF CastsFormed
<1>4. \A t \in Tasks, w \in Workers : ~Has(t, w)
  BY <1>2, NoCasts DEF Has
<1>5. StatesAgree /\ LaidDownInOrder /\ ViewsMeet /\ OneHasIt /\ ExecutedAsScheduled /\ ScheduledWhereItIs
  BY <1>2, <1>4 DEF StatesAgree, LaidDownInOrder, ViewsMeet, OneHasIt, ExecutedAsScheduled,
                    ScheduledWhereItIs
<1> QED
  BY <1>1, <1>3, <1>5 DEF ScheduleInv, Undisturbed

LEMMA NextKeepsScheduleInv == ScheduleInv /\ [ScheduleNext]_scheduleVars => ScheduleInv'
<1> SUFFICES ASSUME ScheduleInv, [ScheduleNext]_scheduleVars PROVE ScheduleInv'
  OBVIOUS
<1>1. ScheduleTypeOK /\ CastsFormed /\ ScheduleTypeOK' /\ CastsFormed'
  BY NextKeepsForms DEF ScheduleInv
<1> SUFFICES ASSUME lostCalls' = 0 PROVE Undisturbed'
  BY <1>1 DEF ScheduleInv
<1>2. ~CallLost /\ ~(lostCalls' = lostCalls + 1)
  BY <1>1 DEF ScheduleTypeOK, CallLost
<1> USE DEF managerVars, workerVars
<1>3. CASE WorkerNext
  <2>1. UNCHANGED lostCalls
    <3>1. ASSUME NEW w \in Workers, NEW low \in BOOLEAN, ReportLoad(w, low) PROVE UNCHANGED lostCalls
      BY <3>1 DEF ReportLoad
    <3>2. ASSUME NEW w \in Workers, Receive(w) \/ LoseCast(w) PROVE UNCHANGED lostCalls
      BY <1>2, <3>2 DEF Receive, LoseCast
    <3>3. ASSUME NEW w \in Workers, Join(w) \/ JoinUnanswered(w) PROVE UNCHANGED lostCalls
      BY <1>2, <3>3 DEF Join, JoinUnanswered
    <3>4. ASSUME NEW w \in Workers, WhoAreYou(w) \/ KeepAliveLost(w) PROVE UNCHANGED lostCalls
      BY <1>2, <3>4 DEF WhoAreYou, KeepAliveLost
    <3>5. ASSUME NEW w \in Workers, CheckAlive(w) \/ AgentEnds(w) PROVE UNCHANGED lostCalls
      BY <1>2, <3>5 DEF CheckAlive, AgentEnds
    <3> QED
      BY <1>3, <3>1, <3>2, <3>3, <3>4, <3>5 DEF WorkerNext
  <2>2. Undisturbed
    BY <2>1 DEF ScheduleInv
  <2>3. ASSUME NEW w \in Workers, NEW low \in BOOLEAN, ReportLoad(w, low) PROVE Undisturbed'
    BY <2>2, <2>3, SameKeeps DEF ReportLoad
  <2>4. ASSUME NEW w \in Workers, CheckAlive(w) PROVE Undisturbed'
    BY <1>1, <1>2, <2>2, <2>4, QuitKeeps DEF CheckAlive
  <2> QED
    BY <1>1, <1>2, <1>3, <2>2, <2>3, <2>4, ReceiveKeeps, JoinKeeps, WhoAreYouKeeps, AgentEndsKeeps
       DEF WorkerNext, LoseCast, JoinUnanswered, KeepAliveLost
<1>4. CASE TaskNext
  <2>1. UNCHANGED lostCalls
    BY <1>2, <1>4 DEF TaskNext, ScheduleAgain, Schedule, ReservationExpires, AddTask, NodeRefused,
                      RemoveTask
  <2>2. Undisturbed
    BY <2>1 DEF ScheduleInv
  <2>3. ASSUME NEW t \in Tasks, ReservationExpires(t) PROVE Undisturbed'
    <3>1. ~UnderWay(t)
      BY <1>2, <2>3 DEF ReservationExpires
    <3> QED
      BY <1>1, <2>2, <2>3, <3>1, ExpiryKeeps
  <2>4. ASSUME NEW t \in Tasks, NEW w \in Workers, NodeRefused(t, w) PROVE Undisturbed'
    BY <2>2, <2>4, SameKeeps DEF NodeRefused
  <2> QED
    BY <1>1, <1>4, <2>2, <2>3, <2>4, ScheduleAgainKeeps, ScheduleKeeps, AddTaskKeeps,
       RemoveTaskKeeps DEF TaskNext
<1>5. CASE Restart
  BY <1>1, <1>5, RestartKeeps DEF ScheduleInv, Restart
<1>6. CASE Serve
  <2>1. AllBack /\ UNCHANGED lostCalls
    BY <1>2, <1>6 DEF Serve
  <2> QED
    BY <1>1, <1>6, <2>1, ServeKeeps DEF ScheduleInv
<1>7. CASE UNCHANGED scheduleVars
  BY <1>7, SameKeeps DEF scheduleVars, ScheduleInv
<1> QED
  BY <1>3, <1>4, <1>5, <1>6, <1>7 DEF ScheduleNext

LEMMA ScheduleInvHolds == ScheduleSpec => []ScheduleInv
BY InitScheduleInv, NextKeepsScheduleInv, PTL DEF ScheduleSpec

-----------------------------------------------------------------------------
(* What follows                                                             *)

\* Until a call is lost no two workers have the same task, whoever asks for a worker and whenever,
\* whatever the order in which casts arrive, timers fire and the manager begins again.
THEOREM TaskStaysWhole == ScheduleSpec => []TaskNotSplit
<1>1. ASSUME ScheduleInv PROVE TaskNotSplit
  <2> SUFFICES ASSUME lostCalls = 0, NEW t \in Tasks
               PROVE  Cardinality({w \in Workers : t \in ownTasks[w]}) <= 1
    BY DEF TaskNotSplit
  <2> DEFINE owners == {w \in Workers : t \in ownTasks[w]}
  <2>1. \A v, w \in owners : v = w
    BY <1>1, OwnerIsThere DEF ScheduleInv, Undisturbed, OneHasIt
  <2>2. CASE owners = {}
    BY <2>2, FS_EmptySet
  <2>3. ASSUME NEW w \in owners PROVE Cardinality(owners) = 1
    <3>1. owners = {w}
      BY <2>1, <2>3
    <3> QED
      BY <3>1, FS_Singleton
  <2> QED
    BY <2>2, <2>3
<1> QED
  BY <1>1, ScheduleInvHolds, PTL

\* Every variable keeps its type; and until a call is lost, a worker and the manager have the same
\* tasks for it once the manager has received all it has cast.
THEOREM ViewsStayTogether == ScheduleSpec => []ScheduleConsistent
<1>1. ASSUME ScheduleInv PROVE ScheduleConsistent
  <2> SUFFICES ASSUME lostCalls = 0, NEW w \in workers, status[w] = "registered", casts[w] = <<>>
               PROVE  /\ executing[w] = ownTasks[w]
                      /\ \A t \in ownTasks[w] : scheduled[t] = Executed(w)
    BY <1>1 DEF ScheduleConsistent, ViewsAgree, ScheduleInv
  <2>1. w \in Workers /\ executing[w] \subseteq Tasks /\ ownTasks[w] \subseteq Tasks
    BY <1>1 DEF ScheduleInv, ScheduleTypeOK
  <2>2. \A t \in Tasks : t \in ownTasks[w] <=> t \in executing[w]
    BY <1>1, NoCasts DEF ScheduleInv, Undisturbed, ViewsMeet
  <2> QED
    BY <1>1, <2>1, <2>2 DEF ScheduleInv, Undisturbed, ExecutedAsScheduled, Executed
<1> QED
  BY <1>1, ScheduleInvHolds, PTL


-----------------------------------------------------------------------------
(* The processes of an agent                                                *)

-----------------------------------------------------------------------------
(* Lists of nodes                                                           *)

LEMMA LeastIs ==
  ASSUME NEW I, I \subseteq Nat, I # {}
  PROVE  Min(I) \in I /\ \A i \in I : Min(I) <= i
<1> DEFINE R == {p \in Nat \X Nat : p[1] < p[2]}
<1>1. IsWellFoundedOn(R, Nat)
  BY NatLessThanWellFounded DEF OpToRel
<1>2. PICK x \in I : \A y \in I : ~(<<y, x>> \in R)
  BY <1>1, WFMin
<1>3. \A y \in I : x <= y
  <2> SUFFICES ASSUME NEW y \in I PROVE x <= y
    OBVIOUS
  <2>1. <<y, x>> \notin R /\ x \in Nat /\ y \in Nat
    BY <1>2
  <2>2. <<y, x>> \in R <=> y < x
    BY <2>1
  <2> QED
    BY <2>1, <2>2
<1>4. \E y \in I : \A z \in I : y <= z
  BY <1>3
<1> QED
  BY <1>4, Zenon DEF Min

\* A place of a list is cut out of it.
LEMMA CutOut ==
  ASSUME NEW S, NEW q \in Seq(S), NEW i \in 1..Len(q)
  PROVE  /\ RemoveAt(q, i) \in Seq(S) /\ Len(RemoveAt(q, i)) = Len(q) - 1
         /\ \A j \in 1..Len(q) - 1 : RemoveAt(q, i)[j] = IF j < i THEN q[j] ELSE q[j + 1]
<1> DEFINE a == SubSeq(q, 1, i - 1)
           b == SubSeq(q, i + 1, Len(q))
<1>1. a \in Seq(S) /\ Len(a) = i - 1 /\ \A j \in 1..i - 1 : a[j] = q[j]
  OBVIOUS
<1>2. b \in Seq(S) /\ Len(b) = Len(q) - i /\ \A j \in 1..Len(q) - i : b[j] = q[i + j]
  OBVIOUS
<1>3. RemoveAt(q, i) = a \o b
  BY DEF RemoveAt
<1> HIDE DEF a, b
<1> DEFINE p == a \o b
<1>4. /\ p \in Seq(S) /\ Len(p) = Len(a) + Len(b)
      /\ \A j \in 1..Len(a) + Len(b) : p[j] = IF j <= Len(a) THEN a[j] ELSE b[j - Len(a)]
  BY <1>1, <1>2, ConcatProperties
<1> HIDE DEF p
<1>5. Len(q) \in Nat /\ Len(p) = Len(q) - 1 /\ \A j \in 1..Len(q) - 1 : j \in 1..Len(a) + Len(b)
  BY <1>1, <1>2, <1>4
<1>6. \A j \in 1..Len(q) - 1 : j < i => p[j] = q[j]
  BY <1>1, <1>2, <1>4, <1>5
<1>7. ASSUME NEW j \in 1..Len(q) - 1, ~(j < i) PROVE p[j] = q[j + 1]
  <2>1. j - Len(a) \in 1..Len(q) - i /\ ~(j <= Len(a))
    BY <1>1, <1>5, <1>7
  <2>2. p[j] = b[j - Len(a)]
    BY <1>4, <1>5, <2>1
  <2>3. b[j - Len(a)] = q[i + (j - Len(a))] /\ i + (j - Len(a)) = j + 1
    BY <1>1, <1>2, <2>1
  <2> QED
    BY <2>2, <2>3
<1> QED
  BY <1>3, <1>4, <1>5, <1>6, <1>7 DEF p

LEMMA PlacesOf ==
  ASSUME NEW S, NEW q \in Seq(S)
  PROVE  /\ Len(q) \in Nat /\ DOMAIN q = 1..Len(q)
         /\ \A x : x \in ToSet(q) <=> \E i \in 1..Len(q) : q[i] = x
         /\ ToSet(q) \subseteq S
BY DEF ToSet

\* What indexOf and splice leave of a list: nothing of the element, if it was there once.
LEMMA WithoutOne ==
  ASSUME NEW S, NEW q \in Seq(S), NEW x, x # undefined, Once(q)
  PROVE  /\ RemoveFirst(q, x) \in Seq(S) /\ Len(RemoveFirst(q, x)) <= Len(q)
         /\ ToSet(RemoveFirst(q, x)) = ToSet(q) \ {x} /\ Once(RemoveFirst(q, x))
<1> DEFINE I == {i \in 1..Len(q) : q[i] = x}
           p == RemoveFirst(q, x)
<1>0. Len(q) \in Nat /\ DOMAIN q = 1..Len(q) /\ \A y : y \in ToSet(q) <=> \E i \in 1..Len(q) : q[i] = y
  BY PlacesOf
<1>1. CASE I = {}
  <2>1. p = q /\ x \notin ToSet(q)
    BY <1>0, <1>1 DEF RemoveFirst
  <2> QED
    BY <1>0, <2>1
<1>2. CASE I # {}
  <2>0. I \subseteq Nat
    BY <1>0
  <2>1. Min(I) \in I
    BY <1>2, <2>0, LeastIs
  <2>2. PICK i \in 1..Len(q) : i = Min(I) /\ q[i] = x
    BY <2>1
  <2>3. SelectInSeq(q, LAMBDA v : v = x) = i
    BY <1>2, <2>2 DEF SelectInSeq
  <2>4. p = RemoveAt(q, i)
    BY <1>2, <2>3 DEF RemoveFirst
  <2>5. /\ p \in Seq(S) /\ Len(p) = Len(q) - 1
        /\ \A j \in 1..Len(q) - 1 : p[j] = IF j < i THEN q[j] ELSE q[j + 1]
    BY <2>4, CutOut
  <2> HIDE DEF p, I
  <2>6. \A j \in 1..Len(q) : q[j] = x => j = i
    BY <1>0, <2>2 DEF Once
  <2>7. \A y : y \in ToSet(p) <=> \E j \in 1..Len(q) - 1 : p[j] = y
    BY <2>5, PlacesOf
  <2>8. ASSUME NEW y \in ToSet(p) PROVE y \in ToSet(q) \ {x}
    <3>1. PICK j \in 1..Len(q) - 1 : p[j] = y
      BY <2>7
    <3>2. PICK k \in 1..Len(q) : q[k] = y /\ k # i
      BY <1>0, <2>5, <3>1
    <3> QED
      BY <1>0, <2>6, <3>2
  <2>9. ASSUME NEW y \in ToSet(q) \ {x} PROVE y \in ToSet(p)
    <3>1. PICK k \in 1..Len(q) : q[k] = y /\ k # i
      BY <1>0, <2>2
    <3>2. CASE k < i
      <4>1. k \in 1..Len(q) - 1 /\ p[k] = y
        BY <2>5, <3>1, <3>2, <1>0
      <4> QED
        BY <2>7, <4>1
    <3>3. CASE k > i
      <4>1. k - 1 \in 1..Len(q) - 1 /\ p[k - 1] = y
        BY <2>5, <3>1, <3>3, <1>0
      <4> QED
        BY <2>7, <4>1
    <3> QED
      BY <1>0, <3>1, <3>2, <3>3
  <2>10. Once(p)
    <3> SUFFICES ASSUME NEW j \in 1..Len(q) - 1, NEW k \in 1..Len(q) - 1, p[j] = p[k], p[j] # undefined
                 PROVE  j = k
      BY <2>5, PlacesOf DEF Once
    <3>1. /\ (IF j < i THEN j ELSE j + 1) \in 1..Len(q) /\ p[j] = q[IF j < i THEN j ELSE j + 1]
          /\ (IF k < i THEN k ELSE k + 1) \in 1..Len(q) /\ p[k] = q[IF k < i THEN k ELSE k + 1]
      BY <1>0, <2>5
    <3>2. (IF j < i THEN j ELSE j + 1) = (IF k < i THEN k ELSE k + 1)
      BY <1>0, <3>1 DEF Once
    <3> QED
      BY <3>2
  <2>11. ToSet(p) = ToSet(q) \ {x}
    BY <2>8, <2>9
  <2> QED
    BY <1>0, <2>5, <2>10, <2>11 DEF p
<1> QED
  BY <1>1, <1>2

LEMMA Appended ==
  ASSUME NEW S, NEW q \in Seq(S), NEW x \in S
  PROVE  /\ Append(q, x) \in Seq(S) /\ Len(Append(q, x)) = Len(q) + 1
         /\ ToSet(Append(q, x)) = ToSet(q) \cup {x}
         /\ Once(q) /\ (x \in ToSet(q) => x = undefined) => Once(Append(q, x))
<1> DEFINE p == Append(q, x)
<1>0. Len(q) \in Nat /\ DOMAIN q = 1..Len(q) /\ \A y : y \in ToSet(q) <=> \E i \in 1..Len(q) : q[i] = y
  BY PlacesOf
<1>1. p \in Seq(S) /\ Len(p) = Len(q) + 1 /\ p[Len(q) + 1] = x /\ \A i \in 1..Len(q) : p[i] = q[i]
  BY AppendProperties
<1> HIDE DEF p
<1>2. DOMAIN p = 1..Len(q) + 1 /\ \A y : y \in ToSet(p) <=> \E i \in 1..Len(q) + 1 : p[i] = y
  BY <1>1, PlacesOf
<1>3. \A i \in 1..Len(q) + 1 : i \in 1..Len(q) \/ i = Len(q) + 1
  BY <1>0
<1>4. \A i \in 1..Len(q) : i \in 1..Len(q) + 1
  BY <1>0
<1>5. Len(q) + 1 \in 1..Len(q) + 1
  BY <1>0
<1>6. ToSet(p) = ToSet(q) \cup {x}
  <2>1. \A y \in ToSet(p) : y \in ToSet(q) \cup {x}
    BY <1>0, <1>1, <1>2, <1>3
  <2>2. \A y \in ToSet(q) : y \in ToSet(p)
    BY <1>0, <1>1, <1>2, <1>4
  <2>3. x \in ToSet(p)
    BY <1>1, <1>2, <1>5
  <2> QED
    BY <2>1, <2>2, <2>3
<1>7. Once(q) /\ (x \in ToSet(q) => x = undefined) => Once(p)
  BY <1>0, <1>1, <1>2, <1>3 DEF Once
<1> QED
  BY <1>1, <1>6, <1>7 DEF p

LEMMA Shifted ==
  ASSUME NEW S, NEW q \in Seq(S), q # <<>>
  PROVE  /\ Head(q) \in ToSet(q) /\ Tail(q) \in Seq(S) /\ Len(Tail(q)) = Len(q) - 1
         /\ ToSet(q) = {Head(q)} \cup ToSet(Tail(q))
         /\ Once(q) => Once(Tail(q)) /\ (Head(q) \in ToSet(Tail(q)) => Head(q) = undefined)
<1> DEFINE p == Tail(q)
           h == Head(q)
<1>0. /\ Len(q) \in Nat /\ Len(q) > 0 /\ DOMAIN q = 1..Len(q)
      /\ \A y : y \in ToSet(q) <=> \E i \in 1..Len(q) : q[i] = y
  BY PlacesOf
<1>1. p \in Seq(S) /\ Len(p) = Len(q) - 1 /\ h = q[1] /\ \A i \in 1..Len(q) - 1 : p[i] = q[i + 1]
  BY HeadTailProperties
<1> HIDE DEF p, h
<1>2. DOMAIN p = 1..Len(q) - 1 /\ \A y : y \in ToSet(p) <=> \E i \in 1..Len(q) - 1 : p[i] = y
  BY <1>1, PlacesOf
<1>3. \A i \in 1..Len(q) : i = 1 \/ (i - 1 \in 1..Len(q) - 1 /\ p[i - 1] = q[i])
  BY <1>0, <1>1
<1>4. 1 \in 1..Len(q) /\ \A i \in 1..Len(q) - 1 : i + 1 \in 1..Len(q)
  BY <1>0
<1>5. ToSet(q) = {h} \cup ToSet(p)
  <2>1. \A y \in ToSet(q) : y \in {h} \cup ToSet(p)
    BY <1>0, <1>1, <1>2, <1>3
  <2>2. h \in ToSet(q)
    BY <1>0, <1>1, <1>4
  <2>3. \A y \in ToSet(p) : y \in ToSet(q)
    BY <1>0, <1>1, <1>2, <1>4
  <2> QED
    BY <2>1, <2>2, <2>3
<1>6. ASSUME Once(q) PROVE Once(p) /\ (h \in ToSet(p) => h = undefined)
  <2>1. \A i, j \in 1..Len(q) : q[i] = q[j] /\ q[i] # undefined => i = j
    BY <1>0, <1>6 DEF Once
  <2>2. ASSUME NEW i \in 1..Len(q) - 1, NEW j \in 1..Len(q) - 1, p[i] = p[j], p[i] # undefined
        PROVE  i = j
    <3>1. i + 1 = j + 1
      BY <1>1, <1>4, <2>1, <2>2
    <3> QED
      BY <1>0, <3>1
  <2>3. Once(p)
    BY <1>2, <2>2 DEF Once
  <2>4. ASSUME h \in ToSet(p), h # undefined PROVE FALSE
    <3>1. PICK i \in 1..Len(q) - 1 : p[i] = h
      BY <1>2, <2>4
    <3>2. i + 1 = 1
      BY <1>1, <1>4, <2>1, <2>4, <3>1
    <3> QED
      BY <1>0, <3>2
  <2> QED
    BY <2>3, <2>4
<1> QED
  BY <1>1, <1>5, <1>6 DEF p, h

LEMMA NewNodesAre ==
  ASSUME launched \in Nat, NEW k \in Nat, NEW S, launched + 1..launched + k \subseteq S
  PROVE  /\ NewNodes(k) \in Seq(S) /\ Len(NewNodes(k)) = k
         /\ \A i \in 1..k : NewNodes(k)[i] = launched + i
<1> DEFINE new == NewNodes(k)
<1>1. \A i \in 1..k : launched + i \in S
  OBVIOUS
<1>2. new \in [1..k -> S] /\ \A i \in 1..k : new[i] = launched + i
  BY <1>1 DEF NewNodes
<1> HIDE DEF new
<1>3. new \in Seq(S)
  BY <1>2
<1>4. DOMAIN new = 1..Len(new) /\ Len(new) \in Nat
  BY <1>3
<1>5. 1..k = 1..Len(new)
  BY <1>2, <1>4
<1> QED
  BY <1>2, <1>3, <1>4, <1>5 DEF new

LEMMA Chained ==
  ASSUME NEW S, NEW a \in Seq(S), NEW b \in Seq(S)
  PROVE  /\ a \o b \in Seq(S) /\ Len(a \o b) = Len(a) + Len(b)
         /\ \A i \in 1..Len(a) + Len(b) : (a \o b)[i] = IF i <= Len(a) THEN a[i] ELSE b[i - Len(a)]
BY ConcatProperties

\* The nodes that launchNode adds to a list have numbers that no node had before.
LEMMA WithNew ==
  ASSUME NEW S, NEW q \in Seq(S), NEW first \in Nat, NEW k \in Nat,
         NEW new \in Seq(S), Len(new) = k, \A i \in 1..k : new[i] = first + i
  PROVE  /\ q \o new \in Seq(S) /\ Len(q \o new) = Len(q) + k
         /\ ToSet(q \o new) = ToSet(q) \cup (first + 1..first + k)
         /\ Once(q) /\ ToSet(q) \subseteq 0..first => Once(q \o new)
<1> DEFINE p == q \o new
<1>0. /\ Len(q) \in Nat /\ DOMAIN q = 1..Len(q)
      /\ \A y : y \in ToSet(q) <=> \E i \in 1..Len(q) : q[i] = y
  BY PlacesOf
<1>1. new \in Seq(S) /\ Len(new) = k /\ \A i \in 1..k : new[i] = first + i
  OBVIOUS
<1>2. /\ p \in Seq(S) /\ Len(p) = Len(q) + k
      /\ \A i \in 1..Len(q) + k : p[i] = IF i <= Len(q) THEN q[i] ELSE new[i - Len(q)]
  <2>1. /\ p \in Seq(S) /\ Len(p) = Len(q) + Len(new)
        /\ \A i \in 1..Len(q) + Len(new) : p[i] = IF i <= Len(q) THEN q[i] ELSE new[i - Len(q)]
    BY Chained
  <2> HIDE DEF p
  <2> QED
    BY <1>1, <2>1
<1> HIDE DEF p
<1>3. DOMAIN p = 1..Len(q) + k /\ \A y : y \in ToSet(p) <=> \E i \in 1..Len(q) + k : p[i] = y
  <2>1. DOMAIN p = 1..Len(p) /\ \A y : y \in ToSet(p) <=> \E i \in 1..Len(p) : p[i] = y
    BY <1>2, PlacesOf
  <2> QED
    BY <1>2, <2>1
<1>4. ASSUME NEW i \in 1..Len(q) + k
      PROVE  \/ i \in 1..Len(q) /\ p[i] = q[i]
             \/ i > Len(q) /\ p[i] = first + (i - Len(q)) /\ p[i] \in first + 1..first + k
  <2>1. CASE i <= Len(q)
    BY <1>0, <1>2, <2>1
  <2>2. CASE i > Len(q)
    <3>1. i - Len(q) \in 1..k
      BY <1>0, <2>2
    <3>2. p[i] = new[i - Len(q)]
      BY <1>0, <1>2, <2>2
    <3> QED
      BY <1>0, <1>1, <2>2, <3>1, <3>2
  <2> QED
    BY <1>0, <2>1, <2>2
<1>5. ToSet(p) = ToSet(q) \cup (first + 1..first + k)
  <2>1. \A y \in ToSet(p) : y \in ToSet(q) \cup (first + 1..first + k)
    BY <1>0, <1>3, <1>4
  <2>2. ASSUME NEW y \in ToSet(q) PROVE y \in ToSet(p)
    <3>1. PICK i \in 1..Len(q) : q[i] = y
      BY <1>0
    <3>2. i \in 1..Len(q) + k /\ p[i] = y
      BY <1>0, <1>2, <3>1
    <3> QED
      BY <1>3, <3>2
  <2>3. ASSUME NEW y \in first + 1..first + k PROVE y \in ToSet(p)
    <3>1. Len(q) + (y - first) \in 1..Len(q) + k /\ ~(Len(q) + (y - first) <= Len(q))
      BY <1>0
    <3>2. p[Len(q) + (y - first)] = y
      BY <1>0, <1>4, <3>1
    <3> QED
      BY <1>3, <3>1, <3>2
  <2> QED
    BY <2>1, <2>2, <2>3
<1>6. ASSUME Once(q), ToSet(q) \subseteq 0..first PROVE Once(p)
  <2> SUFFICES ASSUME NEW i \in 1..Len(q) + k, NEW j \in 1..Len(q) + k, p[i] = p[j], p[i] # undefined
               PROVE  i = j
    BY <1>3 DEF Once
  <2>1. \A m \in 1..Len(q) : q[m] \in 0..first
    BY <1>0, <1>6
  <2>2. CASE i \in 1..Len(q) /\ j \in 1..Len(q)
    <3>1. p[i] = q[i] /\ p[j] = q[j]
      BY <1>0, <1>2, <2>2
    <3> QED
      BY <1>0, <1>6, <2>2, <3>1 DEF Once
  <2>3. CASE i > Len(q) /\ j > Len(q)
    BY <1>0, <1>4, <2>3
  <2>4. CASE i \in 1..Len(q) /\ j > Len(q)
    BY <1>0, <1>2, <1>4, <2>1, <2>4
  <2>5. CASE j \in 1..Len(q) /\ i > Len(q)
    BY <1>0, <1>2, <1>4, <2>1, <2>5
  <2> QED
    BY <1>0, <2>2, <2>3, <2>4, <2>5
<1> QED
  BY <1>2, <1>5, <1>6 DEF p

\* A list has no more different elements than places.
LEMMA NoMoreThanPlaces ==
  ASSUME NEW S, NEW q \in Seq(S)
  PROVE  IsFiniteSet(ToSet(q)) /\ Cardinality(ToSet(q)) <= Len(q) /\ Cardinality(ToSet(q)) \in Nat
<1>1. Len(q) \in Nat /\ DOMAIN q = 1..Len(q) /\ \A y : y \in ToSet(q) <=> \E i \in 1..Len(q) : q[i] = y
  BY PlacesOf
<1>2. q \in Surjection(1..Len(q), ToSet(q))
  <2>1. q \in [1..Len(q) -> ToSet(q)]
    BY <1>1
  <2> QED
    BY <1>1, <2>1 DEF Surjection
<1>3. IsFiniteSet(1..Len(q)) /\ Cardinality(1..Len(q)) = Len(q)
  BY <1>1, FS_Interval
<1>4. IsFiniteSet(ToSet(q)) /\ Cardinality(ToSet(q)) <= Cardinality(1..Len(q))
  BY <1>2, <1>3, FS_Surjection
<1> QED
  BY <1>3, <1>4, FS_CardinalityType

LEMMA NothingButUndefined ==
  ASSUME NEW S, NEW q \in Seq(S)
  PROVE  /\ NoNodes(q) \in Seq({undefined}) /\ Once(NoNodes(q))
         /\ ToSet(NoNodes(q)) = ToSet(q) \cap {undefined}
<1> DEFINE J == {j \in DOMAIN q : q[j] = undefined}
           n == Cardinality(J)
<1>1. Len(q) \in Nat /\ DOMAIN q = 1..Len(q) /\ \A y : y \in ToSet(q) <=> \E i \in 1..Len(q) : q[i] = y
  BY PlacesOf
<1>2. n \in Nat /\ (n = 0 <=> J = {})
  <2>1. IsFiniteSet(1..Len(q)) /\ J \in SUBSET (1..Len(q))
    BY <1>1, FS_Interval
  <2>2. IsFiniteSet(J)
    BY <2>1, FS_Subset
  <2> QED
    BY <2>2, FS_CardinalityType, FS_EmptySet
<1>3. NoNodes(q) = [i \in 1..n |-> undefined]
  BY DEF NoNodes
<1>4. J # {} <=> undefined \in ToSet(q)
  BY <1>1
<1> HIDE DEF n, J
<1>5. NoNodes(q) \in [1..n -> {undefined}]
  BY <1>3
<1>6. NoNodes(q) \in Seq({undefined}) /\ DOMAIN NoNodes(q) = 1..n
  BY <1>2, <1>5
<1>7. Once(NoNodes(q))
  BY <1>3 DEF Once
<1>8. 1..n = {} <=> n = 0
  BY <1>2
<1>9. ToSet(NoNodes(q)) = ToSet(q) \cap {undefined}
  BY <1>2, <1>3, <1>4, <1>6, <1>8 DEF ToSet
<1> QED
  BY <1>6, <1>7, <1>9

-----------------------------------------------------------------------------
(* What the steps preserve                                                  *)

Entry == Nodes \cup {undefined}

\* Lists that hold the nodes in known, each once, and perhaps what is not a node.
ListsHold(idle, used, known) ==
  /\ idle \in Seq(Entry) /\ used \in Seq(Entry) /\ Once(idle) /\ Once(used)
  /\ ToSet(used) \cap ToSet(idle) \subseteq {undefined}
  /\ (ToSet(used) \cup ToSet(idle)) \ {undefined} = known

\* The processes, and where they are listed.
Placed ==
  /\ launched \in 0..MaxLaunches /\ ListsHold(idle_nodes, nodes, processes)
  /\ processes \subseteq 1..launched /\ Cardinality(processes) <= MaxNodes

\* The types of what the steps change one by one, and children that were started.
Typed ==
  /\ kind \in Kinds /\ RoomOf \in [Gets -> Rooms]
  /\ child \in [Nodes -> {"none", "starting", "ready", "failed", "stopping", "killed", "closed"}]
  /\ \A n \in Nodes : n > launched => child[n] = "none"
  /\ watched \subseteq 1..launched
  /\ keys \in [Entry -> SUBSET Rooms] /\ entries \in [Nodes -> SUBSET Gets]
  /\ spawn_failed \in BOOLEAN /\ timers \in [{"fill", "spawn"} -> Nat]
  /\ where \in [Gets -> Entry] /\ call \in [Gets -> {"none", "waiting", "leased", "over"}]
  /\ failures \in Seq({"spawn", "node", "loss"}) /\ Len(failures) <= MaxFailures

\* Tasks are on nodes that are there, and a call waits for, or has, a node that was started.
TasksListed ==
  /\ \A n \in Nodes : keys[n] # {} => n \in processes
  /\ \A g \in Gets : call[g] \in {"waiting", "leased"} => where[g] \in 1..launched

Together ==
  consumeNodeByRoom /\ Undamaged =>
    \A n, m \in Nodes : \A r \in Rooms : r \in keys[n] /\ r \in keys[m] => n = m

\* Unless nodes are reused, a node has tasks of one room, none while it is idle, and knows of
\* every call that waits for it or has it.
OneRoomEach == \A n \in Nodes : \A r, s \in keys[n] : r = s
IdleFree == undefined \notin ToSet(idle_nodes) /\ \A n \in ToSet(idle_nodes) : keys[n] = {}
CallsHeld ==
  \A g \in Gets : where[g] \in processes =>
    /\ call[g] = "waiting" => RoomOf[g] \in keys[where[g]]
    /\ call[g] = "leased" => g \in entries[where[g]]
NotReused == kind # "access" => OneRoomEach /\ IdleFree /\ CallsHeld

TasksAgree == TasksListed /\ Together /\ NotReused

PoolInv == Placed /\ Typed /\ TasksAgree

LEMMA StartIs ==
  /\ AtStart \in 0..MaxLaunches /\ AtStart <= MaxNodes
  /\ MaxNodes \in Nat /\ MaxLaunches \in Nat /\ MaxFailures \in Nat
BY PoolAssumption DEF AtStart, Less

LEMMA ToStartIs ==
  ASSUME launched \in 0..MaxLaunches, NEW idle \in Nat, NEW used \in Nat
  PROVE  /\ ToStart(idle, used) \in Nat /\ launched + ToStart(idle, used) <= MaxLaunches
         /\ ToStart(idle, used) > 0 => idle + used + ToStart(idle, used) <= MaxNodes
BY PoolAssumption DEF ToStart, Less

\* launchNode keeps the lists and the limit, when there is room for what it starts.
LEMMA LaunchPlaces ==
  ASSUME launched \in 0..MaxLaunches, NEW k \in Nat, launched + k <= MaxLaunches,
         NEW known, known \subseteq 1..launched, Cardinality(known) <= MaxNodes,
         NEW idle, NEW used, ListsHold(idle, used, known),
         k > 0 => Len(idle) + Len(used) + k <= MaxNodes,
         NEW kids, Launch(k, known, idle, used, kids)
  PROVE  /\ Placed' /\ launched' = launched + k
         /\ processes' = known \cup (launched + 1..launched')
         /\ ToSet(idle_nodes') = ToSet(idle) \cup (launched + 1..launched') /\ nodes' = used
<1> DEFINE new == launched + 1..launched + k
<1>0. MaxLaunches \in Nat /\ MaxNodes \in Nat /\ launched \in Nat
  BY StartIs
<1>1. /\ launched' = launched + k /\ processes' = known \cup new
      /\ idle_nodes' = idle \o NewNodes(k) /\ nodes' = used
  BY DEF Launch
<1>2. /\ idle \in Seq(Entry) /\ used \in Seq(Entry) /\ Once(idle) /\ Once(used)
      /\ ToSet(used) \cap ToSet(idle) \subseteq {undefined}
      /\ (ToSet(used) \cup ToSet(idle)) \ {undefined} = known
  BY DEF ListsHold
<1>3. new \subseteq Entry /\ undefined \notin new
  BY <1>0 DEF Entry, Nodes, undefined
<1>4. /\ idle_nodes' \in Seq(Entry) /\ ToSet(idle_nodes') = ToSet(idle) \cup new
      /\ Once(idle) /\ ToSet(idle) \subseteq 0..launched => Once(idle_nodes')
  <2>1. launched + 1..launched + k \subseteq Entry
    BY <1>3
  <2>2. /\ NewNodes(k) \in Seq(Entry) /\ Len(NewNodes(k)) = k
        /\ \A i \in 1..k : NewNodes(k)[i] = launched + i
    BY <1>0, <2>1, NewNodesAre
  <2>3. /\ idle \o NewNodes(k) \in Seq(Entry)
        /\ ToSet(idle \o NewNodes(k)) = ToSet(idle) \cup (launched + 1..launched + k)
        /\ Once(idle) /\ ToSet(idle) \subseteq 0..launched => Once(idle \o NewNodes(k))
    <3>1. idle \in Seq(Entry) /\ launched \in Nat /\ k \in Nat
      BY <1>0, <1>2
    <3> QED
      BY <3>1, <2>2, WithNew
  <2> QED
    BY <1>1, <2>3, Zenon
<1>5. ToSet(idle) \subseteq 0..launched /\ ToSet(used) \subseteq 0..launched
  <2>1. \A n \in ToSet(idle) \cup ToSet(used) : n = undefined \/ n \in known
    BY <1>2
  <2>2. \A n \in known : n \in 0..launched
    BY <1>0
  <2>3. undefined \in 0..launched
    BY <1>0 DEF undefined
  <2> QED
    BY <2>1, <2>2, <2>3, Zenon
<1>6. ListsHold(idle_nodes', nodes', processes')
  <2>1. \A n \in new : n \notin ToSet(used)
    BY <1>0, <1>5
  <2> QED
    BY <1>1, <1>2, <1>3, <1>4, <1>5, <2>1 DEF ListsHold
<1>7. processes' \subseteq 1..launched'
  BY <1>0, <1>1
<1>8. Cardinality(processes') <= MaxNodes
  <2>1. CASE k = 0
    <3>1. processes' = known
      BY <1>0, <1>1, <2>1
    <3> QED
      BY <3>1
  <2>2. CASE k > 0
    <3>1. /\ IsFiniteSet(ToSet(idle)) /\ Cardinality(ToSet(idle)) <= Len(idle)
          /\ Cardinality(ToSet(idle)) \in Nat /\ Len(idle) \in Nat
      BY <1>2, NoMoreThanPlaces
    <3>2. /\ IsFiniteSet(ToSet(used)) /\ Cardinality(ToSet(used)) <= Len(used)
          /\ Cardinality(ToSet(used)) \in Nat /\ Len(used) \in Nat
      BY <1>2, NoMoreThanPlaces
    <3>3. IsFiniteSet(new) /\ Cardinality(new) = k
      <4>1. launched + 1 \in Int /\ launched + k \in Int /\ ~(launched + 1 > launched + k)
        BY <1>0, <2>2
      <4>2. (launched + k) - (launched + 1) + 1 = k
        BY <1>0
      <4> QED
        BY <4>1, <4>2, FS_Interval
    <3>4. /\ IsFiniteSet(ToSet(used) \cup ToSet(idle)) /\ IsFiniteSet(ToSet(used) \cap ToSet(idle))
          /\ Cardinality(ToSet(used) \cup ToSet(idle)) =
               Cardinality(ToSet(used)) + Cardinality(ToSet(idle)) - Cardinality(ToSet(used) \cap ToSet(idle))
          /\ Cardinality(ToSet(used) \cap ToSet(idle)) \in Nat
      BY <3>1, <3>2, FS_Union, FS_Intersection, FS_CardinalityType
    <3>5. known \in SUBSET (ToSet(used) \cup ToSet(idle))
      BY <1>2
    <3>6. /\ IsFiniteSet(known) /\ Cardinality(known) \in Nat
          /\ Cardinality(known) <= Cardinality(ToSet(used) \cup ToSet(idle))
      BY <3>4, <3>5, FS_Subset, FS_CardinalityType
    <3>7. /\ Cardinality(known \cup new) = Cardinality(known) + Cardinality(new) - Cardinality(known \cap new)
          /\ IsFiniteSet(known \cap new) /\ Cardinality(known \cap new) \in Nat
      BY <3>3, <3>6, FS_Union, FS_Intersection, FS_CardinalityType
    <3>8. Cardinality(known \cup new) <= Len(idle) + Len(used) + k
      BY <3>1, <3>2, <3>3, <3>4, <3>6, <3>7
    <3>9. Cardinality(known \cup new) \in Nat
      BY <3>3, <3>6, FS_Union, FS_CardinalityType
    <3> QED
      BY <1>0, <1>1, <2>2, <3>1, <3>2, <3>8, <3>9
  <2> QED
    BY <2>1, <2>2
<1>9. launched' \in 0..MaxLaunches
  BY <1>0, <1>1
<1> QED
  BY <1>1, <1>4, <1>6, <1>7, <1>8, <1>9 DEF Placed, ListsHold

\* Nodes that are taken out of the lists leave the others in them.
LEMMA TakenOut ==
  ASSUME Placed, NEW n \in Nodes
  PROVE  /\ ListsHold(IdleWithout(n), UsedWithout(n), processes \ {n})
         /\ Cardinality(processes \ {n}) <= MaxNodes /\ processes \ {n} \subseteq 1..launched
         /\ ToSet(IdleWithout(n)) = ToSet(idle_nodes) \ {n} /\ ToSet(UsedWithout(n)) = ToSet(nodes) \ {n}
         /\ Len(IdleWithout(n)) \in Nat /\ Len(UsedWithout(n)) \in Nat
<1>1. n # undefined
  BY DEF Nodes, undefined
<1>2. /\ idle_nodes \in Seq(Entry) /\ nodes \in Seq(Entry) /\ Once(idle_nodes) /\ Once(nodes)
      /\ ToSet(nodes) \cap ToSet(idle_nodes) \subseteq {undefined}
      /\ (ToSet(nodes) \cup ToSet(idle_nodes)) \ {undefined} = processes
  BY DEF Placed, ListsHold
<1>3. /\ IdleWithout(n) \in Seq(Entry) /\ ToSet(IdleWithout(n)) = ToSet(idle_nodes) \ {n} /\ Once(IdleWithout(n))
  BY <1>1, <1>2, WithoutOne DEF IdleWithout
<1>4. /\ UsedWithout(n) \in Seq(Entry) /\ ToSet(UsedWithout(n)) = ToSet(nodes) \ {n} /\ Once(UsedWithout(n))
  BY <1>1, <1>2, WithoutOne DEF UsedWithout
<1>5. ListsHold(IdleWithout(n), UsedWithout(n), processes \ {n})
  BY <1>1, <1>2, <1>3, <1>4 DEF ListsHold
<1>6. Cardinality(processes \ {n}) <= MaxNodes
  <2>1. IsFiniteSet(1..launched) /\ processes \in SUBSET (1..launched)
    BY FS_Interval DEF Placed
  <2>2. IsFiniteSet(processes) /\ processes \ {n} \in SUBSET processes
    BY <2>1, FS_Subset
  <2>3. /\ Cardinality(processes \ {n}) <= Cardinality(processes) /\ IsFiniteSet(processes \ {n})
        /\ Cardinality(processes) \in Nat
    BY <2>2, FS_Subset, FS_CardinalityType
  <2>4. Cardinality(processes \ {n}) \in Nat
    BY <2>3, FS_CardinalityType
  <2> QED
    BY <2>3, <2>4, StartIs DEF Placed
<1> QED
  BY <1>3, <1>4, <1>5, <1>6, PlacesOf DEF Placed

-----------------------------------------------------------------------------
(* What a step does to the tasks                                            *)

\* Nodes that go, and perhaps others that are started, leave the tasks of the rest as they are.
LEMMA TasksOfTheRest ==
  ASSUME PoolInv, NEW gone, gone \subseteq Nodes, launched' >= launched, launched' \in 0..MaxLaunches,
         processes' = (processes \ gone) \cup (launched + 1..launched'),
         ToSet(idle_nodes') \subseteq (ToSet(idle_nodes) \ gone) \cup (launched + 1..launched'),
         ~Undamaged => ~Undamaged',
         \A n \in Nodes : keys'[n] = IF n \in gone THEN {} ELSE keys[n],
         \A n \in Nodes \ gone : entries'[n] = entries[n],
         \A g \in Gets : (call'[g] = call[g] /\ where'[g] = where[g]) \/ call'[g] = "over",
         UNCHANGED <<kind, RoomOf>>
  PROVE  TasksAgree'
<1> USE DEF PoolInv, TasksAgree
<1>0. launched \in Nat /\ processes \subseteq 1..launched /\ processes \subseteq Nodes
  BY StartIs DEF Placed, Nodes
<1>1. TasksListed'
  <2>1. \A n \in Nodes : keys'[n] # {} => n \in processes'
    BY DEF TasksListed
  <2>2. \A g \in Gets : call'[g] \in {"waiting", "leased"} => where'[g] \in 1..launched'
    BY <1>0 DEF TasksListed
  <2> QED
    BY <2>1, <2>2 DEF TasksListed
<1>2. Together'
  BY DEF Together, consumeNodeByRoom
<1>3. NotReused'
  <2> SUFFICES ASSUME kind # "access" PROVE NotReused'
    BY DEF NotReused, OneRoomEach, IdleFree, CallsHeld
  <2>1. \A n \in Nodes : \A r, s \in keys'[n] : r = s
    BY DEF NotReused, OneRoomEach, IdleFree, CallsHeld
  <2>2. \A n \in launched + 1..launched' : n # undefined /\ (n \in Nodes => keys[n] = {})
    BY <1>0 DEF TasksListed, undefined
  <2>3. \A g \in Gets : call[g] \in {"waiting", "leased"} => where[g] \notin launched + 1..launched'
    BY <1>0 DEF TasksListed
  <2>4. launched + 1..launched' \subseteq Nodes
    BY <1>0, StartIs DEF Nodes
  <2>10. ASSUME NEW g \in Gets, call'[g] \in {"waiting", "leased"}, where'[g] \in processes'
        PROVE  /\ call'[g] = call[g] /\ where'[g] = where[g] /\ where[g] \in processes
               /\ where[g] \in Nodes \ gone
    <3>1. call'[g] = call[g] /\ where'[g] = where[g]
      BY <2>10
    <3>2. where[g] \in processes \ gone
      BY <2>3, <2>10, <3>1
    <3> QED
      BY <1>0, <3>1, <3>2
  <2>5. \A g \in Gets : call'[g] = "waiting" /\ where'[g] \in processes' => RoomOf[g] \in keys'[where'[g]]
    BY <2>10 DEF NotReused, OneRoomEach, IdleFree, CallsHeld
  <2>6. \A g \in Gets : call'[g] = "leased" /\ where'[g] \in processes' => g \in entries'[where'[g]]
    BY <2>10 DEF NotReused, OneRoomEach, IdleFree, CallsHeld
  <2>7. undefined \notin ToSet(idle_nodes')
    BY <2>2 DEF NotReused, OneRoomEach, IdleFree, CallsHeld
  <2>8. \A n \in ToSet(idle_nodes') : n \in Nodes => keys'[n] = {}
    BY <1>0, <2>2, <2>4 DEF NotReused, OneRoomEach, IdleFree, CallsHeld
  <2>9. \A n \in ToSet(idle_nodes') : n \in Nodes
    <3>1. idle_nodes \in Seq(Entry) /\ ToSet(idle_nodes) \subseteq Entry
      BY PlacesOf DEF Placed, ListsHold
    <3> QED
      BY <2>4, <3>1 DEF NotReused, OneRoomEach, IdleFree, CallsHeld, Entry
  <2> QED
    BY <2>1, <2>5, <2>6, <2>7, <2>8, <2>9 DEF NotReused, OneRoomEach, IdleFree, CallsHeld
<1> QED
  BY <1>1, <1>2, <1>3

\* A call is handed a node that has its room.
LEMMA HandedTasks ==
  ASSUME PoolInv, NEW g \in Gets, NEW n \in processes, Handed(g, n),
         \A m \in Nodes : keys[m] \subseteq keys'[m], RoomOf[g] \in keys'[n],
         UNCHANGED <<RoomOf, launched, processes>>
  PROVE  /\ entries' \in [Nodes -> SUBSET Gets] /\ where' \in [Gets -> Entry]
         /\ call' \in [Gets -> {"none", "waiting", "leased", "over"}]
         /\ \A h \in Gets : call'[h] \in {"waiting", "leased"} => where'[h] \in 1..launched'
         /\ CallsHeld => CallsHeld'
<1> USE DEF PoolInv
<1>1. n \in 1..launched /\ n \in Nodes /\ n \in Entry /\ 1..launched \subseteq Nodes
  <2>1. launched \in Nat /\ launched <= MaxLaunches /\ MaxLaunches \in Nat /\ n \in 1..launched
    BY StartIs DEF Placed
  <2> QED
    BY <2>1 DEF Nodes, Entry
<1>2. /\ where' = [where EXCEPT ![g] = n]
      /\ \/ call' = [call EXCEPT ![g] = "leased"] /\ entries' = [entries EXCEPT ![n] = @ \cup {g}]
         \/ call' = [call EXCEPT ![g] = "waiting"] /\ entries' = entries
  BY DEF Handed, Answer
<1>3. where' \in [Gets -> Entry] /\ \A h \in Gets : where'[h] = IF h = g THEN n ELSE where[h]
  BY <1>1, <1>2 DEF Typed
<1>4. /\ call' \in [Gets -> {"none", "waiting", "leased", "over"}]
      /\ \A h \in Gets : h # g => call'[h] = call[h]
  BY <1>2 DEF Typed
<1>5. /\ entries' \in [Nodes -> SUBSET Gets] /\ \A m \in Nodes : entries[m] \subseteq entries'[m]
      /\ call'[g] = "leased" => g \in entries'[n]
  <2>1. CASE call' = [call EXCEPT ![g] = "leased"] /\ entries' = [entries EXCEPT ![n] = @ \cup {g}]
    BY <1>1, <2>1 DEF Typed
  <2>2. CASE call' = [call EXCEPT ![g] = "waiting"] /\ entries' = entries
    <3>1. call'[g] = "waiting"
      BY <2>2 DEF Typed
    <3> QED
      BY <2>2, <3>1 DEF Typed
  <2> QED
    BY <1>2, <2>1, <2>2
<1>6. \A h \in Gets : call'[h] \in {"waiting", "leased"} => where'[h] \in 1..launched'
  BY <1>1, <1>3, <1>4 DEF TasksAgree, TasksListed
<1>7. ASSUME CallsHeld PROVE CallsHeld'
  <2> SUFFICES ASSUME NEW h \in Gets, where'[h] \in processes
               PROVE  /\ call'[h] = "waiting" => RoomOf[h] \in keys'[where'[h]]
                      /\ call'[h] = "leased" => h \in entries'[where'[h]]
    BY DEF CallsHeld
  <2>1. CASE h = g
    BY <1>3, <1>5, <2>1
  <2>2. CASE h # g
    <3>1. where[h] \in Nodes /\ where[h] \in processes /\ where'[h] = where[h] /\ call'[h] = call[h]
      BY <1>1, <1>3, <1>4, <2>2 DEF Placed
    <3> QED
      BY <1>5, <1>7, <3>1 DEF CallsHeld
  <2> QED
    BY <2>1, <2>2
<1> QED
  BY <1>3, <1>4, <1>5, <1>6, <1>7

\* findNodeUsedByRoom finds a node of the room if one is listed before what is not a node.
LEMMA FirstOfRoom ==
  ASSUME NEW q \in Seq(Entry), NEW r
  PROVE  /\ findNodeUsedByRoom(q, r) # undefined =>
              findNodeUsedByRoom(q, r) \in ToSet(q) /\ r \in keys[findNodeUsedByRoom(q, r)]
         /\ findNodeUsedByRoom(q, r) = undefined /\ undefined \notin ToSet(q) =>
              \A n \in ToSet(q) : r \notin keys[n]
<1> DEFINE I == {i \in 1..Len(q) : r \in keys[q[i]]}
<1>1. Len(q) \in Nat /\ \A x : x \in ToSet(q) <=> \E i \in 1..Len(q) : q[i] = x
  BY PlacesOf
<1>2. CASE I = {}
  <2>1. findNodeUsedByRoom(q, r) = undefined
    BY <1>2 DEF findNodeUsedByRoom, SelectInSeq
  <2>2. \A x \in ToSet(q) : r \notin keys[x]
    BY <1>1, <1>2
  <2> QED
    BY <2>1, <2>2
<1>3. CASE I # {}
  <2>1. I \subseteq Nat /\ 0 \notin I
    OBVIOUS
  <2>2. Min(I) \in I
    BY <1>3, <2>1, LeastIs
  <2>3. SelectInSeq(q, LAMBDA n : r \in keys[n]) = Min(I)
    BY <1>3 DEF SelectInSeq
  <2>4. Min(I) # 0
    <3> HIDE DEF I
    <3> QED
      BY <2>1, <2>2
  <2>5. findNodeUsedByRoom(q, r) = q[Min(I)]
    BY <2>3, <2>4 DEF findNodeUsedByRoom
  <2>6. q[Min(I)] \in ToSet(q) /\ r \in keys[q[Min(I)]]
    BY <1>1, <2>2
  <2> QED
    BY <2>5, <2>6
<1> QED
  BY <1>2, <1>3

LEMMA UsedIs ==
  ASSUME Placed, NEW g \in Gets
  PROVE  /\ UsedByRoom(g) # undefined =>
              UsedByRoom(g) \in processes /\ RoomOf[g] \in keys[UsedByRoom(g)]
         /\ UsedByRoom(g) = undefined /\ Undamaged => \A n \in processes : RoomOf[g] \notin keys[n]
<1> DEFINE n == findNodeUsedByRoom(nodes, RoomOf[g])
           m == findNodeUsedByRoom(idle_nodes, RoomOf[g])
<1>1. nodes \in Seq(Entry) /\ idle_nodes \in Seq(Entry) /\ Listed \ {undefined} = processes
  BY DEF Placed, ListsHold, Listed
<1>2. /\ n # undefined => n \in ToSet(nodes) /\ RoomOf[g] \in keys[n]
      /\ n = undefined /\ undefined \notin ToSet(nodes) => \A x \in ToSet(nodes) : RoomOf[g] \notin keys[x]
  BY <1>1, FirstOfRoom
<1>3. /\ m # undefined => m \in ToSet(idle_nodes) /\ RoomOf[g] \in keys[m]
      /\ m = undefined /\ undefined \notin ToSet(idle_nodes) =>
           \A x \in ToSet(idle_nodes) : RoomOf[g] \notin keys[x]
  BY <1>1, FirstOfRoom
<1>4. UsedByRoom(g) = IF n # undefined THEN n ELSE m
  BY DEF UsedByRoom
<1> HIDE DEF n, m
<1> QED
  BY <1>1, <1>2, <1>3, <1>4 DEF Listed, Undamaged

-----------------------------------------------------------------------------
(* The requests of the agent                                                *)

LEMMA GetNodeOfRoomKeeps ==
  ASSUME PoolInv, NEW g \in Gets, GetNodeOfRoom(g)
  PROVE  PoolInv'
<1> DEFINE n == UsedByRoom(g)
<1>1. n \in processes /\ RoomOf[g] \in keys[n]
  BY UsedIs DEF GetNodeOfRoom, PoolInv
<1>2. /\ Handed(g, n)
      /\ UNCHANGED <<kind, RoomOf, launched, child, processes, watched, listVars, keys, spawn_failed, timers, failures>>
  BY DEF GetNodeOfRoom
<1> HIDE DEF n
<1>3. /\ entries' \in [Nodes -> SUBSET Gets] /\ where' \in [Gets -> Entry]
      /\ call' \in [Gets -> {"none", "waiting", "leased", "over"}]
      /\ \A h \in Gets : call'[h] \in {"waiting", "leased"} => where'[h] \in 1..launched'
      /\ CallsHeld => CallsHeld'
  BY <1>1, <1>2, HandedTasks
<1>4. Placed'
  BY <1>2 DEF PoolInv, Placed, listVars
<1>5. Typed'
  BY <1>2, <1>3 DEF PoolInv, Typed
<1>6. TasksListed'
  BY <1>2, <1>3 DEF PoolInv, TasksAgree, TasksListed
<1>7. Together'
  BY <1>2 DEF PoolInv, TasksAgree, Together, consumeNodeByRoom, Undamaged, Listed, listVars
<1>8. NotReused'
  BY <1>2, <1>3 DEF PoolInv, TasksAgree, NotReused, OneRoomEach, IdleFree, listVars
<1> QED
  BY <1>4, <1>5, <1>6, <1>7, <1>8 DEF PoolInv, TasksAgree

\* What is not a node stays in the lists when a node is taken from the idle ones.
LEMMA IdleTaken ==
  ASSUME Placed, idle_nodes # <<>>, NEW n, n = Head(idle_nodes),
         idle_nodes' = Tail(idle_nodes), nodes' = Append(nodes, n), UNCHANGED <<launched, processes>>
  PROVE  /\ Placed' /\ n \in ToSet(idle_nodes) /\ n \in Entry
         /\ ToSet(idle_nodes') \subseteq ToSet(idle_nodes) /\ Listed' = Listed
         /\ n # undefined => n \in processes /\ n \notin ToSet(idle_nodes')
<1>1. /\ idle_nodes \in Seq(Entry) /\ nodes \in Seq(Entry) /\ Once(idle_nodes) /\ Once(nodes)
      /\ ToSet(nodes) \cap ToSet(idle_nodes) \subseteq {undefined}
      /\ (ToSet(nodes) \cup ToSet(idle_nodes)) \ {undefined} = processes
  BY DEF Placed, ListsHold
<1>2. /\ n \in ToSet(idle_nodes) /\ idle_nodes' \in Seq(Entry)
      /\ ToSet(idle_nodes) = {n} \cup ToSet(idle_nodes')
      /\ Once(idle_nodes') /\ (n \in ToSet(idle_nodes') => n = undefined)
  BY <1>1, Shifted
<1>3. n \in Entry
  BY <1>1, <1>2, PlacesOf
<1>4. /\ nodes' \in Seq(Entry) /\ ToSet(nodes') = ToSet(nodes) \cup {n}
      /\ (n \in ToSet(nodes) => n = undefined) => Once(nodes')
  BY <1>1, <1>3, Appended
<1>5. n \in ToSet(nodes) => n = undefined
  BY <1>1, <1>2
<1>6. ListsHold(idle_nodes', nodes', processes')
  BY <1>1, <1>2, <1>4, <1>5 DEF ListsHold
<1> QED
  BY <1>1, <1>2, <1>3, <1>4, <1>6 DEF Placed, Listed

LEMMA PickInIdleKeeps ==
  ASSUME PoolInv, NEW g \in Gets, PickInIdle(g)
  PROVE  PoolInv'
<1> DEFINE n == Head(idle_nodes)
<1>0. RoomOf[g] \in Rooms
  BY DEF PoolInv, Typed
<1>1. /\ NeedsNode(g) /\ idle_nodes # <<>>
      /\ idle_nodes' = Tail(idle_nodes) /\ nodes' = Append(nodes, n)
      /\ keys' = [keys EXCEPT ![n] = @ \cup {RoomOf[g]}]
      /\ n = undefined => Over(g) /\ UNCHANGED entries
      /\ n # undefined => Handed(g, n)
      /\ timers' = [timers EXCEPT !["fill"] = @ + 1]
      /\ UNCHANGED <<kind, RoomOf, launched, child, processes, watched, spawn_failed, failures>>
  BY DEF PickInIdle
<1>2. /\ Placed' /\ n \in ToSet(idle_nodes) /\ n \in Entry
      /\ ToSet(idle_nodes') \subseteq ToSet(idle_nodes) /\ Listed' = Listed
      /\ n # undefined => n \in processes /\ n \notin ToSet(idle_nodes')
  BY <1>1, IdleTaken DEF PoolInv
<1> HIDE DEF n
<1>3. /\ keys' \in [Entry -> SUBSET Rooms]
      /\ \A m \in Entry : keys'[m] = IF m = n THEN keys[m] \cup {RoomOf[g]} ELSE keys[m]
  BY <1>0, <1>1, <1>2 DEF PoolInv, Typed
<1>4. timers' \in [{"fill", "spawn"} -> Nat]
  BY <1>1 DEF PoolInv, Typed
<1>5. /\ entries' \in [Nodes -> SUBSET Gets] /\ where' \in [Gets -> Entry]
      /\ call' \in [Gets -> {"none", "waiting", "leased", "over"}]
      /\ \A h \in Gets : call'[h] \in {"waiting", "leased"} => where'[h] \in 1..launched'
      /\ CallsHeld => CallsHeld'
  <2>1. \A m \in Nodes : keys[m] \subseteq keys'[m]
    BY <1>3 DEF Entry
  <2>2. CASE n = undefined
    <3>1. /\ call' = [call EXCEPT ![g] = "over"] /\ where' = [where EXCEPT ![g] = undefined]
          /\ entries' = entries
      BY <1>1, <2>2 DEF Over, Answer
    <3>2. /\ where' \in [Gets -> Entry] /\ call' \in [Gets -> {"none", "waiting", "leased", "over"}]
          /\ \A h \in Gets : call'[h] = "over" \/ (call'[h] = call[h] /\ where'[h] = where[h])
      BY <3>1 DEF PoolInv, Typed, Entry
    <3>3. processes \subseteq Nodes
      BY StartIs DEF PoolInv, Placed, Nodes
    <3>4. CallsHeld => CallsHeld'
      BY <1>1, <2>1, <3>1, <3>2, <3>3 DEF CallsHeld
    <3> QED
      BY <1>1, <3>1, <3>2, <3>4 DEF PoolInv, Typed, TasksAgree, TasksListed
  <2>3. CASE n # undefined
    <3>1. n \in processes /\ Handed(g, n) /\ RoomOf[g] \in keys'[n]
      BY <1>1, <1>2, <1>3, <2>3
    <3> QED
      BY <1>1, <2>1, <3>1, HandedTasks
  <2> QED
    BY <2>2, <2>3
<1>6. Typed'
  BY <1>1, <1>3, <1>4, <1>5 DEF PoolInv, Typed
<1>7. n \notin Nodes => n = undefined
  BY <1>2 DEF Entry
<1>8. TasksListed'
  <2>1. \A m \in Nodes : keys'[m] # {} => m \in processes
    <3> SUFFICES ASSUME NEW m \in Nodes, keys'[m] # {} PROVE m \in processes
      OBVIOUS
    <3>1. m # undefined /\ m \in Entry
      BY DEF Nodes, undefined, Entry
    <3>2. CASE m = n
      BY <1>2, <3>1, <3>2
    <3>3. CASE m # n
      BY <1>3, <3>1, <3>3 DEF PoolInv, TasksAgree, TasksListed
    <3> QED
      BY <3>2, <3>3
  <2> QED
    BY <1>1, <1>5, <2>1 DEF TasksListed
<1>9. Together'
  <2> SUFFICES ASSUME consumeNodeByRoom', Undamaged', NEW a \in Nodes, NEW b \in Nodes, NEW r \in Rooms,
                      r \in keys'[a], r \in keys'[b]
               PROVE  a = b
    BY DEF Together
  <2>1. consumeNodeByRoom /\ Undamaged
    BY <1>1, <1>2 DEF consumeNodeByRoom, Undamaged
  <2>2. \A m \in processes : RoomOf[g] \notin keys[m]
    BY <1>1, <2>1, UsedIs DEF NeedsNode, PoolInv
  <2>3. \A m \in Nodes : RoomOf[g] \notin keys[m]
    BY <2>2 DEF PoolInv, TasksAgree, TasksListed
  <2>4. \A m \in Nodes : r \in keys'[m] => r \in keys[m] \/ (m = n /\ r = RoomOf[g])
    BY <1>3 DEF Entry
  <2> QED
    BY <2>1, <2>3, <2>4 DEF PoolInv, TasksAgree, Together
<1>10. NotReused'
  <2> SUFFICES ASSUME kind # "access" PROVE OneRoomEach' /\ IdleFree' /\ CallsHeld'
    BY <1>1 DEF NotReused
  <2>1. OneRoomEach /\ IdleFree /\ CallsHeld
    BY DEF PoolInv, TasksAgree, NotReused
  <2>2. n # undefined /\ keys[n] = {}
    BY <1>2, <2>1 DEF IdleFree
  <2>3. OneRoomEach'
    BY <1>3, <2>1, <2>2 DEF OneRoomEach, Entry
  <2>4. IdleFree'
    <3>1. ToSet(idle_nodes) \subseteq Entry
      BY PlacesOf DEF PoolInv, Placed, ListsHold
    <3>2. undefined \notin ToSet(idle_nodes')
      BY <1>2, <2>1 DEF IdleFree
    <3>3. \A m \in ToSet(idle_nodes') : m \in Entry /\ m # n /\ keys[m] = {}
      BY <1>2, <2>1, <2>2, <3>1 DEF IdleFree
    <3>4. \A m \in ToSet(idle_nodes') : keys'[m] = {}
      BY <1>3, <3>3
    <3> QED
      BY <3>2, <3>4 DEF IdleFree
  <2> QED
    BY <1>5, <2>1, <2>3, <2>4
<1> QED
  BY <1>2, <1>6, <1>8, <1>9, <1>10 DEF PoolInv, TasksAgree

\* What a step does to calls other than to hand out a node.
CallsGoOn ==
  /\ where' \in [Gets -> Entry] /\ call' \in [Gets -> {"none", "waiting", "leased", "over"}]
  /\ \A g \in Gets : (call'[g] = call[g] /\ where'[g] = where[g]) \/ call'[g] = "over"
Counted ==
  /\ spawn_failed \in BOOLEAN /\ timers \in [{"fill", "spawn"} -> Nat]
  /\ failures \in Seq({"spawn", "node", "loss"}) /\ Len(failures) <= MaxFailures

LEMMA CallsStay ==
  ASSUME Typed
  PROVE  /\ UNCHANGED callVars => CallsGoOn
         /\ \A g \in Gets : Over(g) => CallsGoOn
         /\ UNCHANGED <<spawn_failed, timers, failures>> => Counted'
<1>1. UNCHANGED callVars => CallsGoOn
  BY DEF callVars, CallsGoOn, Typed
<1>2. ASSUME NEW g \in Gets, Over(g) PROVE CallsGoOn
  <2>1. call' = [call EXCEPT ![g] = "over"] /\ where' = [where EXCEPT ![g] = undefined]
    BY <1>2 DEF Over, Answer
  <2> QED
    BY <2>1 DEF CallsGoOn, Typed, Entry
<1>3. UNCHANGED <<spawn_failed, timers, failures>> => Counted'
  BY DEF Counted, Typed
<1> QED
  BY <1>1, <1>2, <1>3

\* The nodes in gone have no tasks any more.
Cleared(gone) ==
  /\ keys' = [m \in Entry |-> IF m \in gone THEN {} ELSE keys[m]]
  /\ entries' = [m \in Nodes |-> IF m \in gone THEN {} ELSE entries[m]]
AllButCalls ==
  UNCHANGED <<kind, RoomOf, launched, child, processes, watched, listVars, spawn_failed, timers, failures>>

\* Nothing but calls has changed, and the tasks of a node that is gone.
LEMMA CallEnds ==
  ASSUME PoolInv, NEW g \in Gets, Over(g), NEW gone, gone \subseteq Nodes,
         \A n \in gone : n \notin processes \/ kind = "access",
         Cleared(gone), AllButCalls
  PROVE  PoolInv'
<1> USE DEF Cleared, AllButCalls
<1>1. CallsGoOn
  BY CallsStay DEF PoolInv
<1>2. Placed'
  BY DEF PoolInv, Placed, listVars
<1>3. Typed'
  BY <1>1 DEF PoolInv, Typed, CallsGoOn, Entry
<1>4. \A m \in Nodes : keys'[m] = IF m \in gone THEN {} ELSE keys[m]
  BY DEF Entry
<1>5. processes \subseteq Nodes /\ launched \in Nat
  BY StartIs DEF PoolInv, Placed, Nodes
<1>6. TasksListed'
  BY <1>1, <1>4 DEF PoolInv, TasksAgree, TasksListed, CallsGoOn
<1>7. Together'
  BY <1>4 DEF PoolInv, TasksAgree, Together, consumeNodeByRoom, Undamaged, Listed, listVars
<1>8. NotReused'
  <2> SUFFICES ASSUME kind # "access" PROVE OneRoomEach' /\ IdleFree' /\ CallsHeld'
    BY DEF NotReused
  <2>1. OneRoomEach /\ IdleFree /\ CallsHeld
    BY DEF PoolInv, TasksAgree, NotReused
  <2>2. OneRoomEach'
    BY <1>4, <2>1 DEF OneRoomEach
  <2>3. IdleFree'
    <3>1. ToSet(idle_nodes) \subseteq Entry
      BY PlacesOf DEF PoolInv, Placed, ListsHold
    <3> QED
      BY <2>1, <3>1 DEF IdleFree, listVars
  <2>4. \A m \in processes : keys'[m] = keys[m] /\ entries'[m] = entries[m]
    BY <1>4, <1>5
  <2>5. CallsHeld'
    BY <1>1, <2>1, <2>4 DEF CallsHeld, CallsGoOn
  <2> QED
    BY <2>2, <2>3, <2>5
<1> QED
  BY <1>2, <1>3, <1>6, <1>7, <1>8 DEF PoolInv, TasksAgree

LEMMA NoAvailableNodeKeeps ==
  ASSUME PoolInv, NEW g \in Gets, NoAvailableNode(g)
  PROVE  PoolInv'
<1>1. keys' = keys /\ entries' = entries /\ Over(g)
  BY DEF NoAvailableNode, taskVars
<1>2. Cleared({})
  BY <1>1 DEF PoolInv, Typed, Cleared
<1>3. AllButCalls
  BY DEF NoAvailableNode, AllButCalls
<1>4. {} \subseteq Nodes /\ \A n \in {} : n \notin processes \/ kind = "access"
  OBVIOUS
<1> QED
  BY <1>1, <1>2, <1>3, <1>4, CallEnds, Zenon

LEMMA Forgotten ==
  ASSUME Typed, NEW n \in Nodes, Forget(n)
  PROVE  Cleared({n})
BY DEF Typed, Forget, Entry, Cleared

LEMMA NodeReadyKeeps ==
  ASSUME PoolInv, NEW g \in Gets, NodeReady(g)
  PROVE  PoolInv'
<1> DEFINE n == where[g]
<1>1. /\ call[g] = "waiting" /\ n \in processes
      /\ UNCHANGED <<kind, RoomOf, launched, child, processes, watched, listVars, spawn_failed, timers, failures>>
  BY DEF NodeReady
<1>2. n \in Nodes
  <2>1. n \in 1..launched /\ launched \in 0..MaxLaunches /\ MaxLaunches \in Nat
    BY <1>1, StartIs DEF PoolInv, Placed
  <2> HIDE DEF n
  <2> QED
    BY <2>1 DEF Nodes
<1>3. CASE RoomOf[g] \in keys[n]
  <2>1. Handed(g, n) /\ UNCHANGED keys
    BY <1>3 DEF NodeReady
  <2>2. /\ entries' \in [Nodes -> SUBSET Gets] /\ where' \in [Gets -> Entry]
        /\ call' \in [Gets -> {"none", "waiting", "leased", "over"}]
        /\ \A h \in Gets : call'[h] \in {"waiting", "leased"} => where'[h] \in 1..launched'
        /\ CallsHeld => CallsHeld'
    <3> HIDE DEF n
    <3> QED
      BY <1>1, <1>3, <2>1, HandedTasks
  <2>3. Placed'
    BY <1>1 DEF PoolInv, Placed, listVars
  <2>4. Typed'
    BY <1>1, <2>1, <2>2 DEF PoolInv, Typed
  <2>5. TasksListed'
    BY <1>1, <2>1, <2>2 DEF PoolInv, TasksAgree, TasksListed
  <2>6. Together'
    BY <1>1, <2>1 DEF PoolInv, TasksAgree, Together, consumeNodeByRoom, Undamaged, Listed, listVars
  <2>7. NotReused'
    BY <1>1, <2>1, <2>2 DEF PoolInv, TasksAgree, NotReused, OneRoomEach, IdleFree, listVars
  <2> QED
    BY <2>3, <2>4, <2>5, <2>6, <2>7 DEF PoolInv, TasksAgree
<1>4. CASE RoomOf[g] \notin keys[n]
  <2>1. Over(g) /\ Forget(n)
    BY <1>4 DEF NodeReady
  <2>2. kind = "access"
    BY <1>1, <1>4 DEF PoolInv, TasksAgree, NotReused, CallsHeld
  <2>3. Cleared({n}) /\ AllButCalls
    <3> HIDE DEF n
    <3> QED
      BY <1>1, <1>2, <2>1, Forgotten DEF PoolInv, AllButCalls
  <2>4. {n} \subseteq Nodes /\ \A m \in {n} : m \notin processes \/ kind = "access"
    BY <1>2, <2>2
  <2> QED
    BY <1>1, <2>1, <2>3, <2>4, CallEnds, Zenon
<1> QED
  BY <1>3, <1>4

LEMMA NodeGoneKeeps ==
  ASSUME PoolInv, NEW g \in Gets, NodeGone(g)
  PROVE  PoolInv'
<1> DEFINE n == where[g]
<1>1. /\ call[g] = "waiting" /\ n \notin processes /\ Over(g) /\ Forget(n)
      /\ UNCHANGED <<kind, RoomOf, launched, child, processes, watched, listVars, spawn_failed, timers, failures>>
  BY DEF NodeGone
<1>2. n \in Nodes
  <2>1. n \in 1..launched /\ launched \in 0..MaxLaunches
    BY <1>1 DEF PoolInv, TasksAgree, TasksListed, Placed
  <2> QED
    BY <2>1, StartIs DEF Nodes
<1>3. Cleared({n}) /\ AllButCalls
  <2> HIDE DEF n
  <2> QED
    BY <1>1, <1>2, Forgotten DEF PoolInv, AllButCalls
<1>4. {n} \subseteq Nodes /\ \A m \in {n} : m \notin processes \/ kind = "access"
  BY <1>1, <1>2
<1> QED
  BY <1>1, <1>3, <1>4, CallEnds, Zenon

-----------------------------------------------------------------------------
(* Nodes that go                                                            *)

ChildStates == {"none", "starting", "ready", "failed", "stopping", "killed", "closed"}

\* A node is taken out, nodes are started in its place, and calls may be over.
LEMMA NodeLeaves ==
  ASSUME PoolInv, NEW n \in Nodes, NEW k \in Nat, launched + k <= MaxLaunches,
         k > 0 => Len(IdleWithout(n)) + Len(UsedWithout(n)) + k <= MaxNodes,
         NEW kids \in [Nodes -> ChildStates], \A m \in Nodes : m > launched => kids[m] = "none",
         CleanupTasks({n}) \/ (n \notin processes /\ UNCHANGED <<taskVars, watched>>),
         Launch(k, processes \ {n}, IdleWithout(n), UsedWithout(n), kids),
         CallsGoOn, Counted', UNCHANGED <<kind, RoomOf>>
  PROVE  PoolInv'
<1>1. /\ ListsHold(IdleWithout(n), UsedWithout(n), processes \ {n})
      /\ Cardinality(processes \ {n}) <= MaxNodes /\ processes \ {n} \subseteq 1..launched
      /\ ToSet(IdleWithout(n)) = ToSet(idle_nodes) \ {n} /\ ToSet(UsedWithout(n)) = ToSet(nodes) \ {n}
  BY TakenOut DEF PoolInv
<1>2. launched \in 0..MaxLaunches /\ launched \in Nat /\ MaxLaunches \in Nat
  BY StartIs DEF PoolInv, Placed
<1>3. /\ Placed' /\ launched' = launched + k
      /\ processes' = (processes \ {n}) \cup (launched + 1..launched')
      /\ ToSet(idle_nodes') = ToSet(IdleWithout(n)) \cup (launched + 1..launched')
      /\ nodes' = UsedWithout(n)
  BY <1>1, <1>2, LaunchPlaces
<1>4. PICK gone \in SUBSET Nodes :
        /\ keys' = [m \in Entry |-> IF m \in gone THEN {} ELSE keys[m]]
        /\ entries' = [m \in Nodes |-> IF m \in gone THEN {} ELSE entries[m]]
        /\ watched' \subseteq watched
        /\ processes \ gone = processes \ {n} /\ ToSet(idle_nodes) \ gone = ToSet(idle_nodes) \ {n}
  <2>1. CASE CleanupTasks({n})
    <3>1. /\ keys' = [m \in Entry |-> IF m \in {n} THEN {} ELSE keys[m]]
          /\ entries' = [m \in Nodes |-> IF m \in {n} THEN {} ELSE entries[m]]
          /\ watched' \subseteq watched
      BY <2>1 DEF CleanupTasks, PoolInv, Typed
    <3>2. {n} \in SUBSET Nodes
      OBVIOUS
    <3> QED
      BY <3>1, <3>2
  <2>2. CASE n \notin processes /\ UNCHANGED <<taskVars, watched>>
    <3>1. keys' = [m \in Entry |-> IF m \in {} THEN {} ELSE keys[m]]
      BY <2>2 DEF taskVars, PoolInv, Typed
    <3>2. entries' = [m \in Nodes |-> IF m \in {} THEN {} ELSE entries[m]]
      BY <2>2 DEF taskVars, PoolInv, Typed
    <3>3. n \notin ToSet(idle_nodes)
      BY <2>2 DEF PoolInv, Placed, ListsHold, Nodes, undefined
    <3>4. {} \in SUBSET Nodes /\ watched' \subseteq watched
      BY <2>2
    <3>5. processes \ {} = processes \ {n} /\ ToSet(idle_nodes) \ {} = ToSet(idle_nodes) \ {n}
      BY <2>2, <3>3
    <3> QED
      BY <3>1, <3>2, <3>4, <3>5
  <2> QED
    BY <2>1, <2>2
<1>5. Typed'
  <2>1. child' = [m \in Nodes |-> IF m \in launched + 1..launched + k THEN "starting" ELSE kids[m]]
    BY DEF Launch
  <2>2. child' \in [Nodes -> ChildStates] /\ \A m \in Nodes : m > launched' => child'[m] = "none"
    <3>1. child' \in [Nodes -> ChildStates]
      BY <2>1 DEF ChildStates
    <3>2. ASSUME NEW m \in Nodes, m > launched' PROVE child'[m] = "none"
      <4>1. m \notin launched + 1..launched + k /\ m > launched
        BY <1>2, <1>3, <3>2 DEF Nodes
      <4> QED
        BY <2>1, <4>1
    <3> QED
      BY <3>1, <3>2
  <2>3. watched' \subseteq 1..launched'
    BY <1>2, <1>3, <1>4 DEF PoolInv, Typed
  <2>4. keys' \in [Entry -> SUBSET Rooms] /\ entries' \in [Nodes -> SUBSET Gets]
    BY <1>4 DEF PoolInv, Typed
  <2> QED
    BY <2>2, <2>3, <2>4 DEF PoolInv, Typed, CallsGoOn, Counted, ChildStates
<1>6. TasksAgree'
  <2>1. launched' >= launched /\ launched' \in 0..MaxLaunches
    BY <1>2, <1>3
  <2>2. processes' = (processes \ gone) \cup (launched + 1..launched')
    BY <1>3, <1>4
  <2>3. ToSet(idle_nodes') \subseteq (ToSet(idle_nodes) \ gone) \cup (launched + 1..launched')
    BY <1>1, <1>3, <1>4
  <2>4. ~Undamaged => ~Undamaged'
    <3>1. n # undefined
      BY DEF Nodes, undefined
    <3> QED
      BY <1>1, <1>3, <3>1 DEF Undamaged, Listed
  <2>5. \A m \in Nodes : keys'[m] = IF m \in gone THEN {} ELSE keys[m]
    BY <1>4 DEF Entry
  <2>6. \A m \in Nodes \ gone : entries'[m] = entries[m]
    BY <1>4
  <2>7. \A g \in Gets : (call'[g] = call[g] /\ where'[g] = where[g]) \/ call'[g] = "over"
    BY DEF CallsGoOn
  <2> QED
    BY <1>4, <2>1, <2>2, <2>3, <2>4, <2>5, <2>6, <2>7, TasksOfTheRest
<1> QED
  BY <1>3, <1>5, <1>6 DEF PoolInv

LEMMA OneFailureMore ==
  ASSUME Typed, NEW what \in {"spawn", "node", "loss"}, Failure(what)
  PROVE  failures' \in Seq({"spawn", "node", "loss"}) /\ Len(failures') <= MaxFailures
BY StartIs DEF Typed, Failure

LEMMA DropNodeKeeps ==
  ASSUME PoolInv, NEW n \in Nodes, DropNode(n), CallsGoOn, Counted', UNCHANGED <<kind, RoomOf>>
  PROVE  PoolInv'
<1> DEFINE kids == [m \in Nodes |-> IF m \in {n} \cap processes THEN Killed(m) ELSE child[m]]
<1>1. CleanupTasks({n}) /\ Launch(0, processes \ {n}, IdleWithout(n), UsedWithout(n), kids)
  BY DEF DropNode, KillNodes
<1>2. kids \in [Nodes -> ChildStates]
  BY DEF Killed, ChildStates, PoolInv, Typed
<1>3. \A m \in Nodes : m > launched => kids[m] = "none"
  <2> SUFFICES ASSUME NEW m \in Nodes, m > launched PROVE m \notin processes /\ child[m] = "none"
    OBVIOUS
  <2>1. launched \in Nat /\ processes \subseteq 1..launched
    BY StartIs DEF PoolInv, Placed
  <2>2. m \notin processes
    BY <2>1 DEF Nodes
  <2> QED
    BY <2>2 DEF PoolInv, Typed
<1>4. 0 \in Nat /\ launched + 0 <= MaxLaunches /\ ~(0 > 0)
  BY StartIs DEF PoolInv, Placed
<1> HIDE DEF kids
<1> QED
  BY <1>1, <1>2, <1>3, <1>4, NodeLeaves

LEMMA GiveUpKeeps ==
  ASSUME PoolInv, NEW g \in Gets, GiveUp(g)
  PROVE  PoolInv'
<1> DEFINE n == where[g]
<1>1. /\ n \in processes /\ Over(g) /\ DropNode(n)
      /\ UNCHANGED <<kind, RoomOf, spawn_failed, timers, failures>>
  BY DEF GiveUp
<1> HIDE DEF n
<1>2. n \in Nodes
  BY <1>1, StartIs DEF PoolInv, Placed, Nodes
<1>3. CallsGoOn /\ Counted'
  BY <1>1, CallsStay DEF PoolInv
<1> QED
  BY <1>1, <1>2, <1>3, DropNodeKeeps

LEMMA NodeErrorKeeps ==
  ASSUME PoolInv, NEW n \in Nodes, NodeError(n)
  PROVE  PoolInv'
<1> DEFINE kids == [child EXCEPT ![n] = "killed"]
<1>1. /\ child[n] = "starting" /\ Failure("node") /\ CleanupTasks({n})
      /\ Launch(0, processes \ {n}, IdleWithout(n), UsedWithout(n), kids)
      /\ UNCHANGED <<kind, RoomOf, spawn_failed, timers, callVars>>
  BY DEF NodeError
<1>2. kids \in [Nodes -> ChildStates] /\ \A m \in Nodes : m > launched => kids[m] = "none"
  BY <1>1 DEF ChildStates, PoolInv, Typed
<1>3. 0 \in Nat /\ launched + 0 <= MaxLaunches /\ ~(0 > 0)
  BY StartIs DEF PoolInv, Placed
<1>4. CallsGoOn
  BY <1>1, CallsStay DEF PoolInv
<1>5. Counted'
  BY <1>1, OneFailureMore DEF Counted, PoolInv, Typed
<1> HIDE DEF kids
<1> QED
  BY <1>1, <1>2, <1>3, <1>4, <1>5, NodeLeaves

LEMMA UnresponsiveKeeps ==
  ASSUME PoolInv, NEW n \in Nodes, Unresponsive(n)
  PROVE  PoolInv'
<1>1. DropNode(n) /\ Failure("node") /\ UNCHANGED <<kind, RoomOf, spawn_failed, timers, callVars>>
  BY DEF Unresponsive
<1>2. CallsGoOn
  BY <1>1, CallsStay DEF PoolInv
<1>3. Counted'
  BY <1>1, OneFailureMore DEF Counted, PoolInv, Typed
<1> QED
  BY <1>1, <1>2, <1>3, DropNodeKeeps

LEMMA CloseKeeps ==
  ASSUME PoolInv, NEW n \in Nodes, Close(n)
  PROVE  PoolInv'
<1> DEFINE kids == [child EXCEPT ![n] = "closed"]
           k == Replacements(n)
<1>1. /\ child[n] # "none" /\ (Failure("node") \/ UNCHANGED failures)
      /\ CleanupTasks({n}) \/ (n \notin processes /\ UNCHANGED <<taskVars, watched>>)
      /\ Launch(k, processes \ {n}, IdleWithout(n), UsedWithout(n), kids)
      /\ UNCHANGED <<kind, RoomOf, spawn_failed, timers, callVars>>
  BY DEF Close
<1>2. kids \in [Nodes -> ChildStates] /\ \A m \in Nodes : m > launched => kids[m] = "none"
  BY <1>1 DEF ChildStates, PoolInv, Typed
<1>3. /\ k \in Nat /\ launched + k <= MaxLaunches
      /\ k > 0 => Len(IdleWithout(n)) + Len(UsedWithout(n)) + k <= MaxNodes
  <2>1. Len(IdleWithout(n)) \in Nat /\ Len(UsedWithout(n)) \in Nat /\ launched \in 0..MaxLaunches
    BY TakenOut DEF PoolInv, Placed
  <2>2. CASE spawn_failed
    BY <2>1, <2>2, StartIs DEF Replacements
  <2>3. CASE ~spawn_failed
    <3>1. k = ToStart(Len(IdleWithout(n)), Len(UsedWithout(n)))
      BY <2>3 DEF Replacements
    <3> HIDE DEF k
    <3> QED
      BY <2>1, <3>1, ToStartIs
  <2> QED
    BY <2>2, <2>3
<1>4. CallsGoOn
  BY <1>1, CallsStay DEF PoolInv
<1>5. Counted'
  BY <1>1, OneFailureMore DEF Counted, PoolInv, Typed
<1> HIDE DEF kids, k
<1> QED
  BY <1>1, <1>2, <1>3, <1>4, <1>5, NodeLeaves

\* Tasks are taken off a node that keeps others.
LEMMA RecycleNodeKeeps ==
  ASSUME PoolInv, NEW g \in Gets, RecycleNode(g)
  PROVE  PoolInv'
<1> DEFINE n == IF where[g] \in processes THEN where[g] ELSE undefined
           left == IF n = undefined THEN {} ELSE entries[n] \ {g}
           roomsLeft == IF \E h \in left : RoomOf[h] = RoomOf[g] THEN keys[n] ELSE keys[n] \ {RoomOf[g]}
<1>1. /\ call[g] = "leased" /\ Over(g) /\ UNCHANGED <<kind, RoomOf, spawn_failed, timers, failures>>
      /\ \/ n # undefined /\ DropNode(n)
         \/ /\ roomsLeft # {} \/ n = undefined
            /\ keys' = [keys EXCEPT ![n] = roomsLeft]
            /\ entries' = [m \in Nodes |-> IF m = n THEN left ELSE entries[m]]
            /\ UNCHANGED <<launched, child, processes, watched, listVars>>
         \/ UNCHANGED <<launched, child, processes, watched, listVars, taskVars>>
  BY DEF RecycleNode
<1>2. CallsGoOn /\ Counted'
  BY <1>1, CallsStay DEF PoolInv
<1>3. launched \in Nat /\ processes \subseteq Nodes /\ processes \subseteq 1..launched
  BY StartIs DEF PoolInv, Placed, Nodes
<1>4. CASE n # undefined /\ DropNode(n)
  <2>1. n \in Nodes
    BY <1>3, <1>4
  <2> HIDE DEF n
  <2> QED
    BY <1>1, <1>2, <1>4, <2>1, DropNodeKeeps
<1>5. CASE /\ roomsLeft # {} \/ n = undefined
           /\ keys' = [keys EXCEPT ![n] = roomsLeft]
           /\ entries' = [m \in Nodes |-> IF m = n THEN left ELSE entries[m]]
           /\ UNCHANGED <<launched, child, processes, watched, listVars>>
  <2>1. /\ n \in Entry /\ undefined \notin Nodes /\ roomsLeft \subseteq keys[n]
        /\ n \in Nodes => left = entries[n] \ {g} /\ left \subseteq entries[n]
    <3>1. undefined \notin Nodes
      BY DEF Nodes, undefined
    <3>2. n \in Entry /\ (n \in Nodes => n # undefined)
      BY <1>3, <3>1 DEF Entry
    <3>3. roomsLeft \subseteq keys[n]
      OBVIOUS
    <3>4. n # undefined => left = entries[n] \ {g}
      OBVIOUS
    <3> HIDE DEF n, left, roomsLeft
    <3> QED
      BY <3>1, <3>2, <3>3, <3>4
  <2>2. /\ Over(g) /\ keys' = [keys EXCEPT ![n] = roomsLeft]
        /\ entries' = [m \in Nodes |-> IF m = n THEN left ELSE entries[m]]
        /\ roomsLeft # {} \/ n = undefined
        /\ UNCHANGED <<kind, RoomOf, launched, child, processes, watched, listVars, spawn_failed, timers, failures>>
    BY <1>1, <1>5
  <2> HIDE DEF n, left, roomsLeft
  <2>3. /\ keys' \in [Entry -> SUBSET Rooms] /\ entries' \in [Nodes -> SUBSET Gets]
        /\ \A m \in Entry : keys'[m] = IF m = n THEN roomsLeft ELSE keys[m]
        /\ \A m \in Nodes : entries'[m] = IF m = n THEN left ELSE entries[m]
    BY <2>1, <2>2 DEF PoolInv, Typed
  <2>4. Placed'
    BY <2>2 DEF PoolInv, Placed, listVars
  <2>5. Typed'
    BY <1>2, <2>2, <2>3 DEF PoolInv, Typed, CallsGoOn
  <2>6. \A m \in Nodes : keys'[m] \subseteq keys[m]
    BY <2>1, <2>3 DEF Entry
  <2>7. TasksListed'
    BY <1>2, <2>2, <2>6 DEF PoolInv, TasksAgree, TasksListed, CallsGoOn
  <2>8. Together'
    BY <2>2, <2>6 DEF PoolInv, TasksAgree, Together, consumeNodeByRoom, Undamaged, Listed, listVars
  <2>9. NotReused'
    <3> SUFFICES ASSUME kind # "access" PROVE OneRoomEach' /\ IdleFree' /\ CallsHeld'
      BY <2>2 DEF NotReused
    <3>1. OneRoomEach /\ IdleFree /\ CallsHeld
      BY DEF PoolInv, TasksAgree, NotReused
    <3>2. OneRoomEach'
      BY <2>6, <3>1 DEF OneRoomEach
    <3>3. n \in Nodes => roomsLeft = keys[n]
      BY <2>1, <2>2, <3>1 DEF OneRoomEach
    <3>4. \A m \in Nodes : keys'[m] = keys[m]
      BY <2>1, <2>3, <3>3 DEF Entry
    <3>5. IdleFree'
      <4>1. ToSet(idle_nodes) \subseteq Entry
        BY PlacesOf DEF PoolInv, Placed, ListsHold
      <4> QED
        BY <2>2, <3>1, <3>4, <4>1 DEF IdleFree, listVars, Entry
    <3>6. \A h \in Gets : h # g => call'[h] = call[h] /\ where'[h] = where[h]
      BY <2>2 DEF Over, Answer, PoolInv, Typed
    <3>7. call'[g] = "over"
      BY <2>2 DEF Over, Answer, PoolInv, Typed
    <3>8. CallsHeld'
      <4> SUFFICES ASSUME NEW h \in Gets, where'[h] \in processes', h # g
                   PROVE  /\ call'[h] = "waiting" => RoomOf'[h] \in keys'[where'[h]]
                          /\ call'[h] = "leased" => h \in entries'[where'[h]]
        BY <3>7 DEF CallsHeld
      <4>1. call'[h] = call[h] /\ where'[h] = where[h] /\ where[h] \in processes /\ where[h] \in Nodes
        BY <1>3, <2>2, <3>6
      <4>2. call[h] = "leased" => h \in entries[where[h]]
        BY <3>1, <4>1 DEF CallsHeld
      <4>3. h \in entries[where[h]] => h \in entries'[where[h]]
        BY <2>1, <2>3, <4>1
      <4> QED
        BY <2>2, <3>1, <3>4, <4>1, <4>2, <4>3 DEF CallsHeld
    <3> QED
      BY <3>2, <3>5, <3>8
  <2> QED
    BY <2>4, <2>5, <2>7, <2>8, <2>9 DEF PoolInv, TasksAgree
<1>6. CASE UNCHANGED <<launched, child, processes, watched, listVars, taskVars>>
  <2>1. Over(g) /\ keys' = keys /\ entries' = entries
    BY <1>1, <1>6 DEF taskVars
  <2>2. Cleared({})
    BY <2>1 DEF PoolInv, Typed, Cleared
  <2>3. AllButCalls
    BY <1>1, <1>6 DEF AllButCalls
  <2>4. {} \subseteq Nodes /\ \A m \in {} : m \notin processes \/ kind = "access"
    OBVIOUS
  <2> QED
    BY <2>1, <2>2, <2>3, <2>4, CallEnds, Zenon
<1> QED
  BY <1>1, <1>4, <1>5, <1>6

-----------------------------------------------------------------------------
(* What the agent and its children do besides                               *)

\* The state of a child or of the timers changes.
LEMMA ChildChanges ==
  ASSUME PoolInv, child' \in [Nodes -> ChildStates], \A n \in Nodes : n > launched => child'[n] = "none",
         watched' \subseteq 1..launched, Counted',
         UNCHANGED <<kind, RoomOf, launched, processes, listVars, taskVars, callVars>>
  PROVE  PoolInv'
<1>1. Placed'
  BY DEF PoolInv, Placed, listVars
<1>2. Typed'
  BY DEF PoolInv, Typed, Counted, ChildStates, taskVars, callVars
<1>3. TasksListed'
  BY DEF PoolInv, TasksAgree, TasksListed, taskVars, callVars
<1>4. Together'
  BY DEF PoolInv, TasksAgree, Together, consumeNodeByRoom, Undamaged, Listed, listVars, taskVars
<1>5. NotReused'
  BY DEF PoolInv, TasksAgree, NotReused, OneRoomEach, IdleFree, CallsHeld, listVars, taskVars, callVars
<1> QED
  BY <1>1, <1>2, <1>3, <1>4, <1>5 DEF PoolInv, TasksAgree

LEMMA ReadyKeeps ==
  ASSUME PoolInv, NEW n \in Nodes, Ready(n)
  PROVE  PoolInv'
<1>1. /\ child[n] \in {"starting", "stopping"}
      /\ child' = [child EXCEPT ![n] = IF @ = "starting" THEN "ready" ELSE "killed"]
      /\ watched' = watched \cup {n} /\ spawn_failed' = FALSE
      /\ UNCHANGED <<kind, RoomOf, launched, processes, listVars, taskVars, timers, callVars, failures>>
  BY DEF Ready
<1>2. child' \in [Nodes -> ChildStates]
  BY <1>1 DEF PoolInv, Typed, ChildStates
<1>3. \A m \in Nodes : m > launched => child'[m] = "none"
  BY <1>1 DEF PoolInv, Typed
<1>4. watched' \subseteq 1..launched
  <2>1. launched \in Nat /\ ~(n > launched)
    BY <1>1, StartIs DEF PoolInv, Placed, Typed
  <2> QED
    BY <1>1, <2>1 DEF PoolInv, Typed, Nodes
<1>5. Counted'
  BY <1>1 DEF PoolInv, Typed, Counted
<1> QED
  BY <1>1, <1>2, <1>3, <1>4, <1>5, ChildChanges

LEMMA SpawnErrorKeeps ==
  ASSUME PoolInv, NEW n \in Nodes, SpawnError(n)
  PROVE  PoolInv'
<1>1. /\ child[n] = "starting" /\ Failure("spawn") /\ child' = [child EXCEPT ![n] = "failed"]
      /\ spawn_failed' = TRUE /\ timers' = [timers EXCEPT !["spawn"] = @ + 1]
      /\ UNCHANGED <<kind, RoomOf, launched, processes, watched, listVars, taskVars, callVars>>
  BY DEF SpawnError
<1>2. child' \in [Nodes -> ChildStates]
  BY <1>1 DEF PoolInv, Typed, ChildStates
<1>3. \A m \in Nodes : m > launched => child'[m] = "none"
  BY <1>1 DEF PoolInv, Typed
<1>4. watched' \subseteq 1..launched
  BY <1>1 DEF PoolInv, Typed
<1>5. timers' \in [{"fill", "spawn"} -> Nat]
  BY <1>1 DEF PoolInv, Typed
<1>6. Counted'
  BY <1>1, <1>5, OneFailureMore DEF PoolInv, Counted
<1> QED
  BY <1>1, <1>2, <1>3, <1>4, <1>6, ChildChanges

LEMMA SpawnErrorOverKeeps ==
  ASSUME PoolInv, SpawnErrorOver
  PROVE  PoolInv'
<1>1. /\ timers["spawn"] > 0 /\ timers' = [timers EXCEPT !["spawn"] = @ - 1] /\ spawn_failed' = FALSE
      /\ UNCHANGED <<kind, RoomOf, launched, child, processes, watched, listVars, taskVars, callVars, failures>>
  BY DEF SpawnErrorOver
<1>2. timers' \in [{"fill", "spawn"} -> Nat]
  BY <1>1 DEF PoolInv, Typed
<1>3. Counted' /\ child' \in [Nodes -> ChildStates] /\ watched' \subseteq 1..launched
  BY <1>1, <1>2 DEF PoolInv, Typed, Counted, ChildStates
<1>4. \A m \in Nodes : m > launched => child'[m] = "none"
  BY <1>1 DEF PoolInv, Typed
<1> QED
  BY <1>1, <1>3, <1>4, ChildChanges

\* The pool is filled, and nothing else happens to the nodes.
LEMMA FillNodesKeeps ==
  ASSUME PoolInv, FillNodes, CallsGoOn, Counted', UNCHANGED <<kind, RoomOf, watched, taskVars>>
  PROVE  PoolInv'
<1> DEFINE k == ToStart(Len(idle_nodes), Len(nodes))
<1>1. /\ launched \in 0..MaxLaunches /\ launched \in Nat /\ MaxLaunches \in Nat
      /\ ListsHold(idle_nodes, nodes, processes) /\ processes \subseteq 1..launched
      /\ Cardinality(processes) <= MaxNodes
  BY StartIs DEF PoolInv, Placed
<1>2. Len(idle_nodes) \in Nat /\ Len(nodes) \in Nat /\ ToSet(idle_nodes) \subseteq Entry
  BY <1>1, PlacesOf DEF ListsHold
<1>3. /\ k \in Nat /\ launched + k <= MaxLaunches
      /\ k > 0 => Len(idle_nodes) + Len(nodes) + k <= MaxNodes
  BY <1>1, <1>2, ToStartIs
<1>4. Launch(k, processes, idle_nodes, nodes, child)
  BY DEF FillNodes
<1> HIDE DEF k
<1>5. /\ Placed' /\ launched' = launched + k
      /\ processes' = processes \cup (launched + 1..launched')
      /\ ToSet(idle_nodes') = ToSet(idle_nodes) \cup (launched + 1..launched') /\ nodes' = nodes
  BY <1>1, <1>3, <1>4, LaunchPlaces
<1>6. Typed'
  <2>1. child' = [m \in Nodes |-> IF m \in launched + 1..launched + k THEN "starting" ELSE child[m]]
    BY <1>4 DEF Launch
  <2>2. child' \in [Nodes -> ChildStates]
    BY <2>1 DEF ChildStates, PoolInv, Typed
  <2>3. ASSUME NEW m \in Nodes, m > launched' PROVE child'[m] = "none"
    <3>1. m \notin launched + 1..launched + k /\ m > launched
      BY <1>1, <1>3, <1>5, <2>3 DEF Nodes
    <3> QED
      BY <2>1, <3>1 DEF PoolInv, Typed
  <2>4. watched' \subseteq 1..launched'
    BY <1>1, <1>3, <1>5 DEF PoolInv, Typed
  <2> QED
    BY <2>2, <2>3, <2>4 DEF PoolInv, Typed, CallsGoOn, Counted, ChildStates, taskVars
<1>7. TasksAgree'
  <2>1. launched' >= launched /\ launched' \in 0..MaxLaunches
    BY <1>1, <1>3, <1>5
  <2>2. processes' = (processes \ {}) \cup (launched + 1..launched')
    BY <1>5
  <2>3. ToSet(idle_nodes') \subseteq (ToSet(idle_nodes) \ {}) \cup (launched + 1..launched')
    BY <1>5
  <2>4. ~Undamaged => ~Undamaged'
    BY <1>5 DEF Undamaged, Listed
  <2>5. \A m \in Nodes : keys'[m] = IF m \in {} THEN {} ELSE keys[m]
    BY DEF taskVars
  <2>6. \A m \in Nodes \ {} : entries'[m] = entries[m]
    BY DEF taskVars
  <2>7. \A g \in Gets : (call'[g] = call[g] /\ where'[g] = where[g]) \/ call'[g] = "over"
    BY DEF CallsGoOn
  <2> QED
    BY <2>1, <2>2, <2>3, <2>4, <2>5, <2>6, <2>7, TasksOfTheRest
<1> QED
  BY <1>5, <1>6, <1>7 DEF PoolInv

LEMMA RecoverKeeps ==
  ASSUME PoolInv, Recover
  PROVE  PoolInv'
<1>1. /\ spawn_failed' = FALSE /\ FillNodes
      /\ UNCHANGED <<kind, RoomOf, watched, taskVars, timers, callVars, failures>>
  BY DEF Recover
<1>2. CallsGoOn
  BY <1>1, CallsStay DEF PoolInv
<1>3. Counted'
  BY <1>1 DEF PoolInv, Typed, Counted
<1> QED
  BY <1>1, <1>2, <1>3, FillNodesKeeps

\* The node used for longest is among the idle ones again.
LEMMA UsedAgain ==
  ASSUME Placed, idle_nodes' = Append(idle_nodes, Longest), nodes' = Rest, UNCHANGED <<launched, processes>>
  PROVE  Placed' /\ Listed \subseteq Listed'
<1>1. /\ idle_nodes \in Seq(Entry) /\ nodes \in Seq(Entry) /\ Once(idle_nodes) /\ Once(nodes)
      /\ ToSet(nodes) \cap ToSet(idle_nodes) \subseteq {undefined}
      /\ (ToSet(nodes) \cup ToSet(idle_nodes)) \ {undefined} = processes
  BY DEF Placed, ListsHold
<1> DEFINE n == Longest
<1>2. CASE nodes = <<>>
  <2>1. n = undefined /\ nodes' = nodes /\ n \in Entry
    BY <1>2 DEF Longest, Rest, Entry
  <2> HIDE DEF n
  <2>2. idle_nodes' = Append(idle_nodes, n)
    BY DEF n
  <2>3. idle_nodes' \in Seq(Entry) /\ ToSet(idle_nodes') = ToSet(idle_nodes) \cup {n} /\ Once(idle_nodes')
    BY <1>1, <2>1, <2>2, Appended
  <2>4. ListsHold(idle_nodes', nodes', processes')
    BY <1>1, <2>1, <2>3 DEF ListsHold
  <2> QED
    BY <2>1, <2>3, <2>4 DEF Placed, Listed
<1>3. CASE nodes # <<>>
  <2>1. n = Head(nodes) /\ nodes' = Tail(nodes)
    BY <1>3 DEF Longest, Rest
  <2> HIDE DEF n
  <2>2. /\ n \in ToSet(nodes) /\ nodes' \in Seq(Entry) /\ ToSet(nodes) = {n} \cup ToSet(nodes')
        /\ Once(nodes') /\ (n \in ToSet(nodes') => n = undefined)
    BY <1>1, <1>3, <2>1, Shifted
  <2>3. n \in Entry /\ (n \in ToSet(idle_nodes) => n = undefined)
    BY <1>1, <2>2, PlacesOf
  <2>4. idle_nodes' = Append(idle_nodes, n)
    BY DEF n
  <2>5. idle_nodes' \in Seq(Entry) /\ ToSet(idle_nodes') = ToSet(idle_nodes) \cup {n} /\ Once(idle_nodes')
    BY <1>1, <2>3, <2>4, Appended
  <2>6. ListsHold(idle_nodes', nodes', processes')
    BY <1>1, <2>2, <2>5 DEF ListsHold
  <2> QED
    BY <2>2, <2>5, <2>6 DEF Placed, Listed
<1> QED
  BY <1>2, <1>3

LEMMA AfterPickKeeps ==
  ASSUME PoolInv, AfterPick
  PROVE  PoolInv'
<1>1. /\ timers["fill"] > 0 /\ timers' = [timers EXCEPT !["fill"] = @ - 1]
      /\ UNCHANGED <<kind, RoomOf, watched, taskVars, spawn_failed, callVars, failures>>
      /\ \/ FillNodes
         \/ /\ reuseNode /\ idle_nodes' = Append(idle_nodes, Longest) /\ nodes' = Rest
            /\ UNCHANGED <<launched, child, processes>>
         \/ UNCHANGED listVars /\ UNCHANGED <<launched, child, processes>>
  BY DEF AfterPick
<1>2. timers' \in [{"fill", "spawn"} -> Nat]
  BY <1>1 DEF PoolInv, Typed
<1>3. Counted' /\ CallsGoOn
  BY <1>1, <1>2, CallsStay DEF PoolInv, Typed, Counted
<1>4. CASE FillNodes
  BY <1>1, <1>3, <1>4, FillNodesKeeps
<1>5. CASE /\ reuseNode /\ idle_nodes' = Append(idle_nodes, Longest) /\ nodes' = Rest
           /\ UNCHANGED <<launched, child, processes>>
  <2>1. Placed' /\ Listed \subseteq Listed'
    BY <1>5, UsedAgain DEF PoolInv
  <2>2. Typed'
    BY <1>1, <1>2, <1>5 DEF PoolInv, Typed, taskVars, callVars
  <2>3. TasksListed'
    BY <1>1, <1>5 DEF PoolInv, TasksAgree, TasksListed, taskVars, callVars
  <2>4. Together'
    BY <1>1, <2>1 DEF PoolInv, TasksAgree, Together, consumeNodeByRoom, Undamaged, taskVars
  <2>5. NotReused'
    BY <1>1, <1>5 DEF NotReused, reuseNode
  <2> QED
    BY <2>1, <2>2, <2>3, <2>4, <2>5 DEF PoolInv, TasksAgree
<1>6. CASE UNCHANGED listVars /\ UNCHANGED <<launched, child, processes>>
  <2>1. child' \in [Nodes -> ChildStates] /\ \A n \in Nodes : n > launched => child'[n] = "none"
    BY <1>6 DEF PoolInv, Typed, ChildStates
  <2>2. watched' \subseteq 1..launched
    BY <1>1 DEF PoolInv, Typed
  <2> QED
    BY <1>1, <1>3, <1>6, <2>1, <2>2, ChildChanges
<1> QED
  BY <1>1, <1>4, <1>5, <1>6

LEMMA DropAllNodesKeeps ==
  ASSUME PoolInv, DropAllNodes
  PROVE  PoolInv'
<1> DEFINE idle == NoNodes(idle_nodes)
           used == NoNodes(nodes)
           kids == [n \in Nodes |-> IF n \in processes \cap processes THEN Killed(n) ELSE child[n]]
<1>1. /\ Failure("loss") /\ spawn_failed' = TRUE /\ CleanupTasks(processes)
      /\ Launch(0, processes \ processes, idle, used, kids)
      /\ UNCHANGED <<kind, RoomOf, timers, callVars>>
  BY DEF DropAllNodes, KillNodes
<1>2. /\ launched \in 0..MaxLaunches /\ launched \in Nat /\ MaxLaunches \in Nat /\ MaxNodes \in Nat
      /\ processes \subseteq 1..launched
      /\ idle_nodes \in Seq(Entry) /\ nodes \in Seq(Entry)
      /\ (ToSet(nodes) \cup ToSet(idle_nodes)) \ {undefined} = processes
  BY StartIs DEF PoolInv, Placed, ListsHold
<1>3. processes \subseteq Nodes /\ undefined \notin processes
  BY <1>2 DEF Nodes, undefined
<1>4. /\ idle \in Seq({undefined}) /\ Once(idle) /\ ToSet(idle) = ToSet(idle_nodes) \cap {undefined}
      /\ used \in Seq({undefined}) /\ Once(used) /\ ToSet(used) = ToSet(nodes) \cap {undefined}
  BY <1>2, NothingButUndefined
<1>5. kids \in [Nodes -> ChildStates] /\ \A m \in Nodes : m > launched => kids[m] = "none"
  <2>1. kids \in [Nodes -> ChildStates]
    BY DEF Killed, ChildStates, PoolInv, Typed
  <2>2. \A m \in Nodes : m > launched => m \notin processes
    BY <1>2 DEF Nodes
  <2>3. \A m \in Nodes : m > launched => kids[m] = "none"
    BY <2>2 DEF PoolInv, Typed
  <2> QED
    BY <2>1, <2>3
<1> HIDE DEF idle, used, kids
<1>6. ListsHold(idle, used, processes \ processes)
  <2>1. {undefined} \subseteq Entry
    BY DEF Entry
  <2>2. idle \in Seq(Entry) /\ used \in Seq(Entry)
    BY <1>4, <2>1
  <2> QED
    BY <1>4, <2>2 DEF ListsHold
<1>7. /\ Placed' /\ launched' = launched + 0
      /\ processes' = (processes \ processes) \cup (launched + 1..launched')
      /\ ToSet(idle_nodes') = ToSet(idle) \cup (launched + 1..launched') /\ nodes' = used
  <2>1. Cardinality({}) <= MaxNodes /\ processes \ processes = {}
    BY <1>2, FS_EmptySet
  <2>2. /\ Cardinality(processes \ processes) <= MaxNodes /\ processes \ processes \subseteq 1..launched
        /\ 0 \in Nat /\ launched + 0 <= MaxLaunches /\ ~(0 > 0)
    <3>1. Cardinality(processes \ processes) <= MaxNodes
      BY <2>1, Zenon
    <3>2. 0 \in Nat /\ launched + 0 <= MaxLaunches /\ ~(0 > 0) /\ processes \ processes \subseteq 1..launched
      BY <1>2
    <3> QED
      BY <3>1, <3>2
  <2> QED
    BY <1>1, <1>2, <1>6, <2>2, LaunchPlaces
<1>8. launched' = launched /\ processes' = {} /\ ToSet(idle_nodes') = ToSet(idle)
  BY <1>2, <1>7
<1>9. CallsGoOn /\ Counted'
  <2>1. CallsGoOn
    BY <1>1, CallsStay DEF PoolInv
  <2>2. Counted'
    BY <1>1, OneFailureMore DEF Counted, PoolInv, Typed
  <2> QED
    BY <2>1, <2>2
<1>10. /\ keys' = [n \in Entry |-> IF n \in processes THEN {} ELSE keys[n]]
       /\ entries' = [n \in Nodes |-> IF n \in processes THEN {} ELSE entries[n]]
       /\ watched' \subseteq watched
  BY <1>1 DEF CleanupTasks, PoolInv, Typed
<1>11. Typed'
  <2>1. child' = [m \in Nodes |-> IF m \in launched + 1..launched + 0 THEN "starting" ELSE kids[m]]
    BY <1>1 DEF Launch
  <2>2. child' = kids
    BY <1>2, <1>5, <2>1
  <2>3. watched' \subseteq 1..launched'
    BY <1>8, <1>10 DEF PoolInv, Typed
  <2>4. keys' \in [Entry -> SUBSET Rooms] /\ entries' \in [Nodes -> SUBSET Gets]
    BY <1>10 DEF PoolInv, Typed
  <2> QED
    BY <1>1, <1>5, <1>8, <1>9, <2>2, <2>3, <2>4 DEF PoolInv, Typed, CallsGoOn, Counted, ChildStates
<1>12. TasksAgree'
  <2>1. launched' >= launched /\ launched' \in 0..MaxLaunches
    BY <1>2, <1>8
  <2>2. processes' = (processes \ processes) \cup (launched + 1..launched')
    BY <1>7
  <2>3. ToSet(idle_nodes') \subseteq (ToSet(idle_nodes) \ processes) \cup (launched + 1..launched')
    BY <1>3, <1>4, <1>8
  <2>4. ~Undamaged => ~Undamaged'
    BY <1>4, <1>7, <1>8 DEF Undamaged, Listed
  <2>5. \A m \in Nodes : keys'[m] = IF m \in processes THEN {} ELSE keys[m]
    BY <1>10 DEF Entry
  <2>6. \A m \in Nodes \ processes : entries'[m] = entries[m]
    BY <1>10
  <2>7. \A g \in Gets : (call'[g] = call[g] /\ where'[g] = where[g]) \/ call'[g] = "over"
    BY <1>9 DEF CallsGoOn
  <2> QED
    BY <1>1, <1>3, <2>1, <2>2, <2>3, <2>4, <2>5, <2>6, <2>7, TasksOfTheRest
<1> QED
  BY <1>7, <1>11, <1>12 DEF PoolInv

-----------------------------------------------------------------------------
(* The invariant                                                            *)

LEMMA PoolStarts ==
  ASSUME PoolInit
  PROVE  PoolInv
<1>1. /\ kind \in Kinds /\ RoomOf \in RoomMaps /\ launched = AtStart
      /\ child = [n \in Nodes |-> IF n <= AtStart THEN "starting" ELSE "none"]
      /\ processes = 1..AtStart /\ watched = {}
      /\ idle_nodes = [n \in 1..AtStart |-> n] /\ nodes = <<>>
      /\ keys = [n \in Entry |-> {}] /\ entries = [n \in Nodes |-> {}]
      /\ spawn_failed = FALSE /\ timers = [k \in {"fill", "spawn"} |-> 0]
      /\ where = [g \in Gets |-> undefined] /\ call = [g \in Gets |-> "none"]
      /\ failures = <<>>
  BY DEF PoolInit, Entry
<1>2. /\ AtStart \in 0..MaxLaunches /\ AtStart \in Nat /\ AtStart <= MaxNodes
      /\ MaxNodes \in Nat /\ MaxLaunches \in Nat /\ MaxFailures \in Nat
  BY StartIs
<1>3. 1..AtStart \subseteq Nodes /\ 1..AtStart \subseteq Entry /\ undefined \notin 1..AtStart
  BY <1>2 DEF Nodes, Entry, undefined
<1>4. /\ idle_nodes \in Seq(Entry) /\ Len(idle_nodes) = AtStart
      /\ \A n \in 1..AtStart : idle_nodes[n] = n
  BY <1>1, <1>2, <1>3
<1>5. ToSet(idle_nodes) = 1..AtStart /\ Once(idle_nodes)
  <2>1. DOMAIN idle_nodes = 1..AtStart /\ \A x : x \in ToSet(idle_nodes) <=> \E i \in 1..AtStart : idle_nodes[i] = x
    BY <1>4, PlacesOf
  <2>2. Once(idle_nodes)
    BY <1>4, <2>1 DEF Once
  <2>3. \A x : x \in ToSet(idle_nodes) <=> x \in 1..AtStart
    BY <1>4, <2>1
  <2> QED
    BY <2>2, <2>3
<1>6. nodes \in Seq(Entry) /\ ToSet(nodes) = {} /\ Once(nodes)
  <2>1. nodes \in Seq(Entry) /\ Len(nodes) = 0
    BY <1>1
  <2>2. DOMAIN nodes = 1..0 /\ \A x : x \in ToSet(nodes) <=> \E i \in 1..0 : nodes[i] = x
    BY <2>1, PlacesOf
  <2> QED
    BY <2>1, <2>2 DEF Once
<1>7. Placed
  <2>1. ListsHold(idle_nodes, nodes, processes)
    BY <1>1, <1>3, <1>4, <1>5, <1>6 DEF ListsHold
  <2>2. Cardinality(processes) <= MaxNodes
    <3>1. Cardinality(1..AtStart) = IF 1 > AtStart THEN 0 ELSE AtStart - 1 + 1
      BY <1>2, FS_Interval
    <3> QED
      BY <1>1, <1>2, <3>1
  <2> QED
    BY <1>1, <1>2, <2>1, <2>2 DEF Placed
<1>8. Typed
  <2>1. RoomOf \in [Gets -> Rooms]
    BY <1>1, PoolAssumption
  <2>2. \A n \in Nodes : n > launched => child[n] = "none"
    BY <1>1, <1>2 DEF Nodes
  <2>3. child \in [Nodes -> ChildStates]
    BY <1>1 DEF ChildStates
  <2>4. failures \in Seq({"spawn", "node", "loss"}) /\ Len(failures) <= MaxFailures
    BY <1>1, <1>2
  <2>5. timers \in [{"fill", "spawn"} -> Nat] /\ spawn_failed \in BOOLEAN /\ watched \subseteq 1..launched
    BY <1>1
  <2> QED
    BY <1>1, <2>1, <2>2, <2>3, <2>4, <2>5 DEF Typed, ChildStates, Entry
<1>9. TasksListed /\ Together
  BY <1>1 DEF TasksListed, Together, Entry
<1>10. NotReused
  BY <1>1, <1>3, <1>5 DEF NotReused, OneRoomEach, IdleFree, CallsHeld, Entry
<1> QED
  BY <1>7, <1>8, <1>9, <1>10 DEF PoolInv, TasksAgree

LEMMA PoolStays ==
  ASSUME PoolInv, [PoolNext]_poolVars
  PROVE  PoolInv'
<1>1. ASSUME NEW g \in Gets, GetNodeOfRoom(g) \/ PickInIdle(g) \/ NoAvailableNode(g)
      PROVE  PoolInv'
  BY <1>1, GetNodeOfRoomKeeps, PickInIdleKeeps, NoAvailableNodeKeeps
<1>2. ASSUME NEW g \in Gets, NodeReady(g) \/ NodeGone(g) \/ GiveUp(g) \/ RecycleNode(g)
      PROVE  PoolInv'
  BY <1>2, NodeReadyKeeps, NodeGoneKeeps, GiveUpKeeps, RecycleNodeKeeps
<1>3. ASSUME NEW n \in Nodes, Ready(n) \/ SpawnError(n) \/ NodeError(n) \/ Unresponsive(n) \/ Close(n)
      PROVE  PoolInv'
  BY <1>3, ReadyKeeps, SpawnErrorKeeps, NodeErrorKeeps, UnresponsiveKeeps, CloseKeeps
<1>4. CASE AfterPick \/ SpawnErrorOver \/ DropAllNodes \/ Recover
  BY <1>4, AfterPickKeeps, SpawnErrorOverKeeps, DropAllNodesKeeps, RecoverKeeps
<1>5. CASE UNCHANGED poolVars
  <2>1. UNCHANGED <<kind, RoomOf, launched, child, processes, watched, listVars, taskVars, spawn_failed,
                    timers, callVars, failures>>
    BY <1>5 DEF poolVars
  <2>2. Counted' /\ child' \in [Nodes -> ChildStates] /\ watched' \subseteq 1..launched
    BY <2>1 DEF PoolInv, Typed, Counted, ChildStates
  <2>3. \A n \in Nodes : n > launched => child'[n] = "none"
    BY <2>1 DEF PoolInv, Typed
  <2> QED
    BY <2>1, <2>2, <2>3, ChildChanges
<1> QED
  BY <1>1, <1>2, <1>3, <1>4, <1>5 DEF PoolNext, CallNext, ChildNext

LEMMA PoolFollows ==
  ASSUME PoolInv
  PROVE  PoolConsistent
<1>1. PoolTypeOK
  BY DEF PoolInv, Placed, ListsHold, Typed, Entry, PoolTypeOK
<1>2. ListsAgree
  BY DEF PoolInv, Placed, ListsHold, ListsAgree, Listed
<1>3. WithinLimit
  BY DEF PoolInv, Placed, WithinLimit
<1>4. RoomTogether
  <2> SUFFICES ASSUME consumeNodeByRoom, Undamaged, NEW r \in Rooms
               PROVE  Cardinality({n \in Nodes : r \in keys[n]}) <= 1
    BY DEF RoomTogether
  <2> DEFINE with == {n \in Nodes : r \in keys[n]}
  <2>1. \A n, m \in with : n = m
    BY DEF PoolInv, TasksAgree, Together
  <2> HIDE DEF with
  <2>2. CASE with = {}
    BY <2>2, FS_EmptySet DEF with
  <2>3. CASE with # {}
    <3>1. PICK n \in with : TRUE
      BY <2>3
    <3>2. with = {n}
      BY <2>1, <3>1
    <3>3. Cardinality({n}) = 1
      BY FS_Singleton
    <3> QED
      BY <3>2, <3>3 DEF with
  <2> QED
    BY <2>2, <2>3
<1>5. LeasedIsHeld
  BY DEF PoolInv, TasksAgree, NotReused, CallsHeld, LeasedIsHeld
<1> QED
  BY <1>1, <1>2, <1>3, <1>4, <1>5 DEF PoolConsistent

\* Whatever is picked, recycled, dropped, reused, fails or closes, and in whatever order: the
\* processes are those in the lists, each once and never more than maxNodeNum; the tasks of a
\* room are on one node; and a node that has been handed out knows of it (nodeManager.js).
THEOREM PoolStaysConsistent == PoolSpec => []PoolConsistent
<1>1. PoolInit => PoolInv
  BY PoolStarts
<1>2. PoolInv /\ [PoolNext]_poolVars => PoolInv'
  BY PoolStays
<1>3. PoolInv => PoolConsistent
  BY PoolFollows
<1> QED
  BY <1>1, <1>2, <1>3, PTL DEF PoolSpec
=============================================================================
