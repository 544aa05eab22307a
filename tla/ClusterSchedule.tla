--------------------------- MODULE ClusterSchedule ---------------------------
(***************************************************************************)
(* The tasks of one purpose in a cluster: ClusterManager and Scheduler      *)
(* (source/cluster_manager), the cluster workers of the agents              *)
(* (source/common/clusterWorker.js) and, as their environment, whoever asks *)
(* for a worker and then brings the task to its agent.                      *)
(*                                                                          *)
(* The manager is one process and a step is one macrotask of it or of a     *)
(* worker.  What a worker casts to the manager arrives in order or not at   *)
(* all; a call (join, keepAlive) follows what has been cast before it.      *)
(***************************************************************************)
EXTENDS Naturals, Sequences, FiniteSets

CONSTANTS Workers,     \* agents, by the ids they join with
          Tasks,
          NoWorker,    \* the worker of a task the scheduler does not have
          MaxCasts,    \* bound: casts of a worker under way
          MaxFaults,   \* bound: calls lost, and timers that expire in spite of a call under way
          MaxRestarts  \* bound: restarts of the manager

ASSUME ScheduleAssumption ==
  /\ NoWorker \notin Workers
  /\ MaxCasts \in Nat /\ MaxFaults \in Nat /\ MaxRestarts \in Nat

VARIABLES
  service,   \* ClusterManager.state
  workers,   \* ClusterManager.workers
  available, \* the workers whose load and state let them be scheduled
  executing, \* Scheduler.workers[w].tasks
  scheduled, \* Scheduler.tasks[t]: its worker, and whether reserve_timer is pending
  status,    \* clusterWorker.js state, or "gone" when its process has ended
  ownTasks,  \* clusterWorker.js tasks
  casts,     \* what a worker has cast and the manager has not received
  asked,     \* tasks being brought to the workers they have been scheduled on
  lostCalls, restarts

managerVars == <<service, workers, available, executing, scheduled>>
workerVars == <<status, ownTasks, casts>>
scheduleVars == <<managerVars, workerVars, asked, lostCalls, restarts>>

Unscheduled == [worker |-> NoWorker, timer |-> FALSE]
Reserved(w) == [worker |-> w, timer |-> TRUE]
Executed(w) == [worker |-> w, timer |-> FALSE]

Casts == [type : {"pickUpTasks", "layDownTask", "quit"}, tasks : SUBSET Tasks]
Cast(type, tasks) == [type |-> type, tasks |-> tasks]

ScheduleTypeOK ==
  /\ service \in {"initializing", "in-service"}
  /\ workers \subseteq Workers
  /\ available \subseteq workers
  /\ executing \in [Workers -> SUBSET Tasks]
  /\ scheduled \in [Tasks -> [worker : Workers \cup {NoWorker}, timer : BOOLEAN]]
  /\ status \in [Workers -> {"unregistered", "registered", "recovering", "gone"}]
  /\ ownTasks \in [Workers -> SUBSET Tasks]
  /\ casts \in [Workers -> Seq(Casts)]
  /\ asked \subseteq Tasks \X Workers
  /\ lostCalls \in 0..MaxFaults /\ restarts \in 0..MaxRestarts

ScheduleInit ==
  /\ service = "initializing" /\ workers = {} /\ available = {}
  /\ executing = [w \in Workers |-> {}]
  /\ scheduled = [t \in Tasks |-> Unscheduled]
  /\ status \in [Workers -> {"unregistered", "gone"}]
  /\ ownTasks = [w \in Workers |-> {}]
  /\ casts = [w \in Workers |-> <<>>]
  /\ asked = {} /\ lostCalls = 0 /\ restarts = 0

CallLost == lostCalls < MaxFaults /\ lostCalls' = lostCalls + 1

-----------------------------------------------------------------------------
(* Parts of the scheduler                                                   *)

InExecution(t) == LET w == scheduled[t].worker IN w \in workers /\ t \in executing[w]

\* The entries after remove(w): those of the tasks it executes go, reservations stay.
EntriesWithout(w) ==
  [t \in Tasks |-> IF t \in executing[w] /\ scheduled[t].worker = w
                   THEN Unscheduled ELSE scheduled[t]]

AvailableWithout(w) == available \ {w}

\* workerQuit.
WorkerQuit(w) ==
  /\ workers' = workers \ {w} /\ available' = AvailableWithout(w)
  /\ scheduled' = EntriesWithout(w)
  /\ executing' = [executing EXCEPT ![w] = {}]

\* workerJoin: one that is known already begins anew, without tasks and with full load.
WorkerJoin(w) ==
  /\ workers' = workers \cup {w} /\ available' = available \ {w}
  /\ executing' = [executing EXCEPT ![w] = {}]
  /\ UNCHANGED scheduled

\* executeTask, for each task picked up: the timer stops, and the worker is the new one's
\* even if the task was another's.
PickUpTasks(w, tasks) ==
  /\ executing' = [executing EXCEPT ![w] = @ \cup tasks]
  /\ scheduled' = [t \in Tasks |-> IF t \in tasks THEN Executed(w) ELSE scheduled[t]]

\* Mutant: a task that is laid down keeps its worker without a timer.
AfterExecution(w) == Executed(w)

\* The reservation that follows an execution.
ReservedAfter(w) == Reserved(w)

\* cancelExecution: a task the worker executes is reserved for it once more, any other loses
\* its entry.
LayDownTask(w, t) ==
  /\ executing' = [executing EXCEPT ![w] = @ \ {t}]
  /\ scheduled' = [scheduled EXCEPT ![t] =
                     IF @.worker # NoWorker /\ t \in executing[w] THEN ReservedAfter(w) ELSE Unscheduled]

-----------------------------------------------------------------------------
(* Requests for workers, and the agents                                     *)

\* schedule() of a task that has a worker the manager knows.
ScheduleAgain(t) ==
  LET w == scheduled[t].worker IN
  /\ service = "in-service" /\ w \in workers
  /\ scheduled' = IF InExecution(t) THEN scheduled ELSE [scheduled EXCEPT ![t] = Reserved(w)]
  /\ asked' = asked \cup {<<t, w>>}
  /\ UNCHANGED <<service, workers, available, executing, workerVars, lostCalls, restarts>>

\* Mutant: a task that is executed may be scheduled on any worker.
AnyTask(t) == TRUE

\* A new worker is looked for when the task has none the manager knows.
NeedsWorker(t) == scheduled[t].worker \notin workers

\* schedule() of any other task: the matcher and the strategy choose one of the available
\* workers or none.
Schedule(t) ==
  /\ service = "in-service" /\ NeedsWorker(t)
  /\ \/ \E w \in available :
          /\ scheduled' = [scheduled EXCEPT ![t] = Reserved(w)]
          /\ asked' = asked \cup {<<t, w>>}
     \/ /\ scheduled' = [scheduled EXCEPT ![t] = Unscheduled]
        /\ UNCHANGED asked
  /\ UNCHANGED <<service, workers, available, executing, workerVars, lostCalls, restarts>>

\* Calls about a task that are under way: the 30 seconds of a reservation and the initial
\* time of the manager are longer than their deadlines.
UnderWay(t) ==
  \E w \in Workers : <<t, w>> \in asked \/ \E i \in DOMAIN casts[w] : t \in casts[w][i].tasks

\* The reservation timer: repealTask.
ReservationExpires(t) ==
  /\ scheduled[t].timer
  /\ UnderWay(t) => lostCalls < MaxFaults
  /\ lostCalls' = IF UnderWay(t) THEN lostCalls + 1 ELSE lostCalls
  /\ scheduled' = [scheduled EXCEPT ![t] = Unscheduled]
  /\ UNCHANGED <<service, workers, available, executing, workerVars, asked, restarts>>

\* getNode of the agent: addTask, which tells the manager unless the worker is recovering.
AddTask(t, w) ==
  /\ <<t, w>> \in asked /\ asked' = asked \ {<<t, w>>}
  /\ status[w] \in {"registered", "recovering"} /\ Len(casts[w]) < MaxCasts
  /\ ownTasks' = [ownTasks EXCEPT ![w] = @ \cup {t}]
  /\ casts' = IF status[w] = "registered" /\ t \notin ownTasks[w]
              THEN [casts EXCEPT ![w] = Append(@, Cast("pickUpTasks", {t}))] ELSE casts
  /\ UNCHANGED <<managerVars, status, lostCalls, restarts>>

\* The agent has no node, is not ready or gone.
NodeRefused(t, w) ==
  /\ <<t, w>> \in asked /\ asked' = asked \ {<<t, w>>}
  /\ UNCHANGED <<managerVars, workerVars, lostCalls, restarts>>

\* The last use of the task on the agent ends: removeTask.
RemoveTask(t, w) ==
  /\ t \in ownTasks[w] /\ Len(casts[w]) < MaxCasts
  /\ ownTasks' = [ownTasks EXCEPT ![w] = @ \ {t}]
  /\ casts' = IF status[w] = "registered"
              THEN [casts EXCEPT ![w] = Append(@, Cast("layDownTask", {t}))] ELSE casts
  /\ UNCHANGED <<managerVars, status, asked, lostCalls, restarts>>

-----------------------------------------------------------------------------
(* The protocol between workers and manager                                 *)

\* A load report: the only thing that makes a worker that has joined available.
ReportLoad(w, low) ==
  /\ status[w] = "registered" /\ w \in workers
  /\ available' = IF low THEN available \cup {w} ELSE available \ {w}
  /\ UNCHANGED <<service, workers, executing, scheduled, workerVars, asked, lostCalls, restarts>>

\* A cast arrives.  One of a worker the manager does not know changes nothing.
Receive(w) ==
  LET cast == Head(casts[w]) IN
  /\ casts[w] # <<>>
  /\ casts' = [casts EXCEPT ![w] = Tail(@)]
  /\ \/ /\ w \notin workers /\ UNCHANGED managerVars
     \/ /\ w \in workers /\ cast.type = "pickUpTasks"
        /\ PickUpTasks(w, cast.tasks) /\ UNCHANGED <<service, workers, available>>
     \/ /\ w \in workers /\ cast.type = "layDownTask"
        /\ \A t \in cast.tasks : LayDownTask(w, t)
        /\ UNCHANGED <<service, workers, available>>
     \/ /\ w \in workers /\ cast.type = "quit"
        /\ WorkerQuit(w) /\ UNCHANGED service
  /\ UNCHANGED <<status, ownTasks, asked, lostCalls, restarts>>

LoseCast(w) ==
  /\ casts[w] # <<>> /\ CallLost
  /\ casts' = [casts EXCEPT ![w] = Tail(@)]
  /\ UNCHANGED <<managerVars, status, ownTasks, asked, restarts>>

\* Mutant: what is picked up is not sent after a recovery.
NothingPickedUp(w) == casts

\* The casts after a worker that recovers has joined a manager that has just begun.
PickedUpAgain(w) ==
  IF ownTasks[w] = {} THEN casts
  ELSE [casts EXCEPT ![w] = Append(@, Cast("pickUpTasks", ownTasks[w]))]

\* The call and the answer of join.  A worker that recovers brings its tasks to a manager that
\* is initializing; any other makes it drop them (onLoss).
Join(w) ==
  /\ status[w] \in {"unregistered", "recovering"} /\ casts[w] = <<>>
  /\ WorkerJoin(w)
  /\ status' = [status EXCEPT ![w] = "registered"]
  /\ IF status[w] = "unregistered" THEN UNCHANGED <<ownTasks, casts>>
     ELSE IF service = "initializing" THEN casts' = PickedUpAgain(w) /\ UNCHANGED ownTasks
     ELSE ownTasks' = [ownTasks EXCEPT ![w] = {}] /\ UNCHANGED casts
  /\ UNCHANGED <<service, asked, lostCalls, restarts>>

\* The answer of join is lost: the worker will try again.
JoinUnanswered(w) ==
  /\ status[w] \in {"unregistered", "recovering"} /\ casts[w] = <<>> /\ CallLost
  /\ WorkerJoin(w)
  /\ UNCHANGED <<service, workerVars, asked, restarts>>

\* keepAlive of a worker the manager does not know: "whoareyou".
WhoAreYou(w) ==
  /\ status[w] = "registered" /\ w \notin workers /\ casts[w] = <<>>
  /\ status' = [status EXCEPT ![w] = "recovering"]
  /\ UNCHANGED <<managerVars, ownTasks, casts, asked, lostCalls, restarts>>

\* More than three keepAlives in a row fail.
KeepAliveLost(w) ==
  /\ status[w] = "registered" /\ CallLost
  /\ status' = [status EXCEPT ![w] = "recovering"]
  /\ UNCHANGED <<managerVars, ownTasks, casts, asked, restarts>>

\* checkAlive: a worker that has been silent for too long is removed.
CheckAlive(w) ==
  /\ w \in workers /\ casts[w] = <<>>
  /\ status[w] # "gone" => lostCalls < MaxFaults
  /\ lostCalls' = IF status[w] # "gone" THEN lostCalls + 1 ELSE lostCalls
  /\ WorkerQuit(w)
  /\ UNCHANGED <<service, workerVars, asked, restarts>>

-----------------------------------------------------------------------------
(* Processes that end and begin                                             *)

\* The agent's process exits and has its worker quit, or just dies.
AgentEnds(w) ==
  /\ status[w] # "gone" /\ Len(casts[w]) < MaxCasts
  /\ status' = [status EXCEPT ![w] = "gone"]
  /\ ownTasks' = [ownTasks EXCEPT ![w] = {}]
  /\ \/ casts' = [casts EXCEPT ![w] = <<>>]
     \/ status[w] = "registered" /\ casts' = [casts EXCEPT ![w] = Append(@, Cast("quit", {}))]
  /\ UNCHANGED <<managerVars, asked, lostCalls, restarts>>

\* The manager is started again and knows nobody.
Restart ==
  /\ restarts < MaxRestarts /\ restarts' = restarts + 1
  /\ service' = "initializing" /\ workers' = {} /\ available' = {}
  /\ executing' = [w \in Workers |-> {}]
  /\ scheduled' = [t \in Tasks |-> Unscheduled]
  /\ casts' = [w \in Workers |-> <<>>]
  /\ UNCHANGED <<status, ownTasks, asked, lostCalls>>

\* The workers have come back and what was under way has ended.
AllBack ==
  /\ asked = {}
  /\ \A w \in Workers : /\ casts[w] = <<>>
                        /\ status[w] = "registered" => w \in workers
                        /\ status[w] # "recovering"

\* The initial time of serve() is over.
Serve ==
  /\ service = "initializing" /\ service' = "in-service"
  /\ ~AllBack => lostCalls < MaxFaults
  /\ lostCalls' = IF AllBack THEN lostCalls ELSE lostCalls + 1
  /\ UNCHANGED <<workers, available, executing, scheduled, workerVars, asked, restarts>>

-----------------------------------------------------------------------------
WorkerNext ==
  \E w \in Workers :
    \/ \E low \in BOOLEAN : ReportLoad(w, low)
    \/ Receive(w) \/ LoseCast(w) \/ Join(w) \/ JoinUnanswered(w)
    \/ WhoAreYou(w) \/ KeepAliveLost(w) \/ CheckAlive(w) \/ AgentEnds(w)

TaskNext ==
  \E t \in Tasks :
    \/ ScheduleAgain(t) \/ Schedule(t) \/ ReservationExpires(t)
    \/ \E w \in Workers : AddTask(t, w) \/ NodeRefused(t, w) \/ RemoveTask(t, w)

ScheduleNext == WorkerNext \/ TaskNext \/ Restart \/ Serve

\* Calls are answered or given up, casts arrive, timers expire.  Nobody has to ask for a
\* worker, and no task has to end.
ScheduleFairness ==
  /\ \A w \in Workers :
       /\ WF_scheduleVars(Receive(w)) /\ WF_scheduleVars(Join(w))
       /\ WF_scheduleVars(WhoAreYou(w)) /\ WF_scheduleVars(CheckAlive(w) /\ status[w] = "gone")
       /\ \A t \in Tasks : WF_scheduleVars(NodeRefused(t, w))
  /\ \A t \in Tasks : WF_scheduleVars(ReservationExpires(t) /\ ~UnderWay(t))

ScheduleSpec == ScheduleInit /\ [][ScheduleNext]_scheduleVars

-----------------------------------------------------------------------------
(* Properties                                                               *)

\* As long as no call is lost, a task runs on one worker only, through any number of
\* requests, executions, reservations and restarts of the manager: whoever asks for a worker
\* is sent to the one that has the task (schedule, executeTask, cancelExecution, tryRecovery).
TaskNotSplit ==
  lostCalls = 0 => \A t \in Tasks : Cardinality({w \in Workers : t \in ownTasks[w]}) <= 1

\* Once everything a worker has cast has arrived, manager and worker have the same tasks for
\* it, and the scheduler names that worker for each: no order of adding, removing, recovering
\* and restarting lets them drift apart unless a call is lost.
ViewsAgree ==
  lostCalls = 0 => \A w \in Workers :
    status[w] = "registered" /\ w \in workers /\ casts[w] = <<>> =>
      /\ executing[w] = ownTasks[w]
      /\ \A t \in ownTasks[w] : scheduled[t] = Executed(w)

\* The views of manager and workers agree, with the types of the variables.
ScheduleConsistent == ScheduleTypeOK /\ ViewsAgree

\* The scheduler does not hold a worker for ever for a task that nobody runs or brings: the
\* reservation after the last use, or of a worker that is gone, ends.
HoldingEnds ==
  \A t \in Tasks :
    scheduled[t].worker # NoWorker /\ (\A w \in Workers : t \notin ownTasks[w])
      ~> \/ scheduled[t].worker = NoWorker \/ lostCalls > 0
         \/ \E w \in Workers : t \in ownTasks[w] \/ <<t, w>> \in asked
=============================================================================
