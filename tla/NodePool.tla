------------------------------ MODULE NodePool ------------------------------
(***************************************************************************)
(* The worker processes of one agent (source/agent/nodeManager.js): nodes   *)
(* are started ahead of their use, handed out by getNode, taken back by     *)
(* recycleNode and dropped when they fail.  A step is one macrotask of the  *)
(* agent; the child processes are its environment.                          *)
(***************************************************************************)
EXTENDS Naturals, Sequences, SequencesExt, FiniteSets

CONSTANTS Gets,        \* calls of getNode, each with a task of its own
          Rooms,
          RoomMaps,    \* which rooms the calls may be for
          PrerunNodes, \* prerunNodeNum
          MaxNodes,    \* maxNodeNum, when it is not negative
          MaxLaunches, \* bound: processes ever started
          MaxFailures  \* bound: processes that fail, and losses of the agent

ASSUME PoolAssumption ==
  /\ RoomMaps \subseteq [Gets -> Rooms]
  /\ PrerunNodes \in Nat \ {0} /\ MaxNodes \in Nat \ {0} /\ MaxLaunches \in Nat /\ MaxFailures \in Nat

Nodes == 1..MaxLaunches
\* What shift() of an empty list returns, as a node.
undefined == 0
Less(i, j) == IF i < j THEN i ELSE j
\* Nodes that are started when the agent starts.
AtStart == Less(Less(PrerunNodes, MaxNodes), MaxLaunches)

VARIABLES
  kind,        \* what kind of agent: reuseNode and consumeNodeByRoom (agent/index.js)
  RoomOf,      \* the room each call is for
  launched,    \* node_index
  child,       \* READY of each child, or what has become of it
  processes,   \* the nodes in processes
  watched,     \* nodes with a check_alive_interval
  idle_nodes, nodes,
  keys,        \* the rooms in tasks[n]
  entries,     \* the tasks in tasks[n]
  spawn_failed,
  timers,      \* what setTimeout has pending: fills of pickInIdle, ends of spawn_failed
  where,       \* the node each getNode waits for or has been answered with
  call,        \* how far it is
  failures     \* the kinds of failures so far

listVars == <<idle_nodes, nodes>>
taskVars == <<keys, entries>>
callVars == <<where, call>>
poolVars == <<kind, RoomOf, launched, child, processes, watched, listVars, taskVars,
              spawn_failed, timers, callVars, failures>>

Kinds == {"media", "conference", "access"}
reuseNode == kind = "access"
consumeNodeByRoom == kind # "media"

PoolTypeOK ==
  /\ kind \in Kinds /\ RoomOf \in [Gets -> Rooms] /\ launched \in 0..MaxLaunches
  /\ child \in [Nodes -> {"none", "starting", "ready", "failed", "stopping", "killed", "closed"}]
  /\ processes \subseteq 1..launched /\ watched \subseteq 1..launched
  /\ idle_nodes \in Seq(Nodes \cup {undefined}) /\ nodes \in Seq(Nodes \cup {undefined})
  /\ keys \in [Nodes \cup {undefined} -> SUBSET Rooms] /\ entries \in [Nodes -> SUBSET Gets]
  /\ spawn_failed \in BOOLEAN /\ timers \in [{"fill", "spawn"} -> Nat]
  /\ where \in [Gets -> Nodes \cup {undefined}]
  /\ call \in [Gets -> {"none", "waiting", "leased", "over"}]
  /\ failures \in Seq({"spawn", "node", "loss"}) /\ Len(failures) <= MaxFailures

PoolInit ==
  /\ kind \in Kinds /\ RoomOf \in RoomMaps
  /\ launched = AtStart
  /\ child = [n \in Nodes |-> IF n <= AtStart THEN "starting" ELSE "none"]
  /\ processes = 1..AtStart /\ watched = {}
  /\ idle_nodes = [n \in 1..AtStart |-> n] /\ nodes = <<>>
  /\ keys = [n \in Nodes \cup {undefined} |-> {}] /\ entries = [n \in Nodes |-> {}]
  /\ spawn_failed = FALSE /\ timers = [k \in {"fill", "spawn"} |-> 0]
  /\ where = [g \in Gets |-> undefined] /\ call = [g \in Gets |-> "none"]
  /\ failures = <<>>

-----------------------------------------------------------------------------
(* Parts of the handlers                                                    *)

InLists == Len(idle_nodes) + Len(nodes)

\* How many nodes fillNodes starts when there are idle and used ones.
ToStart(idle, used) ==
  IF idle < PrerunNodes /\ idle + used < MaxNodes
  THEN Less(Less(PrerunNodes - idle, MaxNodes - (idle + used)), MaxLaunches - launched) ELSE 0

NewNodes(k) == [i \in 1..k |-> launched + i]

\* launchNode, k times, after the rest of the handler has left these nodes and children.
Launch(k, known, idle, used, kids) ==
  /\ launched' = launched + k
  /\ child' = [n \in Nodes |-> IF n \in launched + 1..launched + k THEN "starting" ELSE kids[n]]
  /\ processes' = known \cup (launched + 1..launched + k)
  /\ idle_nodes' = idle \o NewNodes(k)
  /\ nodes' = used

FillNodes == Launch(ToStart(Len(idle_nodes), Len(nodes)), processes, idle_nodes, nodes, child)

\* Mutant: a node that is cleaned up is left among the idle ones.
IdleKept(n) == idle_nodes

\* cleanupNode.
IdleWithout(n) == RemoveFirst(idle_nodes, n)
UsedWithout(n) == RemoveFirst(nodes, n)


CleanupTasks(gone) ==
  /\ keys' = [n \in DOMAIN keys |-> IF n \in gone THEN {} ELSE keys[n]]
  /\ entries' = [n \in Nodes |-> IF n \in gone THEN {} ELSE entries[n]]
  /\ watched' = watched \ (gone \cap processes)

\* A child that is killed before its READY has arrived may still send it.
Killed(n) == IF child[n] = "starting" THEN "stopping" ELSE "killed"

\* dropNode of a node, and of all of them, that leaves in the lists what is not a node.  What is
\* killed closes later, and only then is there a node in its place.
KillNodes(gone, idle, used) ==
  /\ CleanupTasks(gone)
  /\ Launch(0, processes \ gone, idle, used,
            [n \in Nodes |-> IF n \in gone \cap processes THEN Killed(n) ELSE child[n]])
DropNode(n) == KillNodes({n}, IdleWithout(n), UsedWithout(n))
NoNodes(q) == [i \in 1..Cardinality({j \in DOMAIN q : q[j] = undefined}) |-> undefined]

-----------------------------------------------------------------------------
(* Requests of the agent                                                    *)

Answer(g, result) == call' = [call EXCEPT ![g] = result]
\* The call has failed, or what it has been given has been recycled.
Over(g) == Answer(g, "over") /\ where' = [where EXCEPT ![g] = undefined]

findNodeUsedByRoom(nodeList, r) ==
  LET i == SelectInSeq(nodeList, LAMBDA n : r \in keys[n])
  IN  IF i = 0 THEN undefined ELSE nodeList[i]
UsedByRoom(g) ==
  IF findNodeUsedByRoom(nodes, RoomOf[g]) # undefined THEN findNodeUsedByRoom(nodes, RoomOf[g])
  ELSE findNodeUsedByRoom(idle_nodes, RoomOf[g])

\* waitTillNodeReady: a node that is ready is handed out at once, and addTask is next.
Handed(g, n) ==
  /\ where' = [where EXCEPT ![g] = n]
  /\ IF child[n] = "ready"
     THEN Answer(g, "leased") /\ entries' = [entries EXCEPT ![n] = @ \cup {g}]
     ELSE Answer(g, "waiting") /\ UNCHANGED entries

\* getNode that finds a node of its room.
GetNodeOfRoom(g) ==
  /\ call[g] = "none" /\ consumeNodeByRoom /\ UsedByRoom(g) # undefined
  /\ Handed(g, UsedByRoom(g))
  /\ UNCHANGED <<kind, RoomOf, launched, child, processes, watched, listVars, keys, spawn_failed, timers, failures>>

NeedsNode(g) == consumeNodeByRoom => UsedByRoom(g) = undefined

\* getNode that takes the first idle node (pickInIdle) and has the pool filled afterwards.
PickInIdle(g) ==
  /\ call[g] = "none" /\ NeedsNode(g) /\ idle_nodes # <<>>
  /\ LET n == Head(idle_nodes) IN
       /\ idle_nodes' = Tail(idle_nodes) /\ nodes' = Append(nodes, n)
       /\ keys' = [keys EXCEPT ![n] = @ \cup {RoomOf[g]}]
       /\ IF n = undefined THEN Over(g) /\ UNCHANGED entries ELSE Handed(g, n)
  /\ timers' = [timers EXCEPT !["fill"] = @ + 1]
  /\ UNCHANGED <<kind, RoomOf, launched, child, processes, watched, spawn_failed, failures>>

NoAvailableNode(g) ==
  /\ call[g] = "none" /\ NeedsNode(g) /\ idle_nodes = <<>>
  /\ Over(g)
  /\ UNCHANGED <<kind, RoomOf, launched, child, processes, watched, listVars, taskVars, spawn_failed, timers, failures>>

\* The tasks of a node after getNode has failed for it: tasks[nodeId] = undefined.
Forget(n) == keys' = [keys EXCEPT ![n] = {}] /\ entries' = [entries EXCEPT ![n] = {}]

\* A tick of the wait: the node has become ready.  addTask throws when the room has been taken
\* off the node in the meantime.
NodeReady(g) ==
  LET n == where[g] IN
  /\ call[g] = "waiting" /\ n \in processes /\ child[n] = "ready"
  /\ IF RoomOf[g] \in keys[n]
     THEN Handed(g, n) /\ UNCHANGED keys
     ELSE Over(g) /\ Forget(n)
  /\ UNCHANGED <<kind, RoomOf, launched, child, processes, watched, listVars, spawn_failed, timers, failures>>

\* ... it has gone.
NodeGone(g) ==
  /\ call[g] = "waiting" /\ where[g] \notin processes
  /\ Over(g) /\ Forget(where[g])
  /\ UNCHANGED <<kind, RoomOf, launched, child, processes, watched, listVars, spawn_failed, timers, failures>>

\* ... it has not become ready in time and is dropped.
GiveUp(g) ==
  /\ call[g] = "waiting" /\ where[g] \in processes /\ child[where[g]] = "starting"
  /\ Over(g) /\ DropNode(where[g])
  /\ UNCHANGED <<kind, RoomOf, spawn_failed, timers, failures>>

\* nodes.shift().
Longest == IF nodes = <<>> THEN undefined ELSE Head(nodes)
Rest == IF nodes = <<>> THEN nodes ELSE Tail(nodes)

\* The callback of pickInIdle: the pool is filled, or the node used for longest is used again.
AfterPick ==
  /\ timers["fill"] > 0 /\ timers' = [timers EXCEPT !["fill"] = @ - 1]
  /\ IF InLists < MaxNodes THEN FillNodes
     ELSE /\ IF reuseNode THEN /\ idle_nodes' = Append(idle_nodes, Longest)
                               /\ nodes' = Rest
             ELSE UNCHANGED listVars
          /\ UNCHANGED <<launched, child, processes>>
  /\ UNCHANGED <<kind, RoomOf, watched, taskVars, spawn_failed, callVars, failures>>

\* recycleNode: with its last task a node is dropped.  Of a node that is gone the address is
\* not known any more, and the room is taken off what is not a node.
RecycleNode(g) ==
  LET n == IF where[g] \in processes THEN where[g] ELSE undefined
      left == IF n = undefined THEN {} ELSE entries[n] \ {g}
      roomsLeft == IF \E h \in left : RoomOf[h] = RoomOf[g] THEN keys[n] ELSE keys[n] \ {RoomOf[g]}
  IN /\ call[g] = "leased" /\ Over(g)
     /\ IF RoomOf[g] \in keys[n] /\ (roomsLeft # {} \/ n = undefined)
          THEN /\ keys' = [keys EXCEPT ![n] = roomsLeft]
               /\ entries' = [m \in Nodes |-> IF m = n THEN left ELSE entries[m]]
               /\ UNCHANGED <<launched, child, processes, watched, listVars>>
        ELSE IF RoomOf[g] \in keys[n] THEN DropNode(n)
        ELSE UNCHANGED <<launched, child, processes, watched, listVars, taskVars>>
     /\ UNCHANGED <<kind, RoomOf, spawn_failed, timers, failures>>

-----------------------------------------------------------------------------
(* What the children do                                                     *)

Failure(what) == Len(failures) < MaxFailures /\ failures' = Append(failures, what)

\* READY arrives, perhaps after the node has been dropped.
Ready(n) ==
  /\ child[n] \in {"starting", "stopping"}
  /\ child' = [child EXCEPT ![n] = IF @ = "starting" THEN "ready" ELSE "killed"]
  /\ watched' = watched \cup {n} /\ spawn_failed' = FALSE
  /\ UNCHANGED <<kind, RoomOf, launched, processes, listVars, taskVars, timers, callVars, failures>>

\* The process could not be started: its 'close' follows.
SpawnError(n) ==
  /\ child[n] = "starting" /\ Failure("spawn") /\ child' = [child EXCEPT ![n] = "failed"]
  /\ spawn_failed' = TRUE /\ timers' = [timers EXCEPT !["spawn"] = @ + 1]
  /\ UNCHANGED <<kind, RoomOf, launched, processes, watched, listVars, taskVars, callVars>>

SpawnErrorOver ==
  /\ timers["spawn"] > 0 /\ timers' = [timers EXCEPT !["spawn"] = @ - 1]
  /\ spawn_failed' = FALSE
  /\ UNCHANGED <<kind, RoomOf, launched, child, processes, watched, listVars, taskVars, callVars, failures>>

\* The node's RPC server does not start: ERROR.
NodeError(n) ==
  /\ child[n] = "starting" /\ Failure("node")
  /\ CleanupTasks({n})
  /\ Launch(0, processes \ {n}, IdleWithout(n), UsedWithout(n), [child EXCEPT ![n] = "killed"])
  /\ UNCHANGED <<kind, RoomOf, spawn_failed, timers, callVars>>

\* check_alive_interval: a node that says nothing for three seconds is dropped.
Unresponsive(n) ==
  /\ n \in watched \cap processes /\ Failure("node")
  /\ DropNode(n)
  /\ UNCHANGED <<kind, RoomOf, spawn_failed, timers, callVars>>

\* Mutant: nothing is started in place of a node that has closed.
NoneInItsPlace(n) == 0

Replacements(n) ==
  IF spawn_failed THEN 0 ELSE ToStart(Len(IdleWithout(n)), Len(UsedWithout(n)))

\* 'close': of a child that was killed, could not be started or has ended by itself.
Close(n) ==
  /\ child[n] \notin {"none", "closed"}
  /\ IF child[n] \in {"starting", "ready"} THEN Failure("node") ELSE UNCHANGED failures
  /\ IF n \in processes THEN CleanupTasks({n}) ELSE UNCHANGED <<taskVars, watched>>
  /\ Launch(Replacements(n), processes \ {n}, IdleWithout(n), UsedWithout(n),
            [child EXCEPT ![n] = "closed"])
  /\ UNCHANGED <<kind, RoomOf, spawn_failed, timers, callVars>>

-----------------------------------------------------------------------------
(* What the cluster worker tells the agent                                  *)

DropAllNodes ==
  /\ Failure("loss") /\ spawn_failed' = TRUE
  /\ KillNodes(processes, NoNodes(idle_nodes), NoNodes(nodes))
  /\ UNCHANGED <<kind, RoomOf, timers, callVars>>

Recover ==
  /\ spawn_failed' = FALSE /\ FillNodes
  /\ UNCHANGED <<kind, RoomOf, watched, taskVars, timers, callVars, failures>>

-----------------------------------------------------------------------------
CallNext ==
  \E g \in Gets :
    \/ GetNodeOfRoom(g) \/ PickInIdle(g) \/ NoAvailableNode(g)
    \/ NodeReady(g) \/ NodeGone(g) \/ GiveUp(g) \/ RecycleNode(g)

ChildNext ==
  \E n \in Nodes :
    Ready(n) \/ SpawnError(n) \/ NodeError(n) \/ Unresponsive(n) \/ Close(n)

PoolNext == CallNext \/ ChildNext \/ AfterPick \/ SpawnErrorOver \/ DropAllNodes \/ Recover

\* Timers expire, and what was killed or could not be started closes.  A node need not become
\* ready, and nothing has to be recycled.
PoolFairness ==
  /\ \A g \in Gets : WF_poolVars(NodeReady(g) \/ NodeGone(g) \/ GiveUp(g))
  /\ \A n \in Nodes : WF_poolVars(child[n] \in {"failed", "stopping", "killed"} /\ Close(n))
  /\ WF_poolVars(AfterPick) /\ WF_poolVars(SpawnErrorOver)

PoolSpec == PoolInit /\ [][PoolNext]_poolVars

-----------------------------------------------------------------------------
(* Properties                                                               *)

Listed == ToSet(nodes) \cup ToSet(idle_nodes)
Once(q) == \A i, j \in DOMAIN q : q[i] = q[j] /\ q[i] # undefined => i = j
Undamaged == undefined \notin Listed

\* Every process is in exactly one of the lists, once, and nothing else is: whatever closes,
\* fails, is dropped or reused between pickInIdle and its callback (cleanupNode, AfterPick).
ListsAgree ==
  /\ Once(nodes) /\ Once(idle_nodes) /\ ToSet(nodes) \cap ToSet(idle_nodes) \subseteq {undefined}
  /\ Listed \ {undefined} = processes

\* The agent never has more than maxNodeNum of them.
WithinLimit == Cardinality(processes) <= MaxNodes

\* spec.consumeNodeByRoom: tasks of one room are on one node, as long as it is there.
RoomTogether ==
  consumeNodeByRoom /\ Undamaged => \A r \in Rooms : Cardinality({n \in Nodes : r \in keys[n]}) <= 1

\* A node that has been handed out is in use: whoever recycles another task does not take it away.
LeasedIsHeld ==
  kind # "access" => \A g \in Gets :
    call[g] = "leased" /\ where[g] \in processes => g \in entries[where[g]]

PoolConsistent == PoolTypeOK /\ ListsAgree /\ WithinLimit /\ RoomTogether /\ LeasedIsHeld

\* Every getNode is answered, and the pool is filled again after whatever empties it unless a
\* process cannot be started or the agent has been lost.
GetNodeAnswered == \A g \in Gets : call[g] = "waiting" ~> call[g] # "waiting"
Short == ToStart(Len(idle_nodes), Len(nodes)) > 0
PoolRefills == Short ~> ~Short \/ {"spawn", "loss"} \cap ToSet(failures) # {}
PoolServes == GetNodeAnswered /\ PoolRefills
=============================================================================
