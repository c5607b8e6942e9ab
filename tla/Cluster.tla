------------------------------ MODULE Cluster ------------------------------
(***************************************************************************)
(* The master and the membership of the cluster (src/master/master.cc,     *)
(* src/master/task_config.cc) with the node side of it (the registration,  *)
(* HeartBeat and AgentWork threads of src/agent/agent.cc and the threads   *)
(* of src/server/server.cc).                                               *)
(*                                                                         *)
(* The master runs three threads.  The main loop reads the messages of the *)
(* nodes: registrations, answers to heartbeats, terminations.  Once all    *)
(* nodes registered it delivers the configuration and starts the other     *)
(* two: one sends a heartbeat every heartbeat_gap, with the configuration  *)
(* when that changed, one removes the nodes not heard from for             *)
(* heartbeat_timeout.  The configuration is shared by the three threads;   *)
(* its mutex mu_ covers FixConfig and the assignment of config_changed_,   *)
(* and none of the reads.  One operation on one vector is one step here.   *)
(*                                                                         *)
(* Data abstraction.  A node is its own address; the master has id 0 and   *)
(* the node registered n-th has id n.  A start key is its rank among the   *)
(* keys drawn by GeneratePartition.  A configuration message carries the   *)
(* two lists that change; server_num_ and worker_num_ never do.  Time is   *)
(* counted in rounds of heartbeats: alive_node_ has, for the time point of *)
(* an answer, the number of rounds begun since.  An answer of k rounds ago *)
(* came more than k - 1 and less than k + 1 rounds ago, so that the number *)
(* does not settle which side of the timeout it is on.                     *)
(* The configuration the master sends to itself, and the heartbeats it     *)
(* sends to the servers' request port, are ignored by their receiver       *)
(* (Master::MainLoop, Server::Start) and are left out.                     *)
(***************************************************************************)
EXTENDS Integers, Sequences, FiniteSets, SequencesExt

CONSTANTS
  Servers, Agents,  \* the nodes; their numbers are server_num_, worker_num_
  Timeout,          \* the rounds that surely fit into heartbeat_timeout
  Overdue,          \* the number of an answer that is surely older than that
  MaxCrashes,       \* bound on the nodes that crash
  NoConfig          \* a heartbeat without configuration; a null reconfig_msg_

ASSUME ClusterAssumption ==
  /\ IsFiniteSet(Servers) /\ IsFiniteSet(Agents) /\ Agents # {}
  /\ Servers \cap Agents = {}
  /\ Timeout \in Nat \ {0} /\ Overdue \in Nat /\ Timeout < Overdue
  /\ MaxCrashes \in Nat

Nodes == Servers \cup Agents
NodeNum == Cardinality(Nodes)

VARIABLES
  \* the nodes
  status,          \* [node]
  mailbox,         \* [node]: the configuration on its way to its main port
  beats,           \* [agent]: heartbeats on their way to its heartbeat port
  reconfig_msg_,   \* [agent]: configuration its heartbeat thread left for main
  applied,         \* [agent]: the configuration its main thread works with
  \* the master's configuration, shared by its threads
  id_to_addr_, server_id_, agent_id_, partition_, config_changed_,
  stale,           \* what is left behind the end of agent_id_'s storage
  \* the master's main loop
  inbox, alive_node_, terminated_node_, terminated,
  \* its heartbeat thread: step, message built, position and end of its loop
  hb_pc, hb_msg, hb_next, hb_end,
  \* its detection thread: step, nodes still to remove, position to erase
  dt_pc, dead_node, index

nodeVars   == <<status, mailbox, beats, reconfig_msg_, applied>>
configVars == <<id_to_addr_, server_id_, agent_id_, partition_, stale>>
mainVars   == <<inbox, alive_node_, terminated_node_, terminated>>
beatVars   == <<hb_pc, hb_msg, hb_next, hb_end>>
detectVars == <<dt_pc, dead_node, index>>
vars == <<nodeVars, configVars, config_changed_, mainVars, beatVars,
          detectVars>>

Config == [server_id : Seq(1 .. NodeNum), partition : Seq(1 .. NodeNum)]

Registration(n) == [type |-> "register", node |-> n]

\* Every node has sent its register message and waits for the configuration;
\* the messages reach the master in any order.
Init ==
  /\ status = [n \in Nodes |-> "waiting"]
  /\ inbox \in {[k \in 1 .. NodeNum |-> Registration(order[k])] :
                 order \in SetToSeqs(Nodes)}
  /\ mailbox = [n \in Nodes |-> NoConfig]
  /\ beats = [a \in Agents |-> <<>>]
  /\ reconfig_msg_ = [a \in Agents |-> NoConfig]
  /\ applied = [a \in Agents |-> NoConfig]
  /\ id_to_addr_ = <<>> /\ server_id_ = <<>> /\ agent_id_ = <<>>
  /\ partition_ = <<>> /\ stale = <<>> /\ config_changed_ = FALSE
  /\ alive_node_ = <<>> /\ terminated_node_ = {}
  /\ terminated = FALSE
  /\ hb_pc = "off" /\ hb_msg = NoConfig /\ hb_next = 0 /\ hb_end = 0
  /\ dt_pc = "off" /\ dead_node = {} /\ index = 0

IdOf(n) == CHOOSE id \in DOMAIN id_to_addr_ : id_to_addr_[id] = n
Alive(n) == status[n] \notin {"crashed", "exited"}

\* A send to a node whose process is gone is lost.
Deliver(boxes, n, m) ==
  IF Alive(n) THEN [boxes EXCEPT ![n] = Append(@, m)] ELSE boxes

Tell(m) == inbox' = Append(inbox, m)

-----------------------------------------------------------------------------
(* The nodes *)

\* Initialize, after the registration: read the configuration and start.
Configure(n) ==
  /\ status[n] = "waiting"
  /\ mailbox[n] # NoConfig
  /\ status' = [status EXCEPT ![n] = "running"]
  /\ mailbox' = [mailbox EXCEPT ![n] = NoConfig]
  /\ applied' = IF n \in Agents THEN [applied EXCEPT ![n] = mailbox[n]]
                                ELSE applied
  /\ UNCHANGED <<beats, reconfig_msg_, configVars, config_changed_, mainVars,
                 beatVars, detectVars>>

\* Agent::HeartBeat: keep the configuration a heartbeat brings, replacing one
\* that was not applied yet, and answer the master.
AnswerHeartbeat(a) ==
  /\ status[a] \in {"running", "done"}
  /\ beats[a] # <<>>
  /\ beats' = [beats EXCEPT ![a] = Tail(@)]
  /\ reconfig_msg_' = IF Head(beats[a]) = NoConfig
                      THEN reconfig_msg_
                      ELSE [reconfig_msg_ EXCEPT ![a] = Head(beats[a])]
  /\ Tell([type |-> "heartbeat", node |-> a])
  /\ UNCHANGED <<status, mailbox, applied, configVars, config_changed_,
                 alive_node_, terminated_node_, terminated, beatVars,
                 detectVars>>

\* AgentWork, top of the loop: a signal of the worker finds a configuration.
Reconfigurate(a) ==
  /\ reconfig_msg_[a] # NoConfig
  /\ applied' = [applied EXCEPT ![a] = reconfig_msg_[a]]
  /\ reconfig_msg_' = [reconfig_msg_ EXCEPT ![a] = NoConfig]

\* A pull or a push of the worker (served by module ParameterServer).
WorkerSignal(a) ==
  /\ status[a] = "running"
  /\ Reconfigurate(a)
  /\ UNCHANGED <<status, mailbox, beats, configVars, config_changed_, mainVars,
                 beatVars, detectVars>>

\* The worker is done: the agent tells the master and lingers for a while.
TerminateSignal(a) ==
  /\ status[a] = "running"
  /\ Reconfigurate(a) \/ (reconfig_msg_[a] = NoConfig
                            /\ UNCHANGED <<applied, reconfig_msg_>>)
  /\ status' = [status EXCEPT ![a] = "done"]
  /\ Tell([type |-> "terminate", node |-> a])
  /\ UNCHANGED <<mailbox, beats, configVars, config_changed_, alive_node_,
                 terminated_node_, terminated, beatVars, detectVars>>

\* The process of node n is gone, with what it had not read.
Gone(n, how) ==
  /\ status' = [status EXCEPT ![n] = how]
  /\ mailbox' = [mailbox EXCEPT ![n] = NoConfig]
  /\ beats' = IF n \in Agents THEN [beats EXCEPT ![n] = <<>>] ELSE beats
  /\ reconfig_msg_' = IF n \in Agents
                      THEN [reconfig_msg_ EXCEPT ![n] = NoConfig]
                      ELSE reconfig_msg_
  /\ UNCHANGED <<applied, configVars, config_changed_, mainVars, beatVars,
                 detectVars>>

\* Reconfigurate takes server_num_ + 1 start keys out of a message that has at
\* most server_num_: past the end, which the library's debug check turns into
\* an abort and which otherwise yields a value that is not used.
ReconfigurateAborts(a) ==
  /\ status[a] = "running"
  /\ reconfig_msg_[a] # NoConfig
  /\ Gone(a, "crashed")

AgentExits(a) == status[a] = "done" /\ Gone(a, "exited")

Crash(n) ==
  /\ status[n] \in {"waiting", "running", "done"}
  /\ Cardinality({m \in Nodes : status[m] = "crashed"}) < MaxCrashes
  /\ Gone(n, "crashed")

-----------------------------------------------------------------------------
(* The master's main loop *)

\* The main loop reads a message of the given type; it has not ended.
Reads(type) ==
  /\ ~terminated
  /\ inbox # <<>>
  /\ Head(inbox).type = type
  /\ inbox' = Tail(inbox)

\* Mutant: node_id_ is incremented before it is listed.
NodeIdLate == Len(id_to_addr_) + 2

\* node_id_: the next free id.
NodeId == Len(id_to_addr_) + 1

AppendServer(n) ==
  /\ n \in Servers
  /\ server_id_' = Append(server_id_, NodeId)
  /\ id_to_addr_' = Append(id_to_addr_, n)
  /\ UNCHANGED agent_id_

AppendAgent(n) ==
  /\ n \in Agents
  /\ agent_id_' = Append(agent_id_, NodeId)
  /\ id_to_addr_' = Append(id_to_addr_, n)
  /\ UNCHANGED server_id_

Ready ==
  /\ Len(server_id_') = Cardinality(Servers)
  /\ Len(agent_id_') = Cardinality(Agents)

GeneratePartition == [k \in 1 .. Cardinality(Servers) |-> k]

ProcessRegisterMsg(n) == AppendServer(n) \/ AppendAgent(n)

\* The configuration goes to every node.
DeliverConfig ==
  mailbox' = [n \in Nodes |->
                IF Alive(n) THEN [server_id |-> server_id_',
                                  partition |-> partition_']
                            ELSE NoConfig]

\* A node registers.  The last one makes the cluster ready: the configuration
\* is delivered, all nodes count as heard from and the threads start.
RegisterMsg ==
  /\ Reads("register")
  /\ ProcessRegisterMsg(Head(inbox).node)
  /\ IF Ready
     THEN /\ partition_' = GeneratePartition
          /\ DeliverConfig
          /\ alive_node_' = [id \in 0 .. NodeNum |-> 0]
          /\ hb_pc' = "sleep" /\ dt_pc' = "sleep"
     ELSE UNCHANGED <<partition_, mailbox, alive_node_, hb_pc, dt_pc>>
  /\ UNCHANGED <<status, beats, reconfig_msg_, applied, config_changed_, stale,
                 terminated_node_, terminated, hb_msg, hb_next, hb_end,
                 dead_node, index>>

\* Mutant: the time is put in with insert, which keeps an entry that is there.
HeartbeatInserted ==
  /\ Reads("heartbeat")
  /\ UNCHANGED alive_node_
  /\ UNCHANGED <<nodeVars, configVars, config_changed_, terminated_node_,
                 terminated, beatVars, detectVars>>

ProcessHeartbeatMsg ==
  /\ Reads("heartbeat")
  /\ alive_node_' = [alive_node_ EXCEPT ![IdOf(Head(inbox).node)] = 0]
  /\ UNCHANGED <<nodeVars, configVars, config_changed_, terminated_node_,
                 terminated, beatVars, detectVars>>

\* Mutant: a termination is counted before it is recorded.
AllTerminatedLate == Cardinality(terminated_node_) = Cardinality(Agents)

\* Every worker of the configuration has terminated.
AllTerminated == Cardinality(terminated_node_') = Cardinality(Agents)

TerminateMsg ==
  /\ Reads("terminate")
  /\ terminated_node_' = terminated_node_ \cup {IdOf(Head(inbox).node)}
  /\ terminated' = AllTerminated
  /\ UNCHANGED <<nodeVars, configVars, config_changed_, alive_node_, beatVars,
                 detectVars>>

MainLoop == RegisterMsg \/ ProcessHeartbeatMsg \/ TerminateMsg

-----------------------------------------------------------------------------
(* The heartbeat thread: DeliverHeartbeat *)

Step(from, to) == ~terminated /\ hb_pc = from /\ hb_pc' = to

\* The loop over agent_id() takes the end of the vector when it starts.
StartLoop == hb_next' = 1 /\ hb_end' = Len(agent_id_)

CheckChanged ==
  \/ /\ config_changed_
     /\ Step("check", "servers")
     /\ UNCHANGED <<hb_next, hb_end>>
  \/ /\ ~config_changed_
     /\ Step("check", "send")
     /\ StartLoop

\* ToMessage copies the two lists one after the other, without the mutex.
CopyServers ==
  /\ Step("servers", "partition")
  /\ hb_msg' = [server_id |-> server_id_, partition |-> <<>>]
  /\ UNCHANGED <<hb_next, hb_end>>

CopyPartition ==
  /\ Step("partition", "clear")
  /\ hb_msg' = [hb_msg EXCEPT !.partition = partition_]
  /\ UNCHANGED <<hb_next, hb_end>>

\* set_config_changed(false) waits for the mutex.
ClearChanged ==
  /\ dt_pc \notin {"fix", "partition"}
  /\ Step("clear", "send")
  /\ config_changed_' = FALSE
  /\ StartLoop
  /\ UNCHANGED hb_msg

\* The loop reads the storage of the vector, which FixConfig may shift
\* in the meantime.
SendHeartbeat ==
  /\ hb_next <= hb_end
  /\ Step("send", "send")
  /\ beats' = Deliver(beats, id_to_addr_[(agent_id_ \o stale)[hb_next]], hb_msg)
  /\ hb_next' = hb_next + 1
  /\ UNCHANGED <<hb_msg, hb_end>>

HeartbeatsSent ==
  /\ hb_next > hb_end
  /\ Step("send", "sleep")
  /\ hb_msg' = NoConfig /\ hb_next' = 0 /\ hb_end' = 0

DeliverHeartbeat ==
  /\ \/ CheckChanged /\ UNCHANGED <<hb_msg, beats, config_changed_>>
     \/ /\ CopyServers \/ CopyPartition \/ HeartbeatsSent
        /\ UNCHANGED <<beats, config_changed_>>
     \/ ClearChanged /\ UNCHANGED beats
     \/ SendHeartbeat /\ UNCHANGED config_changed_
  /\ UNCHANGED <<status, mailbox, reconfig_msg_, applied, configVars, mainVars,
                 detectVars>>

-----------------------------------------------------------------------------
(* The detection thread: DetectDeadNode, FixConfig *)

\* The nodes not heard from for longer than the timeout: all whose answer is
\* overdue, none whose answer surely is not, and with one every older one.  The
\* oldest are the entries of the start, which share one time point; the master's
\* own is one of them for ever, as it never sends itself a heartbeat.
GetDeadNode(dead) ==
  /\ dead \subseteq {id \in DOMAIN alive_node_ : alive_node_[id] >= Timeout}
  /\ {id \in DOMAIN alive_node_ : alive_node_[id] >= Overdue} \subseteq dead
  /\ \A i \in DOMAIN alive_node_, j \in dead :
       alive_node_[i] > alive_node_[j] \/ alive_node_[i] = alive_node_[0] => i \in dead

\* The thread has a period of its own, detect_dead_node, and may be slow: it
\* wakes up at any time.
Scan ==
  /\ dt_pc = "sleep"
  /\ \E dead \in SUBSET DOMAIN alive_node_ :
       /\ GetDeadNode(dead)
       /\ dead_node' = dead
       /\ dt_pc' = IF dead = {} THEN "sleep" ELSE "lock"
  /\ UNCHANGED <<configVars, config_changed_, index, alive_node_>>

\* Mutant: the flag is only set when there is a node to remove.
LockIfListed ==
  /\ dt_pc = "lock"
  /\ dt_pc' = "fix"
  /\ config_changed_' = \/ config_changed_
                        \/ dead_node \cap (ToSet(agent_id_) \cup ToSet(server_id_)) # {}
  /\ UNCHANGED <<configVars, dead_node, index, alive_node_>>

LockConfig ==
  /\ dt_pc = "lock"
  /\ dt_pc' = "fix"
  /\ config_changed_' = TRUE
  /\ UNCHANGED <<configVars, dead_node, index, alive_node_>>

\* An id of the list is an agent: erasing shifts the ids behind it and leaves
\* the last one where it was.
EraseAgent(id) ==
  /\ id \in ToSet(agent_id_)
  /\ LET k == CHOOSE k \in DOMAIN agent_id_ : agent_id_[k] = id
     IN  agent_id_' = RemoveAt(agent_id_, k)
  /\ stale' = <<Last(agent_id_)>> \o stale
  /\ dt_pc' = "fix"
  /\ UNCHANGED <<server_id_, index>>

EraseServer(id) ==
  /\ id \notin ToSet(agent_id_)
  /\ id \in ToSet(server_id_)
  /\ index' = CHOOSE k \in DOMAIN server_id_ : server_id_[k] = id
  /\ server_id_' = RemoveAt(server_id_, index')
  /\ dt_pc' = "partition"
  /\ UNCHANGED <<agent_id_, stale>>

\* One pass of the loop over the dead nodes.  A pass over an id that is in
\* neither list (the master, a node removed earlier) changes nothing.
EraseNode ==
  /\ dt_pc = "fix"
  /\ \E id \in dead_node : EraseAgent(id) \/ EraseServer(id)
  /\ UNCHANGED <<id_to_addr_, partition_, dead_node, config_changed_,
                 alive_node_>>

\* Mutant: the entry behind the server's own is erased.
ErasedBehind == RemoveAt(partition_, IF index < Len(partition_) THEN index + 1
                                                                ELSE index)

Erased == RemoveAt(partition_, index)

ErasePartition ==
  /\ dt_pc = "partition"
  /\ partition_' = Erased
  /\ index' = 0
  /\ dt_pc' = "fix"
  /\ UNCHANGED <<id_to_addr_, server_id_, agent_id_, stale, dead_node,
                 config_changed_, alive_node_>>

UnlockConfig ==
  /\ dt_pc = "fix"
  /\ dead_node \cap (ToSet(agent_id_) \cup ToSet(server_id_)) = {}
  /\ dt_pc' = "sleep"
  /\ dead_node' = {}
  /\ UNCHANGED <<configVars, index, config_changed_, alive_node_>>

DetectDeadNode ==
  /\ ~terminated
  /\ Scan \/ LockConfig \/ EraseNode \/ ErasePartition \/ UnlockConfig
  /\ UNCHANGED <<nodeVars, inbox, terminated_node_, terminated, beatVars>>

-----------------------------------------------------------------------------
(* Time *)

\* DeliverHeartbeatLoop has slept for heartbeat_gap and begins a round.  A
\* round lasts the gap and the time its messages take.  Assumed: rounds do not
\* overlap, that is the agents that live have answered the heartbeats of the last
\* round, and the answers are read, before the next begins.
Tick ==
  /\ hb_pc = "sleep" /\ ~terminated
  /\ \A a \in Agents : Alive(a) => status[a] # "waiting" /\ beats[a] = <<>>
  /\ inbox = <<>>
  /\ hb_pc' = "check"
  /\ alive_node_' = [id \in DOMAIN alive_node_ |->
                       IF alive_node_[id] < Overdue THEN alive_node_[id] + 1
                                                    ELSE Overdue]
  /\ UNCHANGED <<nodeVars, configVars, config_changed_, inbox,
                 terminated_node_, terminated, hb_msg, hb_next, hb_end,
                 detectVars>>

Next ==
  \/ \E n \in Nodes : Configure(n) \/ Crash(n)
  \/ \E a \in Agents : \/ AnswerHeartbeat(a) \/ WorkerSignal(a)
                       \/ TerminateSignal(a) \/ ReconfigurateAborts(a)
                       \/ AgentExits(a)
  \/ MainLoop
  \/ DeliverHeartbeat
  \/ DetectDeadNode
  \/ Tick

Spec == Init /\ [][Next]_vars

\* Every thread that is not blocked goes on, and time passes.  The heartbeat
\* thread gets the mutex although the other one takes it again and again: that
\* one sleeps in between.  The worker behind an agent, crashes and exits are not
\* assumed to happen.
Fairness ==
  /\ \A n \in Nodes : WF_vars(Configure(n))
  /\ \A a \in Agents : WF_vars(AnswerHeartbeat(a))
  /\ WF_vars(MainLoop) /\ SF_vars(DeliverHeartbeat)
  /\ WF_vars(DetectDeadNode) /\ WF_vars(Tick)

FairSpec == Spec /\ Fairness

-----------------------------------------------------------------------------
(* Properties *)

\* The types of the master's shared state: ids are ids of registered nodes,
\* the configuration has no more entries than nodes, ages stay bounded.
TypeOK ==
  /\ status \in [Nodes -> {"waiting", "running", "done",
                           "exited", "crashed"}]
  /\ id_to_addr_ \in Seq(Nodes)
  /\ server_id_ \in Seq(DOMAIN id_to_addr_)
  /\ agent_id_ \in Seq(DOMAIN id_to_addr_)
  /\ partition_ \in Seq(1 .. Cardinality(Servers))
  /\ \A id \in DOMAIN alive_node_ : alive_node_[id] \in 0 .. Overdue
  /\ terminated_node_ \subseteq DOMAIN id_to_addr_
  /\ config_changed_ \in BOOLEAN /\ terminated \in BOOLEAN
  /\ \A a \in Agents : /\ applied[a] \in Config \cup {NoConfig}
                       /\ reconfig_msg_[a] \in Config \cup {NoConfig}
                       /\ \A k \in DOMAIN beats[a] :
                            beats[a][k] \in Config \cup {NoConfig}
  /\ dead_node \subseteq 0 .. NodeNum

\* The rank of the start key server id was given when the cluster was ready.
FirstStart(id) ==
  Cardinality({j \in 1 .. id : id_to_addr_[j] \in Servers})

Aligned(ids, starts) ==
  /\ Len(ids) = Len(starts)
  /\ \A k \in DOMAIN ids : starts[k] = FirstStart(ids[k])

\* Removing nodes never moves a surviving server to another start key: the two
\* lists of the configuration stay aligned, except between the two erasures of
\* FixConfig.
StartKeysKept ==
  dt_pc \notin {"off", "partition"} => Aligned(server_id_, partition_)

\* An agent that answers its heartbeats is never removed by FixConfig: whenever
\* the detection thread scans, an answer is recorded that surely is not older
\* than the timeout.
LiveAgentsKept ==
  \A a \in Agents :
    status[a] \in {"running", "done"} => IdOf(a) \in ToSet(agent_id_)

\* What the agent works with next.
Known(a) == IF reconfig_msg_[a] # NoConfig THEN reconfig_msg_[a] ELSE applied[a]

\* A server that crashed after the cluster was ready is eventually, and for
\* good, absent from the configuration every living agent has received, and
\* that configuration is not torn: the change is not lost, although the flag
\* is tested and cleared in two steps and the lists are copied without mu_.
CrashIsAnnounced ==
  \A s \in Servers, a \in Agents :
    (status[s] = "crashed" /\ hb_pc # "off") ~>
      (\/ terminated
       \/ ~Alive(a)
       \/ /\ Known(a) # NoConfig
          /\ \A id \in ToSet(Known(a).server_id) : id_to_addr_[id] # s
          /\ Aligned(Known(a).server_id, Known(a).partition))

\* When the worker of every agent is done, the master ends.
MasterEnds ==
  (\A a \in Agents : status[a] \in {"done", "exited"}) ~> terminated

\* FixConfig "remove[s] dead node from configuration" (task_config.h): a server
\* that runs stays in it.
LiveServersKept ==
  \A s \in Servers :
    status[s] = "running" => IdOf(s) \in ToSet(server_id_)
=============================================================================
