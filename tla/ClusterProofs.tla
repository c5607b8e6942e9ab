--------------------------- MODULE ClusterProofs ----------------------------
(***************************************************************************)
(* The master and the membership, for every number of nodes and crashes.   *)
(*                                                                         *)
(* The first part is about the lists of the configuration: how they are    *)
(* filled while nodes register, and that FixConfig erases the same place   *)
(* of both (task_config.cc:150-165).  The second is about time: an agent   *)
(* that lives is heard from in every round, unless the loop that sends the *)
(* heartbeats passes over it because FixConfig shifts the vector under it  *)
(* (master.cc:280), and that happens at most once for every agent removed  *)
(* before it.                                                              *)
(***************************************************************************)
EXTENDS Cluster, FiniteSetTheorems, SequenceTheorems, TLAPS

-----------------------------------------------------------------------------
(* The invariant *)

Started == hb_pc # "off"

MaybeConfig == Config \cup {NoConfig}

\* The vector of the agents with what erase left behind its end.
Storage == agent_id_ \o stale

\* The nodes and their messages.
NodeTypes ==
  /\ status \in [Nodes -> {"waiting", "running", "done", "exited", "crashed"}]
  /\ mailbox \in [Nodes -> MaybeConfig]
  /\ beats \in [Agents -> Seq(MaybeConfig)]
  /\ reconfig_msg_ \in [Agents -> MaybeConfig]
  /\ applied \in [Agents -> MaybeConfig]
  /\ ~Started => /\ \A n \in Nodes : status[n] \in {"waiting", "crashed"}
                 /\ \A n \in Nodes : mailbox[n] = NoConfig

\* The ids: a node has at most one, and all have one when the cluster is ready.
Numbering ==
  /\ id_to_addr_ \in Seq(Nodes)
  /\ \A i, j \in DOMAIN id_to_addr_ : id_to_addr_[i] = id_to_addr_[j] => i = j
  /\ Len(id_to_addr_) <= NodeNum
  /\ Started => /\ Len(id_to_addr_) = NodeNum
                /\ \A n \in Nodes : \E id \in DOMAIN id_to_addr_ : id_to_addr_[id] = n

\* What is under way to the master: one registration of every node without id,
\* later answers and terminations of agents.
Inbox ==
  IF Started
  THEN inbox \in Seq([type : {"heartbeat", "terminate"}, node : Agents])
  ELSE /\ inbox \in Seq([type : {"register"}, node : Nodes])
       /\ Len(id_to_addr_) + Len(inbox) = NodeNum
       /\ \A k \in DOMAIN inbox, i \in DOMAIN id_to_addr_ :
            inbox[k].node # id_to_addr_[i]
       /\ \A k, l \in DOMAIN inbox : inbox[k].node = inbox[l].node => k = l

\* The two lists of ids, and what the detection thread erases.
Lists ==
  /\ server_id_ \in Seq(DOMAIN id_to_addr_)
  /\ agent_id_ \in Seq(DOMAIN id_to_addr_) /\ stale \in Seq(DOMAIN id_to_addr_)
  /\ \A k \in DOMAIN Storage : id_to_addr_[Storage[k]] \in Agents
  /\ IF Started
     THEN Len(agent_id_) + Len(stale) = Cardinality(Agents)
     ELSE /\ stale = <<>>
          /\ Len(server_id_) + Len(agent_id_) = Len(id_to_addr_)
          /\ \A i \in DOMAIN id_to_addr_ :
               id_to_addr_[i] \in Agents => \E k \in DOMAIN agent_id_ : agent_id_[k] = i

\* The rank of a server among those with an id up to its own, and two lists that
\* give every server the start key of its rank.
Rank(addr, id) == Cardinality({j \in 1 .. id : addr[j] \in Servers})

InStep(addr, ids, starts) ==
  /\ Len(ids) = Len(starts)
  /\ \A k \in DOMAIN ids : starts[k] = Rank(addr, ids[k])

\* The start keys: the servers get the ranks in the order of their ids; between
\* the two erasures the entry at index has no server.
StartKeys ==
  /\ partition_ \in Seq(1 .. Cardinality(Servers))
  /\ ~Started =>
       /\ partition_ = <<>>
       /\ Len(server_id_) = Rank(id_to_addr_, Len(id_to_addr_))
       /\ \A k \in DOMAIN server_id_ : Rank(id_to_addr_, server_id_[k]) = k
  /\ Started /\ dt_pc # "partition" => InStep(id_to_addr_, server_id_, partition_)
  /\ dt_pc = "partition" =>
       /\ index \in 1 .. Len(partition_)
       /\ Len(partition_) = Len(server_id_) + 1
       /\ \A k \in DOMAIN server_id_ :
            partition_[IF k < index THEN k ELSE k + 1] = Rank(id_to_addr_, server_id_[k])

\* The threads of the master.
Threads ==
  /\ hb_pc \in {"off", "sleep", "check", "servers", "partition", "clear", "send"}
  /\ dt_pc \in {"off", "sleep", "lock", "fix", "partition"}
  /\ hb_pc = "off" <=> dt_pc = "off"
  /\ hb_msg \in MaybeConfig /\ (hb_pc = "partition" => hb_msg \in Config)
  /\ hb_next \in Nat /\ hb_end \in Nat
  /\ hb_pc = "send" => /\ hb_next >= 1
                       /\ Len(agent_id_) <= hb_end /\ hb_end <= Cardinality(Agents)
  /\ config_changed_ \in BOOLEAN /\ terminated \in BOOLEAN
  /\ IF Started THEN alive_node_ \in [0 .. NodeNum -> 0 .. Overdue]
                ELSE alive_node_ = <<>>
  /\ terminated_node_ \subseteq DOMAIN id_to_addr_
  /\ dead_node \subseteq 0 .. NodeNum /\ (~Started => dead_node = {})

ClusterInv ==
  /\ NodeTypes /\ Numbering /\ Inbox /\ Lists /\ StartKeys /\ Threads

\* How many rounds an agent may have been passed over: once for every agent that
\* was erased, as long as there was one behind it in the vector.
Skips ==
  IF Len(stale) <= Cardinality(Agents) - 2 THEN Len(stale)
  ELSE IF Cardinality(Agents) >= 2 THEN Cardinality(Agents) - 2 ELSE 0

\* The heartbeat of this round is still to be sent to the agent, or is on its way
\* to it, or its answer back.
Expected(a) ==
  \/ hb_pc \in {"check", "servers", "partition", "clear"}
  \/ hb_pc = "send" /\ \E q \in hb_next .. hb_end : Storage[q] = IdOf(a)
  \/ beats[a] # <<>>
  \/ \E k \in DOMAIN inbox : inbox[k] = [type |-> "heartbeat", node |-> a]

Heard(a) ==
  /\ \E k \in DOMAIN agent_id_ : agent_id_[k] = IdOf(a)
  /\ IdOf(a) \notin dead_node
  /\ alive_node_[IdOf(a)] <= Skips + 1
  /\ alive_node_[IdOf(a)] <= Skips \/ Expected(a)

AgentsHeard == Started => \A a \in Agents : Alive(a) => Heard(a)

-----------------------------------------------------------------------------
(* Numbers, lists and ids *)

\* The numbers of nodes.
LEMMA NodeNumbers ==
  /\ Cardinality(Servers) \in Nat /\ Cardinality(Agents) \in Nat
  /\ NodeNum = Cardinality(Servers) + Cardinality(Agents) /\ NodeNum \in Nat
  /\ IsFiniteSet(Nodes) /\ Timeout \in Nat \ {0} /\ Overdue \in Nat
<1>1. IsFiniteSet(Servers) /\ IsFiniteSet(Agents) /\ Servers \cap Agents = {}
  BY ClusterAssumption
<1>2. Cardinality(Servers) \in Nat /\ Cardinality(Agents) \in Nat
  BY <1>1, FS_CardinalityType
<1>3. /\ IsFiniteSet(Servers \cup Agents)
      /\ Cardinality(Servers \cup Agents) =
           Cardinality(Servers) + Cardinality(Agents) - Cardinality(Servers \cap Agents)
  BY <1>1, FS_Union
<1>4. Cardinality(Servers \cap Agents) = 0
  BY <1>1, FS_EmptySet
<1>5. QED
  BY <1>2, <1>3, <1>4, ClusterAssumption DEF Nodes, NodeNum

\* A list with one place taken out.
LEMMA RemoveAtPlaces ==
  ASSUME NEW T, NEW ids \in Seq(T), NEW i \in 1 .. Len(ids)
  PROVE  /\ RemoveAt(ids, i) \in Seq(T)
         /\ Len(RemoveAt(ids, i)) = Len(ids) - 1
         /\ \A j \in 1 .. Len(ids) - 1 :
              RemoveAt(ids, i)[j] = IF j < i THEN ids[j] ELSE ids[j + 1]
<1> DEFINE front == SubSeq(ids, 1, i - 1)
           back == SubSeq(ids, i + 1, Len(ids))
<1>1. /\ front \in Seq(T) /\ Len(front) = i - 1
      /\ \A j \in 1 .. i - 1 : front[j] = ids[j]
  BY SubSeqProperties, ElementOfSeq
<1>2. /\ back \in Seq(T) /\ Len(back) = Len(ids) - i
      /\ \A j \in 1 .. Len(ids) - i : back[j] = ids[i + j]
  BY SubSeqProperties, ElementOfSeq
<1> HIDE DEF front, back
<1>3. RemoveAt(ids, i) = front \o back
  BY DEF RemoveAt, front, back
<1>4. /\ front \o back \in Seq(T)
      /\ Len(front \o back) = Len(front) + Len(back)
      /\ \A j \in 1 .. Len(front) + Len(back) :
           (front \o back)[j] = IF j <= Len(front) THEN front[j]
                                 ELSE back[j - Len(front)]
  BY <1>1, <1>2, ConcatProperties
<1>5. QED
  BY <1>1, <1>2, <1>3, <1>4

\* A list of elements of one set is a list of elements of a larger one.
LEMMA SeqOfMore ==
  ASSUME NEW S, NEW T, S \subseteq T, NEW seq \in Seq(S)
  PROVE  seq \in Seq(T)
OBVIOUS

\* In a cluster that is ready every node has its own id.
LEMMA Ids ==
  ASSUME Numbering, Started, NEW n \in Nodes
  PROVE  /\ IdOf(n) \in 1 .. NodeNum /\ IdOf(n) \in DOMAIN id_to_addr_
         /\ id_to_addr_[IdOf(n)] = n
         /\ DOMAIN id_to_addr_ = 1 .. NodeNum
<1>1. DOMAIN id_to_addr_ = 1 .. NodeNum
  BY LenProperties DEF Numbering
<1>2. \E id \in DOMAIN id_to_addr_ : id_to_addr_[id] = n
  BY DEF Numbering
<1>3. IdOf(n) \in DOMAIN id_to_addr_ /\ id_to_addr_[IdOf(n)] = n
  BY <1>2 DEF IdOf
<1>4. QED
  BY <1>1, <1>3

-----------------------------------------------------------------------------
(* The lists while nodes register, and the steps of the nodes *)

\* Before the first registration.
LEMMA InitInv == Init => ClusterInv
<1> SUFFICES ASSUME Init PROVE ClusterInv
  OBVIOUS
<1>1. ~Started /\ hb_pc = "off" /\ dt_pc = "off"
  BY DEF Init, Started
<1>2. NodeTypes
  BY <1>1 DEF Init, NodeTypes, MaybeConfig, Nodes
<1>3. Numbering
  BY <1>1, NodeNumbers DEF Init, Numbering
<1>4. Inbox
  <2>1. PICK order \in SetToSeqs(Nodes) :
          inbox = [k \in 1 .. NodeNum |-> Registration(order[k])]
    BY DEF Init
  <2>2. /\ order \in [1 .. NodeNum -> Nodes]
        /\ \A i, j \in 1 .. NodeNum : i # j => order[i] # order[j]
    BY DEF SetToSeqs, NodeNum
  <2>3. \A k \in 1 .. NodeNum :
          /\ inbox[k] = [type |-> "register", node |-> order[k]]
          /\ inbox[k] \in [type : {"register"}, node : Nodes]
          /\ inbox[k].node = order[k]
    BY <2>1, <2>2 DEF Registration
  <2>4. DOMAIN inbox = 1 .. NodeNum /\ NodeNum \in Nat
    BY <2>1, NodeNumbers
  <2>5. inbox \in Seq([type : {"register"}, node : Nodes]) /\ Len(inbox) = NodeNum
    <3>1. inbox \in [1 .. NodeNum -> [type : {"register"}, node : Nodes]]
      BY <2>1, <2>3
    <3> DEFINE T == [type : {"register"}, node : Nodes]
    <3> HIDE DEF T
    <3>2. inbox \in [1 .. NodeNum -> T]
      BY <3>1 DEF T
    <3>3. inbox \in Seq(T) /\ Len(inbox) = NodeNum
      BY <2>4, <3>2
    <3>4. QED
      BY <3>3 DEF T
  <2>6. id_to_addr_ = <<>> /\ Len(id_to_addr_) = 0 /\ DOMAIN id_to_addr_ = {}
    BY DEF Init
  <2>7. \A k, l \in DOMAIN inbox : inbox[k].node = inbox[l].node => k = l
    BY <2>2, <2>3, <2>4
  <2>8. QED
    BY <1>1, <2>4, <2>5, <2>6, <2>7 DEF Inbox
<1>5. Lists
  <2>1. /\ id_to_addr_ = <<>> /\ server_id_ = <<>> /\ agent_id_ = <<>> /\ stale = <<>>
        /\ Storage = <<>>
    BY DEF Init, Storage
  <2>2. QED
    BY <1>1, <2>1 DEF Lists
<1>6. StartKeys
  <2>1. partition_ = <<>> /\ server_id_ = <<>> /\ id_to_addr_ = <<>>
    BY DEF Init
  <2>2. Rank(id_to_addr_, 0) = 0
    <3>1. {j \in 1 .. 0 : id_to_addr_[j] \in Servers} = {}
      OBVIOUS
    <3>2. QED
      BY <3>1, FS_EmptySet DEF Rank
  <2>3. QED
    BY <1>1, <2>1, <2>2 DEF StartKeys
<1>7. Threads
  BY <1>1 DEF Init, Threads, MaybeConfig
<1>8. QED
  BY <1>2, <1>3, <1>4, <1>5, <1>6, <1>7 DEF ClusterInv

\* What a step leaves alone that touches neither the lists nor the threads.
LEMMA ListsStay ==
  ASSUME ClusterInv, UNCHANGED configVars, Started' = Started,
         (dt_pc' = "partition") = (dt_pc = "partition"), index' = index
  PROVE  Numbering' /\ Lists' /\ StartKeys'
<1>1. /\ Numbering /\ Lists /\ StartKeys
      /\ id_to_addr_' = id_to_addr_ /\ server_id_' = server_id_
      /\ agent_id_' = agent_id_ /\ partition_' = partition_ /\ stale' = stale
  BY DEF ClusterInv, configVars
<1>2. Numbering'
  BY <1>1 DEF Numbering
<1>3. Lists'
  BY <1>1 DEF Lists, Storage
<1>4. StartKeys'
  BY <1>1 DEF StartKeys
<1>5. QED
  BY <1>2, <1>3, <1>4

\* The same for a step of a node, which does not touch the master's threads.
LEMMA MasterStays ==
  ASSUME ClusterInv, UNCHANGED <<configVars, config_changed_, beatVars, detectVars>>,
         UNCHANGED <<alive_node_, terminated_node_, terminated>>
  PROVE  Numbering' /\ Lists' /\ StartKeys' /\ Threads' /\ Started' = Started
<1>1. /\ hb_pc' = hb_pc /\ hb_msg' = hb_msg /\ hb_next' = hb_next /\ hb_end' = hb_end
      /\ dt_pc' = dt_pc /\ dead_node' = dead_node /\ index' = index
      /\ agent_id_' = agent_id_ /\ id_to_addr_' = id_to_addr_
      /\ config_changed_' = config_changed_ /\ alive_node_' = alive_node_
      /\ terminated_node_' = terminated_node_ /\ terminated' = terminated
  BY DEF beatVars, detectVars, configVars
<1>2. Started' = Started
  BY <1>1 DEF Started
<1>3. Threads'
  BY <1>1, <1>2 DEF ClusterInv, Threads
<1>4. QED
  BY <1>1, <1>2, <1>3, ListsStay

\* Messages of an agent that runs.
LEMMA TellInbox ==
  ASSUME ClusterInv, NEW a \in Agents, status[a] \in {"running", "done"},
         NEW type \in {"heartbeat", "terminate"}, Tell([type |-> type, node |-> a]),
         Started' = Started
  PROVE  Started /\ Inbox'
<1>1. Started
  BY DEF ClusterInv, NodeTypes, Nodes
<1>2. inbox \in Seq([type : {"heartbeat", "terminate"}, node : Agents])
  BY <1>1 DEF ClusterInv, Inbox
<1>3. [type |-> type, node |-> a] \in [type : {"heartbeat", "terminate"}, node : Agents]
  OBVIOUS
<1>4. inbox' \in Seq([type : {"heartbeat", "terminate"}, node : Agents])
  BY <1>2, <1>3, AppendProperties DEF Tell
<1>5. QED
  BY <1>1, <1>4 DEF Inbox

\* The inbox is as it was.
LEMMA InboxStays ==
  ASSUME ClusterInv, inbox' = inbox, id_to_addr_' = id_to_addr_, Started' = Started
  PROVE  Inbox'
BY DEF ClusterInv, Inbox

\* A node starts, an agent reads a configuration, a process ends.
LEMMA NodeStep ==
  ASSUME ClusterInv, NEW n \in Nodes,
         \/ Configure(n) \/ Crash(n)
         \/ n \in Agents /\ (\/ AnswerHeartbeat(n) \/ WorkerSignal(n)
                              \/ TerminateSignal(n) \/ ReconfigurateAborts(n)
                              \/ AgentExits(n))
  PROVE  ClusterInv'
<1>1. /\ UNCHANGED <<configVars, config_changed_, beatVars, detectVars>>
      /\ UNCHANGED <<alive_node_, terminated_node_, terminated>>
  BY DEF Configure, Crash, AnswerHeartbeat, WorkerSignal, TerminateSignal,
         ReconfigurateAborts, AgentExits, Gone, mainVars
<1>2. Numbering' /\ Lists' /\ StartKeys' /\ Threads' /\ Started' = Started
  BY <1>1, MasterStays
<1>3. id_to_addr_' = id_to_addr_
  BY <1>1 DEF configVars
<1>4. /\ NodeTypes /\ Agents \subseteq Nodes /\ NoConfig \in MaybeConfig
      /\ \A a \in Agents : beats[a] \in Seq(MaybeConfig)
  <2>1. NodeTypes /\ Agents \subseteq Nodes /\ NoConfig \in MaybeConfig
    BY DEF ClusterInv, Nodes, MaybeConfig
  <2>2. QED
    BY <2>1 DEF NodeTypes
<1>5. CASE Configure(n)
  <2>1. Inbox'
    BY <1>2, <1>3, <1>5, InboxStays DEF Configure, mainVars
  <2>2. Started
    BY <1>4, <1>5 DEF Configure, NodeTypes
  <2>3. NodeTypes'
    BY <1>2, <1>4, <1>5, <2>2 DEF Configure, NodeTypes
  <2>4. QED
    BY <1>2, <2>1, <2>3 DEF ClusterInv
<1>6. CASE \/ Crash(n)
           \/ n \in Agents /\ (ReconfigurateAborts(n) \/ AgentExits(n))
  <2>1. PICK how \in {"crashed", "exited"} :
          Gone(n, how) /\ (how = "exited" => status[n] = "done")
    BY <1>6 DEF Crash, ReconfigurateAborts, AgentExits
  <2>2. inbox' = inbox
    BY <2>1 DEF Gone, mainVars
  <2>3. Inbox'
    BY <1>2, <1>3, <2>2, InboxStays
  <2>4. status' = [status EXCEPT ![n] = how] /\ mailbox' = [mailbox EXCEPT ![n] = NoConfig]
        /\ applied' = applied
    BY <2>1 DEF Gone
  <2>5. beats' \in [Agents -> Seq(MaybeConfig)]
    BY <1>4, <2>1 DEF Gone, NodeTypes
  <2>6. reconfig_msg_' \in [Agents -> MaybeConfig]
    BY <1>4, <2>1 DEF Gone, NodeTypes
  <2>7. ~Started => how = "crashed"
    BY <1>4, <2>1 DEF NodeTypes
  <2>8. NodeTypes'
    BY <1>2, <1>4, <2>4, <2>5, <2>6, <2>7 DEF NodeTypes
  <2>9. QED
    BY <1>2, <2>3, <2>8 DEF ClusterInv
<1>7. CASE n \in Agents /\ AnswerHeartbeat(n)
  <2>1. Started /\ Inbox'
    BY <1>2, <1>7, TellInbox DEF AnswerHeartbeat
  <2>2. Head(beats[n]) \in MaybeConfig /\ Tail(beats[n]) \in Seq(MaybeConfig)
    BY <1>4, <1>7, HeadTailProperties DEF AnswerHeartbeat
  <2>3. NodeTypes'
    BY <1>2, <1>4, <1>7, <2>1, <2>2 DEF AnswerHeartbeat, NodeTypes
  <2>4. QED
    BY <1>2, <2>1, <2>3 DEF ClusterInv
<1>8. CASE n \in Agents /\ WorkerSignal(n)
  <2>1. Inbox'
    BY <1>2, <1>3, <1>8, InboxStays DEF WorkerSignal, mainVars
  <2>2. NodeTypes'
    BY <1>2, <1>4, <1>8 DEF WorkerSignal, Reconfigurate, NodeTypes
  <2>3. QED
    BY <1>2, <2>1, <2>2 DEF ClusterInv
<1>9. CASE n \in Agents /\ TerminateSignal(n)
  <2>1. Started /\ Inbox'
    BY <1>2, <1>9, TellInbox DEF TerminateSignal
  <2>2. NodeTypes'
    BY <1>2, <1>4, <1>9, <2>1 DEF TerminateSignal, Reconfigurate, NodeTypes
  <2>3. QED
    BY <1>2, <2>1, <2>2 DEF ClusterInv
<1>10. QED
  BY <1>5, <1>6, <1>7, <1>8, <1>9

\* One more id, and the ranks of the servers.
LEMMA NextRank ==
  ASSUME NEW addr \in Seq(Nodes), NEW n \in Nodes
  PROVE  /\ \A id \in 0 .. Len(addr) : Rank(Append(addr, n), id) = Rank(addr, id)
         /\ Rank(Append(addr, n), Len(addr) + 1) =
              IF n \in Servers THEN Rank(addr, Len(addr)) + 1 ELSE Rank(addr, Len(addr))
<1> DEFINE N == Len(addr)
           new == Append(addr, n)
           C(id) == {j \in 1 .. id : addr[j] \in Servers}
           D(id) == {j \in 1 .. id : new[j] \in Servers}
<1>1. N \in Nat /\ (\A j \in 1 .. N : new[j] = addr[j]) /\ new[N + 1] = n
  BY AppendProperties, LenProperties
<1>2. \A id : Rank(addr, id) = Cardinality(C(id)) /\ Rank(new, id) = Cardinality(D(id))
  BY DEF Rank
<1> HIDE DEF new, N
<1>3. ASSUME NEW id \in 0 .. N PROVE D(id) = C(id)
  BY <1>1
<1>4. D(N + 1) = IF n \in Servers THEN C(N) \cup {N + 1} ELSE C(N)
  <2>1. ASSUME NEW j PROVE j \in D(N + 1) <=> j \in C(N) \/ (n \in Servers /\ j = N + 1)
    <3>1. j \in 1 .. N + 1 <=> j \in 1 .. N \/ j = N + 1
      BY <1>1
    <3>2. QED
      BY <1>1, <3>1
  <2>2. QED
    BY <2>1
<1>5. IsFiniteSet(C(N)) /\ N + 1 \notin C(N)
  <2>1. IsFiniteSet(1 .. N)
    BY <1>1, FS_Interval
  <2>2. C(N) \in SUBSET (1 .. N) /\ N + 1 \notin C(N)
    BY <1>1
  <2> HIDE DEF C
  <2>3. QED
    BY <2>1, <2>2, FS_Subset
<1> HIDE DEF C, D
<1>6. Cardinality(C(N) \cup {N + 1}) = Cardinality(C(N)) + 1
  BY <1>5, FS_AddElement
<1>7. QED
  BY <1>2, <1>3, <1>4, <1>6 DEF N, new

\* The ids that are given out are all there are when the lists are complete.
LEMMA AllRegistered ==
  ASSUME NEW addr \in Seq(Nodes), Len(addr) = NodeNum,
         \A i, j \in DOMAIN addr : addr[i] = addr[j] => i = j
  PROVE  \A n \in Nodes : \E id \in DOMAIN addr : addr[id] = n
<1>1. DOMAIN addr = 1 .. NodeNum /\ addr \in [1 .. NodeNum -> Nodes]
  BY LenProperties
<1>2. addr \in Injection(1 .. NodeNum, Nodes)
  BY <1>1 DEF Injection, IsInjective
<1>3. IsFiniteSet(Nodes) /\ Cardinality(1 .. NodeNum) = Cardinality(Nodes)
  BY NodeNumbers, FS_Interval DEF NodeNum
<1>4. addr \in Surjection(1 .. NodeNum, Nodes)
  BY <1>2, <1>3, FS_Injection
<1>5. QED
  BY <1>1, <1>4 DEF Surjection

\* A node registers; the last one makes the cluster ready.
LEMMA RegisterStep ==
  ASSUME ClusterInv, RegisterMsg
  PROVE  /\ ClusterInv' /\ ~Started
         /\ \A i \in DOMAIN id_to_addr_' :
              id_to_addr_'[i] \in Agents => \E k \in DOMAIN agent_id_' : agent_id_'[k] = i
<1> DEFINE n == Head(inbox).node
           N == Len(id_to_addr_)
           addr == Append(id_to_addr_, n)
<1>1. /\ NodeTypes /\ Numbering /\ Inbox /\ Lists /\ StartKeys /\ Threads
      /\ Reads("register") /\ ProcessRegisterMsg(n)
  BY DEF ClusterInv, RegisterMsg
<1>2. ~Started /\ hb_pc = "off" /\ dt_pc = "off"
  <2>1. ASSUME Started PROVE FALSE
    <3>1. inbox \in Seq([type : {"heartbeat", "terminate"}, node : Agents])
      BY <1>1, <2>1 DEF Inbox
    <3>2. Head(inbox) \in [type : {"heartbeat", "terminate"}, node : Agents]
      BY <1>1, <3>1, HeadTailProperties DEF Reads
    <3>3. Head(inbox).type \in {"heartbeat", "terminate"}
      BY <3>2
    <3>4. QED
      BY <1>1, <3>3 DEF Reads
  <2>2. QED
    BY <1>1, <2>1 DEF Threads, Started
<1>3. /\ inbox \in Seq([type : {"register"}, node : Nodes])
      /\ N + Len(inbox) = NodeNum
      /\ \A k \in DOMAIN inbox, i \in DOMAIN id_to_addr_ :
           inbox[k].node # id_to_addr_[i]
      /\ \A k, l \in DOMAIN inbox : inbox[k].node = inbox[l].node => k = l
  BY <1>1, <1>2 DEF Inbox
<1>4. /\ inbox # <<>> /\ inbox' = Tail(inbox)
      /\ id_to_addr_' = addr
      /\ stale' = stale /\ stale = <<>>
  BY <1>1, <1>2 DEF Reads, RegisterMsg, ProcessRegisterMsg, AppendServer, AppendAgent, Lists
<1>5. /\ Len(inbox) \in Nat \ {0} /\ N \in Nat /\ NodeNum \in Nat
      /\ DOMAIN inbox = 1 .. Len(inbox) /\ DOMAIN id_to_addr_ = 1 .. N
      /\ inbox' \in Seq([type : {"register"}, node : Nodes])
      /\ Len(inbox') = Len(inbox) - 1
      /\ \A k \in 1 .. Len(inbox) - 1 : inbox'[k] = inbox[k + 1]
      /\ id_to_addr_ \in Seq(Nodes)
  <2>1. Len(inbox) \in Nat \ {0}
    BY <1>3, <1>4, EmptySeq
  <2>2. /\ inbox' \in Seq([type : {"register"}, node : Nodes])
        /\ Len(inbox') = Len(inbox) - 1
        /\ \A k \in 1 .. Len(inbox') : inbox'[k] = inbox[k + 1]
    BY <1>3, <1>4, HeadTailProperties
  <2>3. DOMAIN inbox = 1 .. Len(inbox)
    BY <1>3, LenProperties
  <2>4. id_to_addr_ \in Seq(Nodes) /\ N \in Nat /\ DOMAIN id_to_addr_ = 1 .. N
    BY <1>1, LenProperties DEF Numbering
  <2>5. QED
    BY <2>1, <2>2, <2>3, <2>4, NodeNumbers
<1>6. n \in Nodes /\ 1 \in DOMAIN inbox /\ inbox[1].node = n
  <2>1. inbox[1] \in [type : {"register"}, node : Nodes]
    <3>1. 1 \in 1 .. Len(inbox)
      BY <1>5
    <3>2. QED
      BY <1>3, <3>1, ElementOfSeq
  <2>2. Head(inbox) = inbox[1] /\ 1 \in DOMAIN inbox
    BY <1>3, <1>5
  <2>3. QED
    BY <2>1, <2>2
<1> HIDE DEF n
<1>7. /\ addr \in Seq(Nodes) /\ Len(addr) = N + 1 /\ DOMAIN addr = 1 .. N + 1
      /\ (\A i \in 1 .. N : addr[i] = id_to_addr_[i]) /\ addr[N + 1] = n
  BY <1>5, <1>6, AppendProperties, LenProperties
<1> HIDE DEF N, addr
<1>8. \A i, j \in DOMAIN addr : addr[i] = addr[j] => i = j
  <2>1. \A i \in 1 .. N : id_to_addr_[i] # n
    BY <1>3, <1>5, <1>6
  <2>2. \A i, j \in 1 .. N : id_to_addr_[i] = id_to_addr_[j] => i = j
    BY <1>1, <1>5 DEF Numbering
  <2>3. \A i \in 1 .. N + 1 : i \in 1 .. N \/ i = N + 1
    BY <1>5
  <2>4. QED
    BY <1>7, <2>1, <2>2, <2>3
<1>9. /\ \/ /\ n \in Servers /\ server_id_' = Append(server_id_, N + 1)
            /\ agent_id_' = agent_id_
         \/ /\ n \in Agents /\ agent_id_' = Append(agent_id_, N + 1)
            /\ server_id_' = server_id_
      /\ Servers \cap Agents = {}
  BY <1>1, ClusterAssumption
     DEF ProcessRegisterMsg, AppendServer, AppendAgent, NodeId, N
<1>10. /\ server_id_ \in Seq(1 .. N) /\ agent_id_ \in Seq(1 .. N)
       /\ Len(server_id_) + Len(agent_id_) = N
       /\ Len(server_id_) \in Nat /\ Len(agent_id_) \in Nat
       /\ \A k \in 1 .. Len(agent_id_) : id_to_addr_[agent_id_[k]] \in Agents
       /\ \A i \in 1 .. N : id_to_addr_[i] \in Agents =>
             \E k \in 1 .. Len(agent_id_) : agent_id_[k] = i
  <2>1. /\ server_id_ \in Seq(1 .. N) /\ agent_id_ \in Seq(1 .. N)
        /\ Len(server_id_) + Len(agent_id_) = N
    BY <1>1, <1>2, <1>5 DEF Lists, N
  <2>2. /\ Len(server_id_) \in Nat /\ Len(agent_id_) \in Nat
        /\ DOMAIN agent_id_ = 1 .. Len(agent_id_)
    BY <2>1, LenProperties
  <2>3. Storage = agent_id_
    BY <1>4, <2>1, ConcatEmptySeq DEF Storage
  <2>4. QED
    BY <1>1, <1>2, <1>5, <2>1, <2>2, <2>3 DEF Lists
<1>11. server_id_ \in Seq(1 .. N + 1) /\ agent_id_ \in Seq(1 .. N + 1) /\ N + 1 \in 1 .. N + 1
  <2>1. 1 .. N \subseteq 1 .. N + 1 /\ N + 1 \in 1 .. N + 1
    BY <1>5
  <2>2. QED
    BY <1>10, <2>1, SeqOfMore
<1>12. /\ server_id_' \in Seq(1 .. N + 1) /\ agent_id_' \in Seq(1 .. N + 1)
       /\ Len(server_id_') + Len(agent_id_') = N + 1
       /\ Len(server_id_') \in Nat /\ Len(agent_id_') \in Nat
       /\ DOMAIN server_id_' = 1 .. Len(server_id_')
       /\ DOMAIN agent_id_' = 1 .. Len(agent_id_')
  <2>1. /\ server_id_' \in Seq(1 .. N + 1) /\ agent_id_' \in Seq(1 .. N + 1)
        /\ \/ Len(server_id_') = Len(server_id_) + 1 /\ Len(agent_id_') = Len(agent_id_)
           \/ Len(agent_id_') = Len(agent_id_) + 1 /\ Len(server_id_') = Len(server_id_)
    <3>1. /\ Append(server_id_, N + 1) \in Seq(1 .. N + 1)
          /\ Append(agent_id_, N + 1) \in Seq(1 .. N + 1)
          /\ Len(Append(server_id_, N + 1)) = Len(server_id_) + 1
          /\ Len(Append(agent_id_, N + 1)) = Len(agent_id_) + 1
      BY <1>11, AppendProperties
    <3>2. QED
      BY <1>9, <1>11, <3>1
  <2>2. /\ DOMAIN server_id_' = 1 .. Len(server_id_')
        /\ DOMAIN agent_id_' = 1 .. Len(agent_id_')
    BY <2>1, LenProperties
  <2>3. Len(server_id_') \in Nat /\ Len(agent_id_') \in Nat
    BY <2>1, LenProperties
  <2>4. Len(server_id_') + Len(agent_id_') = N + 1
    <3> DEFINE ls == Len(server_id_)
               la == Len(agent_id_)
               ms == Len(server_id_')
               ma == Len(agent_id_')
    <3>1. /\ ls \in Nat /\ la \in Nat /\ ls + la = N
          /\ \/ ms = ls + 1 /\ ma = la
             \/ ma = la + 1 /\ ms = ls
      BY <1>10, <2>1
    <3> HIDE DEF ls, la, ms, ma
    <3>2. ms + ma = N + 1
      BY <1>5, <3>1
    <3>3. QED
      BY <3>2 DEF ms, ma
  <2>5. QED
    BY <2>1, <2>2, <2>3, <2>4
<1>13. /\ \A k \in 1 .. Len(agent_id_') : addr[agent_id_'[k]] \in Agents
       /\ \A i \in 1 .. N + 1 : addr[i] \in Agents =>
             \E k \in 1 .. Len(agent_id_') : agent_id_'[k] = i
  <2>1. \A k \in 1 .. Len(agent_id_) : agent_id_[k] \in 1 .. N
    BY <1>10, ElementOfSeq
  <2>2. CASE n \in Servers /\ agent_id_' = agent_id_
    <3>1. \A k \in 1 .. Len(agent_id_) : addr[agent_id_[k]] \in Agents
      BY <1>7, <1>10, <2>1
    <3>2. ASSUME NEW i \in 1 .. N + 1, addr[i] \in Agents
          PROVE  \E k \in 1 .. Len(agent_id_) : agent_id_[k] = i
      <4>1. i # N + 1
        BY <1>7, <1>9, <2>2, <3>2
      <4>2. i \in 1 .. N
        BY <1>5, <4>1
      <4>3. QED
        BY <1>7, <1>10, <3>2, <4>2
    <3>3. QED
      BY <2>2, <3>1, <3>2
  <2>3. CASE n \in Agents /\ agent_id_' = Append(agent_id_, N + 1)
    <3> DEFINE L == Len(agent_id_)
    <3>1. /\ Len(agent_id_') = L + 1 /\ L \in Nat
          /\ \A k \in 1 .. L : agent_id_'[k] = agent_id_[k]
          /\ agent_id_'[L + 1] = N + 1
      BY <1>10, <1>11, <2>3, AppendProperties
    <3> HIDE DEF L
    <3>2. ASSUME NEW k \in 1 .. L + 1 PROVE addr[agent_id_'[k]] \in Agents
      <4>1. CASE k \in 1 .. L
        BY <1>7, <1>10, <2>1, <3>1, <4>1 DEF L
      <4>2. CASE k = L + 1
        BY <1>7, <2>3, <3>1, <4>2
      <4>3. QED
        BY <3>1, <4>1, <4>2
    <3>3. ASSUME NEW i \in 1 .. N + 1, addr[i] \in Agents
          PROVE  \E k \in 1 .. L + 1 : agent_id_'[k] = i
      <4>1. CASE i = N + 1
        BY <3>1, <4>1
      <4>2. CASE i \in 1 .. N
        <5>1. PICK k \in 1 .. L : agent_id_[k] = i
          BY <1>7, <1>10, <3>3, <4>2 DEF L
        <5>2. k \in 1 .. L + 1 /\ agent_id_'[k] = i
          BY <3>1, <5>1
        <5>3. QED
          BY <5>2
      <4>3. QED
        BY <1>5, <4>1, <4>2
    <3>4. QED
      BY <3>1, <3>2, <3>3
  <2>4. QED
    BY <1>9, <2>2, <2>3
<1>listed. \A i \in DOMAIN id_to_addr_' :
             id_to_addr_'[i] \in Agents => \E k \in DOMAIN agent_id_' : agent_id_'[k] = i
  BY <1>4, <1>7, <1>12, <1>13
<1>14. /\ Len(server_id_') = Rank(addr, N + 1)
       /\ \A k \in 1 .. Len(server_id_') : Rank(addr, server_id_'[k]) = k
  <2>1. /\ Len(server_id_) = Rank(id_to_addr_, N)
        /\ \A k \in 1 .. Len(server_id_) : Rank(id_to_addr_, server_id_[k]) = k
    <3>1. DOMAIN server_id_ = 1 .. Len(server_id_)
      BY <1>10, LenProperties
    <3>2. QED
      BY <1>1, <1>2, <3>1 DEF StartKeys, N
  <2>2. /\ \A id \in 0 .. N : Rank(addr, id) = Rank(id_to_addr_, id)
        /\ Rank(addr, N + 1) = IF n \in Servers THEN Rank(id_to_addr_, N) + 1 ELSE Rank(id_to_addr_, N)
    BY <1>5, <1>6, NextRank DEF N, addr
  <2>3. \A k \in 1 .. Len(server_id_) : server_id_[k] \in 0 .. N
    <3>1. \A k \in 1 .. Len(server_id_) : server_id_[k] \in 1 .. N
      BY <1>10, ElementOfSeq
    <3>2. QED
      BY <1>5, <3>1
  <2>4. CASE n \in Servers /\ server_id_' = Append(server_id_, N + 1)
    <3> DEFINE L == Len(server_id_)
    <3>1. /\ Len(server_id_') = L + 1 /\ L \in Nat
          /\ \A k \in 1 .. L : server_id_'[k] = server_id_[k]
          /\ server_id_'[L + 1] = N + 1
      BY <1>10, <1>11, <2>4, AppendProperties
    <3> HIDE DEF L
    <3>2. \A k \in 1 .. L + 1 : k \in 1 .. L \/ k = L + 1
      BY <3>1
    <3>3. Rank(addr, N + 1) = L + 1
      BY <2>1, <2>2, <2>4 DEF L
    <3>4. ASSUME NEW k \in 1 .. L PROVE Rank(addr, server_id_'[k]) = k
      BY <2>1, <2>2, <2>3, <3>1 DEF L
    <3>5. QED
      BY <3>1, <3>2, <3>3, <3>4
  <2>5. CASE n \in Agents /\ server_id_' = server_id_
    <3>1. n \notin Servers
      BY <1>9, <2>5
    <3>2. QED
      BY <2>1, <2>2, <2>3, <2>5, <3>1
  <2>6. QED
    BY <1>9, <2>4, <2>5
<1>15. Storage' = agent_id_' /\ stale' = <<>>
  BY <1>4, <1>12, ConcatEmptySeq DEF Storage
<1>16. /\ UNCHANGED <<status, beats, reconfig_msg_, applied, config_changed_>>
       /\ UNCHANGED <<terminated_node_, terminated, hb_msg, hb_next, hb_end>>
       /\ UNCHANGED <<dead_node, index>>
  BY DEF RegisterMsg
<1>17. N + 1 <= NodeNum
  BY <1>3, <1>5 DEF N
<1>18. terminated_node_' \subseteq 1 .. N + 1
  <2>1. terminated_node_ \subseteq 1 .. N
    BY <1>1, <1>5 DEF Threads
  <2>2. QED
    BY <1>5, <1>16, <2>1
<1>19. CASE Ready
  <2>1. /\ partition_' = GeneratePartition /\ DeliverConfig
        /\ alive_node_' = [id \in 0 .. NodeNum |-> 0]
        /\ hb_pc' = "sleep" /\ dt_pc' = "sleep"
        /\ Len(server_id_') = Cardinality(Servers)
        /\ Len(agent_id_') = Cardinality(Agents)
    BY <1>19 DEF RegisterMsg, Ready
  <2>2. Started' /\ N + 1 = NodeNum /\ Len(inbox) = 1
    BY <1>3, <1>5, <1>12, <2>1, NodeNumbers DEF Started, N
  <2>3. Inbox'
    <3>1. inbox' = <<>>
      <4>1. Len(inbox') = 0
        BY <1>5, <2>2
      <4>2. QED
        BY <1>5, <4>1, EmptySeq
    <3>2. QED
      BY <2>2, <3>1, EmptySeq DEF Inbox
  <2>4. Numbering'
    <3>1. \A m \in Nodes : \E id \in DOMAIN addr : addr[id] = m
      BY <1>7, <1>8, <2>2, AllRegistered
    <3>2. QED
      BY <1>4, <1>7, <1>8, <1>17, <2>2, <3>1 DEF Numbering
  <2>5. Lists'
    <3>1. Len(agent_id_') + Len(stale') = Cardinality(Agents)
      BY <1>12, <1>15, <2>1
    <3>2. QED
      BY <1>4, <1>7, <1>12, <1>13, <1>15, <2>2, <3>1 DEF Lists
  <2>6. partition_' \in Seq(1 .. Cardinality(Servers)) /\ Len(partition_') = Cardinality(Servers)
        /\ \A k \in 1 .. Cardinality(Servers) : partition_'[k] = k
    BY <2>1, NodeNumbers DEF GeneratePartition
  <2>7. StartKeys'
    <3>1. InStep(addr, server_id_', partition_')
      BY <1>12, <1>14, <2>1, <2>6 DEF InStep
    <3>2. QED
      BY <1>4, <2>1, <2>2, <2>6, <3>1 DEF StartKeys
  <2>8. /\ server_id_' \in Seq(1 .. NodeNum)
        /\ partition_' \in Seq(1 .. NodeNum)
    <3>1. 1 .. Cardinality(Servers) \subseteq 1 .. NodeNum
      BY NodeNumbers
    <3>2. QED
      BY <1>12, <2>2, <2>6, <3>1, SeqOfMore
  <2>9. NodeTypes'
    <3>1. [server_id |-> server_id_', partition |-> partition_'] \in MaybeConfig
      BY <2>8 DEF MaybeConfig, Config
    <3>2. mailbox' \in [Nodes -> MaybeConfig]
      <4>1. NoConfig \in MaybeConfig
        BY DEF MaybeConfig
      <4>2. QED
        BY <2>1, <3>1, <4>1 DEF DeliverConfig
    <3>3. QED
      BY <1>1, <1>16, <2>2, <3>2 DEF NodeTypes
  <2>10. Threads'
    <3>1. alive_node_' \in [0 .. NodeNum -> 0 .. Overdue]
      BY <2>1, NodeNumbers
    <3>2. QED
      BY <1>1, <1>4, <1>7, <1>16, <1>18, <2>1, <2>2, <3>1 DEF Threads
  <2>11. QED
    BY <1>2, <1>listed, <2>3, <2>4, <2>5, <2>7, <2>9, <2>10 DEF ClusterInv
<1>20. CASE ~Ready
  <2>1. UNCHANGED <<partition_, mailbox, alive_node_, hb_pc, dt_pc>>
    BY <1>20 DEF RegisterMsg
  <2>2. ~Started' /\ hb_pc' = "off" /\ dt_pc' = "off"
    BY <1>2, <2>1 DEF Started
  <2>3. Inbox'
    <3>1. DOMAIN inbox' = 1 .. Len(inbox) - 1
      BY <1>5, LenProperties
    <3>2. Len(addr) + Len(inbox') = NodeNum
      BY <1>3, <1>5, <1>7 DEF N
    <3>3. ASSUME NEW k \in DOMAIN inbox', NEW i \in DOMAIN addr
          PROVE  inbox'[k].node # addr[i]
      <4>1. inbox'[k] = inbox[k + 1] /\ k + 1 \in DOMAIN inbox /\ k + 1 # 1
        BY <1>5, <3>1
      <4>2. CASE i = N + 1
        BY <1>3, <1>6, <1>7, <4>1, <4>2
      <4>3. CASE i \in 1 .. N
        BY <1>3, <1>5, <1>7, <4>1, <4>3
      <4>4. QED
        BY <1>5, <1>7, <4>2, <4>3
    <3>4. ASSUME NEW k \in DOMAIN inbox', NEW l \in DOMAIN inbox',
                 inbox'[k].node = inbox'[l].node
          PROVE  k = l
      <4>1. /\ inbox'[k] = inbox[k + 1] /\ k + 1 \in DOMAIN inbox
            /\ inbox'[l] = inbox[l + 1] /\ l + 1 \in DOMAIN inbox
            /\ k \in Int /\ l \in Int
        BY <1>5, <3>1
      <4>2. k + 1 = l + 1
        BY <1>3, <3>4, <4>1
      <4>3. QED
        BY <4>1, <4>2
    <3>5. QED
      BY <1>4, <1>5, <2>2, <3>2, <3>3, <3>4 DEF Inbox
  <2>4. Numbering'
    BY <1>4, <1>7, <1>8, <1>17, <2>2 DEF Numbering
  <2>5. Lists'
    <3>1. /\ id_to_addr_' = addr /\ DOMAIN addr = 1 .. N + 1 /\ Len(addr) = N + 1
          /\ <<>> \in Seq(1 .. N + 1)
      BY <1>4, <1>7, EmptySeq
    <3>2. QED
      BY <1>12, <1>13, <1>15, <2>2, <3>1 DEF Lists
  <2>6. StartKeys'
    BY <1>1, <1>2, <1>4, <1>7, <1>12, <1>14, <2>1, <2>2 DEF StartKeys
  <2>7. NodeTypes'
    BY <1>1, <1>2, <1>16, <2>1, <2>2 DEF NodeTypes
  <2>8. Threads'
    BY <1>1, <1>2, <1>4, <1>7, <1>16, <1>18, <2>1, <2>2 DEF Threads
  <2>9. QED
    BY <1>2, <1>listed, <2>3, <2>4, <2>5, <2>6, <2>7, <2>8 DEF ClusterInv
<1>21. QED
  BY <1>19, <1>20

-----------------------------------------------------------------------------
(* The threads of the master *)

\* The nodes are as they were.
LEMMA NodesStay ==
  ASSUME ClusterInv, UNCHANGED nodeVars, Started' = Started
  PROVE  NodeTypes'
BY DEF ClusterInv, NodeTypes, nodeVars

\* The main loop reads a message of an agent.
LEMMA ReadsInbox ==
  ASSUME ClusterInv, NEW type \in {"heartbeat", "terminate"}, Reads(type)
  PROVE  /\ Started /\ Head(inbox).node \in Agents
         /\ inbox' \in Seq([type : {"heartbeat", "terminate"}, node : Agents])
<1>1. inbox # <<>> /\ Head(inbox).type = type /\ inbox' = Tail(inbox) /\ Inbox
  BY DEF Reads, ClusterInv
<1>2. Started
  <2> SUFFICES ASSUME ~Started PROVE FALSE
    OBVIOUS
  <2>1. inbox \in Seq([type : {"register"}, node : Nodes])
    BY <1>1 DEF Inbox
  <2>2. Head(inbox) \in [type : {"register"}, node : Nodes]
    BY <1>1, <2>1, HeadTailProperties
  <2>3. Head(inbox).type = "register"
    BY <2>2
  <2>4. QED
    BY <1>1, <2>3
<1>3. inbox \in Seq([type : {"heartbeat", "terminate"}, node : Agents])
  BY <1>1, <1>2 DEF Inbox
<1>4. /\ Head(inbox) \in [type : {"heartbeat", "terminate"}, node : Agents]
      /\ Tail(inbox) \in Seq([type : {"heartbeat", "terminate"}, node : Agents])
  BY <1>1, <1>3, HeadTailProperties
<1>5. QED
  BY <1>1, <1>2, <1>4

\* The main loop.
LEMMA MainStep == ClusterInv /\ MainLoop => ClusterInv'
<1> SUFFICES ASSUME ClusterInv, ProcessHeartbeatMsg \/ TerminateMsg PROVE ClusterInv'
  BY RegisterStep DEF MainLoop
<1>1. PICK type \in {"heartbeat", "terminate"} : Reads(type)
  BY DEF ProcessHeartbeatMsg, TerminateMsg
<1>2. /\ Started /\ Head(inbox).node \in Agents
      /\ inbox' \in Seq([type : {"heartbeat", "terminate"}, node : Agents])
  BY <1>1, ReadsInbox
<1>3. /\ UNCHANGED nodeVars /\ UNCHANGED configVars /\ config_changed_' = config_changed_
      /\ UNCHANGED beatVars /\ UNCHANGED detectVars
  BY DEF ProcessHeartbeatMsg, TerminateMsg
<1>4. /\ hb_pc' = hb_pc /\ hb_msg' = hb_msg /\ hb_next' = hb_next /\ hb_end' = hb_end
      /\ dt_pc' = dt_pc /\ dead_node' = dead_node /\ index' = index
      /\ agent_id_' = agent_id_ /\ id_to_addr_' = id_to_addr_ /\ Started' = Started
  BY <1>3 DEF beatVars, detectVars, configVars, Started
<1>5. NodeTypes' /\ Numbering' /\ Lists' /\ StartKeys'
  BY <1>3, <1>4, NodesStay, ListsStay
<1>6. Inbox'
  BY <1>2, <1>4 DEF Inbox
<1>7. Threads /\ IdOf(Head(inbox).node) \in 0 .. NodeNum
      /\ IdOf(Head(inbox).node) \in DOMAIN id_to_addr_
  <2>1. Head(inbox).node \in Nodes /\ Numbering /\ Threads
    BY <1>2 DEF Nodes, ClusterInv
  <2>2. QED
    BY <1>2, <2>1, Ids, NodeNumbers
<1>8. Threads'
  <2>1. alive_node_' \in [0 .. NodeNum -> 0 .. Overdue]
    <3>1. alive_node_ \in [0 .. NodeNum -> 0 .. Overdue] /\ 0 \in 0 .. Overdue
      BY <1>2, <1>7, NodeNumbers DEF Threads
    <3>2. QED
      BY <1>7, <3>1 DEF ProcessHeartbeatMsg, TerminateMsg
  <2>2. terminated_node_' \subseteq DOMAIN id_to_addr_ /\ terminated' \in BOOLEAN
    BY <1>7 DEF ProcessHeartbeatMsg, TerminateMsg, AllTerminated, Threads
  <2>3. QED
    BY <1>2, <1>3, <1>4, <1>7, <2>1, <2>2 DEF Threads
<1>9. QED
  BY <1>5, <1>6, <1>8 DEF ClusterInv

\* The vector of the agents and the end of a loop over it.
LEMMA LoopEnd ==
  ASSUME Lists, Started
  PROVE  /\ Len(agent_id_) \in Nat /\ Len(stale) \in Nat
         /\ Len(agent_id_) <= Cardinality(Agents)
         /\ Len(Storage) = Cardinality(Agents)
         /\ DOMAIN Storage = 1 .. Cardinality(Agents)
         /\ Storage \in Seq(DOMAIN id_to_addr_)
         /\ \A k \in 1 .. Len(agent_id_) : Storage[k] = agent_id_[k]
<1>1. agent_id_ \in Seq(DOMAIN id_to_addr_) /\ stale \in Seq(DOMAIN id_to_addr_)
      /\ Len(agent_id_) + Len(stale) = Cardinality(Agents)
  BY DEF Lists
<1>2. Len(agent_id_) \in Nat /\ Len(stale) \in Nat
  BY <1>1, LenProperties
<1>3. /\ Storage \in Seq(DOMAIN id_to_addr_)
      /\ Len(Storage) = Len(agent_id_) + Len(stale)
      /\ \A k \in 1 .. Len(agent_id_) + Len(stale) :
           Storage[k] = IF k <= Len(agent_id_) THEN agent_id_[k]
                                               ELSE stale[k - Len(agent_id_)]
  BY <1>1, ConcatProperties DEF Storage
<1>4. DOMAIN Storage = 1 .. Len(Storage)
  BY <1>3, LenProperties
<1>5. QED
  BY <1>1, <1>2, <1>3, <1>4

\* What a heartbeat may carry.
LEMMA MessageBuilt ==
  ASSUME ClusterInv, Started
  PROVE  /\ server_id_ \in Seq(1 .. NodeNum) /\ partition_ \in Seq(1 .. NodeNum)
         /\ [server_id |-> server_id_, partition |-> <<>>] \in Config
         /\ \A m \in Config : [m EXCEPT !.partition = partition_] \in Config
<1>1. DOMAIN id_to_addr_ = 1 .. NodeNum
  BY LenProperties DEF ClusterInv, Numbering
<1>2. server_id_ \in Seq(1 .. NodeNum)
  BY <1>1 DEF ClusterInv, Lists
<1>3. partition_ \in Seq(1 .. NodeNum)
  <2>1. 1 .. Cardinality(Servers) \subseteq 1 .. NodeNum
    BY NodeNumbers
  <2>2. partition_ \in Seq(1 .. Cardinality(Servers))
    BY DEF ClusterInv, StartKeys
  <2>3. QED
    BY <2>1, <2>2, SeqOfMore
<1>4. <<>> \in Seq(1 .. NodeNum)
  BY EmptySeq
<1>5. ASSUME NEW m \in Config PROVE [m EXCEPT !.partition = partition_] \in Config
  <2>1. m.server_id \in Seq(1 .. NodeNum)
        /\ m = [server_id |-> m.server_id, partition |-> m.partition]
    BY DEF Config
  <2>2. [m EXCEPT !.partition = partition_] =
          [server_id |-> m.server_id, partition |-> partition_]
    BY <2>1
  <2>3. QED
    BY <1>3, <2>1, <2>2 DEF Config
<1>6. QED
  BY <1>2, <1>3, <1>4, <1>5 DEF Config

\* The heartbeat thread.
LEMMA BeatStep == ClusterInv /\ DeliverHeartbeat => ClusterInv'
<1> SUFFICES ASSUME ClusterInv, DeliverHeartbeat PROVE ClusterInv'
  OBVIOUS
<1>1. /\ UNCHANGED <<status, mailbox, reconfig_msg_, applied>>
      /\ UNCHANGED configVars /\ UNCHANGED mainVars /\ UNCHANGED detectVars
  BY DEF DeliverHeartbeat
<1>2. /\ inbox' = inbox /\ alive_node_' = alive_node_ /\ terminated' = terminated
      /\ terminated_node_' = terminated_node_ /\ dt_pc' = dt_pc
      /\ dead_node' = dead_node /\ index' = index
      /\ id_to_addr_' = id_to_addr_ /\ agent_id_' = agent_id_
  BY <1>1 DEF mainVars, detectVars, configVars
<1>3. NodeTypes /\ Lists /\ Threads
  BY DEF ClusterInv
<1>4. PICK from, to : /\ Step(from, to)
                      /\ from \in {"check", "servers", "partition", "clear", "send"}
                      /\ to \in {"sleep", "servers", "partition", "clear", "send"}
  BY DEF DeliverHeartbeat, CheckChanged, CopyServers, CopyPartition, HeartbeatsSent,
         ClearChanged, SendHeartbeat
<1>5. Started /\ Started' /\ Started' = Started
  BY <1>4 DEF Step, Started
<1>6. Numbering' /\ Lists' /\ StartKeys' /\ Inbox'
  BY <1>1, <1>2, <1>5, ListsStay, InboxStays
<1>7. /\ Len(agent_id_) \in Nat /\ Len(agent_id_) <= Cardinality(Agents)
      /\ Cardinality(Agents) \in Nat
  BY <1>3, <1>5, LoopEnd, NodeNumbers
<1>8. NoConfig \in MaybeConfig /\ Config \subseteq MaybeConfig
  BY DEF MaybeConfig
<1>9. CASE CheckChanged /\ UNCHANGED <<hb_msg, beats, config_changed_>>
  <2>1. NodeTypes'
    BY <1>1, <1>3, <1>5, <1>9 DEF NodeTypes
  <2>2. Threads'
    BY <1>2, <1>3, <1>5, <1>7, <1>9 DEF Threads, CheckChanged, Step, StartLoop
  <2>3. QED
    BY <1>6, <2>1, <2>2 DEF ClusterInv
<1>10. CASE CopyServers /\ UNCHANGED <<beats, config_changed_>>
  <2>1. NodeTypes'
    BY <1>1, <1>3, <1>5, <1>10 DEF NodeTypes
  <2>2. hb_msg' \in Config
    BY <1>5, <1>10, MessageBuilt DEF CopyServers
  <2>3. Threads'
    BY <1>2, <1>3, <1>5, <1>8, <1>10, <2>2 DEF Threads, CopyServers, Step
  <2>4. QED
    BY <1>6, <2>1, <2>3 DEF ClusterInv
<1>11. CASE CopyPartition /\ UNCHANGED <<beats, config_changed_>>
  <2>1. NodeTypes'
    BY <1>1, <1>3, <1>5, <1>11 DEF NodeTypes
  <2>2. hb_msg' \in Config
    BY <1>3, <1>5, <1>11, MessageBuilt DEF CopyPartition, Threads, Step
  <2>3. Threads'
    BY <1>2, <1>3, <1>5, <1>8, <1>11, <2>2 DEF Threads, CopyPartition, Step
  <2>4. QED
    BY <1>6, <2>1, <2>3 DEF ClusterInv
<1>12. CASE HeartbeatsSent /\ UNCHANGED <<beats, config_changed_>>
  <2>1. NodeTypes'
    BY <1>1, <1>3, <1>5, <1>12 DEF NodeTypes
  <2>2. Threads'
    BY <1>2, <1>3, <1>5, <1>8, <1>12 DEF Threads, HeartbeatsSent, Step
  <2>3. QED
    BY <1>6, <2>1, <2>2 DEF ClusterInv
<1>13. CASE ClearChanged /\ UNCHANGED beats
  <2>1. NodeTypes'
    BY <1>1, <1>3, <1>5, <1>13 DEF NodeTypes
  <2>2. /\ hb_pc' = "send" /\ hb_msg' = hb_msg /\ hb_next' = 1
        /\ hb_end' = Len(agent_id_) /\ config_changed_' = FALSE /\ dt_pc # "off"
    BY <1>3, <1>5, <1>13 DEF ClearChanged, Step, StartLoop, Threads, Started
  <2>3. /\ hb_end' \in Nat /\ hb_next' \in Nat /\ hb_next' >= 1
        /\ Len(agent_id_) <= hb_end' /\ hb_end' <= Cardinality(Agents)
    BY <1>7, <2>2
  <2>4. Threads'
    BY <1>2, <1>3, <1>5, <2>2, <2>3 DEF Threads
  <2>5. QED
    BY <1>6, <2>1, <2>4 DEF ClusterInv
<1>14. CASE SendHeartbeat /\ UNCHANGED config_changed_
  <2> DEFINE a == id_to_addr_[Storage[hb_next]]
  <2>1. beats' = Deliver(beats, a, hb_msg)
    BY <1>14 DEF SendHeartbeat, Storage
  <2>2. hb_msg \in MaybeConfig /\ beats \in [Agents -> Seq(MaybeConfig)]
    BY <1>3 DEF Threads, NodeTypes
  <2> HIDE DEF a
  <2>3. beats' \in [Agents -> Seq(MaybeConfig)]
    <3>1. a \in Agents => Append(beats[a], hb_msg) \in Seq(MaybeConfig)
      BY <2>2, AppendProperties
    <3>2. QED
      BY <2>1, <2>2, <3>1 DEF Deliver
  <2>4. NodeTypes'
    BY <1>1, <1>3, <1>5, <2>3 DEF NodeTypes
  <2>5. Threads'
    BY <1>2, <1>3, <1>5, <1>14 DEF Threads, SendHeartbeat, Step
  <2>6. QED
    BY <1>6, <2>4, <2>5 DEF ClusterInv
<1>15. QED
  BY <1>9, <1>10, <1>11, <1>12, <1>13, <1>14 DEF DeliverHeartbeat

\* What erase does to the storage of the vector: the places from k on move one
\* to the front, and the last one stays where it was.
LEMMA EraseShift ==
  ASSUME Lists, Started, NEW k \in 1 .. Len(agent_id_),
         agent_id_' = RemoveAt(agent_id_, k), stale' = <<Last(agent_id_)>> \o stale
  PROVE  /\ agent_id_' \in Seq(DOMAIN id_to_addr_) /\ stale' \in Seq(DOMAIN id_to_addr_)
         /\ Len(agent_id_') = Len(agent_id_) - 1 /\ Len(stale') = Len(stale) + 1
         /\ DOMAIN Storage' = 1 .. Cardinality(Agents)
         /\ \A i \in 1 .. Len(agent_id_) - 1 :
              agent_id_'[i] = IF i < k THEN agent_id_[i] ELSE agent_id_[i + 1]
         /\ \A i \in 1 .. Cardinality(Agents) :
              Storage'[i] = IF i < k \/ i >= Len(agent_id_) THEN Storage[i]
                                                            ELSE Storage[i + 1]
<1> DEFINE L == Len(agent_id_)
           M == Len(stale)
           T == DOMAIN id_to_addr_
           e == Last(agent_id_)
           new == RemoveAt(agent_id_, k)
           old == <<e>> \o stale
<1>1. agent_id_ \in Seq(T) /\ stale \in Seq(T) /\ L + M = Cardinality(Agents)
  BY DEF Lists
<1>2. L \in Nat /\ M \in Nat /\ k \in 1 .. L
  BY <1>1, LenProperties
<1>3. /\ new \in Seq(T) /\ Len(new) = L - 1
      /\ \A i \in 1 .. L - 1 : new[i] = IF i < k THEN agent_id_[i] ELSE agent_id_[i + 1]
  BY <1>1, RemoveAtPlaces
<1>4. e \in T /\ e = agent_id_[L]
  BY <1>1, <1>2, ElementOfSeq DEF Last
<1> HIDE DEF L, M, T, e, new
<1>5. <<e>> \in Seq(T) /\ Len(<<e>>) = 1 /\ <<e>>[1] = e
  BY <1>4
<1>6. /\ old \in Seq(T) /\ Len(old) = M + 1
      /\ \A i \in 1 .. M + 1 : old[i] = IF i <= 1 THEN e ELSE stale[i - 1]
  <2>1. /\ old \in Seq(T) /\ Len(old) = 1 + M
        /\ \A i \in 1 .. 1 + M : old[i] = IF i <= 1 THEN <<e>>[i] ELSE stale[i - 1]
    BY <1>1, <1>5, ConcatProperties DEF M
  <2>2. \A i \in 1 .. M + 1 : i <= 1 => i = 1
    BY <1>2
  <2>3. QED
    BY <1>2, <1>5, <2>1, <2>2
<1> HIDE DEF old
<1>7. Storage' = new \o old /\ Storage = agent_id_ \o stale
  BY DEF Storage, new, old, e
<1>8. /\ new \o old \in Seq(T) /\ Len(new \o old) = (L - 1) + (M + 1)
      /\ \A i \in 1 .. (L - 1) + (M + 1) :
           (new \o old)[i] = IF i <= L - 1 THEN new[i] ELSE old[i - (L - 1)]
  <2>1. /\ new \o old \in Seq(T) /\ Len(new \o old) = Len(new) + Len(old)
        /\ \A i \in 1 .. Len(new) + Len(old) :
             (new \o old)[i] = IF i <= Len(new) THEN new[i] ELSE old[i - Len(new)]
    <3>1. new \in Seq(T) /\ old \in Seq(T)
      BY <1>3, <1>6
    <3>2. QED
      BY <3>1, ConcatProperties
  <2>2. Len(new) = L - 1 /\ Len(old) = M + 1
    BY <1>3, <1>6
  <2>3. QED
    BY ONLY <2>1, <2>2
<1>9. \A i \in 1 .. L + M :
         (agent_id_ \o stale)[i] = IF i <= L THEN agent_id_[i] ELSE stale[i - L]
  BY <1>1, ConcatProperties DEF L, M
<1>10. ASSUME NEW i \in 1 .. L + M
       PROVE  (new \o old)[i] = IF i < k \/ i >= L THEN (agent_id_ \o stale)[i]
                                                   ELSE (agent_id_ \o stale)[i + 1]
  <2>1. CASE i <= L - 1
    <3>1. i \in 1 .. L - 1 /\ i \in 1 .. (L - 1) + (M + 1) /\ i + 1 \in 1 .. L + M
          /\ i <= L /\ i + 1 <= L /\ ~(i >= L)
      BY <1>2, <2>1
    <3>2. (new \o old)[i] = IF i < k THEN agent_id_[i] ELSE agent_id_[i + 1]
      BY <1>3, <1>8, <2>1, <3>1
    <3>3. QED
      BY <1>9, <3>1, <3>2
  <2>2. CASE i = L
    <3>1. i \in 1 .. (L - 1) + (M + 1) /\ ~(i <= L - 1) /\ i - (L - 1) = 1 /\ 1 \in 1 .. M + 1
      BY <1>2, <2>2
    <3>2. (new \o old)[i] = e
      <4>1. (new \o old)[i] = old[i - (L - 1)]
        BY <1>8, <3>1
      <4>2. old[1] = e
        BY <1>6, <3>1
      <4>3. QED
        BY <3>1, <4>1, <4>2
    <3>3. (agent_id_ \o stale)[L] = agent_id_[L]
      <4>1. L \in 1 .. L + M /\ L <= L
        BY <1>2
      <4>2. QED
        BY <1>9, <4>1
    <3>4. QED
      BY <1>2, <1>4, <2>2, <3>2, <3>3
  <2>3. CASE i > L
    <3>1. /\ i \in 1 .. (L - 1) + (M + 1) /\ ~(i <= L - 1) /\ i - (L - 1) \in 1 .. M + 1
          /\ ~(i - (L - 1) <= 1) /\ (i - (L - 1)) - 1 = i - L
      BY <1>2, <2>3
    <3>2. (new \o old)[i] = stale[i - L]
      <4>1. (new \o old)[i] = old[i - (L - 1)]
        BY <1>8, <3>1
      <4>2. old[i - (L - 1)] = stale[(i - (L - 1)) - 1]
        BY <1>6, <3>1
      <4>3. QED
        BY <3>1, <4>1, <4>2
    <3>3. ~(i <= L) /\ i >= L
      BY <1>2, <2>3
    <3>4. QED
      BY <1>9, <3>2, <3>3
  <2>4. i <= L - 1 \/ i = L \/ i > L
    BY <1>2
  <2>5. QED
    BY <2>1, <2>2, <2>3, <2>4
<1>11. DOMAIN (new \o old) = 1 .. Cardinality(Agents)
  <2>1. (L - 1) + (M + 1) = Cardinality(Agents)
    BY <1>1, <1>2 DEF L, M
  <2>2. QED
    BY <1>8, <2>1, LenProperties
<1>12. agent_id_' = new /\ stale' = old
  BY DEF new, old, e
<1>13. QED
  BY <1>1, <1>3, <1>6, <1>7, <1>10, <1>11, <1>12 DEF L, M, T

\* FixConfig takes an agent out of the vector.
LEMMA EraseAgentStep ==
  ASSUME ClusterInv, Started, NEW id, EraseAgent(id), id_to_addr_' = id_to_addr_,
         UNCHANGED <<hb_pc, hb_msg, hb_next, hb_end, partition_, dead_node>>,
         UNCHANGED <<config_changed_, terminated, alive_node_, terminated_node_>>,
         dt_pc = "fix"
  PROVE  Lists' /\ StartKeys' /\ Threads'
<1>1. Lists /\ StartKeys /\ Threads /\ Started' = Started
  BY DEF ClusterInv, Started
<1>2. PICK k \in 1 .. Len(agent_id_) : agent_id_' = RemoveAt(agent_id_, k)
  <2>1. DOMAIN agent_id_ = 1 .. Len(agent_id_)
    BY <1>1, LenProperties DEF Lists
  <2>2. \E k \in DOMAIN agent_id_ : agent_id_[k] = id
    BY DEF EraseAgent, ToSet
  <2>3. QED
    BY <2>1, <2>2 DEF EraseAgent
<1>3. /\ stale' = <<Last(agent_id_)>> \o stale /\ dt_pc' = "fix"
      /\ server_id_' = server_id_ /\ index' = index
  BY DEF EraseAgent
<1>4. /\ agent_id_' \in Seq(DOMAIN id_to_addr_) /\ stale' \in Seq(DOMAIN id_to_addr_)
      /\ Len(agent_id_') = Len(agent_id_) - 1 /\ Len(stale') = Len(stale) + 1
      /\ DOMAIN Storage' = 1 .. Cardinality(Agents)
      /\ \A i \in 1 .. Cardinality(Agents) :
           Storage'[i] = IF i < k \/ i >= Len(agent_id_) THEN Storage[i]
                                                         ELSE Storage[i + 1]
  BY <1>1, <1>2, <1>3, EraseShift
<1>5. /\ Len(agent_id_) \in Nat /\ Len(stale) \in Nat
      /\ Len(agent_id_) <= Cardinality(Agents)
      /\ Len(agent_id_) + Len(stale) = Cardinality(Agents)
      /\ DOMAIN Storage = 1 .. Cardinality(Agents) /\ Cardinality(Agents) \in Nat
  BY <1>1, LoopEnd, NodeNumbers DEF Lists
<1>6. Lists'
  <2>1. ASSUME NEW i \in 1 .. Cardinality(Agents)
        PROVE  id_to_addr_[Storage'[i]] \in Agents
    <3>1. PICK j \in 1 .. Cardinality(Agents) : Storage'[i] = Storage[j]
      <4>1. CASE i < k \/ i >= Len(agent_id_)
        BY <1>4, <4>1
      <4>2. CASE ~(i < k \/ i >= Len(agent_id_))
        <5>1. i + 1 \in 1 .. Cardinality(Agents)
          BY <1>5, <4>2
        <5>2. QED
          BY <1>4, <4>2, <5>1
      <4>3. QED
        BY <4>1, <4>2
    <3>2. QED
      BY <1>1, <1>5, <3>1 DEF Lists
  <2>2. Len(agent_id_') + Len(stale') = Cardinality(Agents)
    BY <1>4, <1>5
  <2>3. QED
    BY <1>1, <1>3, <1>4, <2>1, <2>2 DEF Lists
<1>7. StartKeys'
  BY <1>1, <1>3 DEF StartKeys
<1>8. Threads'
  <2>1. hb_pc = "send" => Len(agent_id_') <= hb_end
    BY <1>1, <1>4, <1>5 DEF Threads
  <2>2. QED
    BY <1>1, <1>3, <2>1 DEF Threads
<1>9. QED
  BY <1>6, <1>7, <1>8

\* FixConfig takes a server out of the list of the servers; its start key is the
\* entry of partition_ at index.
LEMMA EraseServerStep ==
  ASSUME ClusterInv, Started, NEW id, EraseServer(id), id_to_addr_' = id_to_addr_,
         UNCHANGED <<hb_pc, hb_msg, hb_next, hb_end, partition_, dead_node>>,
         UNCHANGED <<config_changed_, terminated, alive_node_, terminated_node_>>,
         dt_pc = "fix"
  PROVE  Lists' /\ StartKeys' /\ Threads'
<1>1. Lists /\ StartKeys /\ Threads /\ Started' = Started
  BY DEF ClusterInv, Started
<1>2. /\ dt_pc' = "partition" /\ agent_id_' = agent_id_ /\ stale' = stale
      /\ server_id_' = RemoveAt(server_id_, index')
      /\ server_id_ \in Seq(DOMAIN id_to_addr_)
  BY <1>1 DEF EraseServer, Lists
<1>3. DOMAIN server_id_ = 1 .. Len(server_id_) /\ Len(server_id_) \in Nat
  BY <1>2, LenProperties
<1>4. index' \in 1 .. Len(server_id_)
  <2>1. \E k \in DOMAIN server_id_ : server_id_[k] = id
    BY DEF EraseServer, ToSet
  <2>2. QED
    BY <1>3, <2>1 DEF EraseServer
<1>5. /\ server_id_' \in Seq(DOMAIN id_to_addr_)
      /\ Len(server_id_') = Len(server_id_) - 1
      /\ \A j \in 1 .. Len(server_id_) - 1 :
           server_id_'[j] = IF j < index' THEN server_id_[j] ELSE server_id_[j + 1]
  BY <1>2, <1>4, RemoveAtPlaces
<1>6. Lists'
  BY <1>1, <1>2, <1>5 DEF Lists, Storage
<1>7. /\ Len(server_id_) = Len(partition_)
      /\ \A k \in 1 .. Len(server_id_) : partition_[k] = Rank(id_to_addr_, server_id_[k])
  BY <1>1, <1>3 DEF StartKeys, InStep
<1>8. DOMAIN server_id_' = 1 .. Len(server_id_) - 1
  BY <1>5, LenProperties
<1>9. ASSUME NEW k \in DOMAIN server_id_'
      PROVE  partition_[IF k < index' THEN k ELSE k + 1] = Rank(id_to_addr_, server_id_'[k])
  <2>1. k \in 1 .. Len(server_id_) - 1 /\ k \in 1 .. Len(server_id_)
        /\ k + 1 \in 1 .. Len(server_id_)
    BY <1>3, <1>8
  <2>2. QED
    BY <1>5, <1>7, <2>1
<1>10. StartKeys'
  <2>1. index' \in 1 .. Len(partition_) /\ Len(partition_) = Len(server_id_') + 1
    BY <1>3, <1>4, <1>5, <1>7
  <2>2. QED
    BY <1>1, <1>2, <1>9, <2>1 DEF StartKeys
<1>11. Threads'
  BY <1>1, <1>2 DEF Threads
<1>12. QED
  BY <1>6, <1>10, <1>11

\* FixConfig then takes the start key out: the two lists are in step again.
LEMMA ErasePartitionStep ==
  ASSUME StartKeys, Lists, Started, ErasePartition, Started' = Started
  PROVE  StartKeys'
<1>1. /\ dt_pc = "partition" /\ partition_' = RemoveAt(partition_, index)
      /\ dt_pc' = "fix" /\ server_id_' = server_id_ /\ id_to_addr_' = id_to_addr_
  BY DEF ErasePartition, Erased
<1>2. /\ partition_ \in Seq(1 .. Cardinality(Servers)) /\ index \in 1 .. Len(partition_)
      /\ Len(partition_) = Len(server_id_) + 1
      /\ \A k \in DOMAIN server_id_ :
           partition_[IF k < index THEN k ELSE k + 1] = Rank(id_to_addr_, server_id_[k])
  BY <1>1 DEF StartKeys
<1>3. DOMAIN server_id_ = 1 .. Len(server_id_) /\ Len(server_id_) \in Nat
  BY LenProperties DEF Lists
<1>4. /\ partition_' \in Seq(1 .. Cardinality(Servers))
      /\ Len(partition_') = Len(partition_) - 1
      /\ \A j \in 1 .. Len(partition_) - 1 :
           partition_'[j] = IF j < index THEN partition_[j] ELSE partition_[j + 1]
  BY <1>1, <1>2, RemoveAtPlaces
<1>5. Len(partition_') = Len(server_id_)
  BY <1>2, <1>3, <1>4
<1>6. ASSUME NEW k \in DOMAIN server_id_
      PROVE  partition_'[k] = Rank(id_to_addr_, server_id_[k])
  <2>1. k \in 1 .. Len(partition_) - 1
    BY <1>2, <1>3
  <2>2. QED
    BY <1>2, <1>4, <2>1
<1>7. InStep(id_to_addr_, server_id_, partition_')
  BY <1>5, <1>6 DEF InStep
<1>8. QED
  BY <1>1, <1>4, <1>7 DEF StartKeys

\* The detection thread.
LEMMA DetectStep == ClusterInv /\ DetectDeadNode => ClusterInv'
<1> SUFFICES ASSUME ClusterInv, DetectDeadNode PROVE ClusterInv'
  OBVIOUS
<1>1. /\ UNCHANGED nodeVars /\ inbox' = inbox /\ terminated_node_' = terminated_node_
      /\ terminated' = terminated /\ hb_pc' = hb_pc /\ hb_msg' = hb_msg
      /\ hb_next' = hb_next /\ hb_end' = hb_end
  BY DEF DetectDeadNode, beatVars
<1>2. /\ Lists /\ StartKeys /\ Threads /\ Numbering
      /\ dt_pc \in {"sleep", "lock", "fix", "partition"}
  BY DEF ClusterInv, DetectDeadNode, Scan, LockConfig, EraseNode, ErasePartition,
         UnlockConfig
<1>3. Started /\ Started' /\ Started' = Started
  BY <1>1, <1>2 DEF Started, Threads
<1>4. /\ id_to_addr_' = id_to_addr_ /\ alive_node_' = alive_node_
  BY DEF DetectDeadNode, Scan, LockConfig, EraseNode, ErasePartition, UnlockConfig,
         configVars
<1>5. NodeTypes' /\ Inbox' /\ Numbering'
  <2>1. Numbering'
    BY <1>2, <1>3, <1>4 DEF Numbering
  <2>2. QED
    BY <1>1, <1>3, <1>4, <2>1, NodesStay, InboxStays
<1>6. CASE Scan \/ LockConfig \/ UnlockConfig
  <2>1. /\ UNCHANGED configVars /\ index' = index
        /\ dt_pc # "partition" /\ dt_pc' \in {"sleep", "lock", "fix"}
        /\ dead_node' \in {dead_node, {}} \/ GetDeadNode(dead_node')
        /\ config_changed_' \in {config_changed_, TRUE}
    BY <1>6 DEF Scan, LockConfig, UnlockConfig
  <2>2. Lists' /\ StartKeys'
    BY <1>3, <2>1, ListsStay
  <2>3. dead_node' \subseteq 0 .. NodeNum
    BY <1>2, <1>3, <2>1 DEF GetDeadNode, Threads
  <2>4. agent_id_' = agent_id_
    BY <2>1 DEF configVars
  <2>5. Threads'
    BY <1>1, <1>2, <1>3, <1>4, <2>1, <2>3, <2>4 DEF Threads
  <2>6. QED
    BY <1>5, <2>2, <2>5 DEF ClusterInv
<1>7. CASE EraseNode
  <2>1. PICK id : EraseAgent(id) \/ EraseServer(id)
    BY <1>7 DEF EraseNode
  <2>2. /\ UNCHANGED <<hb_pc, hb_msg, hb_next, hb_end, partition_, dead_node>>
        /\ UNCHANGED <<config_changed_, terminated, alive_node_, terminated_node_>>
        /\ dt_pc = "fix"
    BY <1>1, <1>7 DEF EraseNode
  <2>3. Lists' /\ StartKeys' /\ Threads'
    BY <1>3, <1>4, <2>1, <2>2, EraseAgentStep, EraseServerStep
  <2>4. QED
    BY <1>5, <2>3 DEF ClusterInv
<1>8. CASE ErasePartition
  <2>1. /\ StartKeys' /\ dt_pc' = "fix"
        /\ UNCHANGED <<server_id_, agent_id_, stale, dead_node, config_changed_>>
    BY <1>2, <1>3, <1>8, ErasePartitionStep DEF ErasePartition
  <2>2. Lists'
    BY <1>2, <1>3, <1>4, <2>1 DEF Lists, Storage
  <2>3. Threads'
    BY <1>1, <1>2, <1>3, <1>4, <2>1 DEF Threads
  <2>4. QED
    BY <1>5, <2>1, <2>2, <2>3 DEF ClusterInv
<1>9. QED
  BY <1>6, <1>7, <1>8 DEF DetectDeadNode

\* Time passes.
LEMMA TickStep == ClusterInv /\ Tick => ClusterInv'
<1> SUFFICES ASSUME ClusterInv, Tick PROVE ClusterInv'
  OBVIOUS
<1>1. /\ UNCHANGED nodeVars /\ UNCHANGED configVars /\ inbox' = inbox
      /\ hb_pc = "sleep" /\ hb_pc' = "check"
      /\ UNCHANGED <<config_changed_, terminated_node_, terminated, hb_msg, hb_next>>
      /\ UNCHANGED <<hb_end, dt_pc, dead_node, index>>
  BY DEF Tick, detectVars
<1>2. Started /\ Started' /\ Started' = Started /\ Threads
  BY <1>1 DEF Started, ClusterInv
<1>3. /\ id_to_addr_' = id_to_addr_ /\ agent_id_' = agent_id_
      /\ (dt_pc' = "partition") = (dt_pc = "partition")
  BY <1>1 DEF configVars
<1>4. NodeTypes' /\ Inbox' /\ Numbering' /\ Lists' /\ StartKeys'
  BY <1>1, <1>2, <1>3, NodesStay, InboxStays, ListsStay
<1>5. alive_node_' \in [0 .. NodeNum -> 0 .. Overdue]
  <2>1. alive_node_ \in [0 .. NodeNum -> 0 .. Overdue] /\ Overdue \in Nat
    BY <1>2, NodeNumbers DEF Threads
  <2>2. ASSUME NEW id \in 0 .. NodeNum
        PROVE  (IF alive_node_[id] < Overdue THEN alive_node_[id] + 1 ELSE Overdue)
                 \in 0 .. Overdue
    BY <2>1
  <2>3. QED
    BY <2>1, <2>2 DEF Tick
<1>6. Threads'
  BY <1>1, <1>2, <1>3, <1>5 DEF Threads
<1>7. QED
  BY <1>4, <1>6 DEF ClusterInv

\* A step of any thread, or none.
LEMMA ClusterStep == ClusterInv /\ [Next]_vars => ClusterInv'
<1> SUFFICES ASSUME ClusterInv, [Next]_vars PROVE ClusterInv'
  OBVIOUS
<1>1. ASSUME NEW n \in Nodes, Configure(n) \/ Crash(n) PROVE ClusterInv'
  BY <1>1, NodeStep
<1>2. ASSUME NEW a \in Agents,
             \/ AnswerHeartbeat(a) \/ WorkerSignal(a) \/ TerminateSignal(a)
             \/ ReconfigurateAborts(a) \/ AgentExits(a)
      PROVE  ClusterInv'
  <2>1. a \in Nodes
    BY DEF Nodes
  <2>2. QED
    BY <1>2, <2>1, NodeStep
<1>3. CASE UNCHANGED vars
  <2>1. /\ UNCHANGED nodeVars /\ UNCHANGED configVars /\ config_changed_' = config_changed_
        /\ UNCHANGED mainVars /\ UNCHANGED beatVars /\ UNCHANGED detectVars
    BY <1>3 DEF vars
  <2>2. /\ inbox' = inbox /\ id_to_addr_' = id_to_addr_
        /\ UNCHANGED <<alive_node_, terminated_node_, terminated>>
    BY <2>1 DEF mainVars, configVars
  <2>3. Numbering' /\ Lists' /\ StartKeys' /\ Threads' /\ Started' = Started
    BY <2>1, <2>2, MasterStays
  <2>4. QED
    BY <2>1, <2>2, <2>3, NodesStay, InboxStays DEF ClusterInv
<1>4. QED
  BY <1>1, <1>2, <1>3, MainStep, BeatStep, DetectStep, TickStep DEF Next

\* The invariant of the master and its nodes: registrations number the nodes,
\* the lists of the configuration hold what they should at every step of every
\* thread, and FixConfig keeps server_id_ and partition_ in step.
THEOREM ClusterInvariance == Spec => []ClusterInv
<1>1. QED
  BY InitInv, ClusterStep, PTL DEF Spec

\* The shared state of the master has its types in every reachable state.
THEOREM ClusterTypeCorrect == Spec => []TypeOK
<1>1. ASSUME ClusterInv PROVE TypeOK
  <2>1. \A id \in DOMAIN alive_node_ : alive_node_[id] \in 0 .. Overdue
    <3>1. CASE Started
      BY <1>1, <3>1 DEF ClusterInv, Threads
    <3>2. CASE ~Started
      <4>1. alive_node_ = <<>> /\ DOMAIN <<>> = {}
        BY <1>1, <3>2 DEF ClusterInv, Threads
      <4>2. QED
        BY <4>1
    <3>3. QED
      BY <3>1, <3>2
  <2>2. ASSUME NEW a \in Agents
        PROVE  /\ applied[a] \in Config \cup {NoConfig}
               /\ reconfig_msg_[a] \in Config \cup {NoConfig}
               /\ \A k \in DOMAIN beats[a] : beats[a][k] \in Config \cup {NoConfig}
    <3>1. /\ applied[a] \in MaybeConfig /\ reconfig_msg_[a] \in MaybeConfig
          /\ beats[a] \in Seq(MaybeConfig)
      BY <1>1 DEF ClusterInv, NodeTypes
    <3>2. \A k \in DOMAIN beats[a] : beats[a][k] \in MaybeConfig
      <4> DEFINE b == beats[a]
      <4> HIDE DEF b
      <4>1. b \in Seq(MaybeConfig)
        BY <3>1 DEF b
      <4>2. \A k \in DOMAIN b : b[k] \in MaybeConfig
        BY <4>1, ElementOfSeq, LenProperties
      <4>3. QED
        BY <4>2 DEF b
    <3>3. QED
      BY <3>1, <3>2 DEF MaybeConfig
  <2>3. QED
    BY <1>1, <2>1, <2>2 DEF ClusterInv, NodeTypes, Numbering, Lists, StartKeys, Threads, TypeOK
<1>2. QED
  BY <1>1, ClusterInvariance, PTL

\* However many nodes FixConfig removes, and in whatever order its threads step,
\* a server that stays in the configuration keeps the start key it was given:
\* the two lists are in step except between the two erasures of one server.
THEOREM StartKeysStay == Spec => []StartKeysKept
<1>1. ASSUME ClusterInv PROVE StartKeysKept
  <2>1. dt_pc \notin {"off", "partition"} => InStep(id_to_addr_, server_id_, partition_)
    BY <1>1 DEF ClusterInv, StartKeys, Threads, Started
  <2>2. QED
    BY <2>1 DEF StartKeysKept, Aligned, FirstStart, InStep, Rank
<1>2. QED
  BY <1>1, ClusterInvariance, PTL

-----------------------------------------------------------------------------
(* Time: the agents that live are heard from *)

\* The number of agents an agent can be passed over for.
LEMMA SkipsBound ==
  ASSUME Lists, Started
  PROVE  /\ Skips \in Nat
         /\ Timeout >= 2 /\ Cardinality(Agents) <= Timeout => Skips + 1 < Timeout
<1>1. Len(stale) \in Nat /\ Cardinality(Agents) \in Nat /\ Timeout \in Nat \ {0}
  BY LoopEnd, NodeNumbers
<1>2. QED
  BY <1>1 DEF Skips

\* It grows with every agent that is removed, until two are left.
LEMMA SkipsGrow ==
  ASSUME Lists, Started, Len(stale') = Len(stale) + 1
  PROVE  /\ Skips' \in Nat /\ Skips <= Skips'
         /\ Len(agent_id_) >= 3 => Skips' = Skips + 1
<1>1. /\ Len(stale) \in Nat /\ Cardinality(Agents) \in Nat /\ Len(agent_id_) \in Nat
      /\ Len(agent_id_) + Len(stale) = Cardinality(Agents)
  BY LoopEnd, NodeNumbers DEF Lists
<1> DEFINE M == Len(stale)
           C == Cardinality(Agents)
<1>2. /\ Skips = IF M <= C - 2 THEN M ELSE IF C >= 2 THEN C - 2 ELSE 0
      /\ Skips' = IF M + 1 <= C - 2 THEN M + 1 ELSE IF C >= 2 THEN C - 2 ELSE 0
  BY DEF Skips
<1>3. M \in Nat /\ C \in Nat /\ (Len(agent_id_) >= 3 => M + 1 <= C - 2)
  BY <1>1
<1> HIDE DEF M, C
<1>4. QED
  BY <1>2, <1>3

\* What is known of an agent that lives.
LEMMA HeardFacts ==
  ASSUME ClusterInv, Started, NEW a \in Agents
  PROVE  /\ a \in Nodes /\ IdOf(a) \in 0 .. NodeNum /\ id_to_addr_[IdOf(a)] = a
         /\ IdOf(a) \in DOMAIN id_to_addr_
         /\ alive_node_ \in [0 .. NodeNum -> 0 .. Overdue]
         /\ alive_node_[IdOf(a)] \in Nat
         /\ Skips \in Nat
<1>1. a \in Nodes /\ Numbering /\ Lists /\ Threads
  BY DEF Nodes, ClusterInv
<1>2. IdOf(a) \in 1 .. NodeNum /\ id_to_addr_[IdOf(a)] = a /\ IdOf(a) \in DOMAIN id_to_addr_
  BY <1>1, Ids
<1>3. IdOf(a) \in 0 .. NodeNum /\ alive_node_ \in [0 .. NodeNum -> 0 .. Overdue]
  BY <1>1, <1>2, NodeNumbers DEF Threads
<1>4. QED
  BY <1>1, <1>2, <1>3, SkipsBound, NodeNumbers

\* The id of a node does not change.
LEMMA IdStays ==
  ASSUME id_to_addr_' = id_to_addr_, NEW n
  PROVE  IdOf(n)' = IdOf(n)
BY DEF IdOf

\* An agent stays heard from as long as nothing that tells of it is lost.
LEMMA HeardStays ==
  ASSUME NEW a \in Agents, Heard(a),
         UNCHANGED <<id_to_addr_, agent_id_, stale>>, IdOf(a) \notin dead_node',
         alive_node_'[IdOf(a)] = alive_node_[IdOf(a)],
         Expected(a) => Expected(a)'
  PROVE  Heard(a)'
<1>1. IdOf(a)' = IdOf(a) /\ Skips' = Skips
  BY IdStays DEF Skips
<1>2. QED
  BY <1>1 DEF Heard

\* The heartbeat of this round is still expected, or its answer.
LEMMA ExpectedStays ==
  ASSUME NEW a \in Agents, Expected(a),
         UNCHANGED <<id_to_addr_, agent_id_, stale, hb_pc, hb_next, hb_end>>,
         beats[a] # <<>> => beats'[a] # <<>>,
         \A k \in DOMAIN inbox : inbox[k] = [type |-> "heartbeat", node |-> a]
           => \E l \in DOMAIN inbox' : inbox'[l] = [type |-> "heartbeat", node |-> a]
  PROVE  Expected(a)'
<1>1. IdOf(a)' = IdOf(a) /\ Storage' = Storage
  BY IdStays DEF Storage
<1>2. QED
  BY <1>1 DEF Expected

\* A message more in the inbox.
LEMMA TellKeeps ==
  ASSUME Inbox, Started, NEW m, Tell(m),
         m \in [type : {"heartbeat", "terminate"}, node : Agents]
  PROVE  /\ \A k \in DOMAIN inbox : k \in DOMAIN inbox' /\ inbox'[k] = inbox[k]
         /\ \E k \in DOMAIN inbox' : inbox'[k] = m
<1> DEFINE T == [type : {"heartbeat", "terminate"}, node : Agents]
<1>1. inbox \in Seq(T) /\ m \in T /\ inbox' = Append(inbox, m)
  BY DEF Inbox, Tell
<1> HIDE DEF T
<1>2. /\ inbox' \in Seq(T) /\ Len(inbox') = Len(inbox) + 1
      /\ \A k \in 1 .. Len(inbox) : inbox'[k] = inbox[k]
      /\ inbox'[Len(inbox) + 1] = m
  BY <1>1, AppendProperties
<1>3. /\ DOMAIN inbox = 1 .. Len(inbox) /\ Len(inbox) \in Nat
      /\ DOMAIN inbox' = 1 .. Len(inbox) + 1
  BY <1>1, <1>2, LenProperties
<1>4. QED
  BY <1>2, <1>3

\* A message less, and it was not the answer of the agent.
LEMMA ReadKeeps ==
  ASSUME Inbox, Started, inbox # <<>>, inbox' = Tail(inbox), NEW m, Head(inbox) # m,
         NEW k \in DOMAIN inbox, inbox[k] = m
  PROVE  \E l \in DOMAIN inbox' : inbox'[l] = m
<1> DEFINE T == [type : {"heartbeat", "terminate"}, node : Agents]
<1>1. inbox \in Seq(T)
  BY DEF Inbox
<1> HIDE DEF T
<1>2. /\ inbox' \in Seq(T) /\ Len(inbox') = Len(inbox) - 1 /\ Head(inbox) = inbox[1]
      /\ \A l \in 1 .. Len(inbox') : inbox'[l] = inbox[l + 1]
  BY <1>1, HeadTailProperties
<1>3. /\ DOMAIN inbox = 1 .. Len(inbox) /\ Len(inbox) \in Nat
      /\ DOMAIN inbox' = 1 .. Len(inbox) - 1
  BY <1>1, <1>2, LenProperties
<1>4. k - 1 \in 1 .. Len(inbox) - 1 /\ (k - 1) + 1 = k
  <2>1. k # 1
    BY <1>2
  <2>2. QED
    BY <1>3, <2>1
<1>5. inbox'[k - 1] = m
  BY <1>2, <1>4
<1>6. QED
  BY <1>3, <1>4, <1>5

\* A step of a node: of the agent itself it keeps what is expected or answers
\* it; a process that ends takes only its own heartbeats with it.
LEMMA NodeHeard ==
  ASSUME ClusterInv, Started, NEW n \in Nodes, NEW a \in Agents, Alive(a)', Heard(a),
         \/ Configure(n) \/ Crash(n)
         \/ n \in Agents /\ (\/ AnswerHeartbeat(n) \/ WorkerSignal(n)
                              \/ TerminateSignal(n) \/ ReconfigurateAborts(n)
                              \/ AgentExits(n))
  PROVE  Heard(a)'
<1>1. /\ UNCHANGED <<configVars, beatVars, detectVars>> /\ alive_node_' = alive_node_
  BY DEF Configure, Crash, AnswerHeartbeat, WorkerSignal, TerminateSignal,
         ReconfigurateAborts, AgentExits, Gone, mainVars
<1>2. /\ UNCHANGED <<id_to_addr_, agent_id_, stale, hb_pc, hb_next, hb_end>>
      /\ dead_node' = dead_node
  BY <1>1 DEF configVars, beatVars, detectVars
<1>3. NodeTypes /\ Inbox /\ IdOf(a) \notin dead_node
  BY DEF ClusterInv, Heard
<1>4. SUFFICES ASSUME Expected(a) PROVE Expected(a)'
  BY <1>1, <1>2, <1>3, HeardStays
<1>5. CASE Configure(n) \/ (n \in Agents /\ WorkerSignal(n))
  <2>1. inbox' = inbox /\ beats' = beats
    BY <1>5 DEF Configure, WorkerSignal, mainVars
  <2>2. QED
    BY <1>2, <1>4, <2>1, ExpectedStays
<1>6. CASE n \in Agents /\ TerminateSignal(n)
  <2>1. beats' = beats /\ Tell([type |-> "terminate", node |-> n])
    BY <1>6 DEF TerminateSignal
  <2>2. \A k \in DOMAIN inbox : k \in DOMAIN inbox' /\ inbox'[k] = inbox[k]
    BY <1>3, <1>6, <2>1, TellKeeps
  <2>3. QED
    BY <1>2, <1>4, <2>1, <2>2, ExpectedStays
<1>7. CASE n \in Agents /\ AnswerHeartbeat(n)
  <2>1. /\ beats' = [beats EXCEPT ![n] = Tail(@)]
        /\ Tell([type |-> "heartbeat", node |-> n])
    BY <1>7 DEF AnswerHeartbeat
  <2>2. /\ \A k \in DOMAIN inbox : k \in DOMAIN inbox' /\ inbox'[k] = inbox[k]
        /\ \E k \in DOMAIN inbox' : inbox'[k] = [type |-> "heartbeat", node |-> n]
    BY <1>3, <1>7, <2>1, TellKeeps
  <2>3. CASE n = a
    BY <2>2, <2>3 DEF Expected
  <2>4. CASE n # a
    <3>1. beats'[a] = beats[a]
      BY <1>3, <2>1, <2>4 DEF NodeTypes
    <3>2. QED
      BY <1>2, <1>4, <2>2, <3>1, ExpectedStays
  <2>5. QED
    BY <2>3, <2>4
<1>8. CASE \/ Crash(n)
           \/ n \in Agents /\ (ReconfigurateAborts(n) \/ AgentExits(n))
  <2>1. PICK how \in {"crashed", "exited"} : Gone(n, how)
    BY <1>8 DEF Crash, ReconfigurateAborts, AgentExits
  <2>2. inbox' = inbox /\ status' = [status EXCEPT ![n] = how]
    BY <2>1 DEF Gone, mainVars
  <2>3. n # a
    BY <1>3, <2>2 DEF Alive, NodeTypes
  <2>4. beats'[a] = beats[a]
    BY <1>3, <2>1, <2>3 DEF Gone, NodeTypes
  <2>5. QED
    BY <1>2, <1>4, <2>2, <2>4, ExpectedStays
<1>9. QED
  BY <1>5, <1>6, <1>7, <1>8

\* A process that is gone stays gone.
LEMMA AliveBefore ==
  ASSUME ClusterInv, [Next]_vars, NEW a \in Agents, Alive(a)'
  PROVE  Alive(a)
<1>1. status \in [Nodes -> {"waiting", "running", "done", "exited", "crashed"}]
      /\ Agents \subseteq Nodes
  BY DEF ClusterInv, NodeTypes, Nodes
<1>2. \/ status' = status
      \/ \E n \in Nodes : /\ status[n] \in {"waiting", "running", "done"}
                          /\ \E how : status' = [status EXCEPT ![n] = how]
  <2>1. ASSUME NEW n \in Nodes, Configure(n) \/ Crash(n)
        PROVE  /\ status[n] \in {"waiting", "running", "done"}
               /\ \E how : status' = [status EXCEPT ![n] = how]
    BY <2>1 DEF Configure, Crash, Gone
  <2>2. ASSUME NEW n \in Agents, \/ TerminateSignal(n) \/ ReconfigurateAborts(n)
                                 \/ AgentExits(n)
        PROVE  /\ status[n] \in {"waiting", "running", "done"}
               /\ \E how : status' = [status EXCEPT ![n] = how]
    BY <2>2 DEF TerminateSignal, ReconfigurateAborts, AgentExits, Gone
  <2>3. ASSUME NEW n \in Agents, AnswerHeartbeat(n) \/ WorkerSignal(n)
        PROVE  status' = status
    BY <2>3 DEF AnswerHeartbeat, WorkerSignal
  <2>4. MainLoop \/ DeliverHeartbeat \/ DetectDeadNode \/ Tick \/ UNCHANGED vars
          => status' = status
    BY DEF MainLoop, RegisterMsg, ProcessHeartbeatMsg, TerminateMsg, DeliverHeartbeat,
           DetectDeadNode, Tick, vars, nodeVars
  <2>5. QED
    BY <1>1, <2>1, <2>2, <2>3, <2>4 DEF Next
<1>3. CASE status' = status
  BY <1>3 DEF Alive
<1>4. CASE \E n \in Nodes : /\ status[n] \in {"waiting", "running", "done"}
                            /\ \E how : status' = [status EXCEPT ![n] = how]
  <2>1. PICK n \in Nodes : /\ status[n] \in {"waiting", "running", "done"}
                           /\ \E how : status' = [status EXCEPT ![n] = how]
    BY <1>4
  <2>2. CASE n = a
    BY <2>1, <2>2 DEF Alive
  <2>3. CASE n # a
    <3>1. status'[a] = status[a]
      BY <1>1, <2>1, <2>3
    <3>2. QED
      BY <3>1 DEF Alive
  <2>4. QED
    BY <2>2, <2>3
<1>5. QED
  BY <1>2, <1>3, <1>4

\* When the cluster becomes ready every agent is listed and counts as heard from.
LEMMA RegisterHeard ==
  ASSUME ClusterInv, RegisterMsg, Started', NEW a \in Agents
  PROVE  Heard(a)'
<1>1. /\ ClusterInv' /\ ~Started
      /\ \A i \in DOMAIN id_to_addr_' :
           id_to_addr_'[i] \in Agents => \E k \in DOMAIN agent_id_' : agent_id_'[k] = i
  BY RegisterStep
<1>2. alive_node_' = [id \in 0 .. NodeNum |-> 0] /\ dead_node' = {}
  BY <1>1 DEF RegisterMsg, Started, ClusterInv, Threads
<1>3. /\ IdOf(a)' \in 0 .. NodeNum /\ id_to_addr_'[IdOf(a)'] = a
      /\ IdOf(a)' \in DOMAIN id_to_addr_' /\ Skips' \in Nat
  <2>1. /\ \E id \in DOMAIN id_to_addr_' : id_to_addr_'[id] = a
        /\ DOMAIN id_to_addr_' = 1 .. NodeNum
    BY <1>1, LenProperties DEF ClusterInv, Numbering, Nodes
  <2>2. IdOf(a)' \in DOMAIN id_to_addr_' /\ id_to_addr_'[IdOf(a)'] = a
    BY <2>1 DEF IdOf
  <2>3. Len(stale') \in Nat
    BY <1>1, LenProperties DEF ClusterInv, Lists
  <2>4. Skips' \in Nat
    BY <2>3, NodeNumbers DEF Skips
  <2>5. QED
    BY <2>1, <2>2, <2>4, NodeNumbers
<1>4. \E k \in DOMAIN agent_id_' : agent_id_'[k] = IdOf(a)'
  BY <1>1, <1>3
<1>5. alive_node_'[IdOf(a)'] <= Skips' /\ alive_node_'[IdOf(a)'] <= Skips' + 1
  <2>1. alive_node_'[IdOf(a)'] = 0
    BY <1>2, <1>3
  <2>2. 0 <= Skips' /\ 0 <= Skips' + 1
    <3>1. \A i \in Nat : 0 <= i /\ 0 <= i + 1
      OBVIOUS
    <3>2. QED
      BY <1>3, <3>1
  <2>3. QED
    BY <2>1, <2>2
<1>6. QED
  BY <1>2, <1>4, <1>5 DEF Heard

\* The main loop reads an answer or a termination.
LEMMA MainHeard ==
  ASSUME ClusterInv, Started, ProcessHeartbeatMsg \/ TerminateMsg,
         NEW a \in Agents, Heard(a)
  PROVE  Heard(a)'
<1>1. /\ UNCHANGED nodeVars /\ UNCHANGED configVars /\ UNCHANGED beatVars
      /\ UNCHANGED detectVars /\ inbox # <<>> /\ inbox' = Tail(inbox)
  BY DEF ProcessHeartbeatMsg, TerminateMsg, Reads
<1>2. /\ UNCHANGED <<id_to_addr_, agent_id_, stale, hb_pc, hb_next, hb_end>>
      /\ dead_node' = dead_node /\ beats' = beats
  BY <1>1 DEF configVars, beatVars, detectVars, nodeVars
<1>3. Inbox /\ IdOf(a) \notin dead_node
  BY DEF ClusterInv, Heard
<1>4. /\ IdOf(a) \in 0 .. NodeNum /\ id_to_addr_[IdOf(a)] = a /\ Skips \in Nat
      /\ alive_node_ \in [0 .. NodeNum -> 0 .. Overdue]
  BY HeardFacts
<1>5. CASE ProcessHeartbeatMsg /\ Head(inbox).node = a
  <2>1. alive_node_'[IdOf(a)] = 0
    BY <1>4, <1>5 DEF ProcessHeartbeatMsg
  <2>2. IdOf(a)' = IdOf(a) /\ Skips' = Skips
    BY <1>2, IdStays DEF Skips
  <2>3. 0 <= Skips /\ 0 <= Skips + 1
    BY <1>4
  <2>4. QED
    BY <1>2, <1>3, <2>1, <2>2, <2>3 DEF Heard
<1>6. CASE TerminateMsg \/ (ProcessHeartbeatMsg /\ Head(inbox).node # a)
  <2>1. alive_node_'[IdOf(a)] = alive_node_[IdOf(a)]
    <3>1. CASE TerminateMsg
      BY <3>1 DEF TerminateMsg
    <3>2. CASE ProcessHeartbeatMsg /\ Head(inbox).node # a
      <4>1. Head(inbox).node \in Agents
        BY <3>2, ReadsInbox DEF ProcessHeartbeatMsg
      <4>2. id_to_addr_[IdOf(Head(inbox).node)] = Head(inbox).node
        BY <4>1, HeardFacts
      <4>3. IdOf(Head(inbox).node) # IdOf(a)
        BY <1>4, <3>2, <4>2
      <4>4. QED
        BY <1>4, <3>2, <4>3 DEF ProcessHeartbeatMsg
    <3>3. QED
      BY <1>6, <3>1, <3>2
  <2>2. Head(inbox) # [type |-> "heartbeat", node |-> a]
    BY <1>6 DEF TerminateMsg, Reads
  <2>3. ASSUME NEW k \in DOMAIN inbox, inbox[k] = [type |-> "heartbeat", node |-> a]
        PROVE  \E l \in DOMAIN inbox' : inbox'[l] = [type |-> "heartbeat", node |-> a]
    BY <1>1, <1>3, <2>2, <2>3, ReadKeeps
  <2>4. Expected(a) => Expected(a)'
    BY <1>2, <2>3, ExpectedStays
  <2>5. QED
    BY <1>2, <1>3, <2>1, <2>4, HeardStays
<1>7. QED
  BY <1>5, <1>6

\* The heartbeat thread: its loop starts at the first place of a vector that
\* holds the agent, and sends to the agent when it comes to its place.
LEMMA BeatHeard ==
  ASSUME ClusterInv, Started, DeliverHeartbeat, NEW a \in Agents, Alive(a), Heard(a)
  PROVE  Heard(a)'
<1>1. /\ UNCHANGED configVars /\ UNCHANGED mainVars /\ UNCHANGED detectVars
  BY DEF DeliverHeartbeat
<1>2. /\ UNCHANGED <<id_to_addr_, agent_id_, stale>> /\ dead_node' = dead_node
      /\ inbox' = inbox /\ alive_node_' = alive_node_
      /\ IdOf(a)' = IdOf(a) /\ Storage' = Storage
  BY <1>1, IdStays DEF configVars, mainVars, detectVars, Storage
<1>3. NodeTypes /\ Lists /\ Threads /\ IdOf(a) \notin dead_node
  BY DEF ClusterInv, Heard
<1>4. SUFFICES ASSUME Expected(a) PROVE Expected(a)'
  BY <1>2, <1>3, HeardStays
<1>5. ASSUME hb_pc' = "send", StartLoop PROVE Expected(a)'
  <2>1. PICK k \in DOMAIN agent_id_ : agent_id_[k] = IdOf(a)
    BY DEF Heard
  <2>2. /\ DOMAIN agent_id_ = 1 .. Len(agent_id_)
        /\ \A i \in 1 .. Len(agent_id_) : Storage[i] = agent_id_[i]
    BY <1>3, LoopEnd, LenProperties DEF Lists
  <2>3. k \in hb_next' .. hb_end' /\ Storage'[k] = IdOf(a)'
    BY <1>2, <1>5, <2>1, <2>2 DEF StartLoop
  <2>4. QED
    BY <1>5, <2>3 DEF Expected
<1>6. CASE CheckChanged
  <2>1. CASE Step("check", "servers")
    BY <2>1 DEF Step, Expected
  <2>2. CASE Step("check", "send") /\ StartLoop
    BY <1>5, <2>2 DEF Step
  <2>3. QED
    BY <1>6, <2>1, <2>2 DEF CheckChanged
<1>7. CASE CopyServers \/ CopyPartition
  BY <1>7 DEF CopyServers, CopyPartition, Step, Expected
<1>8. CASE ClearChanged
  BY <1>5, <1>8 DEF ClearChanged, Step
<1>9. CASE HeartbeatsSent /\ UNCHANGED beats
  <2>1. hb_pc = "send" /\ hb_next > hb_end /\ hb_next \in Nat /\ hb_end \in Nat
    BY <1>3, <1>9 DEF HeartbeatsSent, Step, Threads
  <2>2. hb_next .. hb_end = {}
    BY <2>1
  <2>3. \/ beats[a] # <<>>
        \/ \E k \in DOMAIN inbox : inbox[k] = [type |-> "heartbeat", node |-> a]
    BY <1>4, <2>1, <2>2 DEF Expected
  <2>4. QED
    BY <1>2, <1>9, <2>3 DEF Expected
<1>10. CASE SendHeartbeat
  <2> DEFINE b == id_to_addr_[Storage[hb_next]]
  <2>1. /\ hb_pc = "send" /\ hb_pc' = "send" /\ hb_next' = hb_next + 1 /\ hb_end' = hb_end
        /\ beats' = Deliver(beats, b, hb_msg)
        /\ hb_next \in Nat /\ hb_end \in Nat
    BY <1>3, <1>10 DEF SendHeartbeat, Step, Storage, Threads
  <2>2. hb_msg \in MaybeConfig /\ beats \in [Agents -> Seq(MaybeConfig)]
    BY <1>3 DEF Threads, NodeTypes
  <2> HIDE DEF b
  <2>3. Append(beats[a], hb_msg) # <<>>
    BY <2>2, AppendProperties, EmptySeq
  <2>4. beats'[a] = IF b = a THEN Append(beats[a], hb_msg) ELSE beats[a]
    BY <2>1, <2>2 DEF Deliver
  <2>5. CASE b = a
    BY <2>3, <2>4, <2>5 DEF Expected
  <2>6. CASE b # a
    <3>1. CASE \E q \in hb_next .. hb_end : Storage[q] = IdOf(a)
      <4>1. PICK q \in hb_next .. hb_end : Storage[q] = IdOf(a)
        BY <3>1
      <4>2. q # hb_next
        BY <2>6, <4>1, HeardFacts DEF b
      <4>3. q \in hb_next' .. hb_end'
        BY <2>1, <4>1, <4>2
      <4>4. QED
        BY <1>2, <2>1, <4>1, <4>3 DEF Expected
    <3>2. CASE \/ beats[a] # <<>>
               \/ \E k \in DOMAIN inbox : inbox[k] = [type |-> "heartbeat", node |-> a]
      BY <1>2, <2>4, <2>6, <3>2 DEF Expected
    <3>3. QED
      BY <1>4, <2>1, <3>1, <3>2 DEF Expected
  <2>7. QED
    BY <2>5, <2>6
<1>11. QED
  BY <1>6, <1>7, <1>8, <1>9, <1>10 DEF DeliverHeartbeat

\* FixConfig takes an agent out while the heartbeats are sent: another one moves
\* to the front of the storage.  It may move from the place the loop comes to
\* next to the one before it; then it is passed over, and counted in Skips.
LEMMA EraseHeard ==
  ASSUME ClusterInv, Started, NEW id \in dead_node, EraseAgent(id),
         UNCHANGED <<id_to_addr_, dead_node, alive_node_, hb_pc, hb_next, hb_end>>,
         UNCHANGED <<beats, inbox>>, NEW a \in Agents, Heard(a)
  PROVE  Heard(a)'
<1> DEFINE L == Len(agent_id_)
           C == Cardinality(Agents)
<1>1. Lists /\ Threads
  BY DEF ClusterInv
<1>2. PICK k \in 1 .. L : agent_id_[k] = id /\ agent_id_' = RemoveAt(agent_id_, k)
  <2>1. DOMAIN agent_id_ = 1 .. Len(agent_id_)
    BY <1>1, LenProperties DEF Lists
  <2>2. \E k \in DOMAIN agent_id_ : agent_id_[k] = id
    BY DEF EraseAgent, ToSet
  <2>3. QED
    BY <2>1, <2>2 DEF EraseAgent
<1>3. /\ agent_id_' \in Seq(DOMAIN id_to_addr_)
      /\ Len(agent_id_') = L - 1 /\ Len(stale') = Len(stale) + 1
      /\ \A i \in 1 .. L - 1 :
           agent_id_'[i] = IF i < k THEN agent_id_[i] ELSE agent_id_[i + 1]
      /\ \A i \in 1 .. C :
           Storage'[i] = IF i < k \/ i >= L THEN Storage[i] ELSE Storage[i + 1]
  BY <1>1, <1>2, EraseShift DEF EraseAgent
<1>4. /\ L \in Nat /\ C \in Nat /\ L <= C
      /\ \A i \in 1 .. L : Storage[i] = agent_id_[i]
      /\ DOMAIN agent_id_ = 1 .. L /\ DOMAIN agent_id_' = 1 .. L - 1
  BY <1>1, <1>3, LoopEnd, NodeNumbers, LenProperties DEF Lists
<1>5. /\ Skips' \in Nat /\ Skips <= Skips' /\ (L >= 3 => Skips' = Skips + 1)
  BY <1>1, <1>3, SkipsGrow
<1>6. IdOf(a)' = IdOf(a) /\ id # IdOf(a) /\ IdOf(a) \notin dead_node'
  BY IdStays DEF Heard
<1>7. Skips \in Nat /\ alive_node_[IdOf(a)] \in Nat
  BY HeardFacts
<1> HIDE DEF L, C
<1>8. \E p \in DOMAIN agent_id_' : agent_id_'[p] = IdOf(a)
  <2>1. PICK p \in 1 .. L : agent_id_[p] = IdOf(a)
    BY <1>4 DEF Heard
  <2>2. p # k
    BY <1>2, <1>6, <2>1
  <2>3. CASE p < k
    <3>1. p \in 1 .. L - 1
      BY <1>4, <2>3
    <3>2. agent_id_'[p] = agent_id_[p]
      BY <1>3, <2>3, <3>1
    <3>3. QED
      BY <1>4, <2>1, <3>1, <3>2
  <2>4. CASE p > k
    <3>1. p - 1 \in 1 .. L - 1 /\ ~(p - 1 < k) /\ (p - 1) + 1 = p
      BY <1>4, <2>4
    <3>2. agent_id_'[p - 1] = agent_id_[p]
      BY <1>3, <3>1
    <3>3. QED
      BY <1>4, <2>1, <3>1, <3>2
  <2>5. p < k \/ p > k
    BY <1>4, <2>2
  <2>6. QED
    BY <2>3, <2>4, <2>5
<1>9. ASSUME Expected(a) PROVE Expected(a)' \/ Skips' = Skips + 1
  <2>1. CASE \/ hb_pc \in {"check", "servers", "partition", "clear"}
             \/ beats[a] # <<>>
             \/ \E i \in DOMAIN inbox : inbox[i] = [type |-> "heartbeat", node |-> a]
    BY <2>1 DEF Expected
  <2>2. CASE hb_pc = "send" /\ \E q \in hb_next .. hb_end : Storage[q] = IdOf(a)
    <3>1. PICK q \in hb_next .. hb_end : Storage[q] = IdOf(a)
      BY <2>2
    <3>2. /\ hb_next \in Nat /\ hb_end \in Nat /\ hb_next >= 1 /\ hb_end <= C
          /\ L <= hb_end /\ q \in 1 .. C
      <4>1. /\ hb_next \in Nat /\ hb_end \in Nat /\ hb_next >= 1 /\ hb_end <= C
            /\ L <= hb_end
        BY <1>1, <2>2 DEF Threads, L, C
      <4>2. QED
        BY <1>4, <4>1
    <3>3. CASE q < k \/ q >= L
      <4>1. Storage'[q] = IdOf(a)'
        BY <1>3, <1>6, <3>1, <3>2, <3>3
      <4>2. QED
        BY <2>2, <4>1 DEF Expected
    <3>4. CASE ~(q < k \/ q >= L)
      <4>1. q # k
        <5>1. Storage[k] = id
          BY <1>2, <1>4
        <5>2. QED
          BY <1>6, <3>1, <5>1
      <4>2. /\ q > k /\ q < L /\ q - 1 \in 1 .. C /\ ~(q - 1 < k) /\ ~(q - 1 >= L)
            /\ (q - 1) + 1 = q
        BY <1>4, <3>2, <3>4, <4>1
      <4>3. Storage'[q - 1] = IdOf(a)'
        BY <1>3, <1>6, <3>1, <4>2
      <4>4. CASE q = hb_next
        <5>1. L >= 3
          BY <1>4, <3>2, <4>2
        <5>2. QED
          BY <1>5, <5>1
      <4>5. CASE q # hb_next
        <5>1. q - 1 \in hb_next .. hb_end
          BY <3>2, <4>5
        <5>2. QED
          BY <2>2, <4>3, <5>1 DEF Expected
      <4>6. QED
        BY <4>4, <4>5
    <3>5. QED
      BY <3>3, <3>4
  <2>3. QED
    BY <1>9, <2>1, <2>2 DEF Expected
<1>10. alive_node_[IdOf(a)] <= Skips + 1 /\ (alive_node_[IdOf(a)] <= Skips \/ Expected(a))
  BY DEF Heard
<1>11. alive_node_[IdOf(a)] <= Skips' + 1
  BY <1>5, <1>7, <1>10
<1>12. alive_node_[IdOf(a)] <= Skips' \/ Expected(a)'
  <2>1. alive_node_[IdOf(a)] <= Skips => alive_node_[IdOf(a)] <= Skips'
    BY <1>5, <1>7
  <2>2. Skips' = Skips + 1 => alive_node_[IdOf(a)] <= Skips'
    BY <1>10
  <2>3. QED
    BY <1>9, <1>10, <2>1, <2>2
<1>13. QED
  BY <1>6, <1>8, <1>11, <1>12 DEF Heard

\* The detection thread: the answer of an agent that lives is never so many rounds
\* old that it might be older than the timeout, so no scan finds it.
LEMMA DetectHeard ==
  ASSUME ClusterInv, Started, DetectDeadNode, NEW a \in Agents, Heard(a),
         Timeout >= 2, Cardinality(Agents) <= Timeout
  PROVE  Heard(a)'
<1>1. /\ UNCHANGED <<beats, inbox, hb_pc, hb_next, hb_end>>
      /\ UNCHANGED <<id_to_addr_, alive_node_>>
  BY DEF DetectDeadNode, nodeVars, beatVars, Scan, LockConfig, EraseNode, ErasePartition,
         UnlockConfig, configVars
<1>2. CASE \E id \in dead_node : EraseAgent(id) /\ dead_node' = dead_node
  BY <1>1, <1>2, EraseHeard
<1>3. CASE /\ agent_id_' = agent_id_ /\ stale' = stale
           /\ dead_node' \in {dead_node, {}} \/ GetDeadNode(dead_node')
  <2>1. IdOf(a) \notin dead_node /\ alive_node_[IdOf(a)] <= Skips + 1
    BY DEF Heard
  <2>2. Skips \in Nat /\ alive_node_[IdOf(a)] \in Nat /\ Skips + 1 < Timeout /\ Timeout \in Nat
    BY HeardFacts, SkipsBound, NodeNumbers DEF ClusterInv
  <2>3. IdOf(a) \notin dead_node'
    BY <1>3, <2>1, <2>2 DEF GetDeadNode
  <2>4. Expected(a) => Expected(a)'
    BY <1>1, <1>3, ExpectedStays
  <2>5. QED
    BY <1>1, <1>3, <2>1, <2>3, <2>4, HeardStays
<1>4. CASE Scan
  <2>1. PICK dead : GetDeadNode(dead) /\ dead_node' = dead
    BY <1>4 DEF Scan
  <2>2. agent_id_' = agent_id_ /\ stale' = stale
    BY <1>4 DEF Scan, configVars
  <2>3. QED
    BY <1>3, <2>1, <2>2
<1>5. QED
  BY <1>2, <1>3, <1>4 DEF DetectDeadNode, LockConfig, EraseNode, EraseServer,
                          ErasePartition, UnlockConfig, configVars

\* A round begins: nothing is under way any more, so every agent that lives is
\* within Skips of its last answer, and its next heartbeat is now to be sent.
LEMMA TickHeard ==
  ASSUME ClusterInv, Started, Tick, NEW a \in Agents, Alive(a), Heard(a)
  PROVE  Heard(a)'
<1>1. /\ hb_pc = "sleep" /\ beats[a] = <<>> /\ inbox = <<>> /\ hb_pc' = "check"
      /\ UNCHANGED <<id_to_addr_, agent_id_, stale, dead_node>>
      /\ alive_node_' = [id \in DOMAIN alive_node_ |->
                           IF alive_node_[id] < Overdue THEN alive_node_[id] + 1
                                                        ELSE Overdue]
  BY DEF Tick, configVars, detectVars
<1>2. ~Expected(a)
  <2>1. DOMAIN inbox = {}
    BY <1>1
  <2>2. QED
    BY <1>1, <2>1 DEF Expected
<1>3. alive_node_[IdOf(a)] <= Skips /\ IdOf(a) \notin dead_node
  BY <1>2 DEF Heard
<1>4. /\ Skips \in Nat /\ alive_node_[IdOf(a)] \in Nat /\ IdOf(a) \in DOMAIN alive_node_
  BY HeardFacts
<1>5. IdOf(a)' = IdOf(a) /\ Skips' = Skips
  BY <1>1, IdStays DEF Skips
<1>6. alive_node_'[IdOf(a)] <= Skips + 1
  <2>1. alive_node_[IdOf(a)] \in 0 .. Overdue /\ Overdue \in Nat
    BY HeardFacts, NodeNumbers
  <2>2. QED
    BY <1>1, <1>3, <1>4, <2>1
<1>7. Expected(a)'
  BY <1>1 DEF Expected
<1>8. QED
  BY <1>1, <1>3, <1>5, <1>6, <1>7 DEF Heard

\* Every step keeps the agents that live heard from.
LEMMA HeardStep ==
  ASSUME ClusterInv, AgentsHeard, [Next]_vars,
         Timeout >= 2, Cardinality(Agents) <= Timeout
  PROVE  AgentsHeard'
<1> SUFFICES ASSUME Started', NEW a \in Agents, Alive(a)' PROVE Heard(a)'
  BY DEF AgentsHeard
<1>1. Alive(a) /\ (Started => Heard(a))
  BY AliveBefore DEF AgentsHeard
<1>2. CASE RegisterMsg
  BY <1>2, RegisterHeard
<1>3. ASSUME ~RegisterMsg PROVE Started
  <2>1. ASSUME NEW n \in Nodes, Configure(n) \/ Crash(n) PROVE hb_pc' = hb_pc
    BY <2>1 DEF Configure, Crash, Gone, beatVars
  <2>2. ASSUME NEW n \in Agents,
               \/ AnswerHeartbeat(n) \/ WorkerSignal(n) \/ TerminateSignal(n)
               \/ ReconfigurateAborts(n) \/ AgentExits(n)
        PROVE  hb_pc' = hb_pc
    BY <2>2 DEF AnswerHeartbeat, WorkerSignal, TerminateSignal, ReconfigurateAborts,
                AgentExits, Gone, beatVars
  <2>3. ProcessHeartbeatMsg \/ TerminateMsg \/ DetectDeadNode \/ UNCHANGED vars
          => hb_pc' = hb_pc
    BY DEF ProcessHeartbeatMsg, TerminateMsg, DetectDeadNode, vars, beatVars
  <2>4. DeliverHeartbeat \/ Tick => Started
    BY DEF DeliverHeartbeat, CheckChanged, CopyServers, CopyPartition, HeartbeatsSent,
           ClearChanged, SendHeartbeat, Step, Tick, Started
  <2>5. QED
    BY <1>3, <2>1, <2>2, <2>3, <2>4 DEF Next, MainLoop, Started
<1>4. CASE Started /\ ~RegisterMsg
  <2>1. Started /\ Heard(a)
    BY <1>1, <1>4
  <2>2. ASSUME NEW n \in Nodes, Configure(n) \/ Crash(n) PROVE Heard(a)'
    BY <2>1, <2>2, NodeHeard
  <2>3. ASSUME NEW n \in Agents,
               \/ AnswerHeartbeat(n) \/ WorkerSignal(n) \/ TerminateSignal(n)
               \/ ReconfigurateAborts(n) \/ AgentExits(n)
        PROVE  Heard(a)'
    <3>1. n \in Nodes
      BY DEF Nodes
    <3>2. QED
      BY <2>1, <2>3, <3>1, NodeHeard
  <2>4. CASE UNCHANGED vars
    <3>1. /\ UNCHANGED <<id_to_addr_, agent_id_, stale, hb_pc, hb_next, hb_end>>
          /\ UNCHANGED <<beats, inbox, alive_node_, dead_node>>
      BY <2>4 DEF vars, configVars, beatVars, nodeVars, mainVars, detectVars
    <3>2. Expected(a) => Expected(a)'
      BY <3>1, ExpectedStays
    <3>3. QED
      BY <2>1, <3>1, <3>2, HeardStays DEF Heard
  <2>5. QED
    BY <1>1, <1>4, <2>1, <2>2, <2>3, <2>4, MainHeard, BeatHeard, DetectHeard, TickHeard
       DEF Next, MainLoop
<1>5. QED
  BY <1>2, <1>3, <1>4

\* An agent whose process lives is never taken out of the configuration, however
\* its answers, the sending of heartbeats, the scans and FixConfig interleave, if
\* at least two rounds of heartbeats fit into the timeout, and as many as there
\* are agents.  An answer may be almost two rounds old when the next one is
\* recorded, and each agent that FixConfig removes while the heartbeats are sent
\* can cost another one a heartbeat.
THEOREM LiveAgentsStay ==
  ASSUME Timeout >= 2, Cardinality(Agents) <= Timeout
  PROVE  Spec => []LiveAgentsKept
<1>1. Init => AgentsHeard
  BY DEF Init, AgentsHeard, Started
<1>2. ClusterInv /\ AgentsHeard /\ [Next]_vars => AgentsHeard'
  BY HeardStep
<1>3. ASSUME ClusterInv, AgentsHeard PROVE LiveAgentsKept
  <2> SUFFICES ASSUME NEW a \in Agents, status[a] \in {"running", "done"}
               PROVE  IdOf(a) \in ToSet(agent_id_)
    BY DEF LiveAgentsKept
  <2>1. Started /\ Alive(a)
    BY <1>3 DEF ClusterInv, NodeTypes, Nodes, Alive
  <2>2. \E k \in DOMAIN agent_id_ : agent_id_[k] = IdOf(a)
    BY <1>3, <2>1 DEF AgentsHeard, Heard
  <2>3. QED
    BY <2>2 DEF ToSet
<1>4. QED
  BY <1>1, <1>2, <1>3, ClusterInvariance, PTL DEF Spec

=============================================================================
