------------------------------- MODULE Server -------------------------------
(***************************************************************************)
(* The parameter servers of the cluster (src/server/server.cc): the        *)
(* request loop of Server::Start and the handlers it calls, for a fixed    *)
(* membership.  A server keeps, for every agent, the queue of pushed       *)
(* updates it has not merged yet (version_buffer_), counts for every       *)
(* version how many agents have delivered it (finish_count_), merges the   *)
(* oldest version as soon as all agents delivered it, and blocks the pull  *)
(* of an agent that is Bound versions ahead.  After each merge it asks the *)
(* servers behind it on the ring for a copy of their parameters.           *)
(*                                                                         *)
(* Data abstraction.  The key/value list of a request is an opaque block;  *)
(* the parameter vector is the sequence of rounds that were averaged into  *)
(* it (a round is one block per agent), and a copy of the vector of server *)
(* t is the pair of t and the number of rounds merged.  id_to_index_ is    *)
(* the bijection between the agents and the indices of version_buffer_     *)
(* built once by Initialize, so version_buffer_ is indexed by the agent.   *)
(* The one queue of blocked pulls is kept per agent: it is only ever       *)
(* emptied as a whole, and each reply has its agent's own channel, so the  *)
(* order between agents is not observable.                                 *)
(*                                                                         *)
(* The clients of this module may send any request at any time; the        *)
(* disciplined agents are in module ParameterServer.                       *)
(***************************************************************************)
EXTENDS Integers, Sequences, FiniteSets

CONSTANTS
  Agents,         \* the workers listed in the servers' configuration
  Clients,        \* all processes that send requests; may exceed Agents
  ServerNum,      \* server_num_
  Bound,          \* consistency_bound_ (1 is BSP)
  BackupSize,     \* backup_size_
  Blocks          \* key (and value) lists a request may carry

\* Initialize rejects a backup size outside 0..server_num_-1.  A server with
\* bound 0 has no finish_count_ entry to read, so the bound is positive.
ASSUME ServerAssumption ==
  /\ IsFiniteSet(Agents) /\ Agents # {} /\ Agents \subseteq Clients
  /\ ServerNum \in Nat \ {0}
  /\ Bound \in Nat \ {0}
  /\ BackupSize \in 0 .. ServerNum - 1

Servers == 0 .. ServerNum - 1

VARIABLES
  version_buffer_,    \* [s][a]: updates of agent a not merged yet, oldest first
  finish_count_,      \* [s][k]: agents that delivered the k-th open version
  pull_request_,      \* [s][a]: blocked pulls of agent a, oldest first
  bottom_version_,    \* [s]: versions merged
  parameters_,        \* [s]: the rounds merged into the parameters
  backup_parameters_, \* [s][j]: copy of the parameters j + 1 servers behind
  requests,           \* [a][s]: messages on the way from client a to server s
  replies,            \* [s][a]: messages on the way from server s to client a
  peers,              \* [s][t]: messages on the way from server s to server t
  accepted            \* history, [s][a]: updates of a that entered the buffer

serverVars == <<version_buffer_, finish_count_, pull_request_,
                bottom_version_, parameters_, backup_parameters_, accepted>>
vars == <<serverVars, requests, replies, peers>>

-----------------------------------------------------------------------------
(* Messages *)

Request == [type : {"push", "pull"}, block : Blocks]
Reply   == [block : Blocks, version : Nat]
Copy    == [owner : Servers, version : Nat]
PeerMessage == [type : {"backup_request"}] \cup
               [type : {"parameters"}, copy : Copy]

\* A request of the given type from client a is the next message server s reads.
Receives(s, a, type) ==
  /\ requests[a][s] # <<>>
  /\ Head(requests[a][s]).type = type

Consume(s, a) ==
  requests' = [requests EXCEPT ![a][s] = Tail(@)]

-----------------------------------------------------------------------------
(* Initialize: empty buffers, zero counters, all parameters zero. *)

\* The server that is i places behind s on the ring of servers.
Behind(s, i) == (s - i + ServerNum) % ServerNum

Init ==
  /\ version_buffer_    = [s \in Servers |-> [a \in Agents |-> <<>>]]
  /\ finish_count_      = [s \in Servers |-> [k \in 1 .. Bound |-> 0]]
  /\ pull_request_      = [s \in Servers |-> [a \in Agents |-> <<>>]]
  /\ bottom_version_    = [s \in Servers |-> 0]
  /\ parameters_        = [s \in Servers |-> <<>>]
  /\ backup_parameters_ = [s \in Servers |-> [j \in 0 .. BackupSize - 1 |->
                             [owner |-> Behind(s, j + 1), version |-> 0]]]
  /\ requests           = [a \in Clients |-> [s \in Servers |-> <<>>]]
  /\ replies            = [s \in Servers |-> [a \in Clients |-> <<>>]]
  /\ peers              = [s \in Servers |-> [t \in Servers |-> <<>>]]
  /\ accepted           = [s \in Servers |-> [a \in Agents |-> <<>>]]

-----------------------------------------------------------------------------
(* ServePush *)

\* Mutant: the test for a full backlog is off by one.
OverfilledLate(s, a) == Len(version_buffer_[s][a]) > Bound

\* The backlog of an agent is full: a push is dropped and a pull is blocked.
Overfilled(s, a) == Len(version_buffer_[s][a]) >= Bound

\* version_buffer_ of server s once the update of agent a is inserted.
Inserted(s, a, update) ==
  IF Overfilled(s, a)
  THEN version_buffer_[s]
  ELSE [version_buffer_[s] EXCEPT ![a] = Append(@, update)]

\* Mutant: the size is read after the update entered the queue.
CountedAfterInsert(s, a) ==
  IF Overfilled(s, a)
  THEN finish_count_[s]
  ELSE [finish_count_[s] EXCEPT ![Len(version_buffer_[s][a]) + 2] = @ + 1]

\* finish_count_ of server s once the update of agent a is counted.
Counted(s, a) ==
  IF Overfilled(s, a)
  THEN finish_count_[s]
  ELSE [finish_count_[s] EXCEPT ![Len(version_buffer_[s][a]) + 1] = @ + 1]

Accept(s, a, update) ==
  accepted' = IF Overfilled(s, a)
              THEN accepted
              ELSE [accepted EXCEPT ![s][a] = Append(@, update)]

\* Mutant: the blocked pulls are answered before the round is merged.
AnswersBeforeMerge(s, a, v) ==
  [i \in 1 .. Len(pull_request_[s][a]) |->
     [block |-> pull_request_[s][a][i], version |-> v - 1]]

\* Mutant: the blocked pulls are dropped without an answer.
NoAnswers(s, a, v) == <<>>

\* The blocked pulls of agent a, answered with version v.
Answers(s, a, v) ==
  [i \in 1 .. Len(pull_request_[s][a]) |->
     [block |-> pull_request_[s][a][i], version |-> v]]

\* Mutant: a merge leaves the newest blocked pull of an agent in the queue.
RespondToAllButLast(s, v) ==
  /\ pull_request_' = [pull_request_ EXCEPT ![s] = [a \in Agents |->
       IF Len(@[a]) < 2 THEN <<>> ELSE <<@[a][Len(@[a])]>>]]
  /\ replies' = [replies EXCEPT ![s] = [a \in Clients |->
       IF a \in Agents THEN replies[s][a] \o Answers(s, a, v)
                       ELSE replies[s][a]]]

RespondToAll(s, v) ==
  /\ pull_request_' = [pull_request_ EXCEPT ![s] = [a \in Agents |-> <<>>]]
  /\ replies' = [replies EXCEPT ![s] = [a \in Clients |->
       IF a \in Agents THEN replies[s][a] \o Answers(s, a, v)
                       ELSE replies[s][a]]]

\* Mutant: the newest update of every agent is merged.
UpdateNewest(s, vb) ==
  /\ version_buffer_' = [version_buffer_ EXCEPT ![s] =
                           [a \in Agents |-> SubSeq(vb[a], 1, Len(vb[a]) - 1)]]
  /\ parameters_' = [parameters_ EXCEPT ![s] =
                       Append(@, [a \in Agents |-> vb[a][Len(vb[a])]])]
  /\ bottom_version_' = [bottom_version_ EXCEPT ![s] = @ + 1]

\* UpdateParameter: pop the oldest update of every agent from the buffers vb
\* and average them into the parameters.
UpdateParameter(s, vb) ==
  /\ version_buffer_' = [version_buffer_ EXCEPT ![s] =
                           [a \in Agents |-> Tail(vb[a])]]
  /\ parameters_' = [parameters_ EXCEPT ![s] =
                       Append(@, [a \in Agents |-> Head(vb[a])])]
  /\ bottom_version_' = [bottom_version_ EXCEPT ![s] = @ + 1]

\* Mutant: the entry at the end is not reset.
ShiftedNoReset(fc) ==
  [k \in 1 .. Bound |-> IF k < Bound THEN fc[k + 1] ELSE fc[k]]

\* finish_count_ with its first entry dropped and a zero at the end.
Shifted(fc) == [k \in 1 .. Bound |-> IF k < Bound THEN fc[k + 1] ELSE 0]

\* Mutant: the farthest of the servers to back up is not asked.
RequestTooFew(s) ==
  peers' = [peers EXCEPT ![s] = [t \in Servers |->
    IF \E i \in 1 .. BackupSize - 1 : t = Behind(s, i)
    THEN Append(peers[s][t], [type |-> "backup_request"])
    ELSE peers[s][t]]]

\* RequestBackup: ask the BackupSize servers behind s for their parameters.
RequestBackup(s) ==
  peers' = [peers EXCEPT ![s] = [t \in Servers |->
    IF \E i \in 1 .. BackupSize : t = Behind(s, i)
    THEN Append(peers[s][t], [type |-> "backup_request"])
    ELSE peers[s][t]]]

\* A push that leaves the oldest version incomplete, or is dropped.
StorePush(s, a) ==
  /\ Receives(s, a, "push")
  /\ a \in Agents
  /\ Counted(s, a)[1] # Cardinality(Agents)
  /\ LET update == Head(requests[a][s]).block
     IN  /\ version_buffer_' = [version_buffer_ EXCEPT ![s] =
                                  Inserted(s, a, update)]
         /\ finish_count_' = [finish_count_ EXCEPT ![s] = Counted(s, a)]
         /\ Accept(s, a, update)
  /\ Consume(s, a)
  /\ UNCHANGED <<pull_request_, bottom_version_, parameters_,
                 backup_parameters_, replies, peers>>

\* A push after which all agents delivered the oldest version: it is merged,
\* the blocked pulls are answered and the backups are requested.
CompleteRound(s, a) ==
  /\ Receives(s, a, "push")
  /\ a \in Agents
  /\ Counted(s, a)[1] = Cardinality(Agents)
  /\ LET update == Head(requests[a][s]).block
     IN  /\ UpdateParameter(s, Inserted(s, a, update))
         /\ Accept(s, a, update)
  /\ finish_count_' = [finish_count_ EXCEPT ![s] = Shifted(Counted(s, a))]
  /\ RespondToAll(s, bottom_version_[s] + 1)
  /\ RequestBackup(s)
  /\ Consume(s, a)
  /\ UNCHANGED backup_parameters_

ServePush(s, a) == StorePush(s, a) \/ CompleteRound(s, a)

-----------------------------------------------------------------------------
(* ServePull *)

\* The agent is Bound versions ahead: its pull waits for the next merge.
BlockPull(s, a) ==
  /\ Receives(s, a, "pull")
  /\ a \in Agents
  /\ Overfilled(s, a)
  /\ pull_request_' = [pull_request_ EXCEPT ![s][a] =
       Append(@, Head(requests[a][s]).block)]
  /\ Consume(s, a)
  /\ UNCHANGED <<version_buffer_, finish_count_, bottom_version_, parameters_,
                 backup_parameters_, accepted, replies, peers>>

\* Mutant: pulls are answered whatever the backlog.
AnswerAlways(s, a) ==
  /\ Receives(s, a, "pull")
  /\ a \in Agents
  /\ replies' = [replies EXCEPT ![s][a] =
       Append(@, [block   |-> Head(requests[a][s]).block,
                  version |-> bottom_version_[s]])]
  /\ Consume(s, a)
  /\ UNCHANGED <<serverVars, peers>>

AnswerPull(s, a) ==
  /\ Receives(s, a, "pull")
  /\ a \in Agents
  /\ ~Overfilled(s, a)
  /\ replies' = [replies EXCEPT ![s][a] =
       Append(@, [block   |-> Head(requests[a][s]).block,
                  version |-> bottom_version_[s]])]
  /\ Consume(s, a)
  /\ UNCHANGED <<serverVars, peers>>

ServePull(s, a) == BlockPull(s, a) \/ AnswerPull(s, a)

\* Both handlers return at once for a sender that is not configured.
IgnoreStranger(s, a) ==
  /\ requests[a][s] # <<>>
  /\ a \notin Agents
  /\ Consume(s, a)
  /\ UNCHANGED <<serverVars, replies, peers>>

-----------------------------------------------------------------------------
(* Backups between servers *)

\* Server s sends its parameters to the server t that asked for them.
RespondBackup(s, t) ==
  /\ peers[t][s] # <<>>
  /\ Head(peers[t][s]).type = "backup_request"
  /\ peers' = [[peers EXCEPT ![t][s] = Tail(@)]
                      EXCEPT ![s][t] = Append(@, [type |-> "parameters",
                 copy |-> [owner |-> s, version |-> bottom_version_[s]]])]
  /\ UNCHANGED <<serverVars, requests, replies>>

\* Mutants: the place on the ring is off by one; every copy goes to entry 0.
BackupIndexLate(s, t) == (s - t + ServerNum) % ServerNum

BackupIndexFirst(s, t) == 0

\* The entry of backup_parameters_ in which server s files the copy of t.
BackupIndex(s, t) == (s - 1 - t + ServerNum) % ServerNum

\* Server s stores the parameters that server t sent.
Backup(s, t) ==
  /\ peers[t][s] # <<>>
  /\ Head(peers[t][s]).type = "parameters"
  /\ backup_parameters_' = [backup_parameters_ EXCEPT
       ![s][BackupIndex(s, t)] = Head(peers[t][s]).copy]
  /\ peers' = [peers EXCEPT ![t][s] = Tail(@)]
  /\ UNCHANGED <<version_buffer_, finish_count_, pull_request_,
                 bottom_version_, parameters_, accepted, requests, replies>>

\* One iteration of the loop in Start of server s: a message from a client, or
\* one from another server.
ServeClient(s) ==
  \E a \in Clients : ServePush(s, a) \/ ServePull(s, a) \/ IgnoreStranger(s, a)

ServePeer(s) == \E t \in Servers : RespondBackup(s, t) \/ Backup(s, t)

Serve(s) == ServeClient(s) \/ ServePeer(s)

-----------------------------------------------------------------------------
(* Clients without discipline: any request, any time. *)

Send(a, s, type, block) ==
  /\ requests' = [requests EXCEPT ![a][s] =
                    Append(@, [type |-> type, block |-> block])]
  /\ UNCHANGED <<serverVars, replies, peers>>

ReadReply(a, s) ==
  /\ replies[s][a] # <<>>
  /\ replies' = [replies EXCEPT ![s][a] = Tail(@)]
  /\ UNCHANGED <<serverVars, requests, peers>>

ClientStep(a, s) ==
  \/ \E type \in {"push", "pull"}, block \in Blocks : Send(a, s, type, block)
  \/ ReadReply(a, s)

Next ==
  \/ \E s \in Servers : Serve(s)
  \/ \E a \in Clients, s \in Servers : ClientStep(a, s)

Spec == Init /\ [][Next]_vars

-----------------------------------------------------------------------------
(* Properties *)

Updates(s, a) == version_buffer_[s][a]

\* Type correctness: the state of the servers and the messages under way.
\* No queue of version_buffer_ outgrows consistency_bound_, so ServePush never
\* counts outside finish_count_.
TypeOK ==
  /\ version_buffer_ \in [Servers -> [Agents -> Seq(Blocks)]]
  /\ finish_count_ \in [Servers -> [1 .. Bound -> Nat]]
  /\ pull_request_ \in [Servers -> [Agents -> Seq(Blocks)]]
  /\ bottom_version_ \in [Servers -> Nat]
  /\ parameters_ \in [Servers -> Seq([Agents -> Blocks])]
  /\ backup_parameters_ \in [Servers -> [0 .. BackupSize - 1 -> Copy]]
  /\ requests \in [Clients -> [Servers -> Seq(Request)]]
  /\ replies \in [Servers -> [Clients -> Seq(Reply)]]
  /\ peers \in [Servers -> [Servers -> Seq(PeerMessage)]]
  /\ accepted \in [Servers -> [Agents -> Seq(Blocks)]]
  /\ \A s \in Servers, a \in Agents : Len(Updates(s, a)) <= Bound

\* The counters that decide when a round is merged agree with the queues they
\* summarise: finish_count_[k] is the number of agents with at least k updates
\* waiting.  ServePush maintains the two separately (server.cc:299 and 305)
\* and the merge shifts one and pops the other.
FinishCountExact ==
  \A s \in Servers, k \in 1 .. Bound :
    finish_count_[s][k] =
      Cardinality({a \in Agents : Len(Updates(s, a)) >= k})

\* Between two requests no round is complete: the push that completes the
\* oldest version merges it, and the merge never uncovers another complete
\* one, so the test for finish_count_[0] in ServePush needs no loop.
NoReadyRound ==
  \A s \in Servers : \E a \in Agents : Updates(s, a) = <<>>

\* A pull stays blocked only while its agent's backlog is full: every merge
\* brings every agent below the bound and answers every blocked pull.
BlockedOnlyWhileFull ==
  \A s \in Servers, a \in Agents :
    pull_request_[s][a] # <<>> => Overfilled(s, a)

\* The k-th merged round holds exactly the k-th accepted update of every agent
\* and the backlog holds the rest in order: an accepted update is merged once,
\* and never together with updates of another version.
RoundIntegrity ==
  \A s \in Servers :
    /\ Len(parameters_[s]) = bottom_version_[s]
    /\ \A a \in Agents :
         /\ Len(accepted[s][a]) = bottom_version_[s] + Len(Updates(s, a))
         /\ \A k \in 1 .. Len(accepted[s][a]) :
              accepted[s][a][k] =
                IF k <= bottom_version_[s]
                THEN parameters_[s][k][a]
                ELSE Updates(s, a)[k - bottom_version_[s]]

\* Entry j of backup_parameters_ is a copy of the parameters of the server j + 1
\* places behind, the order in which ExtendParameter relies on it, and never of
\* a version its owner has not reached.  The request goes out by one formula
\* (server.cc:553) and the answer is filed by another (server.cc:572).
BackupOwner ==
  \A s \in Servers, j \in 0 .. BackupSize - 1 :
    LET copy == backup_parameters_[s][j]
    IN  /\ copy.owner = Behind(s, j + 1)
        /\ copy.version <= bottom_version_[copy.owner]

\* Bounded staleness: the parameters sent to an agent, whether at once or after
\* its pull was blocked, miss fewer than Bound of the updates the server
\* accepted from it, and contain no round some agent has not delivered.
StalenessBound ==
  [][\A s \in Servers, a \in Agents :
       \A i \in Len(replies[s][a]) + 1 .. Len(replies'[s][a]) :
         /\ replies'[s][a][i].version + Bound > Len(accepted'[s][a])
         /\ \A b \in Agents : replies'[s][a][i].version <= Len(accepted'[s][b])
    ]_vars

\* A stored copy is never replaced by an older one, although a server sends
\* the next request without waiting for the answer to the last.
BackupMonotonic ==
  [][\A s \in Servers, j \in 0 .. BackupSize - 1 :
       backup_parameters_[s][j].version <= backup_parameters_'[s][j].version
    ]_vars

=============================================================================
