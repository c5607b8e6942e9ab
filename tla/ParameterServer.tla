-------------------------- MODULE ParameterServer ---------------------------
(***************************************************************************)
(* The training loop: the servers of module Server driven by the agents    *)
(* (src/agent/agent.cc) and the worker processes behind them               *)
(* (src/channel/linear_regression.py).  In each iteration the worker has   *)
(* its agent pull the parameters, waits for them, computes, has the agent  *)
(* push the update and goes on without waiting for the push.               *)
(*                                                                         *)
(* Partition splits the sorted key list of a pull or a push into chunks,   *)
(* in key order; Chunks[c] is the server of the c-th one.  The split is    *)
(* the same for every request, because a worker uses one list of keys      *)
(* throughout.  A list that reaches below the first entry of the partition *)
(* and up to the last server's own keys gives that server two chunks, the  *)
(* first and the last (ChunkShape of module Partition); the list of all    *)
(* keys is such a list.  A block is the c-th chunk of one iteration.       *)
(* The thread of the agent and its worker alternate strictly, so they are  *)
(* one process here.                                                       *)
(***************************************************************************)
EXTENDS Server

CONSTANTS
  Chunks,   \* the servers of the chunks of a request, in key order
  MaxIter   \* iterations of the worker's loop

ASSUME ParameterServerAssumption ==
  /\ Chunks \in Seq(Servers) /\ Chunks # <<>>
  /\ MaxIter \in Nat \ {0}
  /\ Clients = Agents
  /\ Blocks = [epoch : 0 .. MaxIter - 1, chunk : 1 .. Len(Chunks)]

VARIABLES
  phase,       \* [a]: where agent a is in AgentWork
  next,        \* [a]: the chunk agent a sends next
  server_set,  \* [a]: the servers whose reply Pull waits for
  pulled,      \* [a]: the replies Pull stored in parameters_
  epoch_num_   \* [a]: pushes completed

agentVars == <<phase, next, server_set, pulled, epoch_num_>>
psVars == <<vars, agentVars>>

PSInit ==
  /\ Init
  /\ phase      = [a \in Agents |-> "pull"]
  /\ next       = [a \in Agents |-> 1]
  /\ server_set = [a \in Agents |-> {}]
  /\ pulled     = [a \in Agents |-> {}]
  /\ epoch_num_ = [a \in Agents |-> 0]

-----------------------------------------------------------------------------

\* Send the next chunk of the current iteration.
SendChunk(a, type) ==
  Send(a, Chunks[next[a]], type, [epoch |-> epoch_num_[a], chunk |-> next[a]])

\* Mutant: the loop over the chunks runs once too often.
PastLastChunk(a) == next[a] > Len(Chunks)

LastChunk(a) == next[a] = Len(Chunks)

\* Mutant: only the server of the last request is waited for.
PullForgetful(a) ==
  /\ phase[a] = "pull"
  /\ SendChunk(a, "pull")
  /\ server_set' = [server_set EXCEPT ![a] = {Chunks[next[a]]}]
  /\ IF LastChunk(a)
     THEN /\ phase'  = [phase EXCEPT ![a] = "wait"]
          /\ next'   = [next EXCEPT ![a] = 1]
          /\ pulled' = [pulled EXCEPT ![a] = {}]
     ELSE /\ next'   = [next EXCEPT ![a] = @ + 1]
          /\ UNCHANGED <<phase, pulled>>
  /\ UNCHANGED epoch_num_

\* The first loop of Pull: request every chunk and remember its server.  After
\* the last request parameters_ is emptied.
PullChunk(a) ==
  /\ phase[a] = "pull"
  /\ SendChunk(a, "pull")
  /\ server_set' = [server_set EXCEPT ![a] = @ \cup {Chunks[next[a]]}]
  /\ IF LastChunk(a)
     THEN /\ phase'  = [phase EXCEPT ![a] = "wait"]
          /\ next'   = [next EXCEPT ![a] = 1]
          /\ pulled' = [pulled EXCEPT ![a] = {}]
     ELSE /\ next'   = [next EXCEPT ![a] = @ + 1]
          /\ UNCHANGED <<phase, pulled>>
  /\ UNCHANGED epoch_num_

\* The second loop of Pull: a message from a server that is not waited for is
\* skipped; another one is stored and its server is no longer waited for.
\* When none is left, the worker gets the parameters and computes the update.
TakeReply(a, s) ==
  /\ phase[a] = "wait"
  /\ ReadReply(a, s)
  /\ IF s \in server_set[a]
     THEN /\ server_set' = [server_set EXCEPT ![a] = @ \ {s}]
          /\ pulled' = [pulled EXCEPT ![a] = @ \cup {Head(replies[s][a])}]
          /\ phase' = [phase EXCEPT ![a] =
                         IF server_set[a] = {s} THEN "push" ELSE @]
     ELSE UNCHANGED <<server_set, pulled, phase>>
  /\ UNCHANGED <<next, epoch_num_>>

\* Push: send every chunk; after the last one the iteration is over, and after
\* MaxIter iterations the worker tells the agent to terminate.
PushChunk(a) ==
  /\ phase[a] = "push"
  /\ SendChunk(a, "push")
  /\ IF LastChunk(a)
     THEN /\ epoch_num_' = [epoch_num_ EXCEPT ![a] = @ + 1]
          /\ phase' = [phase EXCEPT ![a] =
                         IF epoch_num_[a] + 1 < MaxIter THEN "pull" ELSE "done"]
          /\ next'  = [next EXCEPT ![a] = 1]
     ELSE /\ next'  = [next EXCEPT ![a] = @ + 1]
          /\ UNCHANGED <<phase, epoch_num_>>
  /\ UNCHANGED <<server_set, pulled>>

AgentWork(a) ==
  PullChunk(a) \/ PushChunk(a) \/ \E s \in Servers : TakeReply(a, s)

ServerStep(s) == Serve(s) /\ UNCHANGED agentVars

PSNext ==
  \/ \E s \in Servers : ServerStep(s)
  \/ \E a \in Agents : AgentWork(a)

PSSpec == PSInit /\ [][PSNext]_psVars

\* Every server and every agent runs in a process of its own whose main thread
\* only waits for messages, so each goes on as long as it has one.
FairPSSpec ==
  /\ PSSpec
  /\ \A s \in Servers : WF_psVars(ServerStep(s))
  /\ \A a \in Agents : WF_psVars(AgentWork(a))

-----------------------------------------------------------------------------
(* Properties *)

\* Type correctness of the servers and the agents.
PSTypeOK ==
  /\ TypeOK
  /\ phase \in [Agents -> {"pull", "wait", "push", "done"}]
  /\ next \in [Agents -> 1 .. Len(Chunks)]
  /\ server_set \in [Agents -> SUBSET Servers]
  /\ pulled \in [Agents -> SUBSET Reply]
  /\ epoch_num_ \in [Agents -> 0 .. MaxIter]

\* ServePush inserts every update (server.cc:280), and the branch for a full
\* queue that its author wonders about (server.cc:292) is never taken: the pull
\* between two pushes holds an agent back before its queue can overflow.
PushAlwaysInserted ==
  [][\A s \in Servers, a \in Agents :
       Receives(s, a, "push") /\ Len(requests'[a][s]) < Len(requests[a][s])
         => Len(accepted'[s][a]) > Len(accepted[s][a])]_psVars

\* Stale synchronous parallel: no agent is more than Bound iterations ahead of
\* another one.
ClockGap ==
  \A a, b \in Agents : epoch_num_[a] <= epoch_num_[b] + Bound

\* An agent pushes only what was computed from a complete, recent pull: one
\* reply for each chunk it requested in this iteration, and none of them older
\* than the consistency bound allows.
PullComplete ==
  \A a \in Agents : phase[a] = "push" =>
    /\ {r.block : r \in pulled[a]} =
         [epoch : {epoch_num_[a]}, chunk : 1 .. Len(Chunks)]
    /\ \A r \in pulled[a] : r.version + Bound > epoch_num_[a]

\* When no message is under way between a server that receives updates and one
\* it keeps a copy of, the copy misses at most 2 * Bound of the rounds its owner
\* has merged.  (RequestBackup runs only after a merge of the server's own, so
\* the copies at a server that owns no key are never refreshed.)
BackupLag ==
  \A c \in 1 .. Len(Chunks), j \in 0 .. BackupSize - 1 :
    LET s == Chunks[c]
        t == Behind(s, j + 1)
    IN  peers[s][t] = <<>> /\ peers[t][s] = <<>> =>
          bottom_version_[t] - backup_parameters_[s][j].version <= 2 * Bound

\* Every agent finishes its iterations, and every server merges all of them.
Termination ==
  <>( /\ \A a \in Agents : phase[a] = "done"
      /\ \A c \in 1 .. Len(Chunks) : bottom_version_[Chunks[c]] = MaxIter
      /\ \A s \in Servers, a \in Agents : pull_request_[s][a] = <<>> )

=============================================================================
