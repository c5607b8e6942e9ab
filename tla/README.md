# Plug-in ML: TLA+ specification of the parameter server

TLA+ models of the core of this repository (namespace `rpscc`), the TLC
configurations that check them and TLAPS proofs about all of them. Paths
below are relative to the repository root; `server.cc:285` is short for
`src/server/server.cc`, line 285, and so on.

## The system

A training job runs four kinds of processes.

| Component | State | Operations | Talks to |
|---|---|---|---|
| **Server** (`src/server`) | `parameters_` of its key segment; per agent a queue `version_buffer_` of updates; `finish_count_`, one counter per open version; `pull_request_`, the blocked pulls; `backup_parameters_` | `ServePush`, `ServePull`, `UpdateParameter`, `RespondToAll`, `RequestBackup`, `RespondBackup`, `Backup`, `Reconfigure`, `HeartBeat` | agents, other servers, master |
| **Agent** (`src/agent`) | configuration, `epoch_num_`, `reconfig_msg_` shared by its two threads | `Pull`, `Push`, terminate, `HeartBeat`, `Reconfigurate` | worker, servers, master |
| **Worker** (`src/channel/*.py`) | the user's model | pull, compute, push, terminate | agent |
| **Master** (`src/master`) | `TaskConfig` shared by three threads, `alive_node_`, `terminated_node_` | `MainLoop`, `DeliverHeartbeat`, `DetectDeadNode`, `FixConfig` | all nodes |

Below them are the **partition** of the keys (drawn by the master, used by
agents to route and by servers to index), the **message ring** `FifoRing`
between the caller of a communicator and its ZeroMQ thread, the
**communicator** itself, and the **channel** (named pipes and shared memory)
between worker and agent. ZooKeeper leader election, the message encoding,
logging and the scripts complete the repository.

What is hard about it, and what makes each part correct:

* *Server.* Three structures describe the same backlog (queues, counters,
  blocked pulls) and are updated separately. The counters must agree with the
  queues, a round must be merged exactly when it is complete and consist of one
  update of one version per agent, a blocked pull must be answered by the next
  merge, no reply may be staler than the bound. Backups are requested without
  waiting for earlier answers and filed by ring arithmetic.
* *Agents and servers together.* Agents must stay within the bound of each
  other without deadlock; a pull must be complete; no push may be lost.
* *Partition.* Agents and servers compute ownership and index independently,
  on a ring that wraps.
* *Server under a new configuration.* Keys of dead servers must be taken over
  from copies in the right order, although the copies come from several
  configurations; the updates of agents that left must disappear from queues
  and counters alike, and nobody may be left waiting for them.
* *Ring.* Two semaphores, two mutexes, and slots accessed outside both.
* *Communicator.* Addresses are looked up long after the call of `Send`, by
  another thread, while the table changes; the receivers of a process share a
  static buffer; a closed socket is replaced by a second connection to the same
  port. A message must arrive whole, once, in order and at its port.
* *Channel.* Two processes write and copy 804-byte records without any lock but
  the order of their signals, and only a pull is answered; its answer has the
  keys in another order than the request.
* *Master.* Three threads share the configuration, mostly without its mutex:
  flag tested and cleared in separate steps, two lists copied while they are
  erased from, a vector walked while it shrinks, timeouts racing answers.

`PROJECT.json` lists these hazards one by one with their lines, the properties
that cover them, and the ones that no property covers yet.

## Modules

| Module | Models | Notes |
|---|---|---|
| `Server` | `Server::Start` and its handlers, for a fixed membership | unrestricted clients |
| `ServerProofs` | | theorems about `Server` |
| `ParameterServer` | `Agent::AgentWork`, `Pull`, `Push`, the worker's loop | extends `Server`: agents, workers and servers composed |
| `ParameterServerProofs` | | theorems about the training loop; extends `ServerProofs` |
| `BackupProofs` | | theorems about the copies; extends `ParameterServerProofs` |
| `Partition` | `GeneratePartition`, `partition.cc`, the split loops, the servers' indices | |
| `PartitionProofs` | | theorems about the partition |
| `BoundedFifo` | what the ring promises: a bounded FIFO queue | abstract |
| `FifoRing` | `FifoRing::Add`, `Fetch` step by step | implements `BoundedFifo` (`RefinesFifo`) |
| `Communicator` | `zmq_communicator.cc`, `zmq_sendrecv.cc`: `Send`, `Consume`, the address table, `Produce`, `Receive` | extends `FifoRing`, the sender's ring |
| `CommunicatorProofs` | | theorems about the ring and the communicators |
| `Channel` | `fifo.cc`, `shared_memory.cc`, `linear_regression.py`, the agent's side of both in `AgentWork` | worker and agent composed |
| `ChannelProofs` | | theorems about the channel |
| `Reconfiguration` | `Server::Reconfigure`, `ExtendParameter` and the handlers whose state they change | one server; master and peers external |
| `ReconfigurationProofs` | | theorems about counters, agents, the ring of servers and the parameters taken over |
| `Cluster` | the master's three threads, registration, heartbeats, reconfiguration | |
| `ClusterProofs` | | theorems about the configuration and about time |
| `MC…` | instances for TLC | |

Definitions have the source's names where there is one; `PROJECT.json`, "map",
gives the lines each one stands for. Operators introduced by a comment
"Mutant:" are deliberately wrong variants of the definition that follows; no
specification uses them. They record which plausible bug each property catches.

### Server

One action per turn of the loop in `Start`: `StorePush` and `CompleteRound` are
the two ways through `ServePush` (the second contains the merge, the answers to
the blocked pulls and the requests for backups, as one step like the handler),
`BlockPull`, `AnswerPull`, `IgnoreStranger` (together `ServeClient`),
`RespondBackup`, `Backup` (`ServePeer`). The one server of run `requests` has no
peers, so its next-state relation uses `ServeClient`; the peers' part is checked
by run `backup` and proved about with the rest. A message channel between two
processes is a FIFO queue, as one ZeroMQ connection gives (the membership is fixed,
so no socket is reopened); channels of different senders interleave freely.

The key/value list of a request is an opaque block. The parameters are the
sequence of rounds averaged into them, which is exactly what the integrity and
staleness properties need; the float arithmetic is left out. `accepted` is a
history variable. A bound of 0, the default of the flag, makes `ServePush` read
an empty deque; the assumption `ServerAssumption` excludes it.

### ParameterServer

Each agent and its worker are one process that alternates pull, wait, push.
`Chunks` is the list of servers to which the key list is split. A list with
keys below the first partition entry *and* keys of the last server's own
segment gives that server two chunks. Entries are drawn from
`[1, key_range - 2]`, so the list of all keys, which the sample workers use, is
always of that kind. The runs therefore come in two groups: lists that do not
wrap, for which the guarantees hold, and the wrapped list, for which two
comments in the code are refuted (below).

### Partition

A small program that draws a partition and an ascending key list and runs the
split loop; the servers' `parameter_length_` and indices are operators over the
same partition. A list may repeat keys and may contain keys outside the range
(`Outside` bounds how far). For these `GetServerByKey` returns -1, and only the
first key of a run is looked up: keys below 0 are a run that ends where the
first server's keys begin, and a key past the range is an empty run. There the
loop stays and sends empty messages for ever, to whatever id is in front of
`server_ids_`; `sent` keeps such a message once. What the properties say of
owners and indices is about lists in the range (`InRange`).

`Pull` sorts its list with `std::sort`. `SortKeyValue`, which `Push` uses, leaves
a list with repeated keys partly unsorted; such lists of `Push` are not modelled.
`Degenerate` (all entries equal, always so with one server) is excluded: there
every `parameter_length_` is 0.

### FifoRing

A step is a semaphore operation, a critical section or an access to a slot.
`Initialize` clears only one pointer's worth of the array, so the other slots
start as null or garbage. `Fetch` returns -1 for a null slot without posting
`empty_sem_`, and so does the model.

### Communicator

One sending process and one receiving process with two ports, as an agent or a
server has them. The sender's ring is `FifoRing` with its steps; the receivers'
rings are bounded queues, which `RefinesFifo` justifies. `Consume` is split into
the fetch, the lookup of the id, the search for a socket and the send, because
the thread that sends may call `DeleteId` and `AddIdAddr` between any two of
them. `DeleteId` closes the socket of the address, whoever else uses it, and
the result of `zmq_send` is ignored. `Produce` is split at its accesses to the
static `message` and `len`, which all receivers of the process share: the
receipt writes `message`, its result goes into `len`, the call of `Add` reads
`len` again or uses the value in a register, and the copy reads `message` when
there is room in the ring.

Every port has a sequence of connections. A socket that `DeleteId` closed is
opened again by the next `Send`, as a new connection beside the old one, which
still delivers what was sent through it (the default linger). A connection of
ZeroMQ is reliable and in order; the port takes from its connections in any
order, as ZeroMQ's fair queueing allows.

A message is its destination and a number; its length is represented by the
number too, so that content and length of different messages can be told apart.
Every message is assumed to fit into `buffer_size_` together with its id and a
final zero: `Send` and `ZmqSendRecv::Receive` write a longer one past the end of
their buffers. The concurrent accesses to the `std::map` itself are taken as
atomic. The `sleep(1)` after each message is not a synchronisation and is left
out. The histories `arrived`, `via` and `disturbed` record what came out of the
network, through which connection each message went, and which messages two
ports held in the static buffer at the same time.

### Channel

A memory is an array of cells: size, values, keys. The worker writes a request
cell by cell in the order of `transfer_to_agent`, the agent copies the struct in
any order (the compiler's choice) and writes its answer in the order of
`SharedMemory::Write`. The worker may crash at any step. At the end of a pipe
whose writer is gone `read` returns 0 and `Fifo::Wait` returns its initial 0,
which is the signal of a pull; a write to a pipe without reader ends the
process. The memories start with what an earlier job left there, because
`shm_open` does not clear them.

`Pull` is modelled by what it does to the memory. The request's keys go to the
servers as `split` says; `Pull` waits for one reply of each server and writes
keys and values over the request in the order in which the replies arrive
(`Replies`, `Answer`), then sets the size to what arrived. If the list wraps, the
second reply of one server is missing and the size is smaller than asked for;
`calc_g` then indexes its weights past their end and the worker crashes
(`linear_regression.py:84`). Values are named by the pull and the key they belong
to. That every server answers every pull, also the one nobody asked for after a
crash, is assumed here; `Termination` of module `ParameterServer` is about it.

At the top of the loop, after every signal, the agent may find a new
configuration: `Reconfigurate` changes the split and sets `epoch_num_` to 0, or
aborts as in `Cluster`. `epoch_num_` goes into the heartbeats and nowhere else,
so the properties count calls of `Pull` and `Push` in histories of their own
(`pulls`, `pushes`, `answer`).

### Reconfiguration

One server, `Local`, and the state that `Reconfigure` touches: the ring of
servers, the parameters (by their keys) and the stored copies (by the keys they
hold), queues (by their lengths), counters, agents. `Reconfigure` is one step
like the handler; `ReconfigureAborts` is its end in a debug build, where
protobuf checks the index that line 531 reads past the end of the list, and
`NotAssigned` its early return. In a release build the id read there is known or
gets a queue; the model allows both. An agent without an entry in `id_to_index_`
is given index 0 by `operator[]`, as the code does (`QueueOf`).

The configurations are those that `server_gtest.cc` sends: the successor of a
dead server takes over its place and start key. Agents leave, join and are
replaced. The peers apply a configuration at any time before an answer, so that
copies of several configurations are under way together. A peer that died does
not answer. A peer that took keys over may have got them wrong, as this
server may; it then answers with as many values of other keys (`Stray`), and
`covered` is cleared. Agents may be ahead of the server and name keys it has yet
to take over (`Named`); an agent that is behind names no others, since a server's
keys only become more.

`status` records the first use of an array outside its bounds and stops there:
"undefined" for the queues, the list of servers and the stored copies, "overrun"
for the end of `parameters_` (a merge, a copy for a peer or the answer to a pull
after a takeover that fell short, `Short`, or for an agent that is ahead), and
"unwrapped" for the indices of `server.cc:187` and `217`, which do not go round
the key range.

The histories `fresh`, `changed`, `lost` and `covered` say for which failures the
copies suffice (`lost` counts the servers gone since the copies were made, of
which no more than `BackupSize` can be replaced); `aligned` says that the
configured agents have the first queues, without which `UpdateParameter` is
undefined.

### Cluster

The main loop handles a message per step. `DeliverHeartbeat` and `FixConfig`
are split at every access to shared state: test of the flag, copy of
`server_id_`, copy of `partition_`, clearing of the flag under `mu_`, one send
per agent; lock and flag, erasure of an id, erasure of a partition entry,
unlock. The send loop reads the storage of a vector that may be erased from
meanwhile (`stale` keeps what `erase` leaves behind the end). An operation on
one vector is taken as atomic with respect to a copy of it.

A start key is represented by its rank, a configuration by the two lists that
change. `Reconfigurate` reads one partition entry more than the message has;
this is undefined, and the model lets the agent go on or abort. Heartbeats to
servers are not modelled as messages because `Server::Start` ignores them.

Time is counted in rounds of heartbeats. `Tick` is the beginning of a round: the
gap is slept after the messages are sent (`master.cc:297`), so a round lasts the
gap and the time of the sending. `alive_node_` has, for the time point of an
answer, the number of rounds begun since. An answer counted `k` came more than
`k - 1` and less than `k + 1` rounds ago, so the count does not settle on which
side of `heartbeat_timeout` it is. `Timeout` is the number of rounds that surely
fit into the timeout, `Overdue` a count that is surely beyond it; for rounds of a
constant length it is `Timeout + 2`. The scan (`GetDeadNode`) finds any set of
nodes between the two that the order of the time points allows. The detection
thread has a period of its own and scans at any moment.

`Tick` waits until the living agents have answered the last round and the answers
are read: rounds do not overlap. Without this assumption any timeout can expire
for a live node. It is the assumption most easily broken in practice: the
communicators sleep a second per message, so the nodes of a cluster should be
fewer than the gap has seconds.

## Runs

| Run | Instance | Result |
|---|---|---|
| `requests` | 1 server, 2 agents, 1 unknown sender, bound 2, 3 pushes and 2 pulls each | passes, 1.2 M states |
| `ssp` | 2 servers, 2 agents, bound 2, 4 iterations, list without wrap | passes |
| `backup` | 3 servers, 2 backups each, the middle one without keys, 3 iterations | passes |
| `wrapped_push` | 2 servers, 2 agents, bound 1, list of all keys | violation |
| `communicator` | ring of 2, one sending thread, 2 ports, 3 messages, 2 changes of the table | passes, with refinement, 0.52 M states |
| `channel` | 3 parameters on 2 servers, a list that wraps and one that does not, 3 iterations, new configurations, a crash of the worker | passes, 0.20 M states |
| `reconfigure` | 4 servers, `Local` the first or the last of them, 2 agents or 1 and more that may join, 2 copies, bound 2, 2 new configurations, 1 merge | passes, 1.48 M states |
| `two_producers` | ring of 2, two producers | violation |
| `split` | every partition of 6 keys over 3 servers, every ascending list of up to 5 keys, from one below to one past the range | passes, 80 k states |
| `merge` | 5 keys, 2 servers | violation |
| `membership` | 2 servers, 1 agent, 1 crash, a timeout of 2 rounds | passes, 0.27 M states |
| `live_server` | the same without crash | violation |

What the passing runs show:

* `requests`: for clients without any discipline, counters and queues agree
  (`FinishCountExact`), no complete round is left behind (`NoReadyRound`),
  pulls are blocked only at the bound (`BlockedOnlyWhileFull`), rounds are pure
  (`RoundIntegrity`) and replies are fresh (`StalenessBound`).
* `ssp`: disciplined agents stay within `Bound` of each other (`ClockGap`), no
  push is dropped (`PushAlwaysInserted`), pulls are complete and recent
  (`PullComplete`), and the training ends with everything merged
  (`Termination`).
* `backup`: copies are filed under their owner (`BackupOwner`), never go back
  (`BackupMonotonic`) and lag by at most `2 * Bound` rounds once the channel is
  quiet (`BackupLag`). The last holds only at servers that receive updates: a
  server without keys never merges, so it never refreshes its copies.
* `communicator`: the ring implements `BoundedFifo` (`RefinesFifo`) and a fetch
  always finds a message (`FetchFindsMessage`). A message is lost only if its id
  had no address when it was sent or an entry with its address was deleted on
  the way (`LossExplained`). A message arrives once, at its port and in the order
  of its connection; a reopened socket may be overtaken by its successor, and
  nothing else is. Messages that two ports held in the static buffer of `Produce`
  at the same time are mixed with each other, so that one is delivered twice and
  another never; all others are handed on whole (`DeliveredInOrder`) and arrive
  (`Delivery`).
* `channel`: a pull carries the whole request, after every push before it
  (`PullSeesRequest`). The worker computes with every key once and beside it the
  value its own pull returned for it, whatever the order of the replies
  (`ParametersCurrent`); a partial answer ends it before that. A push is not
  answered, so the next request may overwrite the gradient before the agent
  copied it; a place of the push then has a zero for its value or the next
  request's key instead of the one the pull returned there, but never a value of
  another iteration (`PushOfItsIteration`). As the keys of the pull are in another
  order than those of the request, such a push can name a key twice and another
  not at all. The end of the training is reported after the
  last push (`FinishReported`); a crash of the worker ends the agent, by a
  pull nobody asked for, and is not reported as an end (`CrashEndsAgent`).
* `reconfigure`: after up to two failures the server holds exactly the
  parameters of its keys in order, if each configuration found the copies all
  renewed since the last one or none changed, and no more servers failed since
  they were made than copies are kept, and no copy came from a server that got
  its own takeover wrong (`TakeoverExact`; with a mixture it does not). Counters and queues agree across departures, arrivals and merges
  (`CountersExact`). The agents all wait for each other only if one
  left since the last merge (`AllBlockedOnlyAfterDeparture`); that case is real,
  because `Reconfigure` does not test whether the departure completed a round.
  Arrays are used outside their bounds only for named causes
  (`DefinedBehaviour`), and each of them is real. Copies are filed inside their
  array although the ring shrank meanwhile and the merge finds its updates,
  unless the agents lost the first queues, a server that a configuration leaves
  out keeps its old place on a smaller ring (`server.cc:482` returns before the
  rest is set), or fewer servers are left than copies are kept, so that the index
  of `server.cc:553` becomes negative. `parameters_` is used past its end only
  after a takeover from mixed, too few or wrong copies, or for an agent that has
  applied a configuration before the server. And the indices of `server.cc:187`
  and `217` leave their array when the server's keys go round the key range.
* `split`: the messages cover the list exactly once and in order, an empty one
  being sent only at a key past the range, where the loop stays
  (`SplitIsExact`); keys in the range go to their owners, and the segments tile
  the key range.
* `membership`: a surviving server keeps its start key (`StartKeysKept`), an
  agent that lives is kept (`LiveAgentsKept`) wherever between two answers the
  scan falls, a crash is eventually known to every agent in an untorn
  configuration (`CrashIsAnnounced`), and the master ends when all workers are
  done (`MasterEnds`). `CrashIsAnnounced` holds in spite of two races on the
  configuration, and only because the flag is set again at every scan: the
  master finds its own entry of `alive_node_` dead for ever. Setting the flag
  only when a node is removed, a natural improvement, breaks it.

What the violations show (details under "findings" in `PROJECT.json`):

* `wrapped_push`: the second message of a wrapped push counts as another
  version and is dropped when the queue is full (`server.cc:293`), against the
  comment at `server.cc:280`. With a bound of 1 the job can then wait for ever.
  The pull has the same cause and effect: it waits for a *set* of servers
  (`agent.cc:390`) and returns after the first of two replies, and the other one
  is later taken for an answer to the next pull (`PullComplete` fails with the
  list of all keys). In `linear_regression.py` the partial answer makes the worker
  crash (module `Channel`).
* `merge`: `UpdateParameter` (`server.cc:217`) does not wrap the index that
  `ServePull` wraps.
* `two_producers`: the ring is built for one producer, and the senders of
  agents and servers have two.
* `live_server`: the heartbeat of a server goes to the wrong port
  (`master.cc:288`), so each server is removed after the timeout.

### Bounds

With a bound of 2 an agent can be 0, 1 or 2 versions ahead, so queues are
empty, partly filled and full at the same time and three pushes take an agent
through a full queue and beyond; two pulls per agent give several blocked pulls
of one agent. Four iterations with bound 2 let the gap reach its limit in the
middle of the training and not only at its end. Three servers with two backups
are the smallest ring in which the two index formulas differ by more than a
sign. A ring of two with three messages is full, wraps round and distinguishes
order; two changes of the table are a deletion and a new entry for an id, and
the new entry may share its address with another id, or open the closed socket
again. Three parameters on two servers make replies in two orders, and a list
that wraps; three iterations let a gradient be torn, and show it next to an
earlier and a last one. Four servers allow two failures in a row with two
copies: the second finds copies untouched, partly renewed or all renewed, and two
servers, the fewest that have segments at all, stay. `Local` is the first of the
list, so that it takes over keys across the end of the list, or the last, the
place that is none of the list when a configuration leaves it out, with keys that
go round the range. One merge is enough to renew the copies between two
configurations, and one stray key is enough for a wrong copy. Six keys and three
servers contain equal entries, empty segments and wrapping lists; five keys are
enough for a run at each server, keys outside both ends and a repetition.

In `Cluster` one agent is enough for every property but one effect: the send loop
can skip an agent only if there are three of them, and that instance is too large
for a regular run. Explored by hand: one agent with a timeout of a single round is
removed although it lives; one server and two agents with two rounds are not
(1.06 M states); of three agents with two rounds one is, by the skip. Theorem
`LiveAgentsStay` has the general case. The run fixes the order of the first and
the last registration; ids are only compared for equality, so the others differ
by names only.

### Fairness

`FairPSSpec`: each server and agent is a process whose main thread only waits
for messages, so a step that stays possible is taken. `CommSpec`: a thread
inside `Add` is scheduled, `Consume`, `Produce` and the caller of `Receive` are
endless loops; nobody has to send or to change the table. `Spec` of `Channel`:
worker and agent are processes that run until they end; the crash need not
happen. `Fairness` of `Cluster`: the
threads of master and nodes run and time passes; workers, exits and crashes are
not assumed to happen. Strong fairness is assumed once, of the master's heartbeat
thread: it waits for a mutex that the detection thread takes again and again, and
gets it because that thread sleeps in between.

## Proofs

The proof modules prove the safety properties of the runs `requests`, `ssp`,
`backup`, `communicator`, `channel`, `reconfigure`, `split` and `membership` for
every value of the constants that satisfies the modules' named assumptions. Every
inductive invariant was checked by TLC on the run's instance, or a larger one,
before it was proved.

### Server

`ServerProofs`: for every finite set of agents, any number of servers, any
positive bound, any set of blocks and clients that send anything at any time
(assumption `ServerAssumption` only).

| Theorem | States |
|---|---|
| `Invariance` | `Spec => []Inv` |
| `TypeCorrect`, `CountersExact`, `RoundsMergedAtOnce`, `BlockedAreAhead`, `RoundsConsistent` | `Spec => []P` for `TypeOK`, `FinishCountExact`, `NoReadyRound`, `BlockedOnlyWhileFull`, `RoundIntegrity` |
| `Staleness` | `Spec => StalenessBound` |

`Inv` is the conjunction of those five invariants. None but `TypeOK` is
inductive alone: that a merge pops no empty queue needs exact counters; that
blocked pulls are only those of full queues after a merge needs that all were
answered; that the merge uncovers no other complete round needs that one queue
was empty before the push (`NoReadyRound`), hence that the pusher's queue holds
one update only and is empty after the pop. The argument is laid out in three
layers: lemmas on a single server's queues and counters (`InsertExact`,
`PopExact`, `CompleteMeansReady`), lemmas on one agent's history (`SplitAppend`,
`SplitPop`), then one lemma per action (`StorePushInv`, `CompleteRoundInv`, …)
combined in `NextInv`. `Staleness` follows from `Inv` before and after the
step: a reply is new only in `AnswerPull` and `CompleteRound`, and the version
it carries plus the length of the queue is the number of accepted updates.

### Training loop

`ParameterServerProofs`: any number of agents, servers and iterations, any
positive bound, any list of chunks.

| Theorem | States | Under |
|---|---|---|
| `TrainingServed` | `PSSpec => Spec`: the training is a behaviour of `Server` | |
| `TrainingTypeCorrect` | `PSSpec => []PSTypeOK` | |
| `TrainingInvariance` | `PSSpec => []PSInv` | `OneChunkPerServer` |
| `ClockGapBounded`, `PullsComplete`, `RoundsAligned` | `PSSpec => []P` for `ClockGap`, `PullComplete`, `RoundsAreIterations` | `OneChunkPerServer` |
| `NoPushDropped` | `PSSpec => PushAlwaysInserted` | `OneChunkPerServer` |

`OneChunkPerServer` says that no server has two chunks of the key list, which is
to say that the list does not wrap. It is a hypothesis of those theorems and
not an assumption of the module, because without it they are false: run
`wrapped_push` shows the dropped push, and the sample workers' list of all keys
is of that kind.

`PSInv` adds to the server's `Inv` a *conversation* for every pair of an agent
and a chunk (`Talk`): what the agent has sent, as its clock and phase tell, is
what the server has accepted plus what is under way, in this order, with at most
one pull behind it; that pull is under way, blocked, or answered by a reply under
way; and an agent past its pull of iteration `e` has been cleared by every server
(`Cleared`), so that its queue has room. `ClockGap` is not inductive without all
of this: an agent is held back only by a reply that some server has not sent,
so its clock is bounded through the queue length of one server and the number
of rounds merged there, which the slowest agent's chunks bound in turn.
`NoPushDropped` follows from `Cleared`: between the answer to a pull and the push
that follows it no other update of the same agent can reach the queue.

### Backups

`BackupProofs`, any number of servers and copies:

| Theorem | States | Under |
|---|---|---|
| `BackupInvariance`, `BackupsFiled` | `Spec => []P` for `BackupInv`, `BackupOwner` | any clients |
| `BackupsOnlyGrow` | `Spec => BackupMonotonic` | any clients |
| `ServersTogether`, `BackupsRecent` | `PSSpec => []P` for `ServerSkew`, `BackupLag` | `OneChunkPerServer` |

The first three need that the two ring formulas of the code are inverse to each
other (`Ring`, `KeepsIndex`), and that the copies under way
from one server to another are in order and none is newer than its owner
(`Stream`). The lag of a copy is bounded through three facts that no single
server establishes: servers that receive updates are within `Bound` of each
other because an agent pulls from all of them before it pushes to any
(`SentBounded`, `Room`); a server without chunks never merges (`IdleServers`);
and a stored copy that is older than `Bound` rounds has a request, or a newer
copy, under way (`CopiesCovered`).

### Channel

`ChannelProofs`, any number of parameters and iterations, any splits of the keys
over servers and any order of their replies, new configurations at any signal, a
worker that may crash at any step, any order in which the agent copies the cells:
the theorems `ChannelInvariance`, `ChannelTypeCorrect`, `RequestsSeen`,
`WeightsCurrent` and `PushesKeepIteration` state `Spec => []P` for `ChannelInv`,
`TypeOK`, `PullSeesRequest`, `ParametersCurrent` and `PushOfItsIteration`.
`Protocol`, the core of `ChannelInv`, lists which steps of worker and agent, which
signals in the two pipes and which numbers of pulls and pushes can occur together;
`WorkerData`, `AgentData` and `PushData` say what each cell of the two memories
holds at those steps, in terms of the answer of the last pull (`Given`), whose
keys are different (`Distinct`, from `RepliesType`). That an answer is whole is
known only after the worker has read its size: `WorkerData` has it from there on.
The interesting case is the push, which is not answered: there the invariant can
only say that a copied cell is the one pushed or the next request's (`GoodCell`).

### Ring and communicators

`CommunicatorProofs`, any size of the rings, any messages, ids, ports and
tables, any number of changes:

| Theorem | States |
|---|---|
| `RingInvariance`, `FetchesFind` | `Spec => []P` for `RingInv`, `FetchFindsMessage` |
| `RingIsFifo` | `Spec => RefinesFifo`: the ring implements `BoundedFifo` |
| `SenderRing` | `CommSpec => Spec`: so does the ring inside a communicator (`SenderIsFifo`) |
| `CommInvariance`, `CommTypeCorrect`, `LossesExplained`, `DeliveryInOrder` | `CommSpec => []P` for `CommInv`, `CommTypeOK`, `LossExplained`, `DeliveredInOrder` |

All but `SenderRing` are stated under the hypothesis `OneOfEach`: one thread adds
and one fetches. Run `two_producers` refutes `FetchFindsMessage` without it.

`RingInv` accounts for every slot: the two semaphores and the threads between
them add up to the size (`Tokens`), the slot to be written next is as far from
the one to be read next as there are messages stored (`Points`), and the slots
between them hold messages (`Held`). From it each step of a thread is a `Put`,
a `Get` or a stutter of the queue (`StepCases`, `QueueMoves`). The facts about
`%` that this needs are in `OneTurn` and `SlotDistance`.

`CommInv` adds `TableOK`: a message under way has the address it had when it was
sent, or its number is in `unsafe`, through each of the four steps of `Consume`;
`SenderOrder`: the message held by `Consume`, those in the ring and the one being
added have increasing numbers; `Ports`: the messages on a connection are in order,
behind those that came out of it and ahead of everything in the sender, so that a
connection stays in order when it gets another message and a new one may be
opened at any time; and `Hands`: what a port has added is what arrived, and the
message its thread holds is still in the static buffer with its length, unless
another thread holds one too. `HandsTake` shows that a receipt disturbs no message
but those held at that moment, and counts them in `disturbed`; `OnceOnly` shows that
no message is in two places, from the order on each connection and `via`.

### Partition

`PartitionProofs`, any key range of at least 3, any number of servers, any
ascending partition (equal entries included) and any ascending list of keys, with
repetitions and keys outside the range:

| Theorem | States |
|---|---|
| `PartitionInvariance` | `Spec => []PartitionInv` |
| `SplitExact`, `KeysRouted`, `SegmentsPartition`, `ChunksShaped` | `Spec => []P` for `SplitIsExact`, `RoutedToOwner`, `SegmentsDisjoint`, `ChunkShape` |

`Bounds` says what the two binary searches find in an ascending list,
`SortedKeys` applies it to the request. `EndingForward` says that `NextEnding`
goes forward but for a key past the range, where it stays and there is no
server; that gives `SplitIsExact` for every list. For keys in the range
`ServerOfKey` and `SegmentLength` describe the two sides as plain inequalities,
the agent's search and the server's arithmetic with `%`, and `OwnerOfKey` shows
that they are the same ones; routing and disjointness both follow from it.
`Ending` says the same of `NextEnding`: it goes over keys of one server and
stops before keys of later servers. `ChunkShape` needs in addition that the keys
not yet sent are not below the first entry once a message is out
(`RestIsLater`): only the first run wraps.

### Reconfiguration

`ReconfigurationProofs`, any number of servers, agents, copies and configurations,
any bound and any number of merges: `ReconfigurationInvariance`, `CountersAgree` and
`BlockedAfterDeparture` state `Spec => []P` for `ReconfigurationInv`,
`CountersExact` and `AllBlockedOnlyAfterDeparture`. `ReconfigurationInv` has three parts.

* `Configs`: each configuration is well formed, and each follows from the one
  before by taking servers out of the ring. Servers that stay never move apart on
  it (`Closer`), a fact about `RemoveAt`, `IndexOf` and `%` that
  the lemmas of the first half establish.
* `AgentInv`: counters and queues agree (`Counts`), updates wait only in the queue
  of a configured agent (`Owned`), a blocked agent has a full queue
  (`BlockedFull`), and somebody can go on as long as nobody left
  (`SomeoneNotFull`). `Owned` has to speak of agents *with an entry* of
  `id_to_index_`: `operator[]` gives a stranger index 0, and without an entry
  its claim to queue 0 would be lost when it leaves.
* `RingInv`: requests and copies under way are between servers within the distance
  of the copies, which `Closer` preserves. So a late copy still has an entry, which
  with `Owned` gives `QueuesAndCopiesDefined`.

The proof failed twice for a reason, and each time the model was found too kind: a
server left out of a configuration keeps its old place on a smaller ring, and the
remainder in `server.cc:553` becomes negative on a ring smaller than the number of
copies. Both are exceptions that the property names.

### Takeover

The last part of `ReconfigurationProofs`, under the same conditions:

| Theorem | States | Under |
|---|---|---|
| `TypeInvariance` | `Spec => []TypeOK` | |
| `Takeover`, `BehaviourDefined` | `Spec => []P` for `TakeoverExact`, `DefinedBehaviour` | `DistinctEntries` |

`ExtendParameter` is a loop that prepends copies until the length is right. What
it computes is proved by induction over its turns (`ExtendParameterLoop`). The
library's induction theorems cannot be used here, since they are about an
operator; `SetInduction` states induction as a fact about a *set* of numbers and
follows from a theorem on injections of finite sets.

`TakeoverInv` says that entries only disappear from the partition and a staying
server keeps its end key (`Changes`), that a copy under way is what its owner
had under the configuration it names, unless a takeover went wrong (`Honest`),
and that the copies a server holds are either those of the present configuration
or all of one earlier one, from which exactly `lost` servers are gone
(`Covered`). Then the new segment of a server is the old one with the pieces of
the servers behind it in front, and the loop adds as many of them as servers are
gone. It also uses that the abort of a debug build happens only in a change of
the agents, in which the servers stay.

`BehaviourDefined` rests on this: in a server that is up to date and took over
right, `parameters_` is its segment and has the length that `parameter_length_`
says, and the keys that agents may name are the keys of that segment, at indices
below that length (`NamedInBounds`), also without the wrap unless the segment goes
round the key range. So no step of such a server overruns (`ParametersNext`).

`DistinctEntries` says that the entries of the first configurations are strictly
ascending. The master sorts what it draws but may draw a number twice, and then
`TakeoverExact` is false: with entries 1, 3, 3, if the last server of the list
fails, the two that stay have the entries 3, 3 and `parameter_length_` is 0
(TLC confirms it).

### Cluster

`ClusterProofs`, any number of servers, agents and crashes:

| Theorem | States | Under |
|---|---|---|
| `ClusterInvariance` | `Spec => []ClusterInv` | |
| `ClusterTypeCorrect`, `StartKeysStay` | `Spec => []P` for `TypeOK`, `StartKeysKept` | |
| `LiveAgentsStay` | `Spec => []LiveAgentsKept` | `Timeout >= 2`, `Cardinality(Agents) <= Timeout` |

`ClusterInv` ties the three threads together. `Inbox` and `Numbering`: until the
cluster is ready what is under way is one registration of each node without an
id, so that ids are given once and, when the last list is full, to everybody
(`AllRegistered`). `Lists`: the vector of the agents together with what `erase`
left behind its end always has as many places as there are agents, each with an
agent's id, so the send loop never reads anything else, however the vector
shrinks under it. `StartKeys`: while nodes register, the k-th server listed has
rank k; later the two lists are in step or, between the erasures, the entry at
`index` is the one too many. `StartKeysKept` alone is not inductive: it says
nothing of the lists at the moment of the second erasure, nor of those from which
the first partition is made.

`LiveAgentsKept` is about time. Its invariant `AgentsHeard` bounds the count of the
last answer of every agent that lives: it is at most `Skips + 1`, and at most
`Skips` unless the heartbeat of this round is still to be sent, on its way, or
answered (`Expected`). `Tick` needs all heartbeats answered, so it finds the
second case and makes it the first. The only step that can disturb this is the
erasure of another agent while the heartbeats are sent (`EraseHeard`): the agent
moves one place to the front, and if the loop was about to send to it, it is
passed over in this round. That needs an agent in front of it and one behind it,
at least three in the vector, so it happens at most `Cardinality(Agents) - 2`
times; `Skips` counts the agents erased up to that number. The count stays below
`Timeout`, so the answer is surely not older than the timeout whenever the scan
comes, and it never finds the agent (`DetectHeard`).

The hypothesis is needed: a single agent with a timeout of one round, and three
agents with one of two, lose a live agent (TLC, under "Bounds"). It is about
rounds: how many of them fit into `heartbeat_timeout` depends on the gap and on
the time the sending takes. And the theorem rests on the assumption in `Tick` that
rounds do not overlap, which is part of the model.

### Only model-checked

Liveness (`Termination`, `Delivery`, `FinishReported`, `CrashEndsAgent`,
`CrashIsAnnounced`, `MasterEnds`) rests on fairness, which is out of the prover's
reach. All safety properties of the passing runs are proved; those that need a
hypothesis on the constants name it.

## Not modelled

* A node that registers after the cluster was ready. It is the only way in which
  the master's configuration reaches `Server::Reconfigure`: once `FixConfig` has
  removed a node, a new registration makes the cluster ready again,
  `GeneratePartition` appends a second set of entries to the partition and the
  configuration goes to all nodes. `Reconfiguration` models what a server does
  with a configuration, for the ones its test sends; the one of this path has
  more entries than servers. Changes made by `FixConfig` alone travel in
  heartbeats, which `Server::Start` ignores.
* `FixConfig` gives the keys of a dead server to its predecessor, `Reconfigure`
  expects that the successor takes them over; the two are modelled each as it
  is, and do not meet.
* `Server::HeartBeat`: it keeps no state, and the master sends to another port.
* Messages longer than `buffer_size_`, and clusters so large that the rounds of
  heartbeats overlap (module `Cluster`).
* Lists with repeated keys in a push, which `SortKeyValue` leaves unsorted.
* The composition of crashes (`Cluster`) with waiting pulls (`ParameterServer`).
* `two_variable_regression.py` and `boston_housing.py`, which wait for a reply to
  a push that `AgentWork` does not send.
* ZooKeeper (optional, unfinished), the encoding (generated code), floating
  point arithmetic, logging, interface lookup, scripts, the `Finalize` methods.

## Plan

Done, in this order: `Server` and its proofs, `ParameterServer`, `FifoRing`,
`Partition`, `Cluster`, `Channel`, `Communicator`, `Reconfiguration`; then the
proofs about the training loop, the backups, the channel, the ring and the
communicators, the reconfiguration, the takeover, the partition and the master.
What would come next are models, not proofs: a node that registers after the
cluster was ready, and crashes of servers while agents wait for their replies
(both under "Not modelled").
