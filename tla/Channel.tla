------------------------------ MODULE Channel -------------------------------
(***************************************************************************)
(* The channel between a worker (linear_regression.py) and its agent       *)
(* (Agent::AgentWork): a shared memory and a named pipe for each           *)
(* direction.  The worker writes a request into grad_memory_ and a signal  *)
(* into grad_fifo_; the agent answers a pull through para_memory_ and      *)
(* para_fifo_, and does not answer a push.                                 *)
(*                                                                         *)
(* A memory is a shmstruct: the size, N values and N keys, written and     *)
(* copied cell by cell while the other process runs.  The agent gives the  *)
(* worker keys and values in the order in which the servers' replies       *)
(* arrive, and may be given a new configuration at any signal.  The worker *)
(* may crash; its ends of the pipes are then closed.                       *)
(***************************************************************************)
EXTENDS Integers, Sequences

CONSTANTS
  N,       \* parameters of the model
  NumIter, \* num_iter: the loop ends when iteration exceeds it
  Splits   \* what a configuration can make of the keys: [key]: its server

ASSUME ChannelAssumption ==
  /\ N \in Nat \ {0} /\ NumIter \in Nat
  /\ Splits \subseteq [1 .. N -> Nat] /\ Splits # {}

\* The cells of a shmstruct: size, values, keys; cell p + 1 and cell p + N + 1
\* are the value and the key at place p.
SizeCell == 1
ValueCells == 2 .. N + 1
KeyCells == N + 2 .. 2 * N + 1
Cells == 1 .. 2 * N + 1

\* What a cell can hold.
Size(n) == <<"size", n>>
Zero == <<"zero", 0>>
Old == <<"old", 0>>                            \* left there by an earlier job
Key(k) == <<"key", k>>
Gradient(i) == <<"gradient", i>>               \* computed in iteration i
Parameter(j, k) == <<"parameter", <<j, k>>>>   \* of key k, from the j-th pull

Contents ==
  {Zero, Old} \cup {Size(n) : n \in 0 .. N} \cup {Key(k) : k \in 1 .. N}
    \cup {Gradient(i) : i \in 0 .. NumIter}
    \cup {Parameter(j, k) : j \in 1 .. NumIter + 2, k \in 1 .. N}

VARIABLES
  grad_memory_, para_memory_,  \* [cell]: its content
  grad_fifo_, para_fifo_,      \* signals in the pipes
  worker,                      \* the next step of the worker
  iteration,
  cursor,                      \* cells written or read in this transfer
  weights,                     \* [cell]: what read_from_agent returned
  agent,                       \* the next step of the agent
  signal_type,
  uncopied,                    \* cells of the memory not copied yet
  request,                     \* [cell]: parameters_, or gradients_, while in use
  written,                     \* cells of parameters_ written so far
  epoch_num_,                  \* goes into the heartbeats and nowhere else
  split,                       \* the agent's partition_ and server_ids_
  pulls, pushes,               \* history: calls of Pull and of Push
  answer                       \* history: the keys the last Pull returned

workerVars == <<worker, iteration, cursor, weights>>
agentVars == <<agent, signal_type, uncopied, request, written, epoch_num_,
               split, pulls, pushes, answer>>
vars == <<grad_memory_, para_memory_, grad_fifo_, para_fifo_, workerVars,
          agentVars>>

Unset == [c \in Cells |-> Old]

\* shm_open does not clear a memory that an earlier job left behind.
Init ==
  /\ grad_memory_ = Unset /\ para_memory_ = Unset
  /\ grad_fifo_ = <<>> /\ para_fifo_ = <<>>
  /\ worker = "request" /\ iteration = 0 /\ cursor = 0
  /\ weights = Unset
  /\ agent = "wait" /\ signal_type = 0 /\ uncopied = {}
  /\ request = Unset /\ written = 0
  /\ epoch_num_ = 0 /\ split \in Splits
  /\ pulls = 0 /\ pushes = 0 /\ answer = <<>>

Last == 2 * N + 1

-----------------------------------------------------------------------------
(* The worker *)

\* One step of transfer_to_agent, which writes the cells in order.
Transfer(data, here, next) ==
  /\ worker = here
  /\ grad_memory_' = [grad_memory_ EXCEPT ![cursor + 1] = data[cursor + 1]]
  /\ IF cursor + 1 = Last
     THEN worker' = next /\ cursor' = 0
     ELSE cursor' = cursor + 1 /\ UNCHANGED worker
  /\ UNCHANGED <<para_memory_, grad_fifo_, para_fifo_, iteration, weights,
                 agentVars>>

\* What the worker sends with a pull: zeros and all keys.
Zeros ==
  [c \in Cells |-> IF c = SizeCell THEN Size(N)
                   ELSE IF c \in KeyCells THEN Key(c - N - 1) ELSE Zero]

\* What it sends with a push: its gradient and the keys it was given, in the
\* order it was given them.
NewGradient ==
  [c \in Cells |-> IF c \in ValueCells THEN Gradient(iteration) ELSE weights[c]]

WriteRequest == Transfer(Zeros, "request", "pull")

WriteGradient == Transfer(NewGradient, "gradient", "push")

\* os.write of a signal.
Signal(s, here, next) ==
  /\ worker = here
  /\ grad_fifo_' = Append(grad_fifo_, s)
  /\ worker' = next
  /\ UNCHANGED <<grad_memory_, para_memory_, para_fifo_, cursor, agentVars>>

\* Mutant: the pull is signalled before its keys are written.
SignalBeforeKeys ==
  /\ worker = "request" /\ cursor = N
  /\ grad_fifo_' = Append(grad_fifo_, 0)
  /\ worker' = "await" /\ cursor' = 0
  /\ UNCHANGED <<grad_memory_, para_memory_, para_fifo_, iteration, weights,
                 agentVars>>

SignalPull == Signal(0, "pull", "await") /\ UNCHANGED <<iteration, weights>>

\* Mutant: the worker does not wait for the parameters.
GoOnWithoutReply ==
  /\ worker = "await"
  /\ worker' = "read"
  /\ UNCHANGED <<grad_memory_, para_memory_, grad_fifo_, para_fifo_, iteration,
                 cursor, weights, agentVars>>

AwaitParameters ==
  /\ worker = "await"
  /\ para_fifo_ # <<>>
  /\ para_fifo_' = Tail(para_fifo_)
  /\ worker' = "read"
  /\ UNCHANGED <<grad_memory_, para_memory_, grad_fifo_, iteration, cursor,
                 weights, agentVars>>

\* One step of read_from_agent; calc_g follows the last, and raises an error
\* that ends the worker if there are fewer weights than features.
ReadFromAgent ==
  /\ worker = "read"
  /\ weights' = [weights EXCEPT ![cursor + 1] = para_memory_[cursor + 1]]
  /\ IF cursor + 1 = Last
     THEN /\ worker' = IF weights'[SizeCell] = Size(N) THEN "gradient" ELSE "crashed"
          /\ cursor' = 0
     ELSE cursor' = cursor + 1 /\ UNCHANGED worker
  /\ UNCHANGED <<grad_memory_, para_memory_, grad_fifo_, para_fifo_, iteration,
                 agentVars>>

\* The worker goes on at once: with the next pull, for which it makes new weights
\* and keys, or to the end.
SignalPush ==
  /\ Signal(1, "push", IF iteration + 1 > NumIter THEN "finish" ELSE "request")
  /\ iteration' = iteration + 1
  /\ weights' = Unset

\* Mutant: the end is signalled like a pull.
FinishAsPull == Signal(0, "finish", "done") /\ UNCHANGED <<iteration, weights>>

Finish == Signal(2, "finish", "done") /\ UNCHANGED <<iteration, weights>>

WorkerStep ==
  \/ WriteRequest \/ SignalPull \/ AwaitParameters \/ ReadFromAgent
  \/ WriteGradient \/ SignalPush \/ Finish

Crash ==
  /\ worker \notin {"done", "crashed"}
  /\ worker' = "crashed"
  /\ UNCHANGED <<grad_memory_, para_memory_, grad_fifo_, para_fifo_, iteration,
                 cursor, weights, agentVars>>

\* No process holds the worker's ends of the pipes.
Closed == worker \in {"done", "crashed"}

-----------------------------------------------------------------------------
(* The agent *)

\* Agent::Reconfigurate, if the heartbeat thread left a new configuration.  It
\* reads past the end of the message's partition; a debug build of the library
\* aborts there (ReconfigurateAborts in Cluster).
Reconfigurate ==
  \/ UNCHANGED <<epoch_num_, split>>
  \/ epoch_num_' = 0 /\ split' \in Splits

\* What the agent does with the signal it has read.
Dispatch ==
  /\ uncopied' = Cells
  /\ \/ /\ Reconfigurate
        /\ agent' = IF signal_type' \in {0, 1} THEN "copy" ELSE "terminate"
     \/ agent' = "aborted" /\ UNCHANGED <<epoch_num_, split>>
  /\ UNCHANGED <<grad_memory_, para_memory_, para_fifo_, workerVars, request,
                 written, pulls, pushes, answer>>

\* Mutant: the agent opens its pipe for writing too, as the worker does, and
\* never sees the end of it.
WaitForSignal ==
  /\ agent = "wait"
  /\ grad_fifo_ # <<>>
  /\ signal_type' = Head(grad_fifo_)
  /\ grad_fifo_' = Tail(grad_fifo_)
  /\ Dispatch

\* Fifo::Wait: at the end of a closed pipe read returns 0 and sig keeps its
\* initial value 0, the signal of a pull.
Wait ==
  /\ agent = "wait"
  /\ \/ /\ grad_fifo_ # <<>>
        /\ signal_type' = Head(grad_fifo_)
        /\ grad_fifo_' = Tail(grad_fifo_)
     \/ /\ grad_fifo_ = <<>> /\ Closed
        /\ signal_type' = 0
        /\ UNCHANGED grad_fifo_
  /\ Dispatch

\* parameters_ = *grad_memory_.Read(), or gradients_; in which order the cells
\* are copied is the compiler's choice.
CopyMemory ==
  /\ agent = "copy"
  /\ \E c \in uncopied :
       /\ request' = [request EXCEPT ![c] = grad_memory_[c]]
       /\ uncopied' = uncopied \ {c}
  /\ UNCHANGED <<grad_memory_, para_memory_, grad_fifo_, para_fifo_, workerVars,
                 agent, signal_type, written, epoch_num_, split, pulls,
                 pushes, answer>>

\* Keys j and k go to their server in one message: all keys between them are
\* that server's.
SameChunk(j, k) == \A i \in (j .. k) \cup (k .. j) : split[i] = split[j]

\* The keys that Pull can return, in order: from every server one chunk, whole,
\* the servers in any order.  Pull waits for one reply of each server; of one
\* that is sent two chunks, because the list wraps, a reply is missing.
Replies ==
  {ks \in UNION {[1 .. n -> 1 .. N] : n \in 1 .. N} :
     /\ \A k \in 1 .. N : \E i \in DOMAIN ks : split[ks[i]] = split[k]
     /\ \A i \in DOMAIN ks : \A k \in 1 .. N : SameChunk(ks[i], k) =>
          i + k - ks[i] \in DOMAIN ks /\ ks[i + k - ks[i]] = k
     /\ \A i, j \in DOMAIN ks :
          /\ i # j => ks[i] # ks[j]
          /\ split[ks[i]] = split[ks[j]] => SameChunk(ks[i], ks[j])}

\* Mutant: the keys stay as they were asked for.
KeysAsAsked(old, j, ks) ==
  [c \in Cells |->
     IF c = SizeCell THEN Size(Len(ks))
     ELSE IF c - 1 \in 1 .. Len(ks) THEN Parameter(j, ks[c - 1]) ELSE old[c]]

\* What the j-th pull makes of the request old: the keys ks with their values,
\* and their number.  The places after them keep what they had.
Answer(old, j, ks) ==
  [c \in Cells |->
     IF c = SizeCell THEN Size(Len(ks))
     ELSE IF c - 1 \in 1 .. Len(ks) THEN Parameter(j, ks[c - 1])
     ELSE IF c - N - 1 \in 1 .. Len(ks) THEN Key(ks[c - N - 1])
     ELSE old[c]]

\* Agent::Pull; the servers answer (ParameterServer).  A request that is not
\* whole is a crashed worker's: nobody reads what the servers return for it.
Pull ==
  /\ agent = "copy" /\ uncopied = {} /\ signal_type = 0
  /\ \/ request = Zeros /\ answer' \in Replies
     \/ request # Zeros /\ answer' = <<>>
  /\ pulls' = pulls + 1
  /\ request' = Answer(request, pulls + 1, answer')
  /\ agent' = "write" /\ written' = 0
  /\ UNCHANGED <<grad_memory_, para_memory_, grad_fifo_, para_fifo_, workerVars,
                 signal_type, uncopied, epoch_num_, split, pushes>>

\* SharedMemory::Write: the values, the keys, the size.
WriteOrder(k) == IF k = Last THEN SizeCell ELSE k + 1

WriteParameters ==
  /\ agent = "write"
  /\ para_memory_' = [para_memory_ EXCEPT ![WriteOrder(written + 1)] =
                                            request[WriteOrder(written + 1)]]
  /\ written' = written + 1
  /\ agent' = IF written + 1 = Last THEN "signal" ELSE "write"
  /\ UNCHANGED <<grad_memory_, grad_fifo_, para_fifo_, workerVars, signal_type,
                 uncopied, request, epoch_num_, split, pulls, pushes, answer>>

\* A write to a pipe that nobody can read ends the agent's process.
SignalParameters ==
  /\ agent = "signal"
  /\ request' = Unset
  /\ IF Closed
     THEN agent' = "killed" /\ UNCHANGED para_fifo_
     ELSE agent' = "wait" /\ para_fifo_' = Append(para_fifo_, 2)
  /\ UNCHANGED <<grad_memory_, para_memory_, grad_fifo_, workerVars,
                 signal_type, uncopied, written, epoch_num_, split, pulls, pushes,
                 answer>>

\* Agent::Push sends the gradients_ to the servers (ParameterServer).
Push ==
  /\ agent = "copy" /\ uncopied = {} /\ signal_type = 1
  /\ request' = Unset
  /\ pushes' = pushes + 1
  /\ epoch_num_' = epoch_num_ + 1
  /\ agent' = "wait"
  /\ UNCHANGED <<grad_memory_, para_memory_, grad_fifo_, para_fifo_, workerVars,
                 signal_type, uncopied, written, split, pulls, answer>>

\* The agent reports the end of the training to the master and leaves.
Terminate ==
  /\ agent = "terminate"
  /\ agent' = "done"
  /\ UNCHANGED <<grad_memory_, para_memory_, grad_fifo_, para_fifo_, workerVars,
                 signal_type, uncopied, request, written, epoch_num_, split,
                 pulls, pushes, answer>>

AgentStep ==
  \/ Wait \/ CopyMemory \/ Pull \/ WriteParameters \/ SignalParameters
  \/ Push \/ Terminate

-----------------------------------------------------------------------------

Next == WorkerStep \/ AgentStep \/ Crash

\* Both processes are scheduled; nobody has to crash.
Spec == Init /\ [][Next]_vars /\ WF_vars(WorkerStep) /\ WF_vars(AgentStep)

-----------------------------------------------------------------------------
(* Properties *)

Memories == [Cells -> Contents]

\* Type correctness; a pipe holds no more than a push and the pull after it.
TypeOK ==
  /\ grad_memory_ \in Memories /\ para_memory_ \in Memories
  /\ grad_fifo_ \in Seq(0 .. 2) /\ Len(grad_fifo_) <= 2
  /\ para_fifo_ \in Seq({2}) /\ Len(para_fifo_) <= 1
  /\ worker \in {"request", "pull", "await", "read", "gradient", "push",
                 "finish", "done", "crashed"}
  /\ iteration \in 0 .. NumIter + 1 /\ cursor \in 0 .. Last - 1
  /\ weights \in Memories /\ request \in Memories
  /\ agent \in {"wait", "copy", "write", "signal", "terminate", "done", "killed",
                "aborted"}
  /\ signal_type \in 0 .. 2 /\ uncopied \subseteq Cells /\ written \in 0 .. Last
  /\ epoch_num_ \in 0 .. NumIter + 1 /\ split \in Splits
  /\ pulls \in 0 .. NumIter + 2 /\ pushes \in 0 .. NumIter + 1
  /\ answer \in Seq(1 .. N) /\ Len(answer) <= N

\* A pull that a waiting worker asked for has the whole request: the size, all
\* the keys, and the zeros of this iteration, whatever the gradient before it
\* left in the memory; and every push before it has been carried out.
PullSeesRequest ==
  (agent = "copy" /\ uncopied = {} /\ signal_type = 0 /\ worker = "await")
    => request = Zeros /\ pushes = iteration

\* A worker computes with N different keys and, at the place of each, the
\* parameter that the pull of this very iteration returned for that key, though
\* the agent wrote them in the order of the servers' replies and the partition
\* may have changed since the last pull.
ParametersCurrent ==
  worker = "gradient" =>
    /\ weights[SizeCell] = Size(N)
    /\ \A p \in 1 .. N : \E k \in 1 .. N :
         /\ weights[p + N + 1] = Key(k)
         /\ weights[p + 1] = Parameter(iteration + 1, k)
         /\ \A q \in 1 .. N \ {p} : weights[q + N + 1] # Key(k)

\* The worker goes on after it signalled a push, and its next request may reach
\* the memory before the agent has copied the gradient.  The damage is limited:
\* what the agent pushes for iteration i has at each place the value of that
\* gradient or a zero, never of another iteration, and the key that the pull of
\* that iteration, which is still the last one, returned there or that of the
\* next request; the last push, which no request follows, is whole.
PushOfItsIteration ==
  (agent = "copy" /\ uncopied = {} /\ signal_type = 1) =>
    /\ pulls = pushes + 1
    /\ request[SizeCell] = Size(N)
    /\ \A p \in 1 .. N :
         /\ \/ request[p + 1] = Gradient(pushes)
            \/ request[p + 1] = Zero /\ pushes < NumIter
         /\ \/ request[p + N + 1] = Key(answer[p])
            \/ request[p + N + 1] = Key(p) /\ pushes < NumIter

\* A worker that finishes has its end reported to the master by the agent, after
\* every push, unless the agent aborts over a new configuration.
FinishReported ==
  worker = "done" ~>
    \/ agent = "done" /\ pushes = NumIter + 1
    \/ agent = "aborted"

\* A worker that crashes takes its agent with it: the closed pipe reads as a
\* pull, and the answer to it is fatal.  The agent does not report an end.
CrashEndsAgent == worker = "crashed" ~> agent \in {"killed", "aborted"}

=============================================================================
