---------------------------- MODULE ChannelProofs ---------------------------
(***************************************************************************)
(* The channel between a worker and its agent, for every number of         *)
(* parameters and of iterations: what the two processes find in the shared *)
(* memories, though neither of them locks one.  Only the signals in the    *)
(* pipes order their accesses, and after a push nothing does.              *)
(***************************************************************************)
EXTENDS Channel, SequenceTheorems, TLAPS

-----------------------------------------------------------------------------
(* The inductive invariant *)

\* Nothing is asked of the agent.
Idle == agent = "wait" /\ grad_fifo_ = <<>>

\* The agent has the push at the head of the signals to carry out.
PushUnderWay(signals) ==
  \/ agent = "wait" /\ grad_fifo_ = signals
  \/ agent = "copy" /\ signal_type = 1 /\ grad_fifo_ = Tail(signals)

PullUnderWay ==
  \/ agent = "wait" /\ grad_fifo_ = <<0>>
  \/ agent = "copy" /\ signal_type = 0 /\ grad_fifo_ = <<>>

\* The answer to a pull is being written.
Answering == agent \in {"write", "signal"} /\ grad_fifo_ = <<>>

PushPending ==
  PushUnderWay(<<1>>) \/ PushUnderWay(<<1, 0>>) \/ PushUnderWay(<<1, 2>>)

\* The agent aborted over a new configuration, with these signals unread.
Aborted(signals) == agent = "aborted" /\ grad_fifo_ \in signals

\* Where the agent can be, for each place the worker can be.
Between ==
  /\ para_fifo_ = <<>>
  /\ \/ pulls = iteration /\ PushUnderWay(<<1>>)
     \/ pulls = iteration /\ Idle /\ pushes = iteration
     \/ Aborted({<<>>})

Awaiting ==
  \/ /\ para_fifo_ = <<>> /\ pulls = iteration
     /\ \/ PushUnderWay(<<1, 0>>)
        \/ PullUnderWay /\ pushes = iteration
  \/ /\ para_fifo_ = <<>> /\ pulls = iteration + 1
     /\ Answering /\ pushes = iteration
  \/ /\ para_fifo_ = <<2>> /\ pulls = iteration + 1
     /\ Idle /\ pushes = iteration
  \/ para_fifo_ = <<>> /\ Aborted({<<>>, <<0>>})

Computing ==
  para_fifo_ = <<>> /\ pulls = iteration + 1 /\ Idle /\ pushes = iteration

Done ==
  \/ pulls = iteration /\ PushUnderWay(<<1, 2>>)
  \/ /\ pushes = iteration
     /\ \/ agent = "wait" /\ grad_fifo_ = <<2>>
        \/ agent \in {"terminate", "done"} /\ grad_fifo_ = <<>>
  \/ Aborted({<<>>, <<2>>})

\* The agent of a crashed worker carries out what was asked, and then one pull
\* more.
Orphaned ==
  \/ /\ pulls <= NumIter + 1
     /\ Idle \/ PushUnderWay(<<1>>) \/ PushUnderWay(<<1, 0>>) \/ PullUnderWay
  \/ Answering
  \/ agent = "killed" /\ grad_fifo_ = <<>>
  \/ Aborted({<<>>, <<0>>})

Protocol ==
  /\ worker \in {"request", "pull"} => iteration <= NumIter /\ Between
  /\ worker = "finish" => iteration = NumIter + 1 /\ Between
  /\ worker = "await" => iteration <= NumIter /\ Awaiting
  /\ worker \in {"read", "gradient", "push"} => iteration <= NumIter /\ Computing
  /\ worker = "done" => iteration = NumIter + 1 /\ Done
  /\ worker = "crashed" => Orphaned
  /\ PushPending => pushes + 1 = iteration /\ pulls = iteration
  /\ epoch_num_ <= pushes
  /\ agent = "write" => written < Last

\* The agent's answer to the pull of this iteration, and the worker's push: the
\* gradient of iteration i with the keys of the last answer.
Given == Answer(Zeros, iteration + 1, answer)

Whole(i) ==
  [c \in Cells |-> IF c = SizeCell THEN Size(N)
                   ELSE IF c \in ValueCells THEN Gradient(i)
                   ELSE Key(answer[c - N - 1])]

\* What cell c of the i-th push may hold.
GoodCell(v, c, i) ==
  \/ v = Whole(i - 1)[c]
  \/ v = Zeros[c] /\ i <= NumIter

\* A reply has no key twice.
Distinct == \A i, j \in 1 .. Len(answer) : i # j => answer[i] # answer[j]

\* What the worker has written and read.
WorkerData ==
  /\ worker \in {"pull", "await", "push", "finish", "done"} => cursor = 0
  /\ worker = "request" => \A c \in 1 .. cursor : grad_memory_[c] = Zeros[c]
  /\ worker \in {"pull", "await"} => grad_memory_ = Zeros
  /\ worker = "read" =>
       /\ para_memory_ = Given
       /\ \A c \in 1 .. cursor : weights[c] = Given[c]
  /\ worker = "gradient" =>
       /\ weights = Given /\ Len(answer) = N
       /\ \A c \in 1 .. cursor : grad_memory_[c] = Whole(iteration)[c]
  /\ worker = "push" => grad_memory_ = Whole(iteration)

\* What the agent of a waiting worker has copied and written.
AgentData ==
  worker = "await" =>
    /\ PullUnderWay /\ agent = "copy" =>
         \A c \in Cells \ uncopied : request[c] = Zeros[c]
    /\ agent = "write" =>
         /\ request = Given
         /\ \A k \in 1 .. written :
              para_memory_[WriteOrder(k)] = request[WriteOrder(k)]
    /\ agent = "signal" \/ para_fifo_ # <<>> => para_memory_ = Given

\* What a push can find in the memory, while the worker writes there.
PushData ==
  PushPending =>
    /\ \A c \in Cells : GoodCell(grad_memory_[c], c, iteration)
    /\ agent = "copy" =>
         \A c \in Cells \ uncopied : GoodCell(request[c], c, iteration)

ChannelInv ==
  /\ TypeOK
  /\ Protocol
  /\ Distinct
  /\ WorkerData
  /\ AgentData
  /\ PushData

-----------------------------------------------------------------------------
(* The cells of a memory and the signals in a pipe *)

\* The cells of a memory: every cell is the size, a value or a key.
LEMMA CellSets ==
  /\ N \in Nat \ {0} /\ NumIter \in Nat /\ Last \in Nat /\ Last > 1
  /\ Cells = 1 .. Last /\ SizeCell \in Cells /\ SizeCell \notin ValueCells
  /\ ValueCells \subseteq Cells /\ KeyCells \subseteq Cells
  /\ \A k \in 0 .. Last - 1 : k + 1 \in Cells /\ WriteOrder(k + 1) \in Cells
  BY ChannelAssumption
  DEF Cells, SizeCell, ValueCells, KeyCells, Last, WriteOrder

\* What the worker sends with a pull, cell by cell.
LEMMA ZerosCells ==
  /\ Zeros \in Memories /\ Unset \in Memories
  /\ Zeros[SizeCell] = Size(N)
  /\ \A p \in 1 .. N : Zeros[p + 1] = Zero /\ Zeros[p + N + 1] = Key(p)
  <1>1. \A c \in Cells : c \in KeyCells => Key(c - N - 1) \in Contents
    <2>1. \A c \in KeyCells : c - N - 1 \in 1 .. N
      BY CellSets DEF KeyCells
    <2> QED
      BY <2>1 DEF Contents
  <1>2. Size(N) \in Contents /\ Zero \in Contents /\ Old \in Contents
    BY ChannelAssumption DEF Contents
  <1>3. \A p \in 1 .. N :
          /\ p + 1 \in Cells /\ p + 1 # SizeCell /\ p + 1 \notin KeyCells
          /\ p + N + 1 \in Cells /\ p + N + 1 # SizeCell /\ p + N + 1 \in KeyCells
          /\ (p + N + 1) - N - 1 = p
    BY ChannelAssumption DEF Cells, SizeCell, KeyCells
  <1>4. SizeCell \in Cells
    BY CellSets
  <1> QED
    BY <1>1, <1>2, <1>3, <1>4 DEF Zeros, Unset, Memories

\* What Pull can return: a sequence of different keys.
LEMMA RepliesType ==
  ASSUME NEW ks \in Replies
  PROVE  /\ ks \in Seq(1 .. N) /\ Len(ks) <= N
         /\ \A i, j \in 1 .. Len(ks) : i # j => ks[i] # ks[j]
  <1>1. PICK n \in 1 .. N : ks \in [1 .. n -> 1 .. N]
    BY DEF Replies
  <1>2. n \in Nat /\ n <= N /\ DOMAIN ks = 1 .. n
    BY <1>1, ChannelAssumption
  <1>3. ks \in Seq(1 .. N)
    <2> DEFINE S == 1 .. N
    <2>1. ks \in [1 .. n -> S]
      BY <1>1
    <2> HIDE DEF S
    <2>2. ks \in Seq(S)
      BY <1>2, <2>1
    <2> QED
      BY <2>2 DEF S
  <1>5. Len(ks) = n
    BY <1>2, <1>3, LenProperties
  <1>4. \A i, j \in DOMAIN ks : i # j => ks[i] # ks[j]
    BY DEF Replies
  <1> QED
    BY <1>2, <1>3, <1>4, <1>5

\* What the answer to a pull is made of.
LEMMA AnswerType ==
  ASSUME NEW old \in Memories, NEW j \in 1 .. NumIter + 2,
         NEW ks \in Seq(1 .. N), Len(ks) <= N
  PROVE  Answer(old, j, ks) \in Memories
  <1>1. \A p \in 1 .. Len(ks) : ks[p] \in 1 .. N
    BY ElementOfSeq
  <1>2. Size(Len(ks)) \in Contents
    BY LenProperties, ChannelAssumption DEF Contents
  <1>3. \A p \in 1 .. Len(ks) : /\ Parameter(j, ks[p]) \in Contents
                                /\ Key(ks[p]) \in Contents
    BY <1>1 DEF Contents
  <1>4. \A c \in Cells : old[c] \in Contents
    BY DEF Memories
  <1> QED
    BY <1>2, <1>3, <1>4 DEF Answer, Memories

\* The answer to the pull of this iteration, cell by cell, when it is complete.
LEMMA GivenCells ==
  ASSUME TypeOK
  PROVE  /\ Given = [c \in Cells |-> Given[c]]
         /\ Given[SizeCell] = Size(Len(answer))
         /\ Len(answer) = N =>
              /\ \A p \in 1 .. N : /\ Given[p + 1] = Parameter(iteration + 1, answer[p])
                                   /\ Given[p + N + 1] = Key(answer[p])
              /\ [c \in Cells |-> IF c \in ValueCells THEN Gradient(iteration)
                                  ELSE Given[c]] = Whole(iteration)
  <1>1. SizeCell \in Cells /\ SizeCell \notin ValueCells
    BY CellSets
  <1>2. \A p \in 1 .. N :
          /\ p + 1 \in Cells /\ p + 1 # SizeCell /\ (p + 1) - 1 = p
          /\ p + N + 1 \in Cells /\ p + N + 1 # SizeCell
          /\ (p + N + 1) - 1 \notin 1 .. N /\ (p + N + 1) - N - 1 = p
    BY ChannelAssumption DEF Cells, SizeCell
  <1>3. \A c \in Cells : c # SizeCell /\ c \notin ValueCells =>
          c - 1 \notin 1 .. N /\ c - N - 1 \in 1 .. N
    BY ChannelAssumption DEF Cells, SizeCell, ValueCells
  <1>4. Given = [c \in Cells |-> Given[c]] /\ Given[SizeCell] = Size(Len(answer))
    BY <1>1 DEF Given, Answer
  <1>5. ASSUME Len(answer) = N, NEW p \in 1 .. N
        PROVE  /\ Given[p + 1] = Parameter(iteration + 1, answer[p])
               /\ Given[p + N + 1] = Key(answer[p])
    BY <1>2, <1>5 DEF Given, Answer
  <1>6. ASSUME Len(answer) = N, NEW c \in Cells, c \notin ValueCells
        PROVE  Given[c] = IF c = SizeCell THEN Size(N) ELSE Key(answer[c - N - 1])
    BY <1>3, <1>6 DEF Given, Answer
  <1>7. Len(answer) = N =>
          [c \in Cells |-> IF c \in ValueCells THEN Gradient(iteration) ELSE Given[c]]
            = Whole(iteration)
    BY <1>1, <1>6 DEF Whole
  <1> QED
    BY <1>4, <1>5, <1>7

\* A signal written into a pipe.
LEMMA PipeAppend ==
  ASSUME NEW x \in Nat
  PROVE  Append(<<>>, x) = <<x>> /\ Append(<<1>>, x) = <<1, x>>
  <1> DEFINE p == Append(<<1>>, x)
             q == <<1, x>>
  <1>1. <<1>> \in Seq(Nat) /\ Len(<<1>>) = 1 /\ <<1>>[1] = 1
    OBVIOUS
  <1>2. p \in Seq(Nat) /\ Len(p) = 2 /\ p[1] = 1 /\ p[2] = x
    BY <1>1, AppendProperties
  <1>3. q \in Seq(Nat) /\ Len(q) = 2 /\ q[1] = 1 /\ q[2] = x
    OBVIOUS
  <1> HIDE DEF p, q
  <1>4. \A i \in 1 .. Len(p) : i = 1 \/ i = 2
    BY <1>2
  <1>5. p = q
    BY <1>2, <1>3, <1>4, SeqEqual
  <1> QED
    BY <1>5 DEF p, q

\* The signals in a pipe, and what is left of them when one is read.
LEMMA PipeTail ==
  /\ Tail(<<1>>) = <<>> /\ Tail(<<1, 0>>) = <<0>> /\ Tail(<<1, 2>>) = <<2>>
  /\ Tail(<<0>>) = <<>> /\ Tail(<<2>>) = <<>>
  /\ Head(<<1>>) = 1 /\ Head(<<1, 0>>) = 1 /\ Head(<<1, 2>>) = 1
  /\ Head(<<0>>) = 0 /\ Head(<<2>>) = 2
  OBVIOUS

\* Different signals are told apart.
LEMMA PipesDiffer ==
  /\ <<>> # <<0>> /\ <<>> # <<1>> /\ <<>> # <<2>> /\ <<>> # <<1, 0>>
  /\ <<>> # <<1, 2>> /\ <<0>> # <<1>> /\ <<0>> # <<2>> /\ <<0>> # <<1, 0>>
  /\ <<0>> # <<1, 2>> /\ <<1>> # <<2>> /\ <<1>> # <<1, 0>> /\ <<1>> # <<1, 2>>
  /\ <<2>> # <<1, 0>> /\ <<2>> # <<1, 2>> /\ <<1, 0>> # <<1, 2>>
  OBVIOUS

\* What a pipe may hold.
Pipes == {<<>>, <<0>>, <<1>>, <<2>>, <<1, 0>>, <<1, 2>>}

\* These are pipes of at most two signals.
LEMMA PipeTypes ==
  /\ \A q \in Pipes : q \in Seq(0 .. 2) /\ Len(q) <= 2
  /\ <<>> \in Seq({2}) /\ Len(<<>>) = 0
  /\ <<2>> \in Seq({2}) /\ Len(<<2>>) = 1
  BY DEF Pipes

-----------------------------------------------------------------------------
(* The order of the signals *)

\* What the types say of the counters.
LEMMA Counters ==
  ASSUME TypeOK
  PROVE  /\ iteration \in Nat /\ iteration <= NumIter + 1
         /\ pulls \in Nat /\ pushes \in Nat /\ epoch_num_ \in Nat
         /\ written \in Nat /\ cursor \in Nat /\ cursor < Last
  BY CellSets DEF TypeOK

\* Every step of the worker or the agent keeps them in step.
LEMMA ProtocolStep ==
  ASSUME TypeOK, Protocol, [Next]_vars
  PROVE  Protocol'
  <1> USE CellSets, Counters, PipeTail, PipesDiffer, PipeAppend
  <1> USE DEF Protocol, Between, Awaiting, Computing, Done, Orphaned, Idle,
              PushUnderWay, PullUnderWay, PushPending, Answering, Aborted
  <1>1. CASE WriteRequest
    BY <1>1 DEF WriteRequest, Transfer, agentVars
  <1>2. CASE SignalPull
    BY <1>2 DEF SignalPull, Signal, agentVars
  <1>3. CASE AwaitParameters
    BY <1>3 DEF AwaitParameters, agentVars
  <1>4. CASE ReadFromAgent
    BY <1>4 DEF ReadFromAgent, agentVars
  <1>5. CASE WriteGradient
    BY <1>5 DEF WriteGradient, Transfer, agentVars
  <1>6. CASE SignalPush
    BY <1>6 DEF SignalPush, Signal, agentVars
  <1>7. CASE Finish
    BY <1>7 DEF Finish, Signal, agentVars
  <1>8. CASE Crash
    <2>1. /\ worker' = "crashed"
          /\ UNCHANGED <<grad_fifo_, para_fifo_, iteration, agentVars>>
      BY <1>8 DEF Crash
    <2>2. worker \in {"request", "pull", "finish", "await", "read", "gradient", "push"}
      BY <1>8 DEF Crash, TypeOK
    <2>3. Orphaned
      BY <2>2
    <2> QED
      BY <2>1, <2>3 DEF agentVars
  <1>9. CASE Wait
    <2>1. /\ agent = "wait"
          /\ UNCHANGED <<para_fifo_, workerVars, written, pulls, pushes>>
          /\ \/ agent' = IF signal_type' \in {0, 1} THEN "copy" ELSE "terminate"
             \/ agent' = "aborted"
          /\ epoch_num_' <= pushes
      BY <1>9 DEF Wait, Dispatch, Reconfigurate
    <2>2. CASE /\ grad_fifo_ # <<>> /\ signal_type' = Head(grad_fifo_)
               /\ grad_fifo_' = Tail(grad_fifo_)
      <3>1. CASE agent' = "aborted"
        BY <2>1, <2>2, <3>1 DEF workerVars, TypeOK
      <3>2. CASE agent' # "aborted"
        BY <2>1, <2>2, <3>2 DEF workerVars, TypeOK
      <3> QED
        BY <3>1, <3>2
    <2>3. CASE /\ grad_fifo_ = <<>> /\ Closed /\ signal_type' = 0
               /\ UNCHANGED grad_fifo_
      <3>1. worker = "crashed"
        BY <2>1, <2>3 DEF Closed
      <3> QED
        BY <2>1, <2>3, <3>1 DEF workerVars
    <2> QED
      BY <1>9, <2>2, <2>3 DEF Wait
  <1>10. CASE CopyMemory
    BY <1>10 DEF CopyMemory, workerVars
  <1>11. CASE Pull
    BY <1>11 DEF Pull, workerVars
  <1>12. CASE WriteParameters
    BY <1>12 DEF WriteParameters, workerVars
  <1>13. CASE SignalParameters
    <2>1. /\ agent = "signal"
          /\ UNCHANGED <<grad_fifo_, workerVars, written, epoch_num_, pulls, pushes>>
      BY <1>13 DEF SignalParameters
    <2>2. CASE Closed /\ agent' = "killed"
      <3>1. worker = "crashed" /\ grad_fifo_ = <<>>
        BY <2>1, <2>2 DEF Closed
      <3> QED
        BY <2>1, <2>2, <3>1 DEF workerVars
    <2>3. CASE ~ Closed /\ agent' = "wait" /\ para_fifo_' = Append(para_fifo_, 2)
      <3>1. worker = "await" /\ para_fifo_ = <<>>
        BY <2>1, <2>3 DEF Closed, TypeOK
      <3> QED
        BY <2>1, <2>3, <3>1 DEF workerVars
    <2> QED
      BY <1>13, <2>2, <2>3 DEF SignalParameters
  <1>14. CASE Push
    <2>1. /\ agent = "copy" /\ signal_type = 1 /\ agent' = "wait"
          /\ epoch_num_' = epoch_num_ + 1 /\ pushes' = pushes + 1
          /\ UNCHANGED <<grad_fifo_, para_fifo_, workerVars, written, pulls>>
      BY <1>14 DEF Push
    <2>2. PushPending
      BY <2>1 DEF TypeOK
    <2> QED
      BY <2>1, <2>2 DEF workerVars
  <1>15. CASE Terminate
    BY <1>15 DEF Terminate, workerVars
  <1>16. CASE UNCHANGED vars
    BY <1>16 DEF vars, workerVars, agentVars
  <1> QED
    BY <1>1, <1>2, <1>3, <1>4, <1>5, <1>6, <1>7, <1>8, <1>9, <1>10, <1>11, <1>12, <1>13, <1>14, <1>15, <1>16 DEF Next, WorkerStep, AgentStep

-----------------------------------------------------------------------------
(* The types *)

\* The memories hold what one of the two processes put there; the lengths of
\* the pipes and the counters are bounded by the order of the signals.
LEMMA TypeStep ==
  ASSUME TypeOK, Protocol, Protocol', [Next]_vars
  PROVE  TypeOK'
  <1> DEFINE WorkerSteps == {"request", "pull", "await", "read", "gradient",
                             "push", "finish", "done", "crashed"}
  <1>0. /\ Memories = [Cells -> Contents] /\ Last \in Nat
        /\ \A k \in 0 .. Last - 1 : k + 1 \in Cells /\ WriteOrder(k + 1) \in Cells
    BY CellSets DEF Memories
  <1>1. ASSUME worker' \in WorkerSteps PROVE grad_fifo_' \in Seq(0 .. 2) /\ Len(grad_fifo_') <= 2
    <2>1. grad_fifo_' \in Pipes
      BY <1>1, PipeTail
      DEF Protocol, Between, Awaiting, Computing, Done, Orphaned, Idle, Pipes,
          PushUnderWay, PullUnderWay, Answering, Aborted
    <2> QED
      BY <2>1, PipeTypes
  <1>2. CASE WriteRequest
    <2>1. grad_memory_' \in Memories
      BY <1>0, <1>2, ZerosCells DEF WriteRequest, Transfer, TypeOK
    <2> QED
      BY <1>0, <1>2, <2>1 DEF WriteRequest, Transfer, TypeOK, agentVars
  <1>3. CASE SignalPull
    BY <1>1, <1>3 DEF SignalPull, Signal, TypeOK, agentVars
  <1>4. CASE AwaitParameters
    <2>1. para_fifo_' = <<>>
      BY <1>4, PipeTail DEF AwaitParameters, Protocol, Awaiting
    <2> QED
      BY <1>4, <2>1, PipeTypes DEF AwaitParameters, TypeOK, agentVars
  <1>5. CASE ReadFromAgent
    <2>1. weights' \in Memories
      BY <1>0, <1>5 DEF ReadFromAgent, TypeOK
    <2>2. worker' \in {"read", "gradient", "crashed"} /\ cursor' \in 0 .. Last - 1
      BY <1>0, <1>5 DEF ReadFromAgent, TypeOK
    <2> QED
      BY <1>5, <2>1, <2>2 DEF ReadFromAgent, TypeOK, agentVars
  <1>6. CASE WriteGradient
    <2>1. Gradient(iteration) \in Contents
      BY <1>6, ChannelAssumption
      DEF WriteGradient, Transfer, Protocol, TypeOK, Contents
    <2>2. NewGradient \in Memories
      BY <1>0, <2>1 DEF NewGradient, TypeOK
    <2>3. grad_memory_' \in Memories
      BY <1>0, <1>6, <2>2 DEF WriteGradient, Transfer, TypeOK
    <2> QED
      BY <1>0, <1>6, <2>3 DEF WriteGradient, Transfer, TypeOK, agentVars
  <1>7. CASE SignalPush
    <2>1. iteration <= NumIter
      BY <1>7 DEF SignalPush, Signal, Protocol
    <2>2. weights' \in Memories
      BY <1>7, ZerosCells DEF SignalPush
    <2> QED
      BY <1>1, <1>7, <2>1, <2>2, ChannelAssumption DEF SignalPush, Signal, TypeOK, agentVars
  <1>8. CASE Finish
    BY <1>1, <1>8 DEF Finish, Signal, TypeOK, agentVars
  <1>9. CASE Crash
    BY <1>9 DEF Crash, TypeOK, agentVars
  <1>10. CASE Wait
    <2>1. signal_type' \in 0 .. 2
      BY <1>10, HeadTailProperties DEF Wait, TypeOK
    <2>2. epoch_num_' \in 0 .. NumIter + 1 /\ split' \in Splits
      BY <1>10, CellSets DEF Wait, Dispatch, Reconfigurate, TypeOK
    <2>3. agent' \in {"copy", "terminate", "aborted"} /\ uncopied' = Cells
      BY <1>10 DEF Wait, Dispatch
    <2>4. UNCHANGED <<grad_memory_, para_memory_, para_fifo_, workerVars, request,
                      written, pulls, pushes, answer>>
      BY <1>10 DEF Wait, Dispatch
    <2> QED
      BY <1>1, <2>1, <2>2, <2>3, <2>4 DEF TypeOK, workerVars
  <1>11. CASE CopyMemory
    <2>1. request' \in Memories /\ uncopied' \subseteq Cells
      BY <1>0, <1>11 DEF CopyMemory, TypeOK
    <2> QED
      BY <1>11, <2>1 DEF CopyMemory, TypeOK, workerVars
  <1>12. CASE Pull
    <2>1. pulls + 1 \in 1 .. NumIter + 2
      BY <1>12, ChannelAssumption, PipeTail, PipesDiffer
      DEF Pull, Protocol, Between, Awaiting, Computing, Done, Orphaned, Idle,
          PushUnderWay, PullUnderWay, Answering, Aborted, TypeOK
    <2>2. answer' \in Seq(1 .. N) /\ Len(answer') <= N
      <3>1. CASE answer' \in Replies
        BY <3>1, RepliesType
      <3>2. CASE answer' = <<>>
        BY <3>2, ChannelAssumption
      <3> QED
        BY <1>12, <3>1, <3>2 DEF Pull
    <2>3. request' \in Memories
      BY <1>12, <2>1, <2>2, AnswerType DEF Pull, TypeOK
    <2>4. written' \in 0 .. Last /\ pulls' \in 0 .. NumIter + 2
      BY <1>0, <1>12, <2>1 DEF Pull
    <2> QED
      BY <1>12, <2>2, <2>3, <2>4 DEF Pull, TypeOK, workerVars
  <1>13. CASE WriteParameters
    <2>1. written \in 0 .. Last - 1
      BY <1>0, <1>13 DEF WriteParameters, Protocol, TypeOK
    <2>2. para_memory_' \in Memories
      BY <1>0, <1>13, <2>1 DEF WriteParameters, TypeOK
    <2>3. written' \in 0 .. Last
      BY <1>0, <1>13, <2>1 DEF WriteParameters
    <2> QED
      BY <1>13, <2>2, <2>3 DEF WriteParameters, TypeOK, workerVars
  <1>14. CASE SignalParameters
    <2>0. request' \in Memories
      BY <1>14, ZerosCells DEF SignalParameters
    <2>1. CASE Closed
      BY <1>14, <2>0, <2>1 DEF SignalParameters, TypeOK, workerVars
    <2>2. CASE ~ Closed
      <3>1. para_fifo_ = <<>>
        BY <1>14, <2>2
        DEF SignalParameters, Closed, Protocol, Between, Awaiting, Computing,
            Idle, PushUnderWay, PullUnderWay, Aborted, TypeOK
      <3>2. para_fifo_' = <<2>>
        BY <1>14, <2>2, <3>1, PipeAppend DEF SignalParameters
      <3> QED
        BY <1>14, <2>0, <2>2, <3>2, PipeTypes DEF SignalParameters, TypeOK, workerVars
    <2> QED
      BY <2>1, <2>2
  <1>15. CASE Push
    <2>1. epoch_num_' \in 0 .. NumIter + 1 /\ pushes' \in 0 .. NumIter + 1
      <3>1. PushPending
        BY <1>15, PipeTail, PipesDiffer
        DEF Push, Protocol, Between, Awaiting, Computing, Done, Orphaned, Idle,
            PushUnderWay, PullUnderWay, Answering, Aborted, PushPending, TypeOK
      <3>2. /\ pushes + 1 = iteration /\ epoch_num_ <= pushes /\ iteration <= NumIter + 1
            /\ pushes \in Nat /\ epoch_num_ \in Nat /\ NumIter \in Nat
        BY <3>1, Counters, CellSets DEF Protocol
      <3>3. epoch_num_' = epoch_num_ + 1 /\ pushes' = pushes + 1
        BY <1>15 DEF Push
      <3> QED
        BY <3>2, <3>3
    <2>2. request' \in Memories
      BY <1>15, ZerosCells DEF Push
    <2> QED
      BY <1>15, <2>1, <2>2 DEF Push, TypeOK, workerVars
  <1>16. CASE Terminate
    BY <1>16 DEF Terminate, TypeOK, workerVars
  <1>17. CASE UNCHANGED vars
    BY <1>17 DEF vars, workerVars, agentVars, TypeOK
  <1> QED
    BY <1>2, <1>3, <1>4, <1>5, <1>6, <1>7, <1>8, <1>9, <1>10, <1>11, <1>12,
       <1>13, <1>14, <1>15, <1>16, <1>17
    DEF Next, WorkerStep, AgentStep

-----------------------------------------------------------------------------
(* What the memories hold *)

\* Whatever the order of the replies, no key is returned twice.
LEMMA DistinctStep ==
  ASSUME Distinct, [Next]_vars
  PROVE  Distinct'
  <1>1. CASE Pull
    <2>1. CASE answer' \in Replies
      BY <2>1, RepliesType DEF Distinct
    <2>2. CASE answer' = <<>>
      BY <2>2 DEF Distinct
    <2> QED
      BY <1>1, <2>1, <2>2 DEF Pull
  <1>2. ASSUME ~ Pull PROVE answer' = answer
    BY <1>2
    DEF Next, WorkerStep, AgentStep, Crash, WriteRequest, WriteGradient, Transfer,
        SignalPull, SignalPush, Finish, Signal, AwaitParameters, ReadFromAgent,
        Wait, Dispatch, CopyMemory, WriteParameters, SignalParameters, Push,
        Terminate, vars, agentVars
  <1> QED
    BY <1>1, <1>2 DEF Distinct

\* The worker finds the agent's answer in the memory and puts there what it
\* means to: the agent writes only while the worker waits.
LEMMA WorkerDataStep ==
  ASSUME TypeOK, Protocol, WorkerData, AgentData, [Next]_vars
  PROVE  WorkerData'
  <1>0. /\ Cells = 1 .. Last /\ Last \in Nat /\ Last > 1
        /\ cursor \in Nat /\ cursor < Last /\ iteration \in Nat
        /\ grad_memory_ \in [Cells -> Contents] /\ weights \in [Cells -> Contents]
        /\ Zeros \in [Cells -> Contents]
    BY CellSets, Counters, ZerosCells DEF TypeOK, Memories
  <1>1. CASE WriteRequest
    <2>1. /\ worker = "request" /\ UNCHANGED <<iteration, weights, para_memory_>>
          /\ grad_memory_' = [grad_memory_ EXCEPT ![cursor + 1] = Zeros[cursor + 1]]
          /\ \/ cursor + 1 = Last /\ worker' = "pull" /\ cursor' = 0
             \/ cursor' = cursor + 1 /\ worker' = "request"
      BY <1>1 DEF WriteRequest, Transfer
    <2>2. \A c \in 1 .. cursor + 1 : grad_memory_'[c] = Zeros[c]
      BY <1>0, <2>1 DEF WorkerData
    <2>3. cursor + 1 = Last => grad_memory_' = Zeros
      BY <1>0, <2>1, <2>2
    <2> QED
      BY <2>1, <2>2, <2>3 DEF WorkerData
  <1>2. CASE WriteGradient
    <2>1. /\ worker = "gradient" /\ UNCHANGED <<iteration, weights, para_memory_>>
          /\ grad_memory_' = [grad_memory_ EXCEPT ![cursor + 1] = NewGradient[cursor + 1]]
          /\ \/ cursor + 1 = Last /\ worker' = "push" /\ cursor' = 0
             \/ cursor' = cursor + 1 /\ worker' = "gradient"
      BY <1>2 DEF WriteGradient, Transfer
    <2>2. weights = Given /\ Len(answer) = N /\ answer' = answer
      BY <1>2, <2>1 DEF WriteGradient, Transfer, WorkerData, agentVars
    <2> DEFINE G == Whole(iteration)
    <2>3. NewGradient = G
      BY <2>2, GivenCells DEF NewGradient
    <2>4. G = [c \in Cells |-> G[c]]
      BY DEF Whole
    <2>5. \A c \in 1 .. cursor : grad_memory_[c] = G[c]
      BY <2>1 DEF WorkerData
    <2>6. G' = G /\ Given' = Given
      BY <2>1, <2>2 DEF Whole, Given
    <2> HIDE DEF G
    <2>7. \A c \in 1 .. cursor + 1 : grad_memory_'[c] = G[c]
      BY <1>0, <2>1, <2>3, <2>5
    <2>8. cursor + 1 = Last => grad_memory_' = G
      BY <1>0, <2>1, <2>4, <2>7
    <2>9. /\ Whole(iteration)' = Whole(iteration)
          /\ \A c \in 1 .. cursor + 1 : grad_memory_'[c] = Whole(iteration)[c]
          /\ cursor + 1 = Last => grad_memory_' = Whole(iteration)
      BY <2>6, <2>7, <2>8 DEF G
    <2> QED
      BY <2>1, <2>2, <2>6, <2>9 DEF WorkerData
  <1>3. CASE SignalPull
    BY <1>3 DEF SignalPull, Signal, WorkerData
  <1>4. CASE AwaitParameters
    <2>1. /\ worker = "await" /\ worker' = "read" /\ cursor = 0 /\ cursor' = 0
          /\ para_memory_ = Given /\ para_memory_' = para_memory_
      BY <1>4 DEF AwaitParameters, WorkerData, AgentData
    <2>2. Given' = Given
      BY <1>4 DEF AwaitParameters, Given, agentVars
    <2>3. \A c \in 1 .. 0 : FALSE
      OBVIOUS
    <2> QED
      BY <2>1, <2>2, <2>3 DEF WorkerData
  <1>5. CASE ReadFromAgent
    <2>1. /\ worker = "read" /\ UNCHANGED <<iteration, grad_memory_, para_memory_, answer>>
          /\ weights' = [weights EXCEPT ![cursor + 1] = para_memory_[cursor + 1]]
          /\ \/ /\ cursor + 1 = Last /\ cursor' = 0
                /\ \/ worker' = "gradient" /\ weights'[SizeCell] = Size(N)
                   \/ worker' = "crashed"
             \/ cursor' = cursor + 1 /\ worker' = "read"
          /\ para_memory_ = Given
      BY <1>5 DEF ReadFromAgent, WorkerData, agentVars
    <2> DEFINE R == Given
    <2>2. R = [c \in Cells |-> R[c]] /\ R[SizeCell] = Size(Len(answer))
      BY GivenCells
    <2>3. \A c \in 1 .. cursor : weights[c] = R[c]
      BY <2>1 DEF WorkerData
    <2>4. R' = R
      BY <2>1 DEF Given
    <2> HIDE DEF R
    <2>5. para_memory_ = R
      BY <2>1 DEF R
    <2>6. \A c \in 1 .. cursor + 1 : weights'[c] = R[c]
      BY <1>0, <2>1, <2>3, <2>5
    <2>7. cursor + 1 = Last => weights' = R
      BY <1>0, <2>1, <2>2, <2>6
    <2>8. worker' = "gradient" => Len(answer) = N
      <3> SUFFICES ASSUME worker' = "gradient" PROVE Len(answer) = N
        OBVIOUS
      <3>1. weights' = R /\ weights'[SizeCell] = Size(N)
        BY <2>1, <2>7
      <3>2. Size(N) = Size(Len(answer))
        BY <2>2, <3>1
      <3> QED
        BY <3>2 DEF Size
    <2>9. \A c \in 1 .. 0 : FALSE
      OBVIOUS
    <2>10. /\ Given' = Given /\ \A c \in 1 .. cursor + 1 : weights'[c] = Given[c]
           /\ cursor + 1 = Last => weights' = Given
      BY <2>4, <2>6, <2>7 DEF R
    <2> QED
      BY <2>1, <2>8, <2>9, <2>10 DEF WorkerData
  <1>6. CASE SignalPush
    <2>1. /\ worker = "push" /\ worker' \in {"finish", "request"} /\ cursor' = 0
      BY <1>6 DEF SignalPush, Signal, WorkerData
    <2>2. \A c \in 1 .. 0 : FALSE
      OBVIOUS
    <2> QED
      BY <2>1, <2>2 DEF WorkerData
  <1>7. CASE Finish
    BY <1>7 DEF Finish, Signal, WorkerData
  <1>8. CASE Crash
    BY <1>8 DEF Crash, WorkerData
  <1>9. CASE WriteParameters
    <2>1. worker \in {"await", "crashed"}
      BY <1>9
      DEF WriteParameters, Protocol, Between, Computing, Done, Idle,
          PushUnderWay, Aborted, TypeOK
    <2> QED
      BY <1>9, <2>1 DEF WriteParameters, WorkerData, workerVars
  <1>10. CASE UNCHANGED <<workerVars, grad_memory_, para_memory_, answer>>
    BY <1>10 DEF WorkerData, workerVars, Given, Whole
  <1>11. CASE Pull
    <2>1. worker \in {"await", "crashed"}
      BY <1>11, PipesDiffer, PipeTail
      DEF Pull, Protocol, Between, Computing, Done, Idle, PushUnderWay, Aborted,
          TypeOK
    <2> QED
      BY <1>11, <2>1 DEF Pull, WorkerData, workerVars
  <1>12. ASSUME AgentStep, ~ WriteParameters, ~ Pull
         PROVE  UNCHANGED <<workerVars, grad_memory_, para_memory_, answer>>
    BY <1>12
    DEF AgentStep, Wait, Dispatch, CopyMemory, SignalParameters, Push, Terminate
  <1> QED
    BY <1>1, <1>2, <1>3, <1>4, <1>5, <1>6, <1>7, <1>8, <1>9, <1>10, <1>11, <1>12
    DEF Next, WorkerStep, vars, agentVars

\* The agent finds the request of a waiting worker in the memory, and the memory
\* of the answer is whole before it is signalled: the worker writes only while
\* it does not wait.
LEMMA AgentDataStep ==
  ASSUME TypeOK, Protocol, Protocol', WorkerData, AgentData, [Next]_vars
  PROVE  AgentData'
  <1>0. /\ Cells = 1 .. Last /\ Last \in Nat /\ Last > 1 /\ iteration \in Nat
        /\ written \in Nat
        /\ para_memory_ \in [Cells -> Contents] /\ request \in [Cells -> Contents]
        /\ Zeros \in [Cells -> Contents]
    BY CellSets, Counters, ZerosCells DEF TypeOK, Memories
  <1>1. CASE worker' # "await"
    BY <1>1 DEF AgentData
  <1>2. CASE SignalPull
    <2>1. /\ agent' = agent /\ para_fifo_' = <<>>
          /\ agent \in {"wait", "copy", "aborted"}
          /\ agent' = "copy" => signal_type' = 1
      BY <1>2
      DEF SignalPull, Signal, Protocol, Between, Idle, PushUnderWay, Aborted, agentVars
    <2> QED
      BY <2>1 DEF AgentData, PullUnderWay
  <1> SUFFICES ASSUME worker' = "await", worker = "await", iteration' = iteration
               PROVE  AgentData'
    <2>1. ASSUME WorkerStep, worker' = "await", ~ SignalPull PROVE FALSE
      BY <2>1
      DEF WorkerStep, WriteRequest, WriteGradient, Transfer, AwaitParameters,
          ReadFromAgent, SignalPush, Finish, Signal
    <2>2. AgentStep => UNCHANGED <<worker, iteration>>
      BY DEF AgentStep, Wait, Dispatch, CopyMemory, Pull, WriteParameters,
             SignalParameters, Push, Terminate, workerVars
    <2> QED
      BY <1>1, <1>2, <2>1, <2>2 DEF Next, Crash, vars, workerVars
  <1>3. grad_memory_ = Zeros
    BY DEF WorkerData
  <1>4. CASE Wait
    <2>1. /\ agent = "wait" /\ agent' \in {"copy", "terminate", "aborted"}
          /\ UNCHANGED para_fifo_ /\ uncopied' = Cells /\ grad_fifo_ # <<>>
      BY <1>4 DEF Wait, Dispatch, Closed
    <2>2. para_fifo_ = <<>>
      BY <2>1 DEF Protocol, Awaiting, Answering, Idle
    <2> QED
      BY <2>1, <2>2 DEF AgentData
  <1>5. CASE CopyMemory
    <2>1. /\ agent = "copy"
          /\ UNCHANGED <<agent, signal_type, para_fifo_, para_memory_, grad_fifo_>>
          /\ \E c \in uncopied : /\ request' = [request EXCEPT ![c] = grad_memory_[c]]
                                 /\ uncopied' = uncopied \ {c}
      BY <1>5 DEF CopyMemory
    <2>2. uncopied \subseteq Cells
      BY DEF TypeOK
    <2>3. PullUnderWay => \A c \in Cells \ uncopied' : request'[c] = Zeros[c]
      BY <1>0, <1>3, <2>1, <2>2 DEF AgentData
    <2>4. para_fifo_ = <<>>
      BY <2>1 DEF Protocol, Awaiting, Idle
    <2> QED
      BY <2>1, <2>3, <2>4 DEF AgentData, PullUnderWay
  <1>6. CASE Pull
    <2>1. /\ agent = "copy" /\ agent' = "write" /\ written' = 0 /\ uncopied = {}
          /\ signal_type = 0 /\ UNCHANGED para_fifo_
          /\ request' = Answer(request, pulls + 1, answer')
      BY <1>6 DEF Pull
    <2>2. PullUnderWay /\ pulls = iteration /\ para_fifo_ = <<>>
      BY <2>1 DEF Protocol, Awaiting, PushUnderWay, Answering, Idle, Aborted
    <2>3. request = Zeros
      <3>1. \A c \in Cells : request[c] = Zeros[c]
        BY <2>1, <2>2 DEF AgentData
      <3> QED
        BY <1>0, <3>1
    <2>4. request' = Given'
      BY <2>1, <2>2, <2>3 DEF Given
    <2>5. \A k \in 1 .. 0 : FALSE
      OBVIOUS
    <2> QED
      BY <2>1, <2>2, <2>4, <2>5 DEF AgentData
  <1>7. CASE WriteParameters
    <2> DEFINE w == WriteOrder(written + 1)
               Q == request
    <2>0. Given' = Given
      BY <1>7 DEF WriteParameters, Given, workerVars
    <2>1. /\ agent = "write" /\ written' = written + 1 /\ UNCHANGED <<request, para_fifo_>>
          /\ para_memory_' = [para_memory_ EXCEPT ![w] = request[w]]
          /\ agent' = IF written + 1 = Last THEN "signal" ELSE "write"
      BY <1>7 DEF WriteParameters
    <2>2. para_fifo_ = <<>> /\ written < Last
      BY <2>1 DEF Protocol, Awaiting, PushUnderWay, PullUnderWay, Idle, Aborted
    <2>3. request = Given
      BY <2>1 DEF AgentData
    <2>4. \A k \in 1 .. written + 1 : WriteOrder(k) \in Cells
      BY <1>0, <2>2 DEF WriteOrder, SizeCell
    <2>5. \A k \in 1 .. written + 1 :
            para_memory_'[WriteOrder(k)] = request[WriteOrder(k)]
      <3>1. \A k \in 1 .. written : para_memory_[WriteOrder(k)] = request[WriteOrder(k)]
        BY <2>1 DEF AgentData
      <3>2. \A k \in 1 .. written + 1 : k \in 1 .. written \/ k = written + 1
        BY <1>0
      <3>3. \A c \in Cells : para_memory_'[c] = IF c = w THEN request[c] ELSE para_memory_[c]
        BY <1>0, <2>1
      <3> HIDE DEF w
      <3> QED
        BY <2>4, <3>1, <3>2, <3>3 DEF w
    <2>6. ASSUME written + 1 = Last PROVE para_memory_' = request
      <3>1. \A c \in Cells : \E k \in 1 .. Last : WriteOrder(k) = c
        <4> TAKE c \in Cells
        <4>1. CASE c = 1
          BY <1>0, <4>1 DEF WriteOrder, SizeCell
        <4>2. CASE c # 1
          <5>1. c - 1 \in 1 .. Last /\ c - 1 # Last
            BY <1>0, <4>2
          <5>2. WriteOrder(c - 1) = c
            BY <1>0, <5>1 DEF WriteOrder
          <5> QED
            BY <5>1, <5>2
        <4> QED
          BY <4>1, <4>2
      <3>2. \A c \in Cells : para_memory_'[c] = request[c]
        BY <2>5, <2>6, <3>1
      <3> HIDE DEF w
      <3> QED
        BY <1>0, <2>1, <3>2
    <2> QED
      BY <2>0, <2>1, <2>2, <2>3, <2>5, <2>6 DEF AgentData
  <1>8. CASE SignalParameters
    <2>1. agent = "signal" /\ agent' = "wait" /\ UNCHANGED para_memory_ /\ Given' = Given
      BY <1>8 DEF SignalParameters, Closed, Given, workerVars
    <2> QED
      BY <2>1 DEF AgentData
  <1>9. CASE Push
    <2>1. agent = "copy" /\ agent' = "wait" /\ UNCHANGED para_fifo_
      BY <1>9 DEF Push
    <2>2. para_fifo_ = <<>>
      BY <2>1 DEF Protocol, Awaiting, Idle, Aborted
    <2> QED
      BY <2>1, <2>2 DEF AgentData
  <1>10. CASE Terminate
    <2>1. agent = "terminate"
      BY <1>10 DEF Terminate
    <2> QED
      BY <2>1 DEF Protocol, Awaiting, PushUnderWay, PullUnderWay, Answering, Idle,
                  Aborted
  <1>11. CASE UNCHANGED vars
    BY <1>11 DEF vars, agentVars, workerVars, AgentData, PullUnderWay, Given
  <1>12. ~ WorkerStep /\ ~ Crash
    BY DEF WorkerStep, WriteRequest, WriteGradient, Transfer, AwaitParameters,
           ReadFromAgent, SignalPull, SignalPush, Finish, Signal, Crash
  <1> QED
    BY <1>4, <1>5, <1>6, <1>7, <1>8, <1>9, <1>10, <1>11, <1>12 DEF Next, AgentStep

\* Only SignalPush makes a push pending.
LEMMA PushStaysPending ==
  ASSUME TypeOK, Protocol, [Next]_vars, ~ SignalPush, PushPending'
  PROVE  PushPending /\ iteration' = iteration
  <1> USE PipeTail, PipesDiffer
  <1> USE DEF PushPending, PushUnderWay
  <1>1. CASE Wait
    <2>1. agent = "wait" /\ iteration' = iteration
      BY <1>1 DEF Wait, Dispatch, workerVars
    <2>2. agent' = "copy" /\ signal_type' = 1
      BY <1>1 DEF Wait, Dispatch
    <2>3. grad_fifo_ # <<>> /\ Head(grad_fifo_) = 1
      BY <1>1, <2>2 DEF Wait
    <2>4. grad_fifo_ \in Pipes
      BY <2>1
      DEF Protocol, Between, Awaiting, Computing, Done, Orphaned, Idle, Pipes,
          PullUnderWay, Answering, Aborted, TypeOK
    <2> QED
      BY <2>1, <2>3, <2>4 DEF Pipes
  <1>2. CASE SignalPull \/ Finish
    BY <1>2, PipeAppend
    DEF SignalPull, Finish, Signal, Protocol, Between, Idle, Aborted, agentVars
  <1>3. CASE WriteRequest \/ WriteGradient \/ AwaitParameters \/ ReadFromAgent \/ Crash
    BY <1>3
    DEF WriteRequest, WriteGradient, Transfer, AwaitParameters, ReadFromAgent,
        Crash, agentVars
  <1>4. CASE CopyMemory \/ Pull \/ WriteParameters \/ Terminate
    BY <1>4 DEF CopyMemory, Pull, WriteParameters, Terminate, workerVars
  <1>5. CASE SignalParameters
    <2>1. agent = "signal" /\ grad_fifo_' = grad_fifo_ /\ agent' # "copy"
      BY <1>5 DEF SignalParameters
    <2>2. grad_fifo_ = <<>>
      BY <2>1
      DEF Protocol, Between, Awaiting, Computing, Done, Orphaned, Idle,
          PullUnderWay, Answering, Aborted, TypeOK
    <2> QED
      BY <2>1, <2>2
  <1>6. CASE Push
    <2>1. /\ agent = "copy" /\ signal_type = 1 /\ agent' = "wait"
          /\ grad_fifo_' = grad_fifo_
      BY <1>6 DEF Push
    <2>2. grad_fifo_ \in {<<>>, <<0>>, <<2>>}
      BY <2>1
      DEF Protocol, Between, Awaiting, Computing, Done, Orphaned, Idle,
          PullUnderWay, Answering, Aborted, TypeOK
    <2> QED
      BY <2>1, <2>2
  <1>7. CASE UNCHANGED vars
    BY <1>7 DEF vars, workerVars, agentVars
  <1> QED
    BY <1>1, <1>2, <1>3, <1>4, <1>5, <1>6, <1>7 DEF Next, WorkerStep, AgentStep

\* While a push is pending the worker writes nothing but the zeros of its next
\* request.
LEMMA PushDataStep ==
  ASSUME TypeOK, Protocol, WorkerData, PushData, [Next]_vars
  PROVE  PushData'
  <1>0. /\ iteration \in Nat /\ cursor + 1 \in Cells /\ NumIter \in Nat
        /\ grad_memory_ \in [Cells -> Contents] /\ request \in [Cells -> Contents]
        /\ uncopied \subseteq Cells
    BY CellSets, Counters DEF TypeOK, Memories
  <1> SUFFICES ASSUME PushPending' PROVE PushData'
    BY DEF PushData
  <1>1. CASE SignalPush
    <2>1. /\ worker = "push" /\ UNCHANGED <<grad_memory_, agent>>
          /\ iteration' = iteration + 1
      BY <1>1 DEF SignalPush, Signal, agentVars
    <2>2. grad_memory_ = Whole(iteration) /\ agent = "wait"
      BY <2>1 DEF WorkerData, Protocol, Computing, Idle
    <2>3. (iteration + 1) - 1 = iteration /\ answer' = answer
      BY <1>0, <1>1 DEF SignalPush, Signal, agentVars
    <2>4. \A c \in Cells : GoodCell(grad_memory_[c], c, iteration)'
      BY <2>1, <2>2, <2>3 DEF GoodCell, Whole
    <2> QED
      BY <2>1, <2>2, <2>4 DEF PushData
  <1> SUFFICES ASSUME PushPending, iteration' = iteration, ~ SignalPush
               PROVE  PushData'
    BY <1>1, PushStaysPending
  <1> DEFINE Good(v, c) == 
        v = Whole(iteration - 1)[c] \/ (v = Zeros[c] /\ iteration <= NumIter)
  <1>2. \A c \in Cells : Good(grad_memory_[c], c)
    BY DEF PushData, GoodCell
  <1>3. agent = "copy" => \A c \in Cells \ uncopied : Good(request[c], c)
    BY DEF PushData, GoodCell
  <1>20. ASSUME answer' = answer, \A c \in Cells : Good(grad_memory_'[c], c),
               agent' = "copy" => \A c \in Cells \ uncopied' : Good(request'[c], c)
        PROVE  PushData'
    BY <1>20 DEF PushData, GoodCell, Whole
  <1> HIDE DEF Good
  <1>4. CASE WriteRequest
    <2>1. /\ worker = "request" /\ UNCHANGED <<agent, uncopied, request, answer>>
          /\ grad_memory_' = [grad_memory_ EXCEPT ![cursor + 1] = Zeros[cursor + 1]]
      BY <1>4 DEF WriteRequest, Transfer, agentVars
    <2>2. Good(Zeros[cursor + 1], cursor + 1)
      BY <2>1 DEF Protocol, Good
    <2>3. \A c \in Cells : Good(grad_memory_'[c], c)
      BY <1>0, <1>2, <2>1, <2>2
    <2> QED
      BY <1>3, <1>20, <2>1, <2>3
  <1>5. CASE WriteGradient
    <2>1. worker = "gradient"
      BY <1>5 DEF WriteGradient, Transfer
    <2> QED
      BY <2>1, PipesDiffer DEF Protocol, Computing, Idle, PushPending, PushUnderWay
  <1>6. CASE Wait
    <2>1. uncopied' = Cells /\ UNCHANGED <<grad_memory_, answer>>
      BY <1>6 DEF Wait, Dispatch
    <2> QED
      BY <1>2, <1>20, <2>1
  <1>7. CASE CopyMemory
    <2>1. /\ agent = "copy" /\ UNCHANGED <<grad_memory_, answer>>
          /\ \E c \in uncopied : /\ request' = [request EXCEPT ![c] = grad_memory_[c]]
                                 /\ uncopied' = uncopied \ {c}
      BY <1>7 DEF CopyMemory
    <2>2. \A c \in Cells \ uncopied' : Good(request'[c], c)
      BY <1>0, <1>2, <1>3, <2>1
    <2> QED
      BY <1>2, <1>20, <2>1, <2>2
  <1>8. CASE UNCHANGED <<grad_memory_, agent, uncopied, request, answer>>
    BY <1>2, <1>3, <1>8, <1>20
  <1>9. CASE UNCHANGED <<grad_memory_, answer>> /\ agent' # "copy"
    BY <1>2, <1>9, <1>20
  <1>10. CASE SignalPull \/ Finish \/ AwaitParameters \/ ReadFromAgent \/ Crash
    BY <1>8, <1>10
    DEF SignalPull, Finish, Signal, AwaitParameters, ReadFromAgent, Crash, agentVars
  <1>11. CASE WriteParameters \/ SignalParameters \/ Push \/ Terminate
    BY <1>9, <1>11 DEF WriteParameters, SignalParameters, Push, Terminate
  <1>12. CASE Pull
    <2>1. agent' = "write"
      BY <1>12 DEF Pull
    <2> QED
      BY <2>1 DEF PushPending, PushUnderWay
  <1>13. CASE UNCHANGED vars
    BY <1>8, <1>13 DEF vars, agentVars
  <1> QED
    BY <1>4, <1>5, <1>6, <1>7, <1>10, <1>11, <1>12, <1>13 DEF Next, WorkerStep, AgentStep

-----------------------------------------------------------------------------
(* The theorems *)

\* The invariant of the channel holds initially: whatever an earlier job left in
\* the memories, nothing is signalled.
LEMMA ChannelInit == Init => ChannelInv
  <1> SUFFICES ASSUME Init PROVE ChannelInv
    OBVIOUS
  <1>0. /\ NumIter \in Nat /\ Last \in Nat /\ Last > 1
        /\ \A c \in 1 .. 0 : FALSE
        /\ Len(<<>>) = 0 /\ <<>> \in Seq(1 .. N) /\ 0 <= N
    BY CellSets
  <1>1. Unset \in Memories
    BY ZerosCells
  <1>2. TypeOK
    BY <1>0, <1>1, PipeTypes DEF Init, TypeOK, Pipes
  <1>3. ~ PushPending /\ Idle
    BY PipesDiffer DEF Init, PushPending, PushUnderWay, Idle
  <1>4. Protocol
    BY <1>0, <1>3 DEF Init, Protocol, Between
  <1>5. WorkerData /\ AgentData /\ PushData
    BY <1>0, <1>3 DEF Init, WorkerData, AgentData, PushData
  <1>6. Distinct
    BY <1>0 DEF Init, Distinct
  <1> QED
    BY <1>2, <1>4, <1>5, <1>6 DEF ChannelInv

\* Every step of the worker, of the agent and of a crash preserves it.
LEMMA ChannelNext == ChannelInv /\ [Next]_vars => ChannelInv'
  <1> SUFFICES ASSUME ChannelInv, [Next]_vars PROVE ChannelInv'
    OBVIOUS
  <1>1. TypeOK /\ Protocol /\ Distinct /\ WorkerData /\ AgentData /\ PushData
    BY DEF ChannelInv
  <1>2. Protocol'
    BY <1>1, ProtocolStep
  <1>3. TypeOK'
    BY <1>1, <1>2, TypeStep
  <1>4. WorkerData'
    BY <1>1, WorkerDataStep
  <1>5. AgentData'
    BY <1>1, <1>2, AgentDataStep
  <1>6. PushData'
    BY <1>1, PushDataStep
  <1>7. Distinct'
    BY <1>1, DistinctStep
  <1> QED
    BY <1>2, <1>3, <1>4, <1>5, <1>6, <1>7 DEF ChannelInv

\* The invariant of the channel holds in every reachable state, for any number
\* of parameters and iterations, any partitions of the keys, a new configuration
\* at any signal and a worker that may crash at any moment.
THEOREM ChannelInvariance == Spec => []ChannelInv
  BY ChannelInit, ChannelNext, PTL DEF Spec

\* The memories, pipes and counters keep their types; a pipe never holds more
\* than a push and the signal after it, so no write to it blocks.
THEOREM ChannelTypeCorrect == Spec => []TypeOK
  <1>1. ChannelInv => TypeOK
    BY DEF ChannelInv
  <1> QED
    BY <1>1, ChannelInvariance, PTL

\* AgentWork copies the request of a waiting worker whole, in whichever order it
\* copies the cells.
THEOREM RequestsSeen == Spec => []PullSeesRequest
  <1>1. ChannelInv => PullSeesRequest
    <2> SUFFICES ASSUME ChannelInv, agent = "copy", uncopied = {},
                        signal_type = 0, worker = "await"
                 PROVE  request = Zeros /\ pushes = iteration
      BY DEF PullSeesRequest
    <2>1. PullUnderWay /\ pushes = iteration
      BY DEF ChannelInv, Protocol, Awaiting, PushUnderWay, Answering, Idle, Aborted
    <2>2. \A c \in Cells : request[c] = Zeros[c]
      BY <2>1 DEF ChannelInv, AgentData
    <2>3. request \in [Cells -> Contents] /\ Zeros \in [Cells -> Contents]
      BY ZerosCells DEF ChannelInv, TypeOK, Memories
    <2> QED
      BY <2>1, <2>2, <2>3
  <1> QED
    BY <1>1, ChannelInvariance, PTL

\* calc_g always computes with N different keys and the parameters that the pull
\* of its own iteration returned for them, in whichever order the servers'
\* replies arrived.
THEOREM WeightsCurrent == Spec => []ParametersCurrent
  <1>1. ChannelInv => ParametersCurrent
    <2> SUFFICES ASSUME ChannelInv, worker = "gradient" PROVE ParametersCurrent
      BY DEF ParametersCurrent
    <2>1. weights = Given /\ Len(answer) = N /\ TypeOK /\ Distinct
      BY DEF ChannelInv, WorkerData
    <2>2. /\ Given[SizeCell] = Size(N)
          /\ \A p \in 1 .. N : /\ Given[p + 1] = Parameter(iteration + 1, answer[p])
                               /\ Given[p + N + 1] = Key(answer[p])
      BY <2>1, GivenCells
    <2>3. \A p \in 1 .. N : answer[p] \in 1 .. N
      BY <2>1, ElementOfSeq DEF TypeOK
    <2>4. \A p, q \in 1 .. N : p # q => Key(answer[q]) # Key(answer[p])
      BY <2>1 DEF Distinct, Key
    <2>5. ASSUME NEW p \in 1 .. N
          PROVE  \E k \in 1 .. N :
                   /\ weights[p + N + 1] = Key(k)
                   /\ weights[p + 1] = Parameter(iteration + 1, k)
                   /\ \A q \in 1 .. N \ {p} : weights[q + N + 1] # Key(k)
      <3> HIDE DEF Given, Key, Parameter
      <3>1. /\ weights[p + N + 1] = Key(answer[p])
            /\ weights[p + 1] = Parameter(iteration + 1, answer[p])
            /\ \A q \in 1 .. N \ {p} : weights[q + N + 1] # Key(answer[p])
        BY <2>1, <2>2, <2>4
      <3> QED
        BY <2>3, <3>1
    <2> QED
      BY <2>1, <2>2, <2>5 DEF ParametersCurrent
  <1> QED
    BY <1>1, ChannelInvariance, PTL

\* A push that races with the next request of its worker takes zeros and the
\* keys of that request for its own values and keys, and nothing else.
THEOREM PushesKeepIteration == Spec => []PushOfItsIteration
  <1>1. ChannelInv => PushOfItsIteration
    <2> SUFFICES ASSUME ChannelInv, agent = "copy", uncopied = {}, signal_type = 1
                 PROVE  PushOfItsIteration
      BY DEF PushOfItsIteration
    <2>1. PushPending
      BY PipeTail, PipesDiffer
      DEF ChannelInv, Protocol, Between, Awaiting, Computing, Done, Orphaned, Idle,
          PushUnderWay, PullUnderWay, Answering, Aborted, PushPending, TypeOK
    <2>2. pushes + 1 = iteration /\ pulls = iteration /\ pushes \in Nat /\ NumIter \in Nat
      BY <2>1, CellSets DEF ChannelInv, Protocol, TypeOK
    <2>3. iteration - 1 = pushes /\ (iteration <= NumIter => pushes < NumIter)
      BY <2>2
    <2>4. \A c \in Cells : \/ request[c] = Whole(pushes)[c]
                           \/ request[c] = Zeros[c] /\ pushes < NumIter
      BY <2>1, <2>3 DEF ChannelInv, PushData, GoodCell
    <2>5. SizeCell \in Cells /\ Whole(pushes)[SizeCell] = Size(N)
      BY CellSets DEF Whole
    <2>6. \A p \in 1 .. N :
            /\ p + 1 \in Cells /\ p + 1 # SizeCell /\ p + 1 \in ValueCells
            /\ p + N + 1 \in Cells /\ p + N + 1 # SizeCell
            /\ p + N + 1 \notin ValueCells /\ (p + N + 1) - N - 1 = p
      BY ChannelAssumption DEF Cells, SizeCell, ValueCells
    <2>7. \A p \in 1 .. N : /\ Whole(pushes)[p + 1] = Gradient(pushes)
                            /\ Whole(pushes)[p + N + 1] = Key(answer[p])
      BY <2>6 DEF Whole
    <2> HIDE DEF Whole
    <2> QED
      BY <2>2, <2>4, <2>5, <2>6, <2>7, ZerosCells DEF PushOfItsIteration
  <1> QED
    BY <1>1, ChannelInvariance, PTL

=============================================================================
