----------------------------- MODULE Partition ------------------------------
(***************************************************************************)
(* How keys are spread over the servers: the partition the master draws    *)
(* (src/master/task_config.cc), the agent's split of a sorted key list     *)
(* into one message per run of keys (src/agent/partition.cc and the loops  *)
(* of Push and Pull), and the segment of the parameter vector each server  *)
(* derives from the same partition (src/server/server.cc).  Agent and      *)
(* servers never compare notes: that they agree is what is checked.        *)
(*                                                                         *)
(* Servers and the entries of part_vec_ are numbered from 0, positions in  *)
(* a key list from 0 too, as in the code: keys[i] is the key at i.         *)
(***************************************************************************)
EXTENDS Integers, Sequences, FiniteSets

CONSTANTS
  KeyRange, ServerNum,
  MaxKeys,  \* bound on the length of a key list
  Outside   \* bound on how far a key may be outside the range

ASSUME PartitionAssumption ==
  /\ KeyRange \in Nat /\ KeyRange >= 3
  /\ ServerNum \in Nat \ {0}
  /\ MaxKeys \in Nat \ {0} /\ Outside \in Nat

Keys == 0 .. KeyRange - 1
AnyKeys == -Outside .. KeyRange - 1 + Outside
Servers == 0 .. ServerNum - 1

VARIABLES
  part_vec_,  \* [server]: the entry of the partition
  keys,       \* [position]: the keys of the request, ascending
  start,      \* the position the loop of Push or Pull has reached
  sent        \* the messages sent: server and positions [start, end); a message
              \* that is sent again and again is kept once

vars == <<part_vec_, keys, start, sent>>

Size == Cardinality(DOMAIN keys)

-----------------------------------------------------------------------------
(* The agent *)

\* std::lower_bound in an ascending list from a position on, and
\* std::upper_bound: the positions behind the entries below key, and behind
\* those at most key.
LowerBound(list, from, key) ==
  LET below == Cardinality({i \in DOMAIN list : list[i] < key})
  IN  IF below < from THEN from ELSE below

UpperBound(list, key) == Cardinality({i \in DOMAIN list : list[i] <= key})

\* Mutant: a key that equals an entry goes to the server before it.
GetServerBelow(key) ==
  CASE key \notin Keys -> -1
    [] key \in Keys /\ key < part_vec_[0] -> ServerNum - 1
    [] OTHER -> LowerBound(part_vec_, 0, key) - 1

\* No server has a key outside the range.
GetServerByKey(key) ==
  CASE key \notin Keys -> -1
    [] key \in Keys /\ key < part_vec_[0] -> ServerNum - 1
    [] OTHER -> UpperBound(part_vec_, key) - 1

\* Mutant: every key is a run of its own.
EndingPerKey(from) == from + 1

\* Mutant: the keys that wrap round are not a run of their own.
EndingNoWrap(from) ==
  LET server == GetServerByKey(keys[from])
  IN  IF server = ServerNum - 1 THEN Size
                                ELSE LowerBound(keys, from, part_vec_[server + 1])

\* The position after the last key of the run that begins at from.  Only the
\* first key of a run is looked up: with server -1 a run of keys below 0 ends
\* where the keys of the first server begin, and one at a key past the range is
\* empty.
NextEnding(from) ==
  LET server == GetServerByKey(keys[from])
  IN  CASE keys[from] < part_vec_[0] -> LowerBound(keys, from, part_vec_[0])
        [] keys[from] >= part_vec_[0] /\ server = ServerNum - 1 -> Size
        [] OTHER -> LowerBound(keys, from, part_vec_[server + 1])

\* GeneratePartition draws from [1, key_range - 2] and sorts.  A key list is
\* sorted by Pull, or by SortKeyValue, which leaves a list with repeated keys
\* unsorted: such a list is one of Pull.
Init ==
  /\ part_vec_ \in [Servers -> 1 .. KeyRange - 2]
  /\ \A i, j \in Servers : i < j => part_vec_[i] <= part_vec_[j]
  /\ \E size \in 1 .. MaxKeys :
       /\ keys \in [0 .. size - 1 -> AnyKeys]
       /\ \A i, j \in 0 .. size - 1 : i < j => keys[i] <= keys[j]
  /\ start = 0
  /\ sent = <<>>

\* One turn of the loop of Push, and of Pull: a message for one run of keys.  For
\* server -1 the id is read in front of server_ids_, whatever is there.
SendRun ==
  /\ start < Size
  /\ LET end == NextEnding(start)
         run == [server |-> GetServerByKey(keys[start]), start |-> start, end |-> end]
     IN  /\ sent' = IF sent # <<>> /\ sent[Len(sent)] = run THEN sent
                                                          ELSE Append(sent, run)
         /\ start' = end
  /\ UNCHANGED <<part_vec_, keys>>

\* The loop is over.
Done == start = Size /\ UNCHANGED vars

Next == SendRun \/ Done

Spec == Init /\ [][Next]_vars

-----------------------------------------------------------------------------
(* The servers *)

\* Mutant: the segment of the last server is not taken round the end.
LengthNoWrap(s) ==
  IF s = ServerNum - 1 THEN KeyRange - part_vec_[s]
                       ELSE part_vec_[s + 1] - part_vec_[s]

\* parameter_length_ of server s, whose start_key_ is part_vec_[s].
ParameterLength(s) ==
  (part_vec_[(s + 1) % ServerNum] - part_vec_[s] + KeyRange) % KeyRange

\* The entry of parameters_ that ServePull reads for a key.
PullIndex(s, key) ==
  IF key < part_vec_[s] THEN key - part_vec_[s] + KeyRange ELSE key - part_vec_[s]

\* The entry UpdateParameter adds to, and RespondToAll reads.
MergeIndex(s, key) == key - part_vec_[s]

-----------------------------------------------------------------------------
(* Properties *)

KeysOf(m) == {keys[i] : i \in m.start .. m.end - 1}

Sent == {sent[i] : i \in 1 .. Len(sent)}

\* All entries of the partition are equal.  Then every parameter_length_ is 0
\* and no server owns a key; a single server is always in this case.
Degenerate == \A s \in Servers : part_vec_[s] = part_vec_[0]

\* What the worker asks for is in the range.
InRange == \A i \in DOMAIN keys : keys[i] \in Keys

\* The messages cover the key list exactly once, in order, and none is empty,
\* unless the loop has come to a key past the range: there it stays and sends
\* empty messages for ever (partition.cc:49, agent.cc:324).
SplitIsExact ==
  /\ start \in 0 .. Size
  /\ \A i \in 1 .. Len(sent) :
       /\ sent[i].start = IF i = 1 THEN 0 ELSE sent[i - 1].end
       /\ \/ sent[i].start < sent[i].end
          \/ /\ i = Len(sent) /\ sent[i] = [server |-> -1, start |-> start, end |-> start]
             /\ start < Size /\ keys[start] >= KeyRange
  /\ start = IF sent = <<>> THEN 0 ELSE sent[Len(sent)].end

\* The agent and the server agree: every key goes to a server that has it in
\* its segment, at the index ServePull computes.
RoutedToOwner ==
  InRange /\ ~Degenerate => \A m \in Sent : \A key \in KeysOf(m) :
    PullIndex(m.server, key) \in 0 .. ParameterLength(m.server) - 1

\* Two servers never keep the same key, and together they keep all of them.
SegmentsDisjoint ==
  ~Degenerate => \A key \in Keys : \E s \in Servers :
    {r \in Servers : PullIndex(r, key) \in 0 .. ParameterLength(r) - 1} = {s}

\* The shape of Chunks in module ParameterServer: a server gets one message,
\* in ascending order, but the keys below the first entry go to the last server
\* before all others.
ChunkShape ==
  InRange => \A i, j \in 1 .. Len(sent) : i < j =>
    \/ sent[i].server < sent[j].server
    \/ i = 1 /\ sent[1].server = ServerNum - 1 /\ keys[0] < part_vec_[0]

\* "UpdateParameter is called to merge the updates to current parameter"
\* (server.cc:207): every key of an update lands in the vector.
MergeInBounds ==
  InRange /\ ~Degenerate => \A m \in Sent : \A key \in KeysOf(m) :
    MergeIndex(m.server, key) \in 0 .. ParameterLength(m.server) - 1

=============================================================================
