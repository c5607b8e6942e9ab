--------------------------- MODULE Reconfiguration --------------------------
(***************************************************************************)
(* Server::Reconfigure and what it changes: one server, Local, whose       *)
(* configuration is replaced while agents push and pull and copies of the  *)
(* other servers' parameters arrive.  A new configuration is a step of the *)
(* handler as a whole; it takes over keys of dead servers from the copies  *)
(* (ExtendParameter) and drops the updates of agents that left.            *)
(*                                                                         *)
(* Configurations are those of server_gtest.cc: the successor of a dead    *)
(* server on the ring takes its place and its start key.  The other        *)
(* servers apply them at their own time.  A parameter is represented by    *)
(* its key, an update by its place in the queue of its agent.  An agent    *)
(* pulls, waits if the pull is blocked, pushes and starts again; it names  *)
(* keys the server has under a configuration the agent knows, which may be *)
(* one that the server has not applied yet.                                *)
(***************************************************************************)
EXTENDS Integers, Sequences, SequencesExt, FiniteSets

CONSTANTS
  Servers,       \* ids of servers
  Local,         \* local_id_
  Agents,        \* ids of agents, configured or not
  FirstConfigs,  \* the configurations Initialize may receive
  KeyRange, BackupSize, Bound,
  Stray,         \* keys whose parameters another server may have in a wrong place
  MaxConfigs,    \* bound on the configurations, the first included
  MaxRounds      \* bound on the merges

\* The master gives every node an id of its own.
ASSUME ReconfigurationAssumption ==
  /\ \A c \in FirstConfigs :
       /\ c \in [server_id : Seq(Servers), partition : Seq(0 .. KeyRange - 1),
                 worker_id : Seq(Agents)]
       /\ Len(c.partition) = Len(c.server_id)
       /\ IsInjective(c.server_id) /\ IsInjective(c.worker_id)
       /\ Local \in ToSet(c.server_id) /\ c.worker_id # <<>>
       /\ BackupSize < Len(c.server_id)
  /\ Local \in Servers /\ IsFiniteSet(Servers) /\ BackupSize \in Nat
  /\ KeyRange \in Nat \ {0} /\ Bound \in Nat \ {0}
  /\ MaxConfigs \in Nat /\ MaxRounds \in Nat /\ Stray \subseteq 0 .. KeyRange - 1

Entries == 0 .. BackupSize - 1

VARIABLES
  configs,            \* the configurations the master sent
  applied,            \* [server]: how many of them it has applied, the other servers
                      \* at their last answer
  server_ids_, local_index_, start_key_, parameter_length_,
  parameters_,        \* the keys whose parameters are stored, in order
  backup_parameters_, \* [entry]: the keys of a stored copy, in order
  agent_ids_, agent_num_, id_to_index_,
  version_buffer_,    \* the length of each queue
  finish_count_,
  bottom_version_,
  requests,           \* [server]: requests for a copy under way to it
  answers,            \* [server]: copies under way from it
  phase,              \* [agent]: its next step
  status,             \* running, aborted, or an array was used outside its bounds:
                      \* "undefined" (queues, list of servers, copies), "overrun"
                      \* (end of parameters_) or "unwrapped" (an index of 187 or 217)
  fresh,              \* history: entries filled under the configuration applied
  changed,            \* history: a copy was used by the last Reconfigure, or changed
                      \* after it
  lost,               \* history: the servers that failed since the copies were made
  covered,            \* history: no Reconfigure found a mixture of copies, or fewer
                      \* of them than servers failed, and no copy came wrong
  aligned,            \* history: the agents always had the first queues
  departed            \* history: an agent left after the last merge

configVars == <<server_ids_, local_index_, start_key_, parameter_length_>>
agentVars == <<agent_ids_, agent_num_, id_to_index_, version_buffer_,
               finish_count_, bottom_version_>>
history == <<fresh, changed, lost, covered, aligned, departed>>
vars == <<configs, applied, configVars, parameters_, backup_parameters_,
          agentVars, requests, answers, phase, status, history>>

\* The place of a server in a list, counted from 0 as in the code.
IndexOf(ids, s) == CHOOSE i \in 0 .. Len(ids) - 1 : ids[i + 1] = s

\* start_key_ and parameter_length_ of server s in configuration c.
StartKey(c, s) == c.partition[IndexOf(c.server_id, s) + 1]

ParameterLength(c, s) ==
  LET n == Len(c.server_id)
      next == c.partition[((IndexOf(c.server_id, s) + 1) % n) + 1]
  IN  (next - StartKey(c, s) + KeyRange) % KeyRange

\* The keys of server s, in the order in which it stores them.
Segment(c, s) ==
  [k \in 1 .. ParameterLength(c, s) |-> (StartKey(c, s) + k - 1) % KeyRange]

\* The server i places behind index l on the ring.
Behind(ids, l, i) == ids[((l - i + Len(ids)) % Len(ids)) + 1]

\* The state after Initialize.
Init ==
  /\ \E c \in FirstConfigs :
       /\ configs = <<c>>
       /\ server_ids_ = c.server_id
       /\ local_index_ = IndexOf(server_ids_, Local)
       /\ start_key_ = StartKey(c, Local)
       /\ parameter_length_ = ParameterLength(c, Local)
       /\ parameters_ = Segment(c, Local)
       /\ backup_parameters_ = [j \in Entries |->
            Segment(c, Behind(server_ids_, local_index_, j + 1))]
       /\ agent_ids_ = ToSet(c.worker_id)
       /\ agent_num_ = Len(c.worker_id)
       /\ id_to_index_ = [a \in agent_ids_ |-> IndexOf(c.worker_id, a)]
  /\ version_buffer_ = [i \in 1 .. agent_num_ |-> 0]
  /\ finish_count_ = [k \in 1 .. Bound |-> 0]
  /\ bottom_version_ = 0
  /\ applied = [s \in Servers |-> 1]
  /\ requests = [s \in Servers |-> 0]
  /\ answers = [s \in Servers |-> <<>>]
  /\ phase = [a \in Agents |-> "pull"]
  /\ status = "running"
  /\ fresh = Entries /\ changed = FALSE /\ lost = 0 /\ covered = TRUE
  /\ aligned = TRUE /\ departed = FALSE

-----------------------------------------------------------------------------
(* The master and the other servers *)

\* Server s is gone: its successor takes its place and its start key.
WithoutServer(c, s) ==
  LET i == IndexOf(c.server_id, s) + 1
      next == (i % Len(c.server_id)) + 1
  IN  [c EXCEPT
         !.server_id = RemoveAt(ReplaceAt(c.server_id, i, c.server_id[next]), next),
         !.partition = RemoveAt(c.partition, next)]

WithoutAgent(c, a) == [c EXCEPT !.worker_id = RemoveAt(@, IndexOf(@, a) + 1)]

WithAgent(c, a) == [c EXCEPT !.worker_id = Append(@, a)]

\* Two servers stay, for with one the length of its segment is 0.
NewConfigs(c) ==
  LET workers == ToSet(c.worker_id)
      fewer == IF Len(c.server_id) > 2
               THEN {WithoutServer(c, s) : s \in ToSet(c.server_id)} ELSE {}
      left == IF Cardinality(workers) > 1
              THEN {WithoutAgent(c, a) : a \in workers} ELSE {}
      joined == {WithAgent(c, a) : a \in Agents \ workers}
      replaced == {WithAgent(WithoutAgent(c, a), b) :
                     a \in workers, b \in Agents \ workers}
  IN  fewer \cup left \cup joined \cup replaced

SendConfig ==
  /\ status = "running" /\ Len(configs) < MaxConfigs
  /\ \E c \in NewConfigs(configs[Len(configs)]) : configs' = Append(configs, c)
  /\ UNCHANGED <<applied, configVars, parameters_, backup_parameters_, agentVars,
                 requests, answers, phase, status, history>>

\* Another server answers a request with its parameters, unless it died; by then
\* it may have applied configurations it had not applied at its last answer.  If
\* it took keys over, it may have got them wrong, as this server may (TakeoverExact
\* says when not); it sends as many values all the same.
PeerAnswers(s) ==
  /\ status = "running" /\ s # Local /\ requests[s] > 0
  /\ s \in ToSet(configs[Len(configs)].server_id)
  /\ requests' = [requests EXCEPT ![s] = @ - 1]
  /\ \E k \in applied[s] .. Len(configs) :
       /\ applied' = [applied EXCEPT ![s] = k]
       /\ \/ /\ answers' = [answers EXCEPT ![s] =
                  Append(@, [keys |-> Segment(configs[k], s), config |-> k])]
             /\ UNCHANGED covered
          \/ /\ Segment(configs[k], s) # Segment(configs[1], s)
             /\ \E keys \in [1 .. ParameterLength(configs[k], s) -> Stray] :
                  answers' = [answers EXCEPT ![s] = Append(@, [keys |-> keys, config |-> k])]
             /\ covered' = FALSE
  /\ UNCHANGED <<configs, configVars, parameters_, backup_parameters_, agentVars,
                 phase, status, fresh, changed, lost, aligned, departed>>

-----------------------------------------------------------------------------
(* Copies of the other servers' parameters *)

\* The remainder of server.cc:553 is negative when the ring has become shorter
\* than the distance asked for; it is no index of server_ids_ unless it is 0.
OffTheRing ==
  \E i \in 1 .. BackupSize :
    LET below == i - local_index_ - Len(server_ids_)
    IN  below > 0 /\ below % Len(server_ids_) # 0

\* RequestBackup; a server that has fewer others than copies asks itself too.
RequestBackup ==
  requests' = [s \in Servers |->
    requests[s] + Cardinality({i \in 1 .. BackupSize :
                                 s = Behind(server_ids_, local_index_, i)})]

\* A takeover left fewer parameters than the length says.
Short == parameter_length_ > Len(parameters_)

\* RespondBackup to itself; and to any server, which may ask at any time and whose
\* copy is not kept here, when it reads past the end.
RespondBackup ==
  /\ status = "running"
  /\ \/ /\ ~Short /\ requests[Local] > 0 /\ Local \in ToSet(server_ids_)
        /\ requests' = [requests EXCEPT ![Local] = @ - 1]
        /\ answers' = [answers EXCEPT ![Local] =
             Append(@, [keys |-> SubSeq(parameters_, 1, parameter_length_),
                        config |-> applied[Local]])]
        /\ UNCHANGED status
     \/ /\ Short
        /\ status' = "overrun"
        /\ UNCHANGED <<requests, answers>>
  /\ UNCHANGED <<configs, applied, configVars, parameters_, backup_parameters_,
                 agentVars, phase, history>>

\* Mutant: copies are filed by the place of their owner in the list.
BackupEntryPlain(s) == IndexOf(server_ids_, s)

BackupEntry(s) ==
  LET n == Len(server_ids_)
  IN  (local_index_ - 1 - IndexOf(server_ids_, s) + n) % n

\* Backup; what a server sends that is not configured any more is taken for the
\* push of an unknown agent and ignored.  An entry behind the end of
\* backup_parameters_ is undefined.
Backup(s) ==
  /\ status = "running" /\ answers[s] # <<>>
  /\ answers' = [answers EXCEPT ![s] = Tail(@)]
  /\ \/ /\ s \in ToSet(server_ids_) /\ BackupEntry(s) \in Entries
        /\ LET j == BackupEntry(s)
               copy == Head(answers[s])
           IN  /\ backup_parameters_' = [backup_parameters_ EXCEPT ![j] = copy.keys]
               /\ changed' = (changed \/ copy.keys # backup_parameters_[j])
               /\ fresh' = IF copy.config = applied[Local]
                           THEN fresh \cup {j} ELSE fresh \ {j}
        /\ UNCHANGED status
     \/ /\ s \in ToSet(server_ids_) /\ BackupEntry(s) \notin Entries
        /\ status' = "undefined"
        /\ UNCHANGED <<backup_parameters_, changed, fresh>>
     \/ /\ s \notin ToSet(server_ids_)
        /\ UNCHANGED <<backup_parameters_, changed, fresh, status>>
  /\ UNCHANGED <<configs, applied, configVars, parameters_, agentVars, requests,
                 phase, lost, covered, aligned, departed>>

-----------------------------------------------------------------------------
(* Requests of agents *)

\* id_to_index_[a]; an id the map does not contain is inserted with index 0.
QueueOf(a) == IF a \in DOMAIN id_to_index_ THEN id_to_index_[a] ELSE 0

Length(a) == version_buffer_[QueueOf(a) + 1]

Blocked == {a \in Agents : phase[a] = "blocked"}

\* The keys agents may name: those of the server under the configuration it has
\* or a later one.  An agent that is behind names none but these, for the keys of
\* a server become more.
Named ==
  UNION {ToSet(Segment(configs[k], Local)) :
           k \in {i \in applied[Local] .. Len(configs) :
                    Local \in ToSet(configs[i].server_id)}}

\* A request may name a key whose index is outside an array of some length: the
\* index of ServePull goes round the key range (server.cc:381), those of
\* UpdateParameter (217) and RespondToAll (187) do not.
BeyondWrapped(length) ==
  \E key \in Named : (key - start_key_ + KeyRange) % KeyRange >= length

Beyond(length) == \E key \in Named : key - start_key_ \notin 0 .. length - 1

\* RespondToAll: the blocked agents go on.
Released == [a \in Agents |-> IF a \in Blocked THEN "push" ELSE phase[a]]

\* The queues and counters after a push of agent a, before the test for a
\* complete round.
Stored(a) ==
  IF Length(a) >= Bound THEN version_buffer_
  ELSE [version_buffer_ EXCEPT ![QueueOf(a) + 1] = @ + 1]

Counted(a) ==
  IF Length(a) >= Bound THEN finish_count_
  ELSE [finish_count_ EXCEPT ![Length(a) + 1] = @ + 1]

\* UpdateParameter takes an update from each of the first agent_num_ queues.
Mergeable(buffer) ==
  /\ agent_num_ <= Len(buffer)
  /\ \A i \in 1 .. agent_num_ : buffer[i] > 0

Shifted(count) == [k \in 1 .. Bound |-> IF k < Bound THEN count[k + 1] ELSE 0]

\* Mutant: the test waits for more updates than there are agents.
RoundOverdue(a) == Counted(a)[1] > agent_num_

RoundComplete(a) == Counted(a)[1] = agent_num_

\* ServePush, with UpdateParameter, RespondToAll and RequestBackup when the
\* oldest version is complete.
ServePush(a) ==
  /\ status = "running" /\ phase[a] = "push" /\ a \in agent_ids_
  /\ id_to_index_' = [b \in DOMAIN id_to_index_ \cup {a} |-> QueueOf(b)]
  /\ \/ /\ ~RoundComplete(a)
        /\ version_buffer_' = Stored(a) /\ finish_count_' = Counted(a)
        /\ phase' = [phase EXCEPT ![a] = "pull"]
        /\ UNCHANGED <<bottom_version_, requests, status, departed>>
     \/ /\ RoundComplete(a) /\ Mergeable(Stored(a)) /\ ~Short
        /\ bottom_version_ < MaxRounds
        /\ finish_count_' = Shifted(Counted(a))
        /\ version_buffer_' = [i \in DOMAIN version_buffer_ |->
             IF i <= agent_num_ THEN Stored(a)[i] - 1 ELSE Stored(a)[i]]
        /\ bottom_version_' = bottom_version_ + 1
        /\ phase' = [Released EXCEPT ![a] = "pull"]
        /\ RequestBackup
        /\ departed' = FALSE
        /\ status' = IF OffTheRing THEN "undefined" ELSE status
     \/ /\ RoundComplete(a)
        /\ \/ ~Mergeable(Stored(a)) /\ status' = "undefined"
           \/ Mergeable(Stored(a)) /\ Short /\ status' = "overrun"
           \/ Mergeable(Stored(a)) /\ Beyond(parameter_length_) /\ status' = "unwrapped"
        /\ UNCHANGED <<version_buffer_, finish_count_, bottom_version_, phase,
                       requests, departed>>
  /\ UNCHANGED <<configs, applied, configVars, parameters_, backup_parameters_,
                 agent_ids_, agent_num_, answers, fresh, changed, lost, covered,
                 aligned>>

\* ServePull answers at once, or blocks the agent until the next merge.
ServePull(a) ==
  /\ status = "running" /\ phase[a] = "pull" /\ a \in DOMAIN id_to_index_
  /\ \/ /\ phase' = [phase EXCEPT ![a] = IF Length(a) >= Bound THEN "blocked" ELSE "push"]
        /\ UNCHANGED status
     \/ /\ Length(a) < Bound /\ BeyondWrapped(Len(parameters_))
        /\ status' = "overrun"
        /\ UNCHANGED phase
  /\ UNCHANGED <<configs, applied, configVars, parameters_, backup_parameters_,
                 agentVars, requests, answers, history>>

\* An agent starts when it gets its first configuration.
Started(a) == \E i \in DOMAIN configs : a \in ToSet(configs[i].worker_id)

\* Requests of an agent the server does not know are ignored; ServePush and
\* ServePull look it up in different places.  The agent waits for a reply to its
\* pull for ever.
IgnoreStranger(a) ==
  /\ status = "running" /\ Started(a)
  /\ \/ /\ phase[a] = "push" /\ a \notin agent_ids_
        /\ phase' = [phase EXCEPT ![a] = "pull"]
     \/ /\ phase[a] = "pull" /\ a \notin DOMAIN id_to_index_
        /\ phase' = [phase EXCEPT ![a] = "ignored"]
  /\ UNCHANGED <<configs, applied, configVars, parameters_, backup_parameters_,
                 agentVars, requests, answers, status, history>>

-----------------------------------------------------------------------------
(* Reconfigure *)

NewConfig == configs[applied[Local] + 1]

\* The agents that are not in the new configuration, and their queues.
Gone == agent_ids_ \ ToSet(NewConfig.worker_id)

EmptiedQueues == {QueueOf(a) + 1 : a \in Gone}

Emptied ==
  [i \in DOMAIN version_buffer_ |->
     IF i \in EmptiedQueues THEN 0 ELSE version_buffer_[i]]

\* Mutants: the updates of an agent that left stay counted; it is taken out of
\* every counter.
StillCounted == finish_count_

UncountedAll == [k \in 1 .. Bound |-> finish_count_[k] - Cardinality(EmptiedQueues)]

\* finish_count_ without the updates that are dropped.
Uncounted ==
  [k \in 1 .. Bound |-> finish_count_[k]
     - Cardinality({i \in EmptiedQueues : version_buffer_[i] >= k})]

Kept == DOMAIN id_to_index_ \ Gone

\* How far the loop over the first agent_num_ ids of the new list, where
\* agent_num_ is still the old number, reads past its end.
PastEnd ==
  IF agent_num_ > Len(NewConfig.worker_id)
  THEN agent_num_ - Len(NewConfig.worker_id) ELSE 0

\* The ids that get a queue: those without one that the loop reads.  Each gets
\* the next index.
Added == {NewConfig.worker_id[i] : i \in 1 .. agent_num_ - PastEnd} \ Kept

Place(a) ==
  Cardinality({b \in Added : IndexOf(NewConfig.worker_id, b) < IndexOf(NewConfig.worker_id, a)})

\* Mutant: the copies are appended.
AppendedParameters(length) ==
  LET extended[j \in 0 .. BackupSize] ==
        IF j = 0 THEN parameters_
        ELSE IF Len(extended[j - 1]) = length THEN extended[j - 1]
        ELSE extended[j - 1] \o backup_parameters_[j - 1]
  IN  extended[BackupSize]

\* ExtendParameter: copies are put in front until the length is right.
ExtendParameter(length) ==
  LET extended[j \in 0 .. BackupSize] ==
        IF j = 0 THEN parameters_
        ELSE IF Len(extended[j - 1]) = length THEN extended[j - 1]
        ELSE backup_parameters_[j - 1] \o extended[j - 1]
  IN  extended[BackupSize]

\* The blocked pulls are answered and the list of servers is replaced, whatever
\* follows.
BeginReconfigure ==
  /\ status = "running" /\ applied[Local] < Len(configs)
  /\ applied' = [applied EXCEPT ![Local] = @ + 1]
  /\ phase' = Released
  /\ server_ids_' = NewConfig.server_id

\* A blocked pull named a key outside the parameters.
RespondToAllOverruns ==
  /\ status = "running" /\ applied[Local] < Len(configs)
  /\ Blocked # {} /\ Beyond(Len(parameters_))
  /\ status' = "unwrapped"
  /\ UNCHANGED <<configs, applied, configVars, parameters_, backup_parameters_,
                 agentVars, requests, answers, phase, history>>

\* A configuration without this server: the handler returns.
NotAssigned ==
  /\ BeginReconfigure
  /\ Local \notin ToSet(NewConfig.server_id)
  /\ UNCHANGED <<configs, local_index_, start_key_, parameter_length_,
                 parameters_, backup_parameters_, agentVars, requests, answers,
                 status, history>>

\* Its place in the list, and its keys.
TakePlace ==
  /\ Local \in ToSet(NewConfig.server_id)
  /\ local_index_' = IndexOf(NewConfig.server_id, Local)
  /\ start_key_' = StartKey(NewConfig, Local)
  /\ parameter_length_' = ParameterLength(NewConfig, Local)

\* The ids read past the end of the list are known, or each gets a queue.
Reconfigure ==
  LET c == NewConfig
      size == Len(version_buffer_)
  IN  /\ BeginReconfigure /\ TakePlace
      /\ finish_count_' = Uncounted
      /\ \E extra \in 0 .. PastEnd :
           version_buffer_' = Emptied \o [i \in 1 .. Cardinality(Added) + extra |-> 0]
      /\ id_to_index_' = [a \in Kept \cup Added |->
           IF a \in Kept THEN id_to_index_[a] ELSE size + Place(a)]
      /\ agent_ids_' = ToSet(c.worker_id)
      /\ parameters_' = ExtendParameter(parameter_length_')
      /\ agent_num_' = Len(c.worker_id)
      /\ fresh' = {} /\ changed' = (parameters_' # parameters_)
      /\ lost' = (IF fresh = Entries THEN 0 ELSE lost)
                   + Len(server_ids_) - Len(c.server_id)
      /\ covered' = (covered /\ (fresh = Entries \/ ~changed) /\ lost' <= BackupSize)
      /\ aligned' = (/\ aligned
                     /\ agent_ids_' \subseteq DOMAIN id_to_index_'
                     /\ {id_to_index_'[a] : a \in agent_ids_'} = 0 .. agent_num_' - 1)
      /\ departed' = (departed \/ Gone # {})
      /\ UNCHANGED <<configs, backup_parameters_, bottom_version_, requests,
                     answers, status>>

\* A build with protobuf's checks aborts at the read past the end.
ReconfigureAborts ==
  /\ BeginReconfigure /\ TakePlace
  /\ PastEnd > 0
  /\ status' = "aborted"
  /\ UNCHANGED <<configs, parameters_, backup_parameters_, agentVars, requests,
                 answers, history>>

-----------------------------------------------------------------------------

Next ==
  \/ SendConfig
  \/ \E s \in Servers : PeerAnswers(s) \/ Backup(s)
  \/ RespondBackup
  \/ \E a \in Agents : ServePush(a) \/ ServePull(a) \/ IgnoreStranger(a)
  \/ RespondToAllOverruns \/ NotAssigned \/ Reconfigure \/ ReconfigureAborts

Spec == Init /\ [][Next]_vars

-----------------------------------------------------------------------------
(* Properties *)

Keys == 0 .. KeyRange - 1

\* Type correctness; no queue outgrows consistency_bound_ and no counter of
\* finish_count_ becomes negative.
TypeOK ==
  /\ applied \in [Servers -> 1 .. Len(configs)]
  /\ server_ids_ \in Seq(Servers) /\ local_index_ \in 0 .. Cardinality(Servers) - 1
  /\ start_key_ \in Keys /\ parameter_length_ \in Keys
  /\ parameters_ \in Seq(Keys) /\ backup_parameters_ \in [Entries -> Seq(Keys)]
  /\ agent_ids_ \subseteq Agents /\ agent_num_ = Cardinality(agent_ids_)
  /\ DOMAIN id_to_index_ \subseteq Agents
  /\ \A a \in DOMAIN id_to_index_ : id_to_index_[a] + 1 \in DOMAIN version_buffer_
  /\ version_buffer_ \in Seq(0 .. Bound)
  /\ finish_count_ \in [1 .. Bound -> Nat]
  /\ bottom_version_ \in 0 .. MaxRounds
  /\ requests \in [Servers -> Nat]
  /\ phase \in [Agents -> {"pull", "blocked", "push", "ignored"}]
  /\ status \in {"running", "aborted", "undefined", "overrun", "unwrapped"}
  /\ fresh \subseteq Entries
  /\ changed \in BOOLEAN /\ lost \in Nat /\ covered \in BOOLEAN
  /\ aligned \in BOOLEAN /\ departed \in BOOLEAN

\* After any number of failures the server holds exactly the parameters of its
\* keys, in their order, provided each configuration found the copies either
\* all renewed since the one before or none changed, and no more servers failed
\* since they were made than copies are kept, and the servers the copies came
\* from had taken over right themselves: then the copies are the pieces in front
\* of its own, and the loop of ExtendParameter stops at the right one.
\* (With copies of two configurations it puts keys of the wrong server in front;
\* with equal entries of the partition it may be given the length 0.)
TakeoverExact ==
  (covered /\ Local \in ToSet(server_ids_)) =>
    /\ parameters_ = Segment(configs[applied[Local]], Local)
    /\ parameter_length_ = Len(parameters_)

\* The counters agree with the queues through departures, arrivals and merges;
\* updates wait only in queues of configured agents, so the test for a complete
\* round (finish_count_[0] == agent_num_) is never passed over.
CountersExact ==
  /\ \A k \in 1 .. Bound :
       finish_count_[k] = Cardinality({i \in DOMAIN version_buffer_ : version_buffer_[i] >= k})
  /\ \A i \in DOMAIN version_buffer_ :
       version_buffer_[i] > 0 => \E a \in agent_ids_ : QueueOf(a) + 1 = i
  /\ finish_count_[1] <= agent_num_

\* A copy is filed inside backup_parameters_ although it was asked for by the
\* place its owner had on an older ring (server.cc:553 and 572), and the merge
\* finds an update in each of the first agent_num_ queues, as long as these are
\* the queues of the configured agents: as long as every agent that left had the
\* last one.  There are two more exceptions.  A server that is left out of a
\* configuration keeps its old place on a smaller ring: if it was the last on
\* the list, a late copy is filed behind the end of backup_parameters_.  And a
\* ring smaller than the number of copies has no server at their distance.
QueuesAndCopiesDefined ==
  status = "undefined" =>
    ~aligned \/ Local \notin ToSet(server_ids_) \/ BackupSize > Len(server_ids_)

\* The configuration of the server is the latest one, and its takeovers went right.
UpToDate ==
  covered /\ Local \in ToSet(server_ids_) /\ applied[Local] = Len(configs)

\* Its keys go round the end of the key range.
Wraps == start_key_ + parameter_length_ > KeyRange

\* No array is used outside its bounds, but for the exceptions that
\* QueuesAndCopiesDefined names and these: a takeover fell short, or an agent is
\* ahead of the server and names keys it has not taken over yet; and, where the
\* index does not go round the key range (server.cc:187 and 217), the keys do.
DefinedBehaviour ==
  /\ QueuesAndCopiesDefined
  /\ status = "overrun" => ~UpToDate
  /\ status = "unwrapped" => ~UpToDate \/ Wraps

\* The agents never all wait for one another, unless one of them left since the
\* last merge.  Then they may: the departure can complete the oldest round, and
\* Reconfigure answers the blocked pulls but does not test for a complete round;
\* agents whose pulls come after it are blocked and nobody pushes again.
AllBlockedOnlyAfterDeparture ==
  (aligned /\ agent_ids_ \subseteq Blocked) => departed

=============================================================================
