---------------------------- MODULE ServerProofs ----------------------------
(***************************************************************************)
(* Proofs about module Server, for any number of agents, servers and       *)
(* backups, any consistency bound and clients that send anything.          *)
(***************************************************************************)
EXTENDS Server, FiniteSetTheorems, SequenceTheorems, TLAPS

-----------------------------------------------------------------------------
(* Functions of functions of sequences *)

\* Updating one place of a table keeps its type and the other places.
LEMMA TableUpdate ==
  ASSUME NEW R, NEW S, NEW T, NEW f \in [R -> [S -> T]],
         NEW r \in R, NEW s \in S, NEW v \in T
  PROVE  LET g == [f EXCEPT ![r][s] = v]
         IN  /\ g \in [R -> [S -> T]]
             /\ g[r][s] = v
             /\ \A x \in R, y \in S : <<x, y>> # <<r, s>> => g[x][y] = f[x][y]
  OBVIOUS

\* Updating one row of a table keeps its type and the other rows.
LEMMA RowUpdate ==
  ASSUME NEW R, NEW T, NEW f \in [R -> T], NEW r \in R, NEW v \in T
  PROVE  LET g == [f EXCEPT ![r] = v]
         IN  /\ g \in [R -> T]
             /\ g[r] = v
             /\ \A x \in R : x # r => g[x] = f[x]
  OBVIOUS

\* The first message of a non-empty channel and the rest have their types.
LEMMA HeadTail ==
  ASSUME NEW S, NEW q \in Seq(S), q # <<>>
  PROVE  /\ Head(q) \in S
         /\ Tail(q) \in Seq(S)
         /\ Len(q) \in Nat \ {0}
         /\ Len(Tail(q)) = Len(q) - 1
         /\ Head(q) = q[1]
         /\ \A i \in 1 .. Len(Tail(q)) : Tail(q)[i] = q[i + 1]
  BY HeadTailProperties, EmptySeq, LenProperties

\* Appending a message to a channel.
LEMMA AppendOne ==
  ASSUME NEW S, NEW q \in Seq(S), NEW e \in S
  PROVE  /\ Append(q, e) \in Seq(S)
         /\ Append(q, e) # <<>>
         /\ Len(Append(q, e)) = Len(q) + 1
         /\ \A i \in 1 .. Len(q) : Append(q, e)[i] = q[i]
         /\ Append(q, e)[Len(q) + 1] = e
  BY AppendProperties, LenProperties

\* The ring arithmetic stays among the servers.
LEMMA BehindType ==
  ASSUME NEW s \in Servers, NEW i \in Nat
  PROVE  Behind(s, i) \in Servers
  BY ServerAssumption DEF Behind, Servers

-----------------------------------------------------------------------------
(* One server: its queues vb (version_buffer_) and counters fc (finish_count_) *)

Queues == {vb \in [Agents -> Seq(Blocks)] : \A b \in Agents : Len(vb[b]) <= Bound}

Counters == [1 .. Bound -> Nat]

Insert(vb, a, update) == [vb EXCEPT ![a] = Append(@, update)]

Count(fc, k) == [fc EXCEPT ![k] = @ + 1]

\* The agents with at least k updates waiting.
Delivered(vb, k) == {b \in Agents : Len(vb[b]) >= k}

Exact(vb, fc) == \A k \in 1 .. Bound : fc[k] = Cardinality(Delivered(vb, k))

\* Inserting an update into a queue with room.
LEMMA InsertQueues ==
  ASSUME NEW vb \in Queues, NEW a \in Agents, NEW update \in Blocks,
         Len(vb[a]) < Bound
  PROVE  /\ Insert(vb, a, update) \in Queues
         /\ Insert(vb, a, update)[a] = Append(vb[a], update)
         /\ Len(Insert(vb, a, update)[a]) = Len(vb[a]) + 1
         /\ \A b \in Agents \ {a} : Insert(vb, a, update)[b] = vb[b]
  <1> DEFINE new == Append(vb[a], update)
  <1>1. vb \in [Agents -> Seq(Blocks)] /\ vb[a] \in Seq(Blocks)
    BY DEF Queues
  <1>2. new \in Seq(Blocks) /\ Len(new) = Len(vb[a]) + 1 /\ Len(vb[a]) \in Nat
    BY <1>1, AppendOne, LenProperties
  <1> HIDE DEF new
  <1>3. Insert(vb, a, update) = [vb EXCEPT ![a] = new]
    BY DEF Insert, new
  <1>4. /\ Insert(vb, a, update) \in [Agents -> Seq(Blocks)]
        /\ Insert(vb, a, update)[a] = new
        /\ \A b \in Agents \ {a} : Insert(vb, a, update)[b] = vb[b]
    BY <1>1, <1>2, <1>3
  <1>5. Len(new) <= Bound
    BY <1>2, ServerAssumption
  <1> QED
    BY <1>2, <1>4, <1>5 DEF Queues, new

\* Counting a delivery of version k.
LEMMA CountCounters ==
  ASSUME NEW fc \in Counters, NEW k \in 1 .. Bound
  PROVE  /\ Count(fc, k) \in Counters
         /\ Count(fc, k)[k] = fc[k] + 1
         /\ \A j \in (1 .. Bound) \ {k} : Count(fc, k)[j] = fc[j]
  BY DEF Counters, Count

\* Popping the oldest update of every queue.
LEMMA PopQueues ==
  ASSUME NEW vb \in Queues, \A b \in Agents : vb[b] # <<>>
  PROVE  /\ [b \in Agents |-> Tail(vb[b])] \in Queues
         /\ [b \in Agents |-> Head(vb[b])] \in [Agents -> Blocks]
         /\ \A b \in Agents : Len(Tail(vb[b])) = Len(vb[b]) - 1
  <1>1. \A b \in Agents : /\ Head(vb[b]) \in Blocks
                          /\ Tail(vb[b]) \in Seq(Blocks)
                          /\ Len(vb[b]) \in Nat
                          /\ Len(Tail(vb[b])) = Len(vb[b]) - 1
                          /\ Len(vb[b]) <= Bound
    BY HeadTail DEF Queues
  <1>2. \A b \in Agents : Len(Tail(vb[b])) <= Bound
    BY <1>1, ServerAssumption
  <1> QED
    BY <1>1, <1>2 DEF Queues

\* The set a counter counts is finite.
LEMMA DeliveredFinite ==
  ASSUME NEW vb, NEW k
  PROVE  /\ IsFiniteSet(Delivered(vb, k))
         /\ Cardinality(Delivered(vb, k)) \in Nat
         /\ Cardinality(Delivered(vb, k)) = Cardinality(Agents)
              => Delivered(vb, k) = Agents
  <1>1. IsFiniteSet(Agents) /\ Delivered(vb, k) \subseteq Agents
    BY ServerAssumption DEF Delivered
  <1> QED
    BY <1>1, FS_Subset, FS_CardinalityType

\* The counters stay exact when an update is inserted and counted.
LEMMA InsertExact ==
  ASSUME NEW vb \in Queues, NEW fc \in Counters, Exact(vb, fc),
         NEW a \in Agents, NEW update \in Blocks, Len(vb[a]) < Bound
  PROVE  Exact(Insert(vb, a, update), Count(fc, Len(vb[a]) + 1))
  <1> DEFINE new == Insert(vb, a, update)
             n == Len(vb[a]) + 1
  <1>1. Len(vb[a]) \in Nat /\ n \in 1 .. Bound
    BY ServerAssumption, LenProperties DEF Queues
  <1>2. new \in Queues /\ Len(new[a]) = n
        /\ \A b \in Agents \ {a} : new[b] = vb[b]
    BY InsertQueues
  <1>3. \A b \in Agents : Len(new[b]) \in Nat /\ Len(vb[b]) \in Nat
    BY <1>2, LenProperties DEF Queues
  <1> HIDE DEF new
  <1> SUFFICES ASSUME NEW k \in 1 .. Bound
               PROVE  Count(fc, n)[k] = Cardinality(Delivered(new, k))
    BY DEF Exact, new
  <1>4. CASE k = n
    <2>1. Delivered(new, k) = Delivered(vb, k) \cup {a} /\ a \notin Delivered(vb, k)
      BY <1>1, <1>2, <1>3, <1>4 DEF Delivered
    <2>2. Cardinality(Delivered(new, k)) = Cardinality(Delivered(vb, k)) + 1
      BY <2>1, DeliveredFinite, FS_AddElement
    <2>3. Count(fc, n)[k] = fc[k] + 1
      BY <1>1, <1>4, CountCounters
    <2> QED
      BY <2>2, <2>3 DEF Exact
  <1>5. CASE k # n
    <2>1. Delivered(new, k) = Delivered(vb, k)
      BY <1>1, <1>2, <1>3, <1>5 DEF Delivered
    <2>2. Count(fc, n)[k] = fc[k]
      BY <1>1, <1>5, CountCounters
    <2> QED
      BY <2>1, <2>2 DEF Exact
  <1> QED
    BY <1>4, <1>5

\* The test for a complete round is right: the first counter has reached the
\* number of agents only if every queue has an update to pop.
LEMMA CompleteMeansReady ==
  ASSUME NEW vb \in Queues, NEW fc \in Counters, Exact(vb, fc)
  PROVE  fc[1] = Cardinality(Agents) <=> \A b \in Agents : vb[b] # <<>>
  <1>1. fc[1] = Cardinality(Delivered(vb, 1))
    BY ServerAssumption DEF Exact
  <1>2. \A b \in Agents : Len(vb[b]) >= 1 <=> vb[b] # <<>>
    BY EmptySeq, LenProperties DEF Queues
  <1>3. Delivered(vb, 1) = Agents <=> \A b \in Agents : vb[b] # <<>>
    BY <1>2 DEF Delivered
  <1> QED
    BY <1>1, <1>3, DeliveredFinite

\* The counters stay exact when a complete round is popped and they shift.
LEMMA PopExact ==
  ASSUME NEW vb \in Queues, NEW fc \in Counters, Exact(vb, fc),
         \A b \in Agents : vb[b] # <<>>
  PROVE  /\ Shifted(fc) \in Counters
         /\ Exact([b \in Agents |-> Tail(vb[b])], Shifted(fc))
  <1> DEFINE new == [b \in Agents |-> Tail(vb[b])]
  <1>1. Shifted(fc) \in Counters
    BY ServerAssumption DEF Shifted, Counters
  <1>2. \A b \in Agents : /\ Len(vb[b]) \in Nat
                          /\ Len(new[b]) = Len(vb[b]) - 1
                          /\ Len(vb[b]) <= Bound
    BY PopQueues, LenProperties DEF Queues
  <1> HIDE DEF new
  <1> SUFFICES ASSUME NEW k \in 1 .. Bound
               PROVE  Shifted(fc)[k] = Cardinality(Delivered(new, k))
    BY <1>1 DEF Exact, new
  <1>3. CASE k < Bound
    <2>1. Delivered(new, k) = Delivered(vb, k + 1)
      BY <1>2, ServerAssumption DEF Delivered
    <2>2. Shifted(fc)[k] = fc[k + 1] /\ k + 1 \in 1 .. Bound
      BY <1>3, ServerAssumption DEF Shifted
    <2> QED
      BY <2>1, <2>2 DEF Exact
  <1>4. CASE k = Bound
    <2>1. Delivered(new, k) = {}
      BY <1>2, <1>4, ServerAssumption DEF Delivered
    <2>2. Shifted(fc)[k] = 0
      BY <1>4, ServerAssumption DEF Shifted
    <2> QED
      BY <2>1, <2>2, FS_EmptySet
  <1> QED
    BY <1>3, <1>4, ServerAssumption

-----------------------------------------------------------------------------
(* One agent at one server: its updates acc, the rounds ps, its queue q *)

\* Of the updates acc of agent b, the first n are in the rounds ps and the
\* others wait in q, in the order of acc.
Split(acc, ps, b, q, n) ==
  /\ Len(acc) = n + Len(q)
  /\ \A k \in 1 .. Len(acc) :
       acc[k] = IF k <= n THEN ps[k][b] ELSE q[k - n]

\* A new update enters the queue.
LEMMA SplitAppend ==
  ASSUME NEW acc \in Seq(Blocks), NEW ps, NEW b, NEW q \in Seq(Blocks),
         NEW n \in Nat, NEW update \in Blocks, Split(acc, ps, b, q, n)
  PROVE  Split(Append(acc, update), ps, b, Append(q, update), n)
  <1> DEFINE acc2 == Append(acc, update)
             q2 == Append(q, update)
  <1>1. Len(acc) \in Nat /\ Len(q) \in Nat
    BY LenProperties
  <1>2. /\ Len(acc2) = Len(acc) + 1
        /\ \A k \in 1 .. Len(acc) : acc2[k] = acc[k]
        /\ acc2[Len(acc) + 1] = update
    BY AppendOne
  <1>3. /\ Len(q2) = Len(q) + 1
        /\ \A k \in 1 .. Len(q) : q2[k] = q[k]
        /\ q2[Len(q) + 1] = update
    BY AppendOne
  <1>4. /\ Len(acc) = n + Len(q)
        /\ \A k \in 1 .. Len(acc) :
             acc[k] = IF k <= n THEN ps[k][b] ELSE q[k - n]
    BY DEF Split
  <1> HIDE DEF acc2, q2
  <1>5. ASSUME NEW k \in 1 .. Len(acc2)
        PROVE  acc2[k] = IF k <= n THEN ps[k][b] ELSE q2[k - n]
    <2>1. CASE k \in 1 .. Len(acc)
      BY <1>1, <1>2, <1>3, <1>4, <2>1
    <2>2. CASE k = Len(acc) + 1
      BY <1>1, <1>2, <1>3, <1>4, <2>2
    <2> QED
      BY <1>1, <1>2, <2>1, <2>2
  <1> QED
    BY <1>1, <1>2, <1>3, <1>4, <1>5 DEF Split, acc2, q2

\* The oldest update moves from the queue into a new round.
LEMMA SplitPop ==
  ASSUME NEW acc \in Seq(Blocks), NEW ps, NEW ps2, NEW b, NEW q \in Seq(Blocks),
         NEW n \in Nat, Split(acc, ps, b, q, n), q # <<>>,
         \A k \in 1 .. n : ps2[k] = ps[k],
         ps2[n + 1][b] = Head(q)
  PROVE  Split(acc, ps2, b, Tail(q), n + 1)
  <1> DEFINE t == Tail(q)
             h == Head(q)
  <1>1. /\ Len(q) \in Nat \ {0} /\ Len(t) = Len(q) - 1
        /\ h = q[1]
        /\ \A i \in 1 .. Len(t) : t[i] = q[i + 1]
    BY HeadTail
  <1>2. /\ Len(acc) = n + Len(q)
        /\ \A k \in 1 .. Len(acc) :
             acc[k] = IF k <= n THEN ps[k][b] ELSE q[k - n]
    BY DEF Split
  <1>3. ps2[n + 1][b] = h
    OBVIOUS
  <1> HIDE DEF t, h
  <1>4. ASSUME NEW k \in 1 .. Len(acc)
        PROVE  acc[k] = IF k <= n + 1 THEN ps2[k][b] ELSE t[k - (n + 1)]
    <2>1. CASE k <= n
      BY <1>1, <1>2, <2>1
    <2>2. CASE k = n + 1
      BY <1>1, <1>2, <1>3, <2>2
    <2>3. CASE k > n + 1
      <3>1. k - (n + 1) \in 1 .. Len(t) /\ k - (n + 1) + 1 = k - n
        BY <1>1, <1>2, <2>3
      <3>2. t[k - (n + 1)] = q[k - n]
        BY <1>1, <3>1
      <3>3. acc[k] = q[k - n]
        BY <1>2, <2>3
      <3> QED
        BY <2>3, <3>2, <3>3
    <2> QED
      BY <1>1, <1>2, <2>1, <2>2, <2>3
  <1> QED
    BY <1>1, <1>2, <1>4 DEF Split, t

-----------------------------------------------------------------------------
(* Type correctness *)

\* The types hold initially.
LEMMA InitType == Init => TypeOK
  <1> SUFFICES ASSUME Init PROVE TypeOK
    OBVIOUS
  <1> USE ServerAssumption DEF Init
  <1>1. <<>> \in Seq(Blocks) /\ <<>> \in Seq(Request) /\ <<>> \in Seq(Reply)
        /\ <<>> \in Seq(PeerMessage) /\ <<>> \in Seq([Agents -> Blocks])
    OBVIOUS
  <1>2. \A s \in Servers, j \in 0 .. BackupSize - 1 :
          [owner |-> Behind(s, j + 1), version |-> 0] \in Copy
    BY BehindType DEF Copy
  <1>3. backup_parameters_ \in [Servers -> [0 .. BackupSize - 1 -> Copy]]
    BY <1>2
  <1>4. \A s \in Servers, a \in Agents : Len(Updates(s, a)) <= Bound
    BY DEF Updates
  <1> QED
    BY <1>1, <1>3, <1>4 DEF TypeOK

\* A message that server s reads from client a has the type of a request, and
\* reading it leaves typed channels.
LEMMA ConsumeType ==
  ASSUME TypeOK, NEW s \in Servers, NEW a \in Clients,
         requests[a][s] # <<>>, Consume(s, a)
  PROVE  /\ Head(requests[a][s]).block \in Blocks
         /\ requests' \in [Clients -> [Servers -> Seq(Request)]]
  <1>1. requests[a][s] \in Seq(Request)
    BY DEF TypeOK
  <1>2. Head(requests[a][s]) \in Request /\ Tail(requests[a][s]) \in Seq(Request)
    BY <1>1, HeadTail
  <1> QED
    BY <1>2 DEF TypeOK, Consume, Request

-----------------------------------------------------------------------------
(* The inductive invariant *)

Inv ==
  /\ TypeOK
  /\ FinishCountExact
  /\ NoReadyRound
  /\ BlockedOnlyWhileFull
  /\ RoundIntegrity

\* Round integrity, agent by agent.
LEMMA IntegritySplit ==
  RoundIntegrity <=>
    \A s \in Servers :
      /\ Len(parameters_[s]) = bottom_version_[s]
      /\ \A a \in Agents : Split(accepted[s][a], parameters_[s], a,
                                  version_buffer_[s][a], bottom_version_[s])
  BY DEF RoundIntegrity, Split, Updates

\* The same of the next state.
LEMMA IntegritySplitNext ==
  RoundIntegrity' <=>
    \A s \in Servers :
      /\ Len(parameters_'[s]) = bottom_version_'[s]
      /\ \A a \in Agents : Split(accepted'[s][a], parameters_'[s], a,
                                  version_buffer_'[s][a], bottom_version_'[s])
  BY DEF RoundIntegrity, Split, Updates

\* What the invariant says of one server's queues and counters.
LEMMA ServerRow ==
  ASSUME TypeOK, NEW s \in Servers
  PROVE  /\ version_buffer_[s] \in Queues
         /\ finish_count_[s] \in Counters
         /\ FinishCountExact => Exact(version_buffer_[s], finish_count_[s])
         /\ \A a \in Agents : Len(version_buffer_[s][a]) \in Nat
  BY LenProperties
     DEF TypeOK, Updates, Queues, Counters, FinishCountExact, Exact, Delivered

\* What ServePush does to them before it looks for a complete round.
LEMMA PushRow ==
  ASSUME TypeOK, FinishCountExact, NEW s \in Servers, NEW a \in Agents,
         NEW update \in Blocks
  PROVE  /\ Inserted(s, a, update) \in Queues
         /\ Counted(s, a) \in Counters
         /\ Exact(Inserted(s, a, update), Counted(s, a))
         /\ \A b \in Agents \ {a} :
              Inserted(s, a, update)[b] = version_buffer_[s][b]
         /\ Inserted(s, a, update)[a] =
              IF Overfilled(s, a) THEN version_buffer_[s][a]
                                  ELSE Append(version_buffer_[s][a], update)
  <1> DEFINE vb == version_buffer_[s]
             fc == finish_count_[s]
  <1>1. vb \in Queues /\ fc \in Counters /\ Exact(vb, fc)
        /\ Len(vb[a]) \in Nat
    BY ServerRow
  <1>2. CASE Overfilled(s, a)
    BY <1>1, <1>2 DEF Inserted, Counted
  <1>3. CASE ~Overfilled(s, a)
    <2>1. Len(vb[a]) < Bound /\ Len(vb[a]) + 1 \in 1 .. Bound
      BY <1>1, <1>3, ServerAssumption DEF Overfilled
    <2>2. Inserted(s, a, update) = Insert(vb, a, update)
          /\ Counted(s, a) = Count(fc, Len(vb[a]) + 1)
      BY <1>3 DEF Inserted, Counted, Insert, Count
    <2> HIDE DEF vb, fc
    <2>3. /\ Insert(vb, a, update) \in Queues
          /\ Insert(vb, a, update)[a] = Append(vb[a], update)
          /\ \A b \in Agents \ {a} : Insert(vb, a, update)[b] = vb[b]
      BY <1>1, <2>1, InsertQueues
    <2>4. Count(fc, Len(vb[a]) + 1) \in Counters
      BY <1>1, <2>1, CountCounters
    <2>5. Exact(Insert(vb, a, update), Count(fc, Len(vb[a]) + 1))
      BY <1>1, <2>1, InsertExact
    <2> QED
      BY <1>3, <2>2, <2>3, <2>4, <2>5 DEF vb
  <1> QED
    BY <1>2, <1>3

\* The invariant of the servers holds initially.
LEMMA InitInv == Init => Inv
  <1> SUFFICES ASSUME Init PROVE Inv
    OBVIOUS
  <1>1. TypeOK
    BY InitType
  <1>2. FinishCountExact
    <2> SUFFICES ASSUME NEW s \in Servers, NEW k \in 1 .. Bound
                 PROVE  finish_count_[s][k] =
                          Cardinality({a \in Agents : Len(Updates(s, a)) >= k})
      BY DEF FinishCountExact
    <2>1. {a \in Agents : Len(Updates(s, a)) >= k} = {}
      BY DEF Init, Updates
    <2> QED
      BY <2>1, FS_EmptySet DEF Init
  <1>3. NoReadyRound /\ BlockedOnlyWhileFull
    BY ServerAssumption DEF Init, NoReadyRound, BlockedOnlyWhileFull, Updates
  <1>4. RoundIntegrity
    BY DEF Init, RoundIntegrity, Updates
  <1> QED
    BY <1>1, <1>2, <1>3, <1>4 DEF Inv

\* ServePush, when the round stays open.
LEMMA StorePushInv ==
  ASSUME Inv, NEW s \in Servers, NEW a \in Clients, StorePush(s, a)
  PROVE  Inv'
  <1> DEFINE update == Head(requests[a][s]).block
             vb == version_buffer_[s]
             new == Inserted(s, a, update)
  <1>0. TypeOK /\ FinishCountExact /\ Receives(s, a, "push") /\ Consume(s, a)
    BY DEF Inv, StorePush
  <1>1. a \in Agents /\ update \in Blocks
        /\ requests' \in [Clients -> [Servers -> Seq(Request)]]
    BY <1>0, ConsumeType DEF StorePush, Receives
  <1>2. /\ new \in Queues /\ Counted(s, a) \in Counters
        /\ Exact(new, Counted(s, a))
        /\ \A b \in Agents \ {a} : new[b] = vb[b]
        /\ new[a] = IF Overfilled(s, a) THEN vb[a] ELSE Append(vb[a], update)
    BY <1>0, <1>1, PushRow
  <1>3. /\ version_buffer_' = [version_buffer_ EXCEPT ![s] = new]
        /\ finish_count_' = [finish_count_ EXCEPT ![s] = Counted(s, a)]
        /\ Accept(s, a, update)
        /\ Counted(s, a)[1] # Cardinality(Agents)
        /\ UNCHANGED <<pull_request_, bottom_version_, parameters_,
                       backup_parameters_, replies, peers>>
    BY DEF StorePush
  <1>4. vb[a] \in Seq(Blocks) /\ Len(vb[a]) \in Nat
        /\ accepted[s][a] \in Seq(Blocks) /\ Len(accepted[s][a]) \in Nat
    BY <1>0, <1>1, LenProperties DEF TypeOK
  <1> DEFINE newAccepted == Append(accepted[s][a], update)
  <1>5. /\ newAccepted \in Seq(Blocks)
        /\ Len(newAccepted) = Len(accepted[s][a]) + 1
        /\ \A k \in 1 .. Len(accepted[s][a]) : newAccepted[k] = accepted[s][a][k]
        /\ newAccepted[Len(accepted[s][a]) + 1] = update
    BY <1>1, <1>4, AppendOne
  <1> HIDE DEF new, vb, update, newAccepted
  <1>6. /\ accepted' \in [Servers -> [Agents -> Seq(Blocks)]]
        /\ accepted'[s][a] = IF Overfilled(s, a) THEN accepted[s][a]
                                                 ELSE newAccepted
        /\ \A r \in Servers, b \in Agents :
             <<r, b>> # <<s, a>> => accepted'[r][b] = accepted[r][b]
    <2>1. CASE Overfilled(s, a)
      BY <1>0, <1>3, <2>1 DEF Accept, TypeOK
    <2>2. CASE ~Overfilled(s, a)
      <3>1. accepted' = [accepted EXCEPT ![s][a] = newAccepted]
        BY <1>3, <2>2 DEF Accept, newAccepted
      <3>2. accepted \in [Servers -> [Agents -> Seq(Blocks)]]
        BY <1>0 DEF TypeOK
      <3> QED
        BY <1>1, <1>5, <2>2, <3>1, <3>2, TableUpdate
    <2> QED
      BY <2>1, <2>2
  <1>7. /\ version_buffer_'[s] = new
        /\ \A r \in Servers \ {s} : version_buffer_'[r] = version_buffer_[r]
        /\ finish_count_'[s] = Counted(s, a)
        /\ \A r \in Servers \ {s} : finish_count_'[r] = finish_count_[r]
    BY <1>0, <1>3 DEF TypeOK
  <1>8. TypeOK'
    <2>1. version_buffer_' \in [Servers -> [Agents -> Seq(Blocks)]]
      BY <1>0, <1>2, <1>3 DEF TypeOK, Queues
    <2>2. finish_count_' \in [Servers -> [1 .. Bound -> Nat]]
      BY <1>0, <1>2, <1>3 DEF TypeOK, Counters
    <2>3. \A r \in Servers, b \in Agents : Len(version_buffer_'[r][b]) <= Bound
      BY <1>0, <1>2, <1>7 DEF TypeOK, Queues, Updates
    <2> QED
      BY <1>0, <1>1, <1>3, <1>6, <2>1, <2>2, <2>3 DEF TypeOK, Updates
  <1>9. FinishCountExact'
    BY <1>0, <1>2, <1>7 DEF FinishCountExact, Exact, Delivered, Updates
  <1>10. NoReadyRound'
    <2>1. \E b \in Agents : new[b] = <<>>
      BY <1>2, <1>3, CompleteMeansReady
    <2> QED
      BY <1>7, <2>1 DEF Inv, NoReadyRound, Updates
  <1>11. BlockedOnlyWhileFull'
    <2> SUFFICES ASSUME NEW r \in Servers, NEW b \in Agents,
                        pull_request_[r][b] # <<>>
                 PROVE  Len(version_buffer_'[r][b]) >= Bound
      BY <1>3 DEF BlockedOnlyWhileFull, Overfilled
    <2>1. Overfilled(r, b)
      BY DEF Inv, BlockedOnlyWhileFull
    <2>2. version_buffer_'[r][b] = version_buffer_[r][b]
      BY <1>2, <1>7, <2>1 DEF vb
    <2> QED
      BY <2>1, <2>2 DEF Overfilled
  <1>12. RoundIntegrity'
    <2> SUFFICES ASSUME NEW r \in Servers, NEW b \in Agents
                 PROVE  Split(accepted'[r][b], parameters_[r], b,
                              version_buffer_'[r][b], bottom_version_[r])
      BY <1>3, IntegritySplit, IntegritySplitNext DEF Inv
    <2>1. Split(accepted[r][b], parameters_[r], b,
                version_buffer_[r][b], bottom_version_[r])
      BY IntegritySplit DEF Inv
    <2>2. CASE <<r, b>> # <<s, a>> \/ Overfilled(s, a)
      <3>1. accepted'[r][b] = accepted[r][b]
            /\ version_buffer_'[r][b] = version_buffer_[r][b]
        BY <1>2, <1>6, <1>7, <2>2 DEF vb
      <3> QED
        BY <2>1, <3>1
    <2>3. CASE r = s /\ b = a /\ ~Overfilled(s, a)
      <3>1. /\ version_buffer_'[s][a] = Append(vb[a], update)
            /\ accepted'[s][a] = Append(accepted[s][a], update)
            /\ bottom_version_[s] \in Nat
        BY <1>0, <1>2, <1>6, <1>7, <2>3 DEF TypeOK, newAccepted
      <3> QED
        BY <1>1, <1>4, <2>1, <2>3, <3>1, SplitAppend DEF vb
    <2> QED
      BY <2>2, <2>3
  <1> QED
    BY <1>8, <1>9, <1>10, <1>11, <1>12 DEF Inv

\* ServePush, when the push completes a round.
LEMMA CompleteRoundInv ==
  ASSUME Inv, NEW s \in Servers, NEW a \in Clients, CompleteRound(s, a)
  PROVE  Inv'
  <1> DEFINE update == Head(requests[a][s]).block
             vb == version_buffer_[s]
             new == Inserted(s, a, update)
             popped == [b \in Agents |-> Tail(new[b])]
             round == [b \in Agents |-> Head(new[b])]
             n == bottom_version_[s]
             newAccepted == Append(accepted[s][a], update)
             newParameters == Append(parameters_[s], round)
  <1>0. TypeOK /\ FinishCountExact /\ Receives(s, a, "push") /\ Consume(s, a)
    BY DEF Inv, CompleteRound
  <1>1. a \in Agents /\ update \in Blocks
        /\ requests' \in [Clients -> [Servers -> Seq(Request)]]
    BY <1>0, ConsumeType DEF CompleteRound, Receives
  <1>2. /\ new \in Queues /\ Counted(s, a) \in Counters
        /\ Exact(new, Counted(s, a))
        /\ \A b \in Agents \ {a} : new[b] = vb[b]
        /\ new[a] = IF Overfilled(s, a) THEN vb[a] ELSE Append(vb[a], update)
    BY <1>0, <1>1, PushRow
  <1>3. /\ version_buffer_' = [version_buffer_ EXCEPT ![s] = popped]
        /\ parameters_' = [parameters_ EXCEPT ![s] = newParameters]
        /\ bottom_version_' = [bottom_version_ EXCEPT ![s] = n + 1]
        /\ finish_count_' = [finish_count_ EXCEPT ![s] = Shifted(Counted(s, a))]
        /\ Accept(s, a, update)
        /\ Counted(s, a)[1] = Cardinality(Agents)
        /\ RespondToAll(s, n + 1)
        /\ RequestBackup(s)
        /\ UNCHANGED backup_parameters_
    BY DEF CompleteRound, UpdateParameter
  <1>4. /\ vb[a] \in Seq(Blocks) /\ Len(vb[a]) \in Nat
        /\ accepted[s][a] \in Seq(Blocks) /\ Len(accepted[s][a]) \in Nat
        /\ n \in Nat
        /\ parameters_[s] \in Seq([Agents -> Blocks])
    BY <1>0, <1>1, LenProperties DEF TypeOK
  <1> HIDE DEF update, new, popped, round, n, newParameters, newAccepted
  <1>5. \A b \in Agents : new[b] # <<>>
    BY <1>2, <1>3, CompleteMeansReady
  <1>6. vb[a] = <<>> /\ ~Overfilled(s, a) /\ new[a] = Append(vb[a], update)
    <2>1. PICK b \in Agents : vb[b] = <<>>
      BY DEF Inv, NoReadyRound, Updates
    <2>2. b = a
      BY <1>2, <1>5, <2>1
    <2>3. Len(vb[a]) = 0
      BY <2>1, <2>2
    <2>4. ~Overfilled(s, a)
      BY <2>3, ServerAssumption DEF Overfilled
    <2> QED
      BY <1>2, <2>1, <2>2, <2>4
  <1>7. /\ popped \in Queues
        /\ round \in [Agents -> Blocks]
        /\ \A b \in Agents :
             /\ new[b] \in Seq(Blocks)
             /\ Len(popped[b]) = Len(new[b]) - 1 /\ Len(new[b]) \in Nat
             /\ round[b] = new[b][1]
             /\ \A i \in 1 .. Len(popped[b]) : popped[b][i] = new[b][i + 1]
    <2>1. popped \in Queues /\ round \in [Agents -> Blocks]
      BY <1>2, <1>5, PopQueues DEF popped, round
    <2>2. \A b \in Agents : new[b] \in Seq(Blocks)
      BY <1>2 DEF Queues
    <2>3. \A b \in Agents : /\ Len(Tail(new[b])) = Len(new[b]) - 1
                            /\ Len(new[b]) \in Nat
                            /\ Head(new[b]) = new[b][1]
                            /\ \A i \in 1 .. Len(Tail(new[b])) :
                                 Tail(new[b])[i] = new[b][i + 1]
      BY <1>5, <2>2, HeadTail
    <2> QED
      BY <2>1, <2>2, <2>3 DEF popped, round
  <1>8. /\ newParameters \in Seq([Agents -> Blocks])
        /\ Len(newParameters) = Len(parameters_[s]) + 1
        /\ \A i \in 1 .. Len(parameters_[s]) : newParameters[i] = parameters_[s][i]
        /\ newParameters[Len(parameters_[s]) + 1] = round
    BY <1>4, <1>7, AppendOne DEF newParameters
  <1>9. /\ newAccepted \in Seq(Blocks)
        /\ Len(newAccepted) = Len(accepted[s][a]) + 1
        /\ \A k \in 1 .. Len(accepted[s][a]) : newAccepted[k] = accepted[s][a][k]
        /\ newAccepted[Len(accepted[s][a]) + 1] = update
    BY <1>1, <1>4, AppendOne DEF newAccepted
  <1>10. /\ accepted' \in [Servers -> [Agents -> Seq(Blocks)]]
         /\ accepted'[s][a] = newAccepted
         /\ \A r \in Servers, b \in Agents :
              <<r, b>> # <<s, a>> => accepted'[r][b] = accepted[r][b]
    <2>1. accepted' = [accepted EXCEPT ![s][a] = newAccepted]
      BY <1>3, <1>6 DEF Accept, newAccepted
    <2>2. accepted \in [Servers -> [Agents -> Seq(Blocks)]]
      BY <1>0 DEF TypeOK
    <2> QED
      BY <1>1, <1>9, <2>1, <2>2, TableUpdate
  <1>11. Shifted(Counted(s, a)) \in Counters
         /\ Exact(popped, Shifted(Counted(s, a)))
    BY <1>2, <1>5, PopExact DEF popped
  <1>12. /\ version_buffer_'[s] = popped
         /\ finish_count_'[s] = Shifted(Counted(s, a))
         /\ parameters_'[s] = newParameters
         /\ bottom_version_'[s] = n + 1
         /\ \A r \in Servers \ {s} :
              /\ version_buffer_'[r] = version_buffer_[r]
              /\ finish_count_'[r] = finish_count_[r]
              /\ parameters_'[r] = parameters_[r]
              /\ bottom_version_'[r] = bottom_version_[r]
    BY <1>0, <1>3 DEF TypeOK
  <1>13. /\ pull_request_' \in [Servers -> [Agents -> Seq(Blocks)]]
         /\ \A b \in Agents : pull_request_'[s][b] = <<>>
         /\ \A r \in Servers \ {s} : pull_request_'[r] = pull_request_[r]
    BY <1>0, <1>3 DEF TypeOK, RespondToAll
  <1>14. TypeOK'
    <2>1. version_buffer_' \in [Servers -> [Agents -> Seq(Blocks)]]
      BY <1>0, <1>3, <1>7 DEF TypeOK, Queues
    <2>2. finish_count_' \in [Servers -> [1 .. Bound -> Nat]]
      BY <1>0, <1>3, <1>11 DEF TypeOK, Counters
    <2>3. \A r \in Servers, b \in Agents : Len(version_buffer_'[r][b]) <= Bound
      BY <1>0, <1>7, <1>12 DEF TypeOK, Queues, Updates
    <2>4. /\ parameters_' \in [Servers -> Seq([Agents -> Blocks])]
          /\ bottom_version_' \in [Servers -> Nat]
      BY <1>0, <1>3, <1>4, <1>8 DEF TypeOK
    <2>5. replies' \in [Servers -> [Clients -> Seq(Reply)]]
      <3>1. \A b \in Agents : Answers(s, b, n + 1) \in Seq(Reply)
        <4> TAKE b \in Agents
        <4>1. pull_request_[s][b] \in Seq(Blocks)
          BY <1>0 DEF TypeOK
        <4> QED
          BY <1>4, <4>1 DEF Answers, Reply
      <3>2. \A b \in Agents : replies[s][b] \in Seq(Reply)
        BY <1>0, ServerAssumption DEF TypeOK
      <3>3. \A b \in Agents : replies[s][b] \o Answers(s, b, n + 1) \in Seq(Reply)
        BY <3>1, <3>2, ConcatProperties
      <3> QED
        BY <1>0, <1>3, <3>3 DEF TypeOK, RespondToAll
    <2>6. peers' \in [Servers -> [Servers -> Seq(PeerMessage)]]
      <3>1. \A t \in Servers :
              Append(peers[s][t], [type |-> "backup_request"]) \in Seq(PeerMessage)
        BY <1>0, AppendOne DEF TypeOK, PeerMessage
      <3> QED
        BY <1>0, <1>3, <3>1 DEF TypeOK, RequestBackup
    <2> QED
      BY <1>0, <1>1, <1>3, <1>10, <1>13, <2>1, <2>2, <2>3, <2>4, <2>5, <2>6
      DEF TypeOK, Updates
  <1>15. FinishCountExact'
    BY <1>0, <1>11, <1>12 DEF FinishCountExact, Exact, Delivered, Updates
  <1>16. NoReadyRound'
    <2>1. Len(new[a]) = 1
      BY <1>1, <1>4, <1>6, AppendOne
    <2>2. popped[a] = <<>>
      <3>1. Len(popped[a]) = 0
        BY <1>1, <1>7, <2>1
      <3>2. popped[a] \in Seq(Blocks)
        BY <1>1, <1>7 DEF Queues
      <3> QED
        BY <3>1, <3>2, EmptySeq
    <2> QED
      BY <1>1, <1>12, <2>2 DEF Inv, NoReadyRound, Updates
  <1>17. BlockedOnlyWhileFull'
    BY <1>12, <1>13 DEF Inv, BlockedOnlyWhileFull, Overfilled
  <1>18. RoundIntegrity'
    <2>0. Len(parameters_[s]) = n
      BY DEF Inv, RoundIntegrity, n
    <2>1. ASSUME NEW b \in Agents
          PROVE  Split(accepted'[s][b], newParameters, b, popped[b], n + 1)
      <3>1. Split(accepted[s][b], parameters_[s], b, vb[b], n)
        BY IntegritySplit DEF Inv, n
      <3>2. Split(accepted'[s][b], parameters_[s], b, new[b], n)
        <4>1. CASE b # a
          BY <1>2, <1>10, <3>1, <4>1
        <4>2. CASE b = a
          BY <1>1, <1>4, <1>6, <1>10, <3>1, <4>2, SplitAppend DEF newAccepted
        <4> QED
          BY <4>1, <4>2
      <3>3. /\ accepted'[s][b] \in Seq(Blocks) /\ new[b] \in Seq(Blocks)
            /\ popped[b] = Tail(new[b])
            /\ \A k \in 1 .. n : newParameters[k] = parameters_[s][k]
            /\ newParameters[n + 1][b] = Head(new[b])
        BY <1>7, <1>8, <1>10, <2>0 DEF round, popped
      <3> QED
        BY <1>4, <1>5, <3>2, <3>3, SplitPop
    <2>2. ASSUME NEW r \in Servers \ {s}, NEW b \in Agents
          PROVE  Split(accepted'[r][b], parameters_'[r], b,
                       version_buffer_'[r][b], bottom_version_'[r])
      <3>1. Split(accepted[r][b], parameters_[r], b,
                  version_buffer_[r][b], bottom_version_[r])
        BY IntegritySplit DEF Inv
      <3>2. accepted'[r][b] = accepted[r][b]
        BY <1>10
      <3> QED
        BY <1>12, <3>1, <3>2
    <2>3. \A r \in Servers : Len(parameters_'[r]) = bottom_version_'[r]
      BY <1>8, <1>12, <2>0 DEF Inv, RoundIntegrity
    <2> QED
      BY <1>12, <2>1, <2>2, <2>3, IntegritySplitNext
  <1> QED
    BY <1>14, <1>15, <1>16, <1>17, <1>18 DEF Inv

\* The steps that leave queues, counters, rounds and blocked pulls alone.
LEMMA QuietInv ==
  ASSUME Inv, TypeOK',
         UNCHANGED <<version_buffer_, finish_count_, pull_request_,
                     bottom_version_, parameters_, accepted>>
  PROVE  Inv'
  <1>1. FinishCountExact' /\ NoReadyRound'
    BY DEF Inv, FinishCountExact, NoReadyRound, Updates
  <1>2. BlockedOnlyWhileFull'
    BY DEF Inv, BlockedOnlyWhileFull, Overfilled
  <1>3. RoundIntegrity'
    BY DEF Inv, RoundIntegrity, Updates
  <1> QED
    BY <1>1, <1>2, <1>3 DEF Inv

\* ServePull, when the pull has to wait.
LEMMA BlockPullInv ==
  ASSUME Inv, NEW s \in Servers, NEW a \in Clients, BlockPull(s, a)
  PROVE  Inv'
  <1> DEFINE block == Head(requests[a][s]).block
             blocked == Append(pull_request_[s][a], block)
  <1>0. /\ TypeOK /\ a \in Agents /\ Overfilled(s, a)
        /\ requests[a][s] # <<>> /\ Consume(s, a)
        /\ pull_request_' = [pull_request_ EXCEPT ![s][a] = blocked]
        /\ UNCHANGED <<version_buffer_, finish_count_, bottom_version_,
                       parameters_, backup_parameters_, accepted, replies, peers>>
    BY DEF Inv, BlockPull, Receives
  <1>1. block \in Blocks /\ requests' \in [Clients -> [Servers -> Seq(Request)]]
    BY <1>0, ConsumeType
  <1>2. blocked \in Seq(Blocks)
    BY <1>0, <1>1, AppendOne DEF TypeOK
  <1> HIDE DEF blocked
  <1>3. /\ pull_request_' \in [Servers -> [Agents -> Seq(Blocks)]]
        /\ \A r \in Servers, b \in Agents :
             <<r, b>> # <<s, a>> => pull_request_'[r][b] = pull_request_[r][b]
    BY <1>0, <1>2, TableUpdate DEF TypeOK
  <1>4. TypeOK'
    BY <1>0, <1>1, <1>3 DEF TypeOK, Updates
  <1>5. FinishCountExact' /\ NoReadyRound'
    BY <1>0 DEF Inv, FinishCountExact, NoReadyRound, Updates
  <1>6. BlockedOnlyWhileFull'
    BY <1>0, <1>3 DEF Inv, BlockedOnlyWhileFull, Overfilled
  <1>7. RoundIntegrity'
    BY <1>0 DEF Inv, RoundIntegrity, Updates
  <1> QED
    BY <1>4, <1>5, <1>6, <1>7 DEF Inv

\* ServePull, when the answer goes out at once.
LEMMA AnswerPullInv ==
  ASSUME Inv, NEW s \in Servers, NEW a \in Clients, AnswerPull(s, a)
  PROVE  Inv'
  <1> DEFINE reply == [block |-> Head(requests[a][s]).block,
                       version |-> bottom_version_[s]]
  <1>0. /\ TypeOK /\ requests[a][s] # <<>> /\ Consume(s, a)
        /\ replies' = [replies EXCEPT ![s][a] = Append(@, reply)]
        /\ UNCHANGED <<serverVars, peers>>
    BY DEF Inv, AnswerPull, Receives
  <1>1. /\ Head(requests[a][s]).block \in Blocks
        /\ requests' \in [Clients -> [Servers -> Seq(Request)]]
    BY <1>0, ConsumeType
  <1>2. reply \in Reply
    BY <1>0, <1>1 DEF TypeOK, Reply
  <1> HIDE DEF reply
  <1>3. Append(replies[s][a], reply) \in Seq(Reply)
    BY <1>0, <1>2, AppendOne DEF TypeOK
  <1>4. replies' \in [Servers -> [Clients -> Seq(Reply)]]
    BY <1>0, <1>3 DEF TypeOK
  <1>5. TypeOK'
    BY <1>0, <1>1, <1>4 DEF TypeOK, Updates, serverVars
  <1> QED
    BY <1>0, <1>5, QuietInv DEF serverVars

\* A request of an unknown sender.
LEMMA IgnoreStrangerInv ==
  ASSUME Inv, NEW s \in Servers, NEW a \in Clients, IgnoreStranger(s, a)
  PROVE  Inv'
  <1>1. TypeOK /\ requests[a][s] # <<>> /\ Consume(s, a)
        /\ UNCHANGED <<serverVars, replies, peers>>
    BY DEF Inv, IgnoreStranger
  <1>2. requests' \in [Clients -> [Servers -> Seq(Request)]]
    BY <1>1, ConsumeType
  <1>3. TypeOK'
    BY <1>1, <1>2 DEF TypeOK, Updates, serverVars
  <1> QED
    BY <1>1, <1>3, QuietInv DEF serverVars

\* The messages between servers.
LEMMA PeerInv ==
  ASSUME Inv, NEW s \in Servers, NEW t \in Servers,
         RespondBackup(s, t) \/ Backup(s, t)
  PROVE  Inv'
  <1>0. TypeOK /\ peers[t][s] # <<>>
    BY DEF Inv, RespondBackup, Backup
  <1>1. peers[t][s] \in Seq(PeerMessage) /\ Tail(peers[t][s]) \in Seq(PeerMessage)
        /\ Head(peers[t][s]) \in PeerMessage
    BY <1>0, HeadTail DEF TypeOK
  <1>2. CASE RespondBackup(s, t)
    <2> DEFINE answer == [type |-> "parameters",
                          copy |-> [owner |-> s, version |-> bottom_version_[s]]]
               mid == [peers EXCEPT ![t][s] = Tail(@)]
    <2>1. peers' = [mid EXCEPT ![s][t] = Append(@, answer)]
          /\ UNCHANGED <<serverVars, requests, replies>>
      BY <1>2 DEF RespondBackup
    <2>2. answer \in PeerMessage
      BY <1>0 DEF TypeOK, PeerMessage, Copy
    <2>3. mid \in [Servers -> [Servers -> Seq(PeerMessage)]]
      BY <1>0, <1>1 DEF TypeOK
    <2> HIDE DEF mid, answer
    <2>4. Append(mid[s][t], answer) \in Seq(PeerMessage)
      BY <2>2, <2>3, AppendOne
    <2>5. peers' \in [Servers -> [Servers -> Seq(PeerMessage)]]
      BY <2>1, <2>3, <2>4
    <2>6. TypeOK'
      BY <1>0, <2>1, <2>5 DEF TypeOK, Updates, serverVars
    <2> QED
      BY <2>1, <2>6, QuietInv DEF serverVars
  <1>3. CASE Backup(s, t)
    <2>1. Head(peers[t][s]).copy \in Copy
      BY <1>1, <1>3 DEF Backup, PeerMessage
    <2>2. backup_parameters_' \in [Servers -> [0 .. BackupSize - 1 -> Copy]]
      BY <1>0, <1>3, <2>1 DEF Backup, TypeOK
    <2>3. peers' \in [Servers -> [Servers -> Seq(PeerMessage)]]
      BY <1>0, <1>1, <1>3 DEF Backup, TypeOK
    <2>4. UNCHANGED <<version_buffer_, finish_count_, pull_request_,
                      bottom_version_, parameters_, accepted, requests, replies>>
      BY <1>3 DEF Backup
    <2>5. TypeOK'
      BY <1>0, <2>2, <2>3, <2>4 DEF TypeOK, Updates
    <2> QED
      BY <2>4, <2>5, QuietInv
  <1> QED
    BY <1>2, <1>3

\* The clients.
LEMMA ClientInv ==
  ASSUME Inv, NEW a \in Clients, NEW s \in Servers, ClientStep(a, s)
  PROVE  Inv'
  <1>0. TypeOK
    BY DEF Inv
  <1>1. CASE \E type \in {"push", "pull"}, block \in Blocks :
               Send(a, s, type, block)
    <2>1. PICK type \in {"push", "pull"}, block \in Blocks :
                 Send(a, s, type, block)
      BY <1>1
    <2>2. [type |-> type, block |-> block] \in Request
      BY DEF Request
    <2>3. Append(requests[a][s], [type |-> type, block |-> block]) \in Seq(Request)
      BY <1>0, <2>2, AppendOne DEF TypeOK
    <2>4. requests' \in [Clients -> [Servers -> Seq(Request)]]
      BY <1>0, <2>1, <2>3 DEF TypeOK, Send
    <2>5. UNCHANGED <<serverVars, replies, peers>>
      BY <2>1 DEF Send
    <2>6. TypeOK'
      BY <1>0, <2>4, <2>5 DEF TypeOK, Updates, serverVars
    <2> QED
      BY <2>5, <2>6, QuietInv DEF serverVars
  <1>2. CASE ReadReply(a, s)
    <2>1. Tail(replies[s][a]) \in Seq(Reply)
      BY <1>0, <1>2, HeadTail DEF TypeOK, ReadReply
    <2>2. replies' \in [Servers -> [Clients -> Seq(Reply)]]
      BY <1>0, <1>2, <2>1 DEF TypeOK, ReadReply
    <2>3. UNCHANGED <<serverVars, requests, peers>>
      BY <1>2 DEF ReadReply
    <2>4. TypeOK'
      BY <1>0, <2>2, <2>3 DEF TypeOK, Updates, serverVars
    <2> QED
      BY <2>3, <2>4, QuietInv DEF serverVars
  <1> QED
    BY <1>1, <1>2 DEF ClientStep

\* Every step of the specification preserves the invariant.
LEMMA NextInv == Inv /\ [Next]_vars => Inv'
  <1> SUFFICES ASSUME Inv, [Next]_vars PROVE Inv'
    OBVIOUS
  <1>1. ASSUME NEW s \in Servers, NEW a \in Clients, StorePush(s, a) PROVE Inv'
    BY <1>1, StorePushInv
  <1>2. ASSUME NEW s \in Servers, NEW a \in Clients, CompleteRound(s, a) PROVE Inv'
    BY <1>2, CompleteRoundInv
  <1>3. ASSUME NEW s \in Servers, NEW a \in Clients, BlockPull(s, a) PROVE Inv'
    BY <1>3, BlockPullInv
  <1>4. ASSUME NEW s \in Servers, NEW a \in Clients, AnswerPull(s, a) PROVE Inv'
    BY <1>4, AnswerPullInv
  <1>5. ASSUME NEW s \in Servers, NEW a \in Clients, IgnoreStranger(s, a) PROVE Inv'
    BY <1>5, IgnoreStrangerInv
  <1>6. ASSUME NEW s \in Servers, NEW t \in Servers,
               RespondBackup(s, t) \/ Backup(s, t)
        PROVE  Inv'
    BY <1>6, PeerInv
  <1>7. ASSUME NEW a \in Clients, NEW s \in Servers, ClientStep(a, s) PROVE Inv'
    BY <1>7, ClientInv
  <1>8. CASE UNCHANGED vars
    BY <1>8 DEF vars, serverVars, Inv, TypeOK, FinishCountExact, NoReadyRound,
       BlockedOnlyWhileFull, RoundIntegrity, Updates, Overfilled
  <1> QED
    BY <1>1, <1>2, <1>3, <1>4, <1>5, <1>6, <1>7, <1>8
    DEF Next, Serve, ServeClient, ServePeer, ServePush, ServePull

\* The invariant holds in every reachable state.
THEOREM Invariance == Spec => []Inv
  BY InitInv, NextInv, PTL DEF Spec

\* Type correctness: the queues stay within the bound and the counters within
\* their range for any clients.
THEOREM TypeCorrect == Spec => []TypeOK
  BY Invariance, PTL DEF Inv

\* finish_count_ always agrees with the queues it summarises.
THEOREM CountersExact == Spec => []FinishCountExact
  BY Invariance, PTL DEF Inv

\* No complete round is left unmerged between two requests.
THEOREM RoundsMergedAtOnce == Spec => []NoReadyRound
  BY Invariance, PTL DEF Inv

\* Only the pulls of agents that are a full bound ahead stay blocked.
THEOREM BlockedAreAhead == Spec => []BlockedOnlyWhileFull
  BY Invariance, PTL DEF Inv

\* Every merged round is made of updates of the same version, and no accepted
\* update is lost, repeated or reordered.
THEOREM RoundsConsistent == Spec => []RoundIntegrity
  BY Invariance, PTL DEF Inv

-----------------------------------------------------------------------------
(* Bounded staleness *)

\* A reply that a step sends has the current version, and its agent is then
\* less than Bound versions ahead.
LEMMA FreshReply ==
  ASSUME Inv, [Next]_vars, NEW s \in Servers, NEW a \in Agents,
         NEW i \in Len(replies[s][a]) + 1 .. Len(replies'[s][a])
  PROVE  /\ replies'[s][a][i].version = bottom_version_'[s]
         /\ Len(version_buffer_'[s][a]) < Bound
  <1> DEFINE old == replies[s][a]
  <1>a. TypeOK /\ FinishCountExact /\ a \in Clients
    BY ServerAssumption DEF Inv
  <1>b. /\ replies \in [Servers -> [Clients -> Seq(Reply)]]
        /\ bottom_version_ \in [Servers -> Nat]
        /\ version_buffer_ \in [Servers -> [Agents -> Seq(Blocks)]]
    BY <1>a DEF TypeOK
  <1>c. old \in Seq(Reply) /\ Len(old) \in Nat
    BY <1>a, <1>b, LenProperties
  <1>d. replies'[s][a] # replies[s][a]
    BY <1>c
  <1>1. ASSUME NEW r \in Servers, NEW b \in Clients, CompleteRound(r, b)
        PROVE  /\ replies'[s][a][i].version = bottom_version_'[s]
               /\ Len(version_buffer_'[s][a]) < Bound
    <2> DEFINE update == Head(requests[b][r]).block
               new == Inserted(r, b, update)
    <2>1. b \in Agents /\ update \in Blocks
      BY <1>a, <1>b, <1>c, <1>1, ConsumeType DEF CompleteRound, Receives
    <2>2. /\ replies' = [replies EXCEPT ![r] = [c \in Clients |->
                IF c \in Agents
                THEN replies[r][c] \o Answers(r, c, bottom_version_[r] + 1)
                ELSE replies[r][c]]]
          /\ version_buffer_' =
               [version_buffer_ EXCEPT ![r] = [c \in Agents |-> Tail(new[c])]]
          /\ bottom_version_' = [bottom_version_ EXCEPT ![r] = @ + 1]
          /\ Counted(r, b)[1] = Cardinality(Agents)
      BY <1>1 DEF CompleteRound, RespondToAll, UpdateParameter
    <2>3. new \in Queues /\ \A c \in Agents : new[c] # <<>>
      BY <1>a, <1>b, <1>c, <2>1, <2>2, PushRow, CompleteMeansReady
    <2> HIDE DEF new
    <2>4. s = r
      BY <1>b, <1>d, <2>2
    <2>5. Len(version_buffer_'[s][a]) < Bound
      <3>1. version_buffer_'[s][a] = Tail(new[a])
        BY <1>a, <1>b, <1>c, <2>2, <2>4
      <3>2. Len(Tail(new[a])) = Len(new[a]) - 1 /\ Len(new[a]) <= Bound
            /\ Len(new[a]) \in Nat
        BY <2>3, PopQueues, LenProperties DEF Queues
      <3> QED
        BY <3>1, <3>2, ServerAssumption
    <2>6. replies'[s][a][i].version = bottom_version_'[s]
      <3> DEFINE q == pull_request_[s][a]
                 answers == Answers(s, a, bottom_version_[s] + 1)
      <3>1. replies'[s][a] = old \o answers
            /\ bottom_version_'[s] = bottom_version_[s] + 1
        BY <1>a, <1>b, <1>c, <2>2, <2>4
      <3>2. q \in Seq(Blocks) /\ Len(q) \in Nat
        BY <1>a, <1>b, <1>c, LenProperties DEF TypeOK
      <3>3. /\ answers \in Seq(Reply) /\ Len(answers) = Len(q)
            /\ \A k \in 1 .. Len(q) :
                 answers[k].version = bottom_version_[s] + 1
        BY <1>a, <1>b, <1>c, <3>2, SMTT(20) DEF Answers, Reply
      <3> HIDE DEF q, answers, old
      <3>4. i \in Len(old) + 1 .. Len(old \o answers)
        BY <3>1 DEF old
      <3>5. /\ Len(old \o answers) = Len(old) + Len(answers)
            /\ \A k \in 1 .. Len(old) + Len(answers) :
                 (old \o answers)[k] = IF k <= Len(old) THEN old[k]
                                                       ELSE answers[k - Len(old)]
        <4>1. old \in Seq(Reply) /\ answers \in Seq(Reply)
          BY <1>c, <3>3 DEF old
        <4> QED
          BY <4>1, ConcatProperties
      <3>6. i - Len(old) \in 1 .. Len(q)
            /\ (old \o answers)[i] = answers[i - Len(old)]
        BY <1>c, <3>2, <3>3, <3>4, <3>5
      <3> QED
        BY <3>1, <3>3, <3>6
    <2> QED
      BY <2>5, <2>6
  <1>2. ASSUME NEW r \in Servers, NEW b \in Clients, AnswerPull(r, b)
        PROVE  /\ replies'[s][a][i].version = bottom_version_'[s]
               /\ Len(version_buffer_'[s][a]) < Bound
    <2> DEFINE reply == [block |-> Head(requests[b][r]).block,
                         version |-> bottom_version_[r]]
    <2>1. /\ replies' = [replies EXCEPT ![r][b] = Append(replies[r][b], reply)]
          /\ UNCHANGED serverVars
          /\ ~Overfilled(r, b)
      BY <1>2 DEF AnswerPull
    <2>2. s = r /\ a = b
      BY <1>a, <1>b, <1>d, <2>1
    <2>3. reply \in Reply
      BY <1>a, <1>b, <1>c, <1>2, ConsumeType DEF AnswerPull, Receives, Reply
    <2>4. replies'[s][a] = Append(old, reply)
      BY <1>a, <1>b, <1>c, <2>1, <2>2
    <2>5. reply.version = bottom_version_[s]
      BY <2>2
    <2> HIDE DEF reply, old
    <2>6. Len(Append(old, reply)) = Len(old) + 1
          /\ Append(old, reply)[Len(old) + 1] = reply
      BY <1>a, <1>b, <1>c, <2>3, AppendOne
    <2>7. i = Len(old) + 1
      BY <1>a, <1>b, <1>c, <2>4, <2>6 DEF old
    <2>8. Len(version_buffer_[s][a]) < Bound
      BY <1>a, <1>b, <1>c, <2>1, <2>2, ServerAssumption, LenProperties DEF Overfilled
    <2> QED
      BY <2>1, <2>4, <2>5, <2>6, <2>7, <2>8 DEF serverVars
  <1>3. ASSUME NEW r \in Servers, NEW b \in Clients, ReadReply(b, r)
        PROVE  FALSE
    <2>1. replies' = [replies EXCEPT ![r][b] = Tail(@)] /\ replies[r][b] # <<>>
      BY <1>3 DEF ReadReply
    <2>2. s = r /\ a = b
      BY <1>a, <1>b, <1>d, <2>1
    <2>3. replies'[s][a] = Tail(old) /\ old # <<>>
      BY <1>a, <1>b, <1>c, <2>1, <2>2
    <2>4. Len(Tail(old)) = Len(old) - 1
      BY <1>a, <1>b, <1>c, <2>3, HeadTail
    <2> QED
      BY <1>a, <1>b, <1>c, <2>3, <2>4
  <1>4. ASSUME UNCHANGED replies PROVE FALSE
    BY <1>d, <1>4
  <1>5. ASSUME NEW r \in Servers, NEW b \in Clients,
               StorePush(r, b) \/ BlockPull(r, b) \/ IgnoreStranger(r, b)
        PROVE  UNCHANGED replies
    BY <1>5 DEF StorePush, BlockPull, IgnoreStranger
  <1>6. ASSUME NEW r \in Servers, NEW t \in Servers,
               RespondBackup(r, t) \/ Backup(r, t)
        PROVE  UNCHANGED replies
    BY <1>6 DEF RespondBackup, Backup
  <1>7. ASSUME NEW r \in Servers, NEW b \in Clients,
               \E type \in {"push", "pull"}, block \in Blocks :
                 Send(b, r, type, block)
        PROVE  UNCHANGED replies
    BY <1>7 DEF Send
  <1> QED
    BY <1>1, <1>2, <1>3, <1>4, <1>5, <1>6, <1>7
    DEF Next, Serve, ServeClient, ServePeer, ServePush, ServePull, ClientStep, vars

\* Bounded staleness: whatever the clients do, the parameters a server sends
\* miss fewer than Bound of the updates it accepted from the receiver and
\* contain only rounds that every agent delivered.
THEOREM Staleness == Spec => StalenessBound
  <1> DEFINE Fresh == \A s \in Servers, a \in Agents :
       \A i \in Len(replies[s][a]) + 1 .. Len(replies'[s][a]) :
         /\ replies'[s][a][i].version + Bound > Len(accepted'[s][a])
         /\ \A b \in Agents : replies'[s][a][i].version <= Len(accepted'[s][b])
  <1>1. Inv /\ Inv' /\ [Next]_vars => Fresh
    <2> SUFFICES ASSUME Inv, Inv', [Next]_vars, NEW s \in Servers, NEW a \in Agents,
                        NEW i \in Len(replies[s][a]) + 1 .. Len(replies'[s][a])
                 PROVE  /\ replies'[s][a][i].version + Bound > Len(accepted'[s][a])
                        /\ \A b \in Agents :
                             replies'[s][a][i].version <= Len(accepted'[s][b])
      OBVIOUS
    <2>1. /\ replies'[s][a][i].version = bottom_version_'[s]
          /\ Len(version_buffer_'[s][a]) < Bound
      BY FreshReply
    <2>2. /\ bottom_version_'[s] \in Nat
          /\ \A b \in Agents : /\ Len(version_buffer_'[s][b]) \in Nat
                               /\ Len(accepted'[s][b]) =
                                    bottom_version_'[s] + Len(version_buffer_'[s][b])
      BY LenProperties DEF Inv, TypeOK, RoundIntegrity, Updates
    <2> DEFINE v == replies'[s][a][i].version
               n == bottom_version_'[s]
               L(b) == Len(version_buffer_'[s][b])
               A(b) == Len(accepted'[s][b])
    <2>3. /\ v = n /\ L(a) < Bound /\ n \in Nat
          /\ \A b \in Agents : L(b) \in Nat /\ A(b) = n + L(b)
      BY <2>1, <2>2
    <2> HIDE DEF v, n, L, A
    <2>4. v + Bound > A(a) /\ \A b \in Agents : v <= A(b)
      BY <2>3, ServerAssumption
    <2> QED
      BY <2>4 DEF v, A
  <1>2. Spec => [][Next]_vars
    BY DEF Spec
  <1> QED
    BY <1>1, <1>2, Invariance, PTL DEF StalenessBound

=============================================================================
