----------------------- MODULE ReconfigurationProofs ------------------------
(***************************************************************************)
(* A server that is given new configurations, for every number of servers, *)
(* agents, copies and configurations.                                      *)
(*                                                                         *)
(* The invariant has two halves.  That of the agents ties finish_count_ to *)
(* the queues it counts through the departures and arrivals of Reconfigure *)
(* (server.cc:501-536).  That of the ring says that a copy which is under  *)
(* way from another server still finds its entry when it arrives: servers  *)
(* only fail, so that two that stay never move apart.                      *)
(*                                                                         *)
(* The last part is about what the server stores.  A server that stays     *)
(* always ends at the same key, and entries of the partition only          *)
(* disappear.  It begins at an entry that was behind its own when the      *)
(* copies were made, and as many servers are gone as there are pieces of   *)
(* keys between the two: ExtendParameter finds them in its copies, in this *)
(* order (server.cc:614-618).                                              *)
(***************************************************************************)
EXTENDS Reconfiguration, FiniteSetTheorems, SequenceTheorems, TLAPS

-----------------------------------------------------------------------------
(* Lists of ids *)

\* The number of the first places.
LEMMA FirstPlaces ==
  ASSUME NEW n \in Nat
  PROVE  IsFiniteSet(1 .. n) /\ Cardinality(1 .. n) = n
BY FS_Interval

\* A remainder of a number below twice the divisor.
LEMMA SmallRemainder ==
  ASSUME NEW n \in Nat \ {0}, NEW x \in 0 .. 2 * n - 1
  PROVE  x % n = IF x < n THEN x ELSE x - n
OBVIOUS

\* IndexOf finds the place of an id, which is the only one in a list without
\* repetitions.
LEMMA IndexOfIsPlace ==
  ASSUME NEW T, NEW ids \in Seq(T), NEW s \in ToSet(ids)
  PROVE  /\ IndexOf(ids, s) \in 0 .. Len(ids) - 1
         /\ ids[IndexOf(ids, s) + 1] = s
<1>1. PICK i \in 1 .. Len(ids) : ids[i] = s
  BY DEF ToSet
<1>2. i - 1 \in 0 .. Len(ids) - 1 /\ ids[(i - 1) + 1] = s
  BY <1>1
<1>3. QED
  BY <1>2 DEF IndexOf

\* The index of the id at a place of a list without repetitions.
LEMMA PlaceIsIndexOf ==
  ASSUME NEW T, NEW ids \in Seq(T), IsInjective(ids), NEW i \in 1 .. Len(ids)
  PROVE  ids[i] \in ToSet(ids) /\ IndexOf(ids, ids[i]) = i - 1
<1>1. ids[i] \in ToSet(ids)
  BY DEF ToSet
<1>2. QED
  BY <1>1, IndexOfIsPlace DEF IsInjective

\* A list without repetitions has as many elements as places.
LEMMA ListCardinality ==
  ASSUME NEW T, NEW ids \in Seq(T), IsInjective(ids)
  PROVE  /\ ToSet(ids) \subseteq T
         /\ IsFiniteSet(ToSet(ids))
         /\ Cardinality(ToSet(ids)) = Len(ids)
<1>1. ToSet(ids) \subseteq T
  BY DEF ToSet
<1>2. ids \in Bijection(1 .. Len(ids), ToSet(ids))
  <2>1. ids \in [1 .. Len(ids) -> ToSet(ids)] /\ DOMAIN ids = 1 .. Len(ids)
    BY LenProperties DEF ToSet
  <2>2. \A x \in ToSet(ids) : \E i \in 1 .. Len(ids) : ids[i] = x
    BY <2>1 DEF ToSet
  <2>3. QED
    BY <2>1, <2>2, Zenon DEF Bijection, Injection, Surjection
<1>3. IsFiniteSet(1 .. Len(ids)) /\ Cardinality(1 .. Len(ids)) = Len(ids)
  <2>1. Len(ids) \in Nat
    BY LenProperties
  <2>2. QED
    BY <2>1, FirstPlaces
<1>4. QED
  BY <1>1, <1>2, <1>3, FS_Bijection DEF ExistsBijection

\* A list with one place taken out.
LEMMA RemoveAtPlaces ==
  ASSUME NEW T, NEW ids \in Seq(T), NEW i \in 1 .. Len(ids)
  PROVE  /\ RemoveAt(ids, i) \in Seq(T)
         /\ Len(RemoveAt(ids, i)) = Len(ids) - 1
         /\ \A j \in 1 .. Len(ids) - 1 :
              RemoveAt(ids, i)[j] = IF j < i THEN ids[j] ELSE ids[j + 1]
<1> DEFINE front == SubSeq(ids, 1, i - 1)
           back == SubSeq(ids, i + 1, Len(ids))
<1>1. /\ front \in Seq(T) /\ Len(front) = i - 1
      /\ \A j \in 1 .. i - 1 : front[j] = ids[j]
  BY SubSeqProperties, ElementOfSeq
<1>2. /\ back \in Seq(T) /\ Len(back) = Len(ids) - i
      /\ \A j \in 1 .. Len(ids) - i : back[j] = ids[i + j]
  BY SubSeqProperties, ElementOfSeq
<1> HIDE DEF front, back
<1>3. RemoveAt(ids, i) = front \o back
  BY DEF RemoveAt, front, back
<1>4. /\ front \o back \in Seq(T)
      /\ Len(front \o back) = Len(front) + Len(back)
      /\ \A j \in 1 .. Len(front) + Len(back) :
           (front \o back)[j] = IF j <= Len(front) THEN front[j]
                                 ELSE back[j - Len(front)]
  BY <1>1, <1>2, ConcatProperties
<1>5. QED
  BY <1>1, <1>2, <1>3, <1>4, SMTT(20)

-----------------------------------------------------------------------------
(* The configurations *)

ConfigType ==
  [server_id : Seq(Servers), partition : Seq(Keys), worker_id : Seq(Agents)]

GoodConfig(c) ==
  /\ c \in ConfigType
  /\ c.server_id # <<>> /\ c.worker_id # <<>>
  /\ Len(c.partition) = Len(c.server_id)
  /\ IsInjective(c.server_id) /\ IsInjective(c.worker_id)

\* How many servers stand between s and the server t behind it on the ring.
Between(ids, s, t) ==
  (IndexOf(ids, s) - 1 - IndexOf(ids, t) + Len(ids)) % Len(ids)

\* A ring from which servers were taken out.
Closer(old, new) ==
  /\ ToSet(new) \subseteq ToSet(old)
  /\ \A s, t \in ToSet(new) : Between(new, s, t) <= Between(old, s, t)

Configs ==
  /\ configs \in Seq(ConfigType) /\ configs # <<>>
  /\ \A k \in 1 .. Len(configs) : GoodConfig(configs[k])
  /\ \A k \in 1 .. Len(configs) - 1 :
       Closer(configs[k].server_id, configs[k + 1].server_id)

\* How many servers stand between two places of the ring.
LEMMA BetweenPlaces ==
  ASSUME NEW T, NEW ids \in Seq(T), IsInjective(ids),
         NEW a \in 1 .. Len(ids), NEW b \in 1 .. Len(ids)
  PROVE  Between(ids, ids[a], ids[b])
           = IF b < a THEN a - b - 1 ELSE a - b - 1 + Len(ids)
<1>1. IndexOf(ids, ids[a]) = a - 1 /\ IndexOf(ids, ids[b]) = b - 1
  BY PlaceIsIndexOf
<1>2. Len(ids) \in Nat \ {0} /\ (a - 1) - 1 - (b - 1) + Len(ids) \in 0 .. 2 * Len(ids) - 1
  OBVIOUS
<1> DEFINE x == (a - 1) - 1 - (b - 1) + Len(ids)
<1>3. x % Len(ids) = IF x < Len(ids) THEN x ELSE x - Len(ids)
  BY <1>2, SmallRemainder
<1>4. Between(ids, ids[a], ids[b]) = x % Len(ids)
  BY <1>1 DEF Between
<1>5. QED
  BY <1>2, <1>3, <1>4

\* The ring of a configuration without a server: places keep their order, or the
\* first server takes the last place.
LEMMA WithoutServerPlaces ==
  ASSUME NEW c, GoodConfig(c), NEW s \in ToSet(c.server_id), Len(c.server_id) > 1
  PROVE  LET ids == c.server_id
             new == WithoutServer(c, s).server_id
             i == IndexOf(ids, s) + 1
             n == Len(ids)
             from == [j \in 1 .. n - 1 |-> IF i < n THEN IF j < i THEN j ELSE j + 1
                                           ELSE IF j < n - 1 THEN j + 1 ELSE 1]
         IN  /\ new \in Seq(Servers) /\ Len(new) = n - 1
             /\ i \in 1 .. n
             /\ \A j \in 1 .. n - 1 : new[j] = ids[from[j]]
<1> DEFINE ids == c.server_id
           i == IndexOf(ids, s) + 1
           n == Len(ids)
           next == (i % n) + 1
           replaced == ReplaceAt(ids, i, ids[next])
           new == WithoutServer(c, s).server_id
<1>1. ids \in Seq(Servers) /\ n \in Nat /\ n > 1
  BY DEF GoodConfig, ConfigType
<1>2. i \in 1 .. n
  BY <1>1, IndexOfIsPlace
<1>3. next = IF i < n THEN i + 1 ELSE 1
  <2>1. i % n = IF i < n THEN i ELSE i - n
    BY <1>1, <1>2, SmallRemainder
  <2>2. QED
    BY <1>1, <1>2, <2>1
<1>4. /\ replaced \in Seq(Servers) /\ Len(replaced) = n
      /\ \A j \in 1 .. n : replaced[j] = IF j = i THEN ids[next] ELSE ids[j]
  BY <1>1, <1>2, <1>3 DEF ReplaceAt
<1>5. new = RemoveAt(replaced, next)
  BY <1>1 DEF WithoutServer, GoodConfig, ConfigType
<1> HIDE DEF next, replaced, new, i, n, ids
<1>6. /\ new \in Seq(Servers) /\ Len(new) = n - 1
      /\ \A j \in 1 .. n - 1 :
           new[j] = IF j < next THEN replaced[j] ELSE replaced[j + 1]
  <2>1. next \in 1 .. Len(replaced)
    BY <1>1, <1>2, <1>3, <1>4
  <2>2. QED
    BY <1>4, <1>5, <2>1, RemoveAtPlaces
<1>7. \A j \in 1 .. n - 1 :
        new[j] = IF i < n THEN IF j < i THEN ids[j] ELSE ids[j + 1]
                 ELSE IF j < n - 1 THEN ids[j + 1] ELSE ids[1]
  BY <1>1, <1>2, <1>3, <1>4, <1>6
<1>8. QED
  BY <1>1, <1>2, <1>6, <1>7 DEF i, n, ids, new

\* A configuration without a failed server is well formed, and no two servers
\* that stay are further apart.
LEMMA WithoutServerGood ==
  ASSUME NEW c, GoodConfig(c), NEW s \in ToSet(c.server_id), Len(c.server_id) > 1
  PROVE  /\ GoodConfig(WithoutServer(c, s))
         /\ Closer(c.server_id, WithoutServer(c, s).server_id)
<1> DEFINE ids == c.server_id
           new == WithoutServer(c, s).server_id
           i == IndexOf(ids, s) + 1
           n == Len(ids)
           From(j) == IF i < n THEN IF j < i THEN j ELSE j + 1
                      ELSE IF j < n - 1 THEN j + 1 ELSE 1
<1>1. /\ c \in ConfigType /\ ids \in Seq(Servers) /\ IsInjective(ids)
      /\ n \in Nat /\ n > 1
  BY DEF GoodConfig, ConfigType
<1>2. /\ new \in Seq(Servers) /\ Len(new) = n - 1 /\ i \in 1 .. n
      /\ \A j \in 1 .. n - 1 : new[j] = ids[From(j)]
  <2> HIDE DEF n, i, new, ids
  <2>1. LET from == [j \in 1 .. n - 1 |-> From(j)]
        IN  /\ new \in Seq(Servers) /\ Len(new) = n - 1
            /\ i \in 1 .. n
            /\ \A j \in 1 .. n - 1 : new[j] = ids[from[j]]
    BY WithoutServerPlaces DEF n, i, new, ids
  <2>2. QED
    BY <2>1
<1>3. \A j \in 1 .. n - 1 : From(j) \in 1 .. n
  BY <1>1, <1>2
<1>4. \A j, k \in 1 .. n - 1 : From(j) = From(k) => j = k
  BY <1>1, <1>2
<1>5. IsInjective(new)
  <2>1. DOMAIN new = 1 .. n - 1 /\ DOMAIN ids = 1 .. n
    BY <1>1, <1>2, LenProperties
  <2> HIDE DEF From, i, new, ids, n
  <2>2. QED
    BY <1>1, <1>2, <1>3, <1>4, <2>1 DEF IsInjective
<1>6. Closer(ids, new)
  <2>1. ToSet(new) \subseteq ToSet(ids)
    <3>1. DOMAIN new = 1 .. n - 1 /\ DOMAIN ids = 1 .. n
      BY <1>1, <1>2, LenProperties
    <3> HIDE DEF From, i, new, ids, n
    <3>2. QED
      BY <1>2, <1>3, <3>1 DEF ToSet
  <2>2. ASSUME NEW u \in ToSet(new), NEW v \in ToSet(new)
        PROVE  Between(new, u, v) <= Between(ids, u, v)
    <3>1. PICK a \in 1 .. n - 1, b \in 1 .. n - 1 : u = new[a] /\ v = new[b]
      <4>1. DOMAIN new = 1 .. n - 1
        BY <1>1, <1>2, LenProperties
      <4> HIDE DEF new, n
      <4>2. QED
        BY <2>2, <4>1 DEF ToSet
    <3>2. Between(new, new[a], new[b])
            = IF b < a THEN a - b - 1 ELSE a - b - 1 + (n - 1)
      BY <1>2, <1>5, BetweenPlaces, ZenonT(40)
    <3> HIDE DEF i
    <3>3. From(a) \in 1 .. n /\ From(b) \in 1 .. n
      BY <1>3
    <3>4. Between(ids, ids[From(a)], ids[From(b)])
            = IF From(b) < From(a) THEN From(a) - From(b) - 1
              ELSE From(a) - From(b) - 1 + n
      <4> HIDE DEF From
      <4>1. QED
        BY <1>1, <3>3, BetweenPlaces
    <3>5. u = ids[From(a)] /\ v = ids[From(b)]
      BY <1>2, <3>1
    <3> HIDE DEF new, ids
    <3>6. (IF b < a THEN a - b - 1 ELSE a - b - 1 + (n - 1))
            <= (IF From(b) < From(a) THEN From(a) - From(b) - 1
                ELSE From(a) - From(b) - 1 + n)
      <4> HIDE DEF n
      <4>1. QED
        BY <1>1, <1>2
    <3>7. QED
      BY <3>1, <3>2, <3>4, <3>5, <3>6
  <2>3. QED
    BY <2>1, <2>2 DEF Closer
<1>7. /\ WithoutServer(c, s).worker_id = c.worker_id
      /\ WithoutServer(c, s).partition \in Seq(Keys)
      /\ Len(WithoutServer(c, s).partition) = n - 1
      /\ WithoutServer(c, s) \in ConfigType
  <2> DEFINE next == (i % n) + 1
  <2>1. c.partition \in Seq(Keys) /\ Len(c.partition) = n
    BY DEF GoodConfig, ConfigType
  <2>2. next \in 1 .. n
    BY <1>1, <1>2
  <2>3. WithoutServer(c, s).partition = RemoveAt(c.partition, next)
    BY <1>1 DEF WithoutServer, ConfigType
  <2> HIDE DEF next
  <2>4. /\ WithoutServer(c, s).partition \in Seq(Keys)
        /\ Len(WithoutServer(c, s).partition) = n - 1
    BY <2>1, <2>2, <2>3, RemoveAtPlaces
  <2>5. WithoutServer(c, s).worker_id = c.worker_id
    BY <1>1 DEF WithoutServer, ConfigType
  <2>6. \E x, y : WithoutServer(c, s) = [c EXCEPT !.server_id = x, !.partition = y]
    BY DEF WithoutServer
  <2>7. PICK x, y : WithoutServer(c, s) = [c EXCEPT !.server_id = x, !.partition = y]
    BY <2>6
  <2>8. x = new /\ y = WithoutServer(c, s).partition
    BY <1>1, <2>7 DEF ConfigType
  <2>9. x \in Seq(Servers) /\ y \in Seq(Keys)
    BY <1>2, <2>4, <2>8
  <2>10. WithoutServer(c, s) \in ConfigType
    <3> HIDE DEF ids, new, i, n
    <3>1. QED
      BY <1>1, <2>7, <2>9 DEF ConfigType
  <2>11. QED
    BY <2>4, <2>5, <2>10
<1>8. QED
  BY <1>1, <1>2, <1>5, <1>6, <1>7 DEF GoodConfig

\* The same ring of servers with a list of agents that still has no repetitions.
LEMMA OtherAgentsGood ==
  ASSUME NEW c, GoodConfig(c), NEW w \in Seq(Agents), w # <<>>, IsInjective(w)
  PROVE  /\ GoodConfig([c EXCEPT !.worker_id = w])
         /\ Closer(c.server_id, [c EXCEPT !.worker_id = w].server_id)
<1> DEFINE d == [c EXCEPT !.worker_id = w]
<1>1. c \in ConfigType
  BY DEF GoodConfig
<1>2. /\ d \in ConfigType /\ d.worker_id = w
      /\ d.server_id = c.server_id /\ d.partition = c.partition
  BY <1>1 DEF ConfigType
<1>3. GoodConfig(d)
  BY <1>2 DEF GoodConfig
<1>4. Closer(c.server_id, c.server_id)
  <2>1. c.server_id \in Seq(Servers)
    BY <1>1 DEF ConfigType
  <2>2. \A s, t \in ToSet(c.server_id) :
          Between(c.server_id, s, t) \in Int
    <3> SUFFICES ASSUME NEW s \in ToSet(c.server_id), NEW t \in ToSet(c.server_id)
                 PROVE  Between(c.server_id, s, t) \in Int
      OBVIOUS
    <3>1. /\ IndexOf(c.server_id, s) \in 0 .. Len(c.server_id) - 1
          /\ IndexOf(c.server_id, t) \in 0 .. Len(c.server_id) - 1
      BY <2>1, IndexOfIsPlace
    <3>2. QED
      BY <2>1, <3>1 DEF Between
  <2>3. QED
    BY <2>2 DEF Closer
<1>5. QED
  BY <1>2, <1>3, <1>4

\* The list of agents without a failed one.
LEMMA WithoutAgentList ==
  ASSUME NEW c, GoodConfig(c), NEW a \in ToSet(c.worker_id)
  PROVE  LET w == RemoveAt(c.worker_id, IndexOf(c.worker_id, a) + 1)
         IN  /\ w \in Seq(Agents) /\ Len(w) = Len(c.worker_id) - 1
             /\ IsInjective(w) /\ ToSet(w) \subseteq ToSet(c.worker_id)
<1> DEFINE ids == c.worker_id
           i == IndexOf(ids, a) + 1
           w == RemoveAt(ids, i)
<1>1. ids \in Seq(Agents) /\ IsInjective(ids)
  BY DEF GoodConfig, ConfigType
<1>2. i \in 1 .. Len(ids)
  BY <1>1, IndexOfIsPlace
<1> HIDE DEF i
<1>3. /\ w \in Seq(Agents) /\ Len(w) = Len(ids) - 1
      /\ \A j \in 1 .. Len(ids) - 1 : w[j] = IF j < i THEN ids[j] ELSE ids[j + 1]
  BY <1>1, <1>2, RemoveAtPlaces
<1>4. DOMAIN w = 1 .. Len(ids) - 1 /\ DOMAIN ids = 1 .. Len(ids)
  BY <1>1, <1>3, LenProperties
<1> HIDE DEF w, ids
<1>5. IsInjective(w)
  <2> SUFFICES ASSUME NEW j \in 1 .. Len(ids) - 1, NEW k \in 1 .. Len(ids) - 1,
                      w[j] = w[k]
               PROVE  j = k
    BY <1>4 DEF IsInjective
  <2>1. \A x, y \in 1 .. Len(ids) : ids[x] = ids[y] => x = y
    BY <1>1, <1>4 DEF IsInjective
  <2>2. Len(ids) \in Nat
    BY <1>1
  <2>3. CASE j < i /\ k < i
    BY <1>2, <1>3, <2>1, <2>2, <2>3
  <2>4. CASE j < i /\ ~(k < i)
    BY <1>2, <1>3, <2>1, <2>2, <2>4
  <2>5. CASE ~(j < i) /\ k < i
    BY <1>2, <1>3, <2>1, <2>2, <2>5
  <2>6. CASE ~(j < i) /\ ~(k < i)
    BY <1>2, <1>3, <2>1, <2>2, <2>6
  <2>7. QED
    BY <2>3, <2>4, <2>5, <2>6
<1>6. ToSet(w) \subseteq ToSet(ids)
  BY <1>1, <1>2, <1>3, <1>4, SMTT(20) DEF ToSet
<1>7. QED
  BY <1>3, <1>5, <1>6 DEF w, ids, i

\* The list of agents with a new one.
LEMMA AppendedList ==
  ASSUME NEW w \in Seq(Agents), IsInjective(w), NEW b \in Agents \ ToSet(w)
  PROVE  /\ Append(w, b) \in Seq(Agents) /\ Append(w, b) # <<>>
         /\ IsInjective(Append(w, b))
<1>1. /\ Append(w, b) \in Seq(Agents) /\ Len(Append(w, b)) = Len(w) + 1
      /\ \A j \in 1 .. Len(w) : Append(w, b)[j] = w[j]
      /\ Append(w, b)[Len(w) + 1] = b
  BY AppendProperties
<1>2. DOMAIN Append(w, b) = 1 .. Len(w) + 1 /\ DOMAIN w = 1 .. Len(w)
  BY <1>1, LenProperties
<1>3. \A j \in 1 .. Len(w) : w[j] # b
  BY <1>2 DEF ToSet
<1>4. QED
  BY <1>1, <1>2, <1>3 DEF IsInjective

\* Every configuration the master may send next is well formed and brings the
\* servers that stay closer to each other on the ring.
LEMMA NewConfigsGood ==
  ASSUME NEW c, GoodConfig(c), NEW d \in NewConfigs(c)
  PROVE  GoodConfig(d) /\ Closer(c.server_id, d.server_id)
<1> DEFINE workers == ToSet(c.worker_id)
<1>1. c.worker_id \in Seq(Agents) /\ c \in ConfigType /\ IsInjective(c.worker_id)
  BY DEF GoodConfig, ConfigType
<1>2. ASSUME NEW s \in ToSet(c.server_id), Len(c.server_id) > 2,
             d = WithoutServer(c, s)
      PROVE  GoodConfig(d) /\ Closer(c.server_id, d.server_id)
  <2>1. Len(c.server_id) \in Nat
    BY DEF GoodConfig, ConfigType
  <2>2. QED
    BY <1>2, <2>1, WithoutServerGood
<1>3. ASSUME NEW a \in workers, Cardinality(workers) > 1, d = WithoutAgent(c, a)
      PROVE  GoodConfig(d) /\ Closer(c.server_id, d.server_id)
  <2> DEFINE w == RemoveAt(c.worker_id, IndexOf(c.worker_id, a) + 1)
  <2>1. d = [c EXCEPT !.worker_id = w]
    BY <1>3 DEF WithoutAgent
  <2>2. w \in Seq(Agents) /\ Len(w) = Len(c.worker_id) - 1 /\ IsInjective(w)
    BY WithoutAgentList
  <2>3. Len(c.worker_id) > 1
    BY <1>1, <1>3, ListCardinality
  <2> HIDE DEF w
  <2>4. w # <<>>
    BY <1>1, <2>2, <2>3
  <2>5. QED
    BY <2>1, <2>2, <2>4, OtherAgentsGood
<1>4. ASSUME NEW b \in Agents \ workers, d = WithAgent(c, b)
      PROVE  GoodConfig(d) /\ Closer(c.server_id, d.server_id)
  <2>1. d = [c EXCEPT !.worker_id = Append(c.worker_id, b)]
    BY <1>4 DEF WithAgent
  <2>2. /\ Append(c.worker_id, b) \in Seq(Agents) /\ Append(c.worker_id, b) # <<>>
        /\ IsInjective(Append(c.worker_id, b))
    BY <1>1, AppendedList
  <2>3. QED
    BY <2>1, <2>2, OtherAgentsGood
<1>5. ASSUME NEW a \in workers, NEW b \in Agents \ workers,
             d = WithAgent(WithoutAgent(c, a), b)
      PROVE  GoodConfig(d) /\ Closer(c.server_id, d.server_id)
  <2> DEFINE w == RemoveAt(c.worker_id, IndexOf(c.worker_id, a) + 1)
  <2>1. w \in Seq(Agents) /\ IsInjective(w) /\ ToSet(w) \subseteq workers
    BY WithoutAgentList
  <2>2. d = [[c EXCEPT !.worker_id = w] EXCEPT !.worker_id = Append(@, b)]
    BY <1>5 DEF WithAgent, WithoutAgent
  <2> HIDE DEF w
  <2>3. d = [c EXCEPT !.worker_id = Append(w, b)]
    BY <1>1, <2>2 DEF ConfigType
  <2>4. /\ Append(w, b) \in Seq(Agents) /\ Append(w, b) # <<>>
        /\ IsInjective(Append(w, b))
    BY <2>1, AppendedList
  <2>5. QED
    BY <2>3, <2>4, OtherAgentsGood
<1>6. QED
  BY <1>2, <1>3, <1>4, <1>5 DEF NewConfigs

\* The first configuration is well formed.
LEMMA ConfigsInit == Init => Configs
<1> SUFFICES ASSUME Init PROVE Configs
  OBVIOUS
<1>1. PICK c \in FirstConfigs : configs = <<c>>
  BY DEF Init
<1>2. c \in ConfigType
  BY ReconfigurationAssumption DEF ConfigType, Keys
<1>3. c.server_id # <<>>
  <2>1. c.server_id \in Seq(Servers) /\ Local \in ToSet(c.server_id)
    BY ReconfigurationAssumption
  <2>2. QED
    BY <2>1 DEF ToSet
<1>4. GoodConfig(c)
  BY <1>2, <1>3, ReconfigurationAssumption DEF GoodConfig
<1>5. QED
  BY <1>1, <1>2, <1>4 DEF Configs

\* Every configuration the master sends is well formed.
LEMMA ConfigsNext == Configs /\ [Next]_vars => Configs'
<1> SUFFICES ASSUME Configs, [Next]_vars PROVE Configs'
  OBVIOUS
<1>1. CASE SendConfig
  <2>1. PICK d \in NewConfigs(configs[Len(configs)]) : configs' = Append(configs, d)
    BY <1>1 DEF SendConfig
  <2>2. Len(configs) \in 1 .. Len(configs) /\ configs \in Seq(ConfigType)
    BY DEF Configs
  <2>3. GoodConfig(d) /\ Closer(configs[Len(configs)].server_id, d.server_id)
    BY <2>2, NewConfigsGood DEF Configs
  <2>4. d \in ConfigType
    BY <2>3 DEF GoodConfig
  <2>5. /\ configs' \in Seq(ConfigType) /\ Len(configs') = Len(configs) + 1
        /\ \A j \in 1 .. Len(configs) : configs'[j] = configs[j]
        /\ configs'[Len(configs) + 1] = d
    BY <2>1, <2>2, <2>4, AppendProperties
  <2>6. \A k \in 1 .. Len(configs') : GoodConfig(configs'[k])
    BY <2>2, <2>3, <2>5 DEF Configs
  <2>7. \A k \in 1 .. Len(configs') - 1 :
          Closer(configs'[k].server_id, configs'[k + 1].server_id)
    BY <2>2, <2>3, <2>5 DEF Configs
  <2>8. QED
    BY <2>2, <2>5, <2>6, <2>7 DEF Configs
<1>2. CASE ~SendConfig
  <2>1. configs' = configs
    BY <1>2 DEF Next, vars, PeerAnswers, Backup, RespondBackup, ServePush, ServePull,
                IgnoreStranger, RespondToAllOverruns, NotAssigned, Reconfigure, ReconfigureAborts
  <2>2. QED
    BY <2>1 DEF Configs
<1>3. QED
  BY <1>1, <1>2

-----------------------------------------------------------------------------
(* Queues, counters and agents *)

Ahead(buffer, k) == {i \in DOMAIN buffer : buffer[i] >= k}

Applied == applied \in [Servers -> 1 .. Len(configs)]

AgentTypes ==
  /\ version_buffer_ \in Seq(0 .. Bound) /\ version_buffer_ # <<>>
  /\ agent_ids_ \subseteq Agents /\ agent_ids_ # {} /\ IsFiniteSet(agent_ids_)
  /\ agent_num_ = Cardinality(agent_ids_)
  /\ DOMAIN id_to_index_ \subseteq Agents
  /\ id_to_index_ \in [DOMAIN id_to_index_ -> 0 .. Len(version_buffer_) - 1]
  /\ finish_count_ \in [1 .. Bound -> Nat]
  /\ phase \in [Agents -> {"pull", "blocked", "push", "ignored"}]
  /\ aligned \in BOOLEAN /\ departed \in BOOLEAN

Counts ==
  \A k \in 1 .. Bound : finish_count_[k] = Cardinality(Ahead(version_buffer_, k))

\* Updates wait only in the queue of a configured agent that has one.  An agent
\* without an entry of id_to_index_ is not enough: it would lose its claim to
\* queue 0 when it leaves.
Owned ==
  \A i \in DOMAIN version_buffer_ : version_buffer_[i] > 0 =>
    \E a \in agent_ids_ \cap DOMAIN id_to_index_ : id_to_index_[a] + 1 = i

AlignedNow ==
  aligned => /\ agent_ids_ \subseteq DOMAIN id_to_index_
             /\ {id_to_index_[a] : a \in agent_ids_} = 0 .. agent_num_ - 1

\* An agent that waits has a full queue, and one that can go on is left as long
\* as nobody left.
BlockedFull == \A a \in Blocked : Length(a) >= Bound

SomeoneNotFull ==
  (aligned /\ ~departed) => \E a \in agent_ids_ : Length(a) < Bound

AgentInv ==
  /\ AgentTypes
  /\ Counts
  /\ Owned
  /\ AlignedNow
  /\ BlockedFull
  /\ SomeoneNotFull

\* Every agent, known or not, is given a queue that exists.
LEMMA QueueExists ==
  ASSUME AgentTypes, NEW a
  PROVE  /\ QueueOf(a) \in 0 .. Len(version_buffer_) - 1
         /\ QueueOf(a) + 1 \in DOMAIN version_buffer_
         /\ DOMAIN version_buffer_ = 1 .. Len(version_buffer_)
         /\ Len(version_buffer_) \in Nat
         /\ Length(a) \in 0 .. Bound
         /\ \A i \in DOMAIN version_buffer_ : version_buffer_[i] \in 0 .. Bound
<1>1. /\ Len(version_buffer_) \in Nat \ {0}
      /\ DOMAIN version_buffer_ = 1 .. Len(version_buffer_)
      /\ \A i \in 1 .. Len(version_buffer_) : version_buffer_[i] \in 0 .. Bound
  <2>1. version_buffer_ \in Seq(0 .. Bound) /\ version_buffer_ # <<>>
    BY DEF AgentTypes
  <2>2. Len(version_buffer_) \in Nat \ {0}
    BY <2>1, EmptySeq
  <2>3. QED
    BY <2>1, <2>2, LenProperties, ElementOfSeq
<1>2. QueueOf(a) \in 0 .. Len(version_buffer_) - 1
  BY <1>1 DEF AgentTypes, QueueOf
<1>3. QED
  BY <1>1, <1>2 DEF Length

\* The queues of a buffer are finitely many.
LEMMA AheadFinite ==
  ASSUME NEW buffer \in Seq(0 .. Bound), NEW k
  PROVE  /\ IsFiniteSet(Ahead(buffer, k))
         /\ Cardinality(Ahead(buffer, k)) \in Nat
         /\ Ahead(buffer, k) \subseteq 1 .. Len(buffer)
<1>1. Len(buffer) \in Nat /\ Ahead(buffer, k) \in SUBSET (1 .. Len(buffer))
  BY DEF Ahead
<1>2. IsFiniteSet(1 .. Len(buffer))
  BY <1>1, FirstPlaces
<1>3. IsFiniteSet(Ahead(buffer, k))
  BY <1>1, <1>2, FS_Subset
<1>4. QED
  BY <1>1, <1>3, FS_CardinalityType

\* At most as many queues hold updates as there are agents to own them.
LEMMA OwnersBound ==
  ASSUME AgentTypes, NEW buffer \in Seq(0 .. Bound),
         \A i \in DOMAIN buffer : buffer[i] > 0 =>
           \E a \in agent_ids_ : QueueOf(a) + 1 = i
  PROVE  Cardinality(Ahead(buffer, 1)) <= agent_num_
<1> DEFINE S == Ahead(buffer, 1)
           owner == [i \in S |-> CHOOSE a \in agent_ids_ : QueueOf(a) + 1 = i]
<1>1. \A i \in S : \E a \in agent_ids_ : QueueOf(a) + 1 = i
  <2>1. \A i \in DOMAIN buffer : buffer[i] \in 0 .. Bound
    BY LenProperties, ElementOfSeq
  <2>2. QED
    BY <2>1 DEF Ahead
<1>2. \A i \in S : owner[i] \in agent_ids_ /\ QueueOf(owner[i]) + 1 = i
  BY <1>1
<1>3. owner \in Injection(S, agent_ids_)
  <2>1. owner \in [S -> agent_ids_] /\ DOMAIN owner = S
    BY <1>2
  <2> HIDE DEF owner, S
  <2>2. IsInjective(owner)
    <3> SUFFICES ASSUME NEW i \in S, NEW j \in S, owner[i] = owner[j] PROVE i = j
      BY <2>1 DEF IsInjective
    <3>1. QED
      BY <1>2
  <2>3. QED
    BY <2>1, <2>2 DEF Injection
<1> HIDE DEF owner, S
<1>4. IsFiniteSet(agent_ids_) /\ Cardinality(agent_ids_) = agent_num_
  BY DEF AgentTypes
<1>5. QED
  BY <1>3, <1>4, FS_Injection DEF S

\* A push, before the test for a complete round: the queues and the counters
\* agree again.
LEMMA StoredQueues ==
  ASSUME AgentInv, NEW a \in agent_ids_
  PROVE  /\ Stored(a) \in Seq(0 .. Bound)
         /\ Len(Stored(a)) = Len(version_buffer_)
         /\ DOMAIN Stored(a) = 1 .. Len(version_buffer_)
         /\ \A i \in 1 .. Len(version_buffer_) :
              /\ Stored(a)[i] \in 0 .. Bound /\ Stored(a)[i] >= version_buffer_[i]
              /\ Stored(a)[i] # version_buffer_[i] => i = QueueOf(a) + 1
<1> DEFINE q == QueueOf(a) + 1
<1>1. /\ q \in 1 .. Len(version_buffer_) /\ Len(version_buffer_) \in Nat
      /\ DOMAIN version_buffer_ = 1 .. Len(version_buffer_)
      /\ version_buffer_[q] = Length(a) /\ Length(a) \in 0 .. Bound
      /\ version_buffer_ \in Seq(0 .. Bound)
      /\ \A i \in 1 .. Len(version_buffer_) : version_buffer_[i] \in 0 .. Bound
  BY QueueExists DEF AgentInv, AgentTypes, Length
<1>2. Bound \in Nat
  BY ReconfigurationAssumption
<1>3. CASE Length(a) >= Bound
  BY <1>1, <1>2, <1>3 DEF Stored
<1>4. CASE ~(Length(a) >= Bound)
  <2>1. Stored(a) = [version_buffer_ EXCEPT ![q] = Length(a) + 1]
    BY <1>1, <1>4 DEF Stored
  <2>2. Length(a) + 1 \in 0 .. Bound
    BY <1>1, <1>2, <1>4
  <2> HIDE DEF q
  <2>3. /\ Stored(a) \in Seq(0 .. Bound) /\ Len(Stored(a)) = Len(version_buffer_)
        /\ \A i \in 1 .. Len(version_buffer_) :
             Stored(a)[i] = IF i = q THEN Length(a) + 1 ELSE version_buffer_[i]
    BY <1>1, <2>1, <2>2, ExceptSeq
  <2>4. DOMAIN Stored(a) = 1 .. Len(version_buffer_)
    BY <2>3, LenProperties
  <2>5. QED
    BY <1>1, <1>2, <2>2, <2>3, <2>4 DEF q
<1>5. QED
  BY <1>3, <1>4

\* The counters after a push count the queues after it.
LEMMA CountedQueues ==
  ASSUME AgentInv, NEW a \in agent_ids_
  PROVE  /\ Counted(a) \in [1 .. Bound -> Nat]
         /\ \A k \in 1 .. Bound : Counted(a)[k] = Cardinality(Ahead(Stored(a), k))
<1> DEFINE q == QueueOf(a) + 1
           n == Length(a) + 1
<1>1. /\ q \in 1 .. Len(version_buffer_) /\ Len(version_buffer_) \in Nat
      /\ DOMAIN version_buffer_ = 1 .. Len(version_buffer_)
      /\ version_buffer_[q] = Length(a) /\ Length(a) \in 0 .. Bound
      /\ version_buffer_ \in Seq(0 .. Bound)
      /\ \A i \in 1 .. Len(version_buffer_) : version_buffer_[i] \in 0 .. Bound
  BY QueueExists DEF AgentInv, AgentTypes, Length
<1>2. Bound \in Nat /\ finish_count_ \in [1 .. Bound -> Nat]
  BY ReconfigurationAssumption DEF AgentInv, AgentTypes
<1>3. CASE Length(a) >= Bound
  BY <1>2, <1>3 DEF Stored, Counted, AgentInv, Counts
<1>4. CASE ~(Length(a) >= Bound)
  <2>1. n \in 1 .. Bound
    BY <1>1, <1>2, <1>4
  <2>2. Counted(a) = [finish_count_ EXCEPT ![n] = @ + 1]
    BY <1>4 DEF Counted
  <2>3. Stored(a) = [version_buffer_ EXCEPT ![q] = n]
    BY <1>1, <1>4 DEF Stored
  <2>4. /\ Counted(a) \in [1 .. Bound -> Nat]
        /\ \A k \in 1 .. Bound :
             Counted(a)[k] = IF k = n THEN finish_count_[k] + 1 ELSE finish_count_[k]
    BY <1>2, <2>1, <2>2
  <2>5. ASSUME NEW k \in 1 .. Bound, k # n
        PROVE  Ahead(Stored(a), k) = Ahead(version_buffer_, k)
    <3> HIDE DEF q
    <3>1. DOMAIN Stored(a) = DOMAIN version_buffer_
      BY <2>3
    <3>2. ASSUME NEW i \in DOMAIN version_buffer_
          PROVE  Stored(a)[i] >= k <=> version_buffer_[i] >= k
      <4>1. CASE i = q
        BY <1>1, <2>3, <2>5, <4>1
      <4>2. CASE i # q
        BY <2>3, <4>2
      <4>3. QED
        BY <4>1, <4>2
    <3>3. QED
      BY <3>1, <3>2 DEF Ahead
  <2>6. Ahead(Stored(a), n) = Ahead(version_buffer_, n) \cup {q}
    <3> HIDE DEF q
    <3>1. DOMAIN Stored(a) = DOMAIN version_buffer_
      BY <2>3
    <3>2. ASSUME NEW i \in DOMAIN version_buffer_
          PROVE  Stored(a)[i] >= n <=> version_buffer_[i] >= n \/ i = q
      <4>1. CASE i = q
        BY <1>1, <2>3, <4>1
      <4>2. CASE i # q
        BY <2>3, <4>2
      <4>3. QED
        BY <4>1, <4>2
    <3>3. QED
      BY <1>1, <3>1, <3>2 DEF Ahead
  <2>7. q \notin Ahead(version_buffer_, n)
    BY <1>1 DEF Ahead
  <2>8. Cardinality(Ahead(Stored(a), n)) = Cardinality(Ahead(version_buffer_, n)) + 1
    <3>1. IsFiniteSet(Ahead(version_buffer_, n))
      BY <1>1, AheadFinite
    <3>2. QED
      BY <2>6, <2>7, <3>1, FS_AddElement
  <2>9. QED
    BY <2>1, <2>4, <2>5, <2>8 DEF AgentInv, Counts
<1>5. QED
  BY <1>3, <1>4

\* After a push, too, updates wait only in queues of configured agents.
LEMMA StoredOwned ==
  ASSUME AgentInv, NEW a \in agent_ids_,
         NEW i \in 1 .. Len(version_buffer_), Stored(a)[i] > 0
  PROVE  \E b \in agent_ids_ \cap (DOMAIN id_to_index_ \cup {a}) : QueueOf(b) + 1 = i
<1>1. CASE Stored(a)[i] # version_buffer_[i]
  <2>1. i = QueueOf(a) + 1
    BY <1>1, StoredQueues
  <2>2. QED
    BY <2>1
<1>2. CASE Stored(a)[i] = version_buffer_[i]
  <2>1. i \in DOMAIN version_buffer_
    BY QueueExists DEF AgentInv
  <2>2. PICK b \in agent_ids_ \cap DOMAIN id_to_index_ : id_to_index_[b] + 1 = i
    BY <1>2, <2>1 DEF AgentInv, Owned
  <2>3. QED
    BY <2>2 DEF QueueOf
<1>3. QED
  BY <1>1, <1>2

\* The test for a complete round cannot be passed over.
LEMMA CountedBound ==
  ASSUME AgentInv, NEW a \in agent_ids_
  PROVE  Cardinality(Ahead(Stored(a), 1)) <= agent_num_
<1>1. Stored(a) \in Seq(0 .. Bound) /\ DOMAIN Stored(a) = 1 .. Len(version_buffer_)
  BY StoredQueues
<1>2. \A i \in DOMAIN Stored(a) : Stored(a)[i] > 0 =>
        \E b \in agent_ids_ : QueueOf(b) + 1 = i
  BY <1>1, StoredOwned
<1>3. QED
  BY <1>1, <1>2, OwnersBound DEF AgentInv

\* As long as the agents have the first queues, updates wait only there, and
\* each of the first queues is an agent's.
LEMMA AlignedQueues ==
  ASSUME AgentInv, aligned
  PROVE  /\ agent_num_ \in Nat \ {0}
         /\ \A a \in agent_ids_ : QueueOf(a) + 1 \in 1 .. agent_num_
         /\ \A i \in 1 .. agent_num_ : \E a \in agent_ids_ : QueueOf(a) + 1 = i
<1>1. /\ agent_ids_ \subseteq DOMAIN id_to_index_
      /\ {id_to_index_[a] : a \in agent_ids_} = 0 .. agent_num_ - 1
  BY DEF AgentInv, AlignedNow
<1>2. \A a \in agent_ids_ : QueueOf(a) = id_to_index_[a]
  BY <1>1 DEF QueueOf
<1>3. agent_num_ \in Nat \ {0}
  <2>1. IsFiniteSet(agent_ids_) /\ agent_num_ = Cardinality(agent_ids_) /\ agent_ids_ # {}
    BY DEF AgentInv, AgentTypes
  <2>2. QED
    BY <2>1, FS_CardinalityType, FS_EmptySet
<1>4. \A a \in agent_ids_ : QueueOf(a) \in 0 .. agent_num_ - 1
  BY <1>1, <1>2
<1>5. \A j \in 0 .. agent_num_ - 1 : \E a \in agent_ids_ : QueueOf(a) = j
  BY <1>1, <1>2
<1>6. ASSUME NEW i \in 1 .. agent_num_
      PROVE  \E a \in agent_ids_ : QueueOf(a) + 1 = i
  <2>1. i - 1 \in 0 .. agent_num_ - 1
    BY <1>3
  <2>2. PICK a \in agent_ids_ : QueueOf(a) = i - 1
    BY <1>5, <2>1
  <2>3. QED
    BY <1>3, <2>2
<1>7. QED
  BY <1>3, <1>4, <1>6

\* When the round is complete and the agents have the first queues, each of
\* these holds an update.
LEMMA AlignedMergeable ==
  ASSUME AgentInv, aligned, NEW a \in agent_ids_, RoundComplete(a)
  PROVE  Mergeable(Stored(a))
<1> DEFINE S == Ahead(Stored(a), 1)
<1>1. /\ Stored(a) \in Seq(0 .. Bound) /\ Len(Stored(a)) = Len(version_buffer_)
      /\ DOMAIN Stored(a) = 1 .. Len(version_buffer_)
      /\ \A i \in 1 .. Len(version_buffer_) : Stored(a)[i] \in 0 .. Bound
  BY StoredQueues
<1>2. agent_num_ \in Nat \ {0} /\ \A b \in agent_ids_ : QueueOf(b) + 1 \in 1 .. agent_num_
  BY AlignedQueues
<1>3. S \in SUBSET (1 .. agent_num_)
  <2> SUFFICES ASSUME NEW i \in S PROVE i \in 1 .. agent_num_
    OBVIOUS
  <2>1. i \in 1 .. Len(version_buffer_) /\ Stored(a)[i] > 0
    BY <1>1 DEF Ahead
  <2>2. PICK b \in agent_ids_ : QueueOf(b) + 1 = i
    BY <2>1, StoredOwned
  <2>3. QED
    BY <1>2, <2>2
<1>4. Cardinality(S) = agent_num_
  <2>1. 1 \in 1 .. Bound
    BY ReconfigurationAssumption
  <2>2. QED
    BY <2>1, CountedQueues DEF RoundComplete
<1>5. IsFiniteSet(1 .. agent_num_) /\ Cardinality(1 .. agent_num_) = agent_num_
  BY <1>2, FirstPlaces
<1> HIDE DEF S
<1>6. S = 1 .. agent_num_
  BY <1>3, <1>4, <1>5, FS_Subset
<1>7. \A i \in 1 .. agent_num_ : i \in 1 .. Len(version_buffer_) /\ Stored(a)[i] > 0
  BY <1>1, <1>6 DEF S, Ahead
<1>8. agent_num_ <= Len(version_buffer_)
  BY <1>2, <1>7
<1>9. QED
  BY <1>1, <1>7, <1>8 DEF Mergeable

\* A merge takes one update from each queue that has any.
LEMMA MergedQueues ==
  ASSUME AgentInv, NEW a \in agent_ids_, RoundComplete(a), Mergeable(Stored(a))
  PROVE  /\ agent_num_ \in 0 .. Len(version_buffer_)
         /\ \A i \in 1 .. Len(version_buffer_) :
              Stored(a)[i] > 0 <=> i <= agent_num_
<1> DEFINE S == Ahead(Stored(a), 1)
<1>1. /\ Stored(a) \in Seq(0 .. Bound) /\ Len(Stored(a)) = Len(version_buffer_)
      /\ DOMAIN Stored(a) = 1 .. Len(version_buffer_)
      /\ \A i \in 1 .. Len(version_buffer_) : Stored(a)[i] \in 0 .. Bound
  BY StoredQueues
<1>2. agent_num_ \in Nat
  BY FS_CardinalityType DEF AgentInv, AgentTypes
<1>3. agent_num_ <= Len(version_buffer_) /\ \A i \in 1 .. agent_num_ : Stored(a)[i] > 0
  BY <1>1 DEF Mergeable
<1>4. Len(version_buffer_) \in Nat
  BY QueueExists DEF AgentInv
<1>5. (1 .. agent_num_) \in SUBSET S
  <2> SUFFICES ASSUME NEW i \in 1 .. agent_num_ PROVE i \in S
    OBVIOUS
  <2>1. i \in 1 .. Len(version_buffer_)
    BY <1>2, <1>3, <1>4
  <2>2. QED
    BY <1>1, <1>3, <2>1 DEF Ahead
<1>6. IsFiniteSet(S)
  BY <1>1, AheadFinite
<1>7. Cardinality(S) = agent_num_
  <2>1. 1 \in 1 .. Bound
    BY ReconfigurationAssumption
  <2>2. QED
    BY <2>1, CountedQueues DEF RoundComplete
<1>8. Cardinality(1 .. agent_num_) = agent_num_
  BY <1>2, FirstPlaces
<1> HIDE DEF S
<1>9. S = 1 .. agent_num_
  BY <1>5, <1>6, <1>7, <1>8, FS_Subset
<1>10. ASSUME NEW i \in 1 .. Len(version_buffer_)
       PROVE  Stored(a)[i] > 0 <=> i <= agent_num_
  <2>1. Stored(a)[i] > 0 <=> i \in S
    BY <1>1 DEF S, Ahead
  <2>2. QED
    BY <1>2, <1>9, <2>1
<1>11. QED
  BY <1>2, <1>3, <1>4, <1>10

\* A push adds the entry its lookup uses, and changes no other.
LEMMA PushLookup ==
  ASSUME AgentInv, NEW a \in Agents, ServePush(a)
  PROVE  /\ a \in agent_ids_ /\ agent_ids_' = agent_ids_ /\ agent_num_' = agent_num_
         /\ aligned' = aligned
         /\ DOMAIN id_to_index_' = DOMAIN id_to_index_ \cup {a}
         /\ DOMAIN id_to_index_' \subseteq Agents
         /\ id_to_index_' \in [DOMAIN id_to_index_' -> 0 .. Len(version_buffer_) - 1]
         /\ \A b : QueueOf(b)' = QueueOf(b)
         /\ AlignedNow'
<1>1. /\ a \in agent_ids_ /\ agent_ids_' = agent_ids_ /\ agent_num_' = agent_num_
      /\ aligned' = aligned
      /\ id_to_index_' = [b \in DOMAIN id_to_index_ \cup {a} |-> QueueOf(b)]
  BY DEF ServePush
<1>2. DOMAIN id_to_index_' = DOMAIN id_to_index_ \cup {a}
  BY <1>1
<1>3. DOMAIN id_to_index_' \subseteq Agents
  BY <1>2 DEF AgentInv, AgentTypes
<1>4. \A b : QueueOf(b) \in 0 .. Len(version_buffer_) - 1
  BY QueueExists DEF AgentInv
<1>5. id_to_index_' \in [DOMAIN id_to_index_' -> 0 .. Len(version_buffer_) - 1]
  BY <1>1, <1>2, <1>4
<1>6. \A b : QueueOf(b)' = QueueOf(b)
  BY <1>1, <1>2 DEF QueueOf
<1>7. AlignedNow'
  <2> SUFFICES ASSUME aligned
               PROVE  /\ agent_ids_ \subseteq DOMAIN id_to_index_'
                      /\ {id_to_index_'[b] : b \in agent_ids_} = 0 .. agent_num_ - 1
    BY <1>1 DEF AlignedNow
  <2>1. /\ agent_ids_ \subseteq DOMAIN id_to_index_
        /\ {id_to_index_[b] : b \in agent_ids_} = 0 .. agent_num_ - 1
    BY DEF AgentInv, AlignedNow
  <2>2. \A b \in agent_ids_ : id_to_index_'[b] = id_to_index_[b]
    BY <1>1, <2>1 DEF QueueOf
  <2>3. QED
    BY <1>2, <2>1, <2>2
<1>8. QED
  BY <1>1, <1>2, <1>3, <1>5, <1>6, <1>7

\* A push that completes no round.
LEMMA PushStores ==
  ASSUME AgentInv, NEW a \in Agents, ServePush(a), ~RoundComplete(a),
         version_buffer_' = Stored(a), finish_count_' = Counted(a),
         phase' = [phase EXCEPT ![a] = "pull"], departed' = departed
  PROVE  AgentInv'
<1>1. /\ a \in agent_ids_ /\ agent_ids_' = agent_ids_ /\ agent_num_' = agent_num_
      /\ aligned' = aligned
      /\ DOMAIN id_to_index_' = DOMAIN id_to_index_ \cup {a}
      /\ DOMAIN id_to_index_' \subseteq Agents
      /\ id_to_index_' \in [DOMAIN id_to_index_' -> 0 .. Len(version_buffer_) - 1]
      /\ \A b : QueueOf(b)' = QueueOf(b)
      /\ AlignedNow'
  BY PushLookup
<1>2. /\ Stored(a) \in Seq(0 .. Bound)
      /\ Len(Stored(a)) = Len(version_buffer_)
      /\ DOMAIN Stored(a) = 1 .. Len(version_buffer_)
      /\ \A i \in 1 .. Len(version_buffer_) :
           Stored(a)[i] \in 0 .. Bound /\ Stored(a)[i] >= version_buffer_[i]
  BY <1>1, StoredQueues
<1>3. /\ Counted(a) \in [1 .. Bound -> Nat]
      /\ \A k \in 1 .. Bound : Counted(a)[k] = Cardinality(Ahead(Stored(a), k))
  BY <1>1, CountedQueues
<1>4. /\ \A b : QueueOf(b) + 1 \in 1 .. Len(version_buffer_)
      /\ Len(version_buffer_) \in Nat \ {0}
      /\ \A i \in 1 .. Len(version_buffer_) : version_buffer_[i] \in 0 .. Bound
  BY QueueExists DEF AgentInv
<1>5. \A b : Length(b)' = Stored(a)[QueueOf(b) + 1]
  BY <1>1 DEF Length
<1>6. Bound \in Nat \ {0}
  BY ReconfigurationAssumption
<1>7. AgentTypes'
  <2>1. phase' \in [Agents -> {"pull", "blocked", "push", "ignored"}]
    BY DEF AgentInv, AgentTypes
  <2>2. version_buffer_' # <<>>
    BY <1>2, <1>4, EmptySeq
  <2>3. QED
    BY <1>1, <1>2, <1>3, <2>1, <2>2 DEF AgentInv, AgentTypes
<1>8. Counts'
  BY <1>3 DEF Counts, Ahead
<1>9. Owned'
  <2> SUFFICES ASSUME NEW i \in 1 .. Len(version_buffer_), Stored(a)[i] > 0
               PROVE  \E b \in agent_ids_ \cap DOMAIN id_to_index_' :
                        id_to_index_'[b] + 1 = i
    BY <1>1, <1>2 DEF Owned
  <2>1. PICK b \in agent_ids_ \cap (DOMAIN id_to_index_ \cup {a}) : QueueOf(b) + 1 = i
    BY <1>1, StoredOwned
  <2>2. id_to_index_'[b] = QueueOf(b)
    BY <2>1 DEF ServePush
  <2>3. QED
    BY <1>1, <2>1, <2>2
<1>10. BlockedFull'
  <2> SUFFICES ASSUME NEW b \in Agents, phase'[b] = "blocked"
               PROVE  Stored(a)[QueueOf(b) + 1] >= Bound
    BY <1>5 DEF BlockedFull, Blocked
  <2>1. b \in Blocked
    BY DEF Blocked, AgentInv, AgentTypes
  <2>2. version_buffer_[QueueOf(b) + 1] >= Bound
    BY <2>1 DEF AgentInv, BlockedFull, Length
  <2>3. QED
    BY <1>2, <1>4, <1>6, <2>2
<1>11. SomeoneNotFull'
  <2> SUFFICES ASSUME aligned, \A b \in agent_ids_ : ~(Stored(a)[QueueOf(b) + 1] < Bound)
               PROVE  FALSE
    BY <1>1, <1>5 DEF SomeoneNotFull
  <2>1. /\ agent_num_ \in Nat \ {0}
        /\ \A b \in agent_ids_ : QueueOf(b) + 1 \in 1 .. agent_num_
        /\ \A i \in 1 .. agent_num_ : \E b \in agent_ids_ : QueueOf(b) + 1 = i
    BY AlignedQueues
  <2>2. \A i \in 1 .. agent_num_ : i \in Ahead(Stored(a), 1)
    <3> SUFFICES ASSUME NEW i \in 1 .. agent_num_ PROVE i \in Ahead(Stored(a), 1)
      OBVIOUS
    <3>1. PICK b \in agent_ids_ : QueueOf(b) + 1 = i
      BY <2>1
    <3>2. i \in 1 .. Len(version_buffer_) /\ ~(Stored(a)[i] < Bound)
      BY <1>4, <3>1
    <3>3. Stored(a)[i] >= 1
      BY <1>2, <1>6, <3>2
    <3>4. QED
      BY <1>2, <3>2, <3>3 DEF Ahead
  <2>3. (1 .. agent_num_) \in SUBSET Ahead(Stored(a), 1)
    BY <2>2
  <2>4. IsFiniteSet(Ahead(Stored(a), 1)) /\ Cardinality(Ahead(Stored(a), 1)) \in Nat
    BY <1>2, AheadFinite
  <2>5. agent_num_ <= Cardinality(Ahead(Stored(a), 1))
    BY <2>1, <2>3, <2>4, FS_Subset, FirstPlaces
  <2>6. Cardinality(Ahead(Stored(a), 1)) <= agent_num_
    BY <1>1, CountedBound
  <2>7. Counted(a)[1] = agent_num_
    BY <1>3, <1>6, <2>1, <2>4, <2>5, <2>6
  <2>8. QED
    BY <2>7 DEF RoundComplete
<1>12. QED
  BY <1>1, <1>7, <1>8, <1>9, <1>10, <1>11 DEF AgentInv

\* A push that completes a round, with the merge.
LEMMA PushMerges ==
  ASSUME AgentInv, NEW a \in Agents, ServePush(a), RoundComplete(a),
         Mergeable(Stored(a)),
         finish_count_' = Shifted(Counted(a)),
         version_buffer_' = [i \in DOMAIN version_buffer_ |->
           IF i <= agent_num_ THEN Stored(a)[i] - 1 ELSE Stored(a)[i]],
         phase' = [Released EXCEPT ![a] = "pull"], departed' = FALSE
  PROVE  AgentInv'
<1>1. /\ a \in agent_ids_ /\ agent_ids_' = agent_ids_ /\ agent_num_' = agent_num_
      /\ aligned' = aligned
      /\ DOMAIN id_to_index_' = DOMAIN id_to_index_ \cup {a}
      /\ DOMAIN id_to_index_' \subseteq Agents
      /\ id_to_index_' \in [DOMAIN id_to_index_' -> 0 .. Len(version_buffer_) - 1]
      /\ \A b : QueueOf(b)' = QueueOf(b)
      /\ AlignedNow'
  BY PushLookup
<1> DEFINE n == Len(version_buffer_)
<1>2. /\ Stored(a) \in Seq(0 .. Bound)
      /\ DOMAIN Stored(a) = 1 .. n
      /\ \A i \in 1 .. n : Stored(a)[i] \in 0 .. Bound
  BY <1>1, StoredQueues
<1>3. /\ Counted(a) \in [1 .. Bound -> Nat]
      /\ \A k \in 1 .. Bound : Counted(a)[k] = Cardinality(Ahead(Stored(a), k))
  BY <1>1, CountedQueues
<1>4. /\ \A b : QueueOf(b) + 1 \in 1 .. n
      /\ n \in Nat \ {0} /\ DOMAIN version_buffer_ = 1 .. n
  BY QueueExists DEF AgentInv
<1>5. /\ agent_num_ \in 0 .. n
      /\ \A i \in 1 .. n : Stored(a)[i] > 0 <=> i <= agent_num_
  BY <1>1, MergedQueues
<1>6. Bound \in Nat \ {0}
  BY ReconfigurationAssumption
<1> HIDE DEF n
<1>7. /\ DOMAIN version_buffer_' = 1 .. n
      /\ \A i \in 1 .. n :
           version_buffer_'[i] = IF i <= agent_num_ THEN Stored(a)[i] - 1 ELSE 0
  BY <1>2, <1>4, <1>5
<1>8. \A i \in 1 .. n : version_buffer_'[i] \in 0 .. Bound - 1
  BY <1>2, <1>5, <1>6, <1>7
<1>9. version_buffer_' \in Seq(0 .. Bound) /\ Len(version_buffer_') = n
  <2>1. version_buffer_' \in [1 .. n -> 0 .. Bound]
    BY <1>4, <1>6, <1>8
  <2>2. QED
    BY <1>4, <2>1
<1>10. Blocked' = {}
  <2>1. \A b \in Agents : phase'[b] # "blocked"
    BY DEF Released, Blocked
  <2>2. QED
    BY <2>1 DEF Blocked
<1>11. AgentTypes'
  <2>1. phase' \in [Agents -> {"pull", "blocked", "push", "ignored"}]
    BY DEF AgentInv, AgentTypes, Released
  <2>2. version_buffer_' # <<>>
    BY <1>4, <1>9, EmptySeq
  <2>3. finish_count_' \in [1 .. Bound -> Nat]
    BY <1>3, <1>6 DEF Shifted
  <2>4. id_to_index_' \in [DOMAIN id_to_index_' -> 0 .. Len(version_buffer_') - 1]
    BY <1>1, <1>9 DEF n
  <2>5. QED
    BY <1>1, <1>9, <2>1, <2>2, <2>3, <2>4 DEF AgentInv, AgentTypes
<1>12. Counts'
  <2> SUFFICES ASSUME NEW k \in 1 .. Bound
               PROVE  finish_count_'[k] = Cardinality(Ahead(version_buffer_', k))
    BY DEF Counts, Ahead
  <2>1. CASE k < Bound
    <3>1. finish_count_'[k] = Counted(a)[k + 1] /\ k + 1 \in 1 .. Bound
      BY <1>6, <2>1 DEF Shifted
    <3>2. ASSUME NEW i \in 1 .. n
          PROVE  version_buffer_'[i] >= k <=> Stored(a)[i] >= k + 1
      <4>1. CASE i <= agent_num_
        BY <1>2, <1>6, <1>7, <4>1
      <4>2. CASE ~(i <= agent_num_)
        <5>1. Stored(a)[i] = 0 /\ version_buffer_'[i] = 0
          BY <1>2, <1>5, <1>7, <4>2
        <5>2. QED
          BY <1>6, <5>1
      <4>3. QED
        BY <4>1, <4>2
    <3>3. Ahead(version_buffer_', k) = Ahead(Stored(a), k + 1)
      BY <1>2, <1>7, <3>2 DEF Ahead
    <3>4. QED
      BY <1>3, <3>1, <3>3
  <2>2. CASE ~(k < Bound)
    <3>1. finish_count_'[k] = 0
      BY <2>2 DEF Shifted
    <3>2. Ahead(version_buffer_', k) = {}
      BY <1>6, <1>7, <1>8, <2>2 DEF Ahead
    <3>3. QED
      BY <3>1, <3>2, FS_EmptySet
  <2>3. QED
    BY <2>1, <2>2
<1>13. Owned'
  <2> SUFFICES ASSUME NEW i \in 1 .. n, version_buffer_'[i] > 0
               PROVE  \E b \in agent_ids_ \cap DOMAIN id_to_index_' :
                        id_to_index_'[b] + 1 = i
    BY <1>1, <1>7 DEF Owned
  <2>1. Stored(a)[i] > 0 /\ i \in 1 .. Len(version_buffer_)
    BY <1>2, <1>5, <1>7 DEF n
  <2>2. PICK b \in agent_ids_ \cap (DOMAIN id_to_index_ \cup {a}) : QueueOf(b) + 1 = i
    BY <1>1, <2>1, StoredOwned
  <2>3. id_to_index_'[b] = QueueOf(b)
    BY <2>2 DEF ServePush
  <2>4. QED
    BY <1>1, <2>2, <2>3
<1>14. BlockedFull'
  BY <1>10 DEF BlockedFull
<1>15. SomeoneNotFull'
  <2>1. Length(a)' = version_buffer_'[QueueOf(a) + 1]
    BY <1>1 DEF Length
  <2>2. Length(a)' < Bound
    BY <1>4, <1>6, <1>8, <2>1
  <2>3. QED
    BY <1>1, <2>2 DEF SomeoneNotFull
<1>16. QED
  BY <1>1, <1>11, <1>12, <1>13, <1>14, <1>15 DEF AgentInv

\* A push, with or without the merge, keeps the invariant of the agents.
LEMMA AgentPush ==
  ASSUME AgentInv, NEW a \in Agents, ServePush(a)
  PROVE  AgentInv'
<1>1. CASE ~RoundComplete(a)
  BY <1>1, PushStores DEF ServePush
<1>2. CASE RoundComplete(a) /\ Mergeable(Stored(a)) /\ departed' = FALSE
           /\ finish_count_' = Shifted(Counted(a))
           /\ version_buffer_' = [i \in DOMAIN version_buffer_ |->
                IF i <= agent_num_ THEN Stored(a)[i] - 1 ELSE Stored(a)[i]]
           /\ phase' = [Released EXCEPT ![a] = "pull"]
  BY <1>2, PushMerges
<1>3. CASE UNCHANGED <<version_buffer_, finish_count_, phase, departed>>
  <2>1. /\ a \in agent_ids_ /\ agent_ids_' = agent_ids_ /\ agent_num_' = agent_num_
        /\ aligned' = aligned
        /\ DOMAIN id_to_index_' = DOMAIN id_to_index_ \cup {a}
        /\ DOMAIN id_to_index_' \subseteq Agents
        /\ id_to_index_' \in [DOMAIN id_to_index_' -> 0 .. Len(version_buffer_) - 1]
        /\ \A b : QueueOf(b)' = QueueOf(b)
        /\ AlignedNow'
    BY PushLookup
  <2>2. UNCHANGED <<version_buffer_, finish_count_, phase, departed>>
    BY <1>3
  <2>3. \A b : Length(b)' = Length(b)
    BY <2>1, <2>2 DEF Length
  <2>4. AgentTypes'
    BY <2>1, <2>2 DEF AgentInv, AgentTypes
  <2>5. Counts'
    BY <2>2 DEF AgentInv, Counts, Ahead
  <2>6. Owned'
    <3> SUFFICES ASSUME NEW i \in DOMAIN version_buffer_, version_buffer_[i] > 0
                 PROVE  \E b \in agent_ids_ \cap DOMAIN id_to_index_' :
                          id_to_index_'[b] + 1 = i
      BY <2>1, <2>2 DEF Owned
    <3>1. PICK b \in agent_ids_ \cap DOMAIN id_to_index_ : id_to_index_[b] + 1 = i
      BY DEF AgentInv, Owned
    <3>2. id_to_index_'[b] = id_to_index_[b]
      BY <3>1 DEF ServePush, QueueOf
    <3>3. QED
      BY <2>1, <3>1, <3>2
  <2>7. BlockedFull' /\ SomeoneNotFull'
    BY <2>1, <2>2, <2>3 DEF AgentInv, BlockedFull, SomeoneNotFull, Blocked
  <2>8. QED
    BY <2>1, <2>4, <2>5, <2>6, <2>7 DEF AgentInv
<1>4. QED
  BY <1>1, <1>2, <1>3 DEF ServePush

\* Steps that leave queues and agents alone, and block nobody without reason.
LEMMA AgentQuiet ==
  ASSUME AgentInv, UNCHANGED <<agentVars, aligned, departed>>,
         phase' \in [Agents -> {"pull", "blocked", "push", "ignored"}],
         \A a \in Agents : phase'[a] = "blocked" =>
           phase[a] = "blocked" \/ Length(a) >= Bound
  PROVE  AgentInv'
<1>1. /\ UNCHANGED <<agent_ids_, agent_num_, id_to_index_, version_buffer_,
                     finish_count_>>
      /\ aligned' = aligned /\ departed' = departed
  BY DEF agentVars
<1>2. \A b : QueueOf(b)' = QueueOf(b) /\ Length(b)' = Length(b)
  BY <1>1 DEF QueueOf, Length
<1>3. AgentTypes' /\ Counts' /\ Owned' /\ AlignedNow'
  BY <1>1 DEF AgentInv, AgentTypes, Counts, Ahead, Owned, AlignedNow
<1>4. BlockedFull'
  BY <1>2 DEF AgentInv, BlockedFull, Blocked
<1>5. SomeoneNotFull'
  BY <1>1, <1>2 DEF AgentInv, SomeoneNotFull
<1>6. QED
  BY <1>3, <1>4, <1>5 DEF AgentInv

\* The agents of a new configuration that get a queue, and their indices.
LEMMA AddedAgents ==
  ASSUME AgentInv, GoodConfig(NewConfig)
  PROVE  /\ PastEnd \in Nat
         /\ Added \subseteq ToSet(NewConfig.worker_id)
         /\ IsFiniteSet(Added) /\ Cardinality(Added) \in Nat
         /\ \A a \in Added : Place(a) \in 0 .. Cardinality(Added) - 1
<1> DEFINE w == NewConfig.worker_id
<1>1. w \in Seq(Agents) /\ IsInjective(w)
  BY DEF GoodConfig, ConfigType
<1>2. agent_num_ \in Nat
  BY FS_CardinalityType DEF AgentInv, AgentTypes
<1>3. Len(w) \in Nat
  BY <1>1
<1>4. PastEnd \in Nat /\ agent_num_ - PastEnd \in 0 .. Len(w)
  BY <1>2, <1>3 DEF PastEnd
<1> HIDE DEF w
<1>5. Added \subseteq ToSet(w)
  <2> SUFFICES ASSUME NEW i \in 1 .. agent_num_ - PastEnd PROVE w[i] \in ToSet(w)
    BY DEF Added, w
  <2>1. i \in DOMAIN w
    BY <1>1, <1>3, <1>4
  <2>2. QED
    BY <2>1 DEF ToSet
<1>6. IsFiniteSet(ToSet(w))
  BY <1>1, ListCardinality
<1>7. IsFiniteSet(Added) /\ Cardinality(Added) \in Nat
  BY <1>5, <1>6, FS_Subset, FS_CardinalityType
<1>8. ASSUME NEW a \in Added
      PROVE  Place(a) \in 0 .. Cardinality(Added) - 1
  <2> DEFINE before == {b \in Added : IndexOf(w, b) < IndexOf(w, a)}
  <2>1. Place(a) = Cardinality(before)
    BY DEF Place, w
  <2>2. IndexOf(w, a) \in Int
    BY <1>1, <1>5, IndexOfIsPlace
  <2>3. a \notin before
    BY <2>2
  <2>4. before \in SUBSET (Added \ {a})
    BY <2>3
  <2>5. IsFiniteSet(Added \ {a}) /\ Cardinality(Added \ {a}) = Cardinality(Added) - 1
    BY <1>7, FS_RemoveElement
  <2> HIDE DEF before
  <2>6. IsFiniteSet(before) /\ Cardinality(before) <= Cardinality(Added) - 1
    BY <2>4, <2>5, FS_Subset
  <2>7. Cardinality(before) \in Nat
    BY <2>6, FS_CardinalityType
  <2>8. QED
    BY <1>7, <2>1, <2>6, <2>7
<1>9. QED
  BY <1>4, <1>5, <1>7, <1>8 DEF w

\* The queues after a new configuration: those of agents that left are empty, and
\* empty ones are added at the end.
LEMMA ReconfiguredQueues ==
  ASSUME AgentInv, GoodConfig(NewConfig), Reconfigure
  PROVE  /\ version_buffer_' \in Seq(0 .. Bound)
         /\ Len(version_buffer_') >= Len(version_buffer_) + Cardinality(Added)
         /\ DOMAIN version_buffer_' = 1 .. Len(version_buffer_')
         /\ \A i \in 1 .. Len(version_buffer_') :
              version_buffer_'[i] = IF i <= Len(version_buffer_) /\ i \notin EmptiedQueues
                                    THEN version_buffer_[i] ELSE 0
<1> DEFINE n == Len(version_buffer_)
<1>1. /\ n \in Nat /\ DOMAIN version_buffer_ = 1 .. n
      /\ \A i \in 1 .. n : version_buffer_[i] \in 0 .. Bound
  BY QueueExists DEF AgentInv
<1>2. PastEnd \in Nat /\ Cardinality(Added) \in Nat
  BY AddedAgents
<1>3. PICK extra \in 0 .. PastEnd :
        version_buffer_' = Emptied \o [i \in 1 .. Cardinality(Added) + extra |-> 0]
  BY DEF Reconfigure
<1> DEFINE m == Cardinality(Added) + extra
           zeros == [i \in 1 .. m |-> 0]
<1>4. m \in Nat /\ m >= Cardinality(Added)
  BY <1>2
<1>5. Bound \in Nat
  BY ReconfigurationAssumption
<1> HIDE DEF m, n
<1>6. /\ zeros \in Seq(0 .. Bound) /\ Len(zeros) = m
      /\ \A i \in 1 .. m : zeros[i] = 0
  BY <1>4, <1>5
<1>7. /\ Emptied \in Seq(0 .. Bound) /\ Len(Emptied) = n
      /\ \A i \in 1 .. n :
           Emptied[i] = IF i \in EmptiedQueues THEN 0 ELSE version_buffer_[i]
  <2>1. Emptied = [i \in 1 .. n |-> IF i \in EmptiedQueues THEN 0 ELSE version_buffer_[i]]
    BY <1>1 DEF Emptied
  <2>2. Emptied \in [1 .. n -> 0 .. Bound]
    BY <1>1, <1>5, <2>1
  <2>3. QED
    BY <1>1, <2>1, <2>2
<1> HIDE DEF zeros
<1>8. version_buffer_' = Emptied \o zeros
  BY <1>3 DEF zeros, m
<1>9. /\ version_buffer_' \in Seq(0 .. Bound) /\ Len(version_buffer_') = n + m
      /\ \A i \in 1 .. n + m : version_buffer_'[i] =
           IF i <= n THEN Emptied[i] ELSE zeros[i - n]
  BY <1>6, <1>7, <1>8, ConcatProperties, ZenonT(40)
<1>10. DOMAIN version_buffer_' = 1 .. n + m
  BY <1>9, LenProperties
<1>11. ASSUME NEW i \in 1 .. n + m
       PROVE  version_buffer_'[i] = IF i <= n /\ i \notin EmptiedQueues
                                    THEN version_buffer_[i] ELSE 0
  <2>1. CASE i <= n
    BY <1>1, <1>4, <1>7, <1>9, <2>1
  <2>2. CASE ~(i <= n)
    <3>1. i - n \in 1 .. m
      BY <1>1, <1>4, <2>2
    <3>2. QED
      BY <1>6, <1>9, <2>2, <3>1
  <2>3. QED
    BY <2>1, <2>2
<1>12. QED
  BY <1>1, <1>2, <1>4, <1>9, <1>10, <1>11 DEF n

\* The counters after a new configuration.
LEMMA ReconfiguredCounts ==
  ASSUME AgentInv, GoodConfig(NewConfig), Reconfigure
  PROVE  Counts' /\ finish_count_' \in [1 .. Bound -> Nat]
<1> DEFINE n == Len(version_buffer_)
<1>1. /\ n \in Nat /\ DOMAIN version_buffer_ = 1 .. n
      /\ version_buffer_ \in Seq(0 .. Bound)
      /\ \A i \in 1 .. n : version_buffer_[i] \in 0 .. Bound
  BY QueueExists DEF AgentInv, AgentTypes
<1>2. /\ Len(version_buffer_') \in Nat /\ Len(version_buffer_') >= n
      /\ version_buffer_' \in Seq(0 .. Bound)
      /\ DOMAIN version_buffer_' = 1 .. Len(version_buffer_')
      /\ \A i \in 1 .. Len(version_buffer_') :
           version_buffer_'[i] = IF i <= n /\ i \notin EmptiedQueues
                                 THEN version_buffer_[i] ELSE 0
  <2>1. Cardinality(Added) \in Nat
    BY AddedAgents
  <2>2. QED
    BY <1>1, <2>1, ReconfiguredQueues
<1>3. EmptiedQueues \subseteq 1 .. n
  BY <1>1, QueueExists DEF AgentInv, EmptiedQueues
<1>4. finish_count_' = Uncounted /\ finish_count_ \in [1 .. Bound -> Nat]
  BY DEF Reconfigure, AgentInv, AgentTypes
<1>5. ASSUME NEW k \in 1 .. Bound
      PROVE  /\ finish_count_'[k] = Cardinality(Ahead(version_buffer_', k))
             /\ finish_count_'[k] \in Nat
  <2> DEFINE S == Ahead(version_buffer_, k)
             D == {i \in EmptiedQueues : version_buffer_[i] >= k}
  <2>1. D = S \cap EmptiedQueues
    BY <1>1, <1>3 DEF Ahead
  <2>2. Ahead(version_buffer_', k) = S \ EmptiedQueues
    <3> HIDE DEF n
    <3>1. ASSUME NEW i \in 1 .. n, version_buffer_[i] >= k, i \notin EmptiedQueues
          PROVE  i \in Ahead(version_buffer_', k)
      BY <1>1, <1>2, <3>1 DEF Ahead
    <3>2. ASSUME NEW i \in 1 .. Len(version_buffer_'), version_buffer_'[i] >= k
          PROVE  i \in S \ EmptiedQueues
      BY <1>1, <1>2, <3>2 DEF Ahead
    <3>3. QED
      BY <1>1, <1>2, <3>1, <3>2 DEF Ahead
  <2>3. IsFiniteSet(S) /\ Cardinality(S) = finish_count_[k]
    BY <1>1, AheadFinite DEF AgentInv, Counts
  <2>4. finish_count_'[k] = finish_count_[k] - Cardinality(D)
    BY <1>4 DEF Uncounted
  <2> HIDE DEF S, D
  <2>5. Cardinality(S \ EmptiedQueues) = Cardinality(S) - Cardinality(D)
    BY <2>1, <2>3, FS_Difference
  <2>6. Cardinality(Ahead(version_buffer_', k)) \in Nat
    BY <1>2, AheadFinite
  <2>7. QED
    BY <2>2, <2>3, <2>4, <2>5, <2>6
<1>6. finish_count_' \in [1 .. Bound -> Nat]
  BY <1>4, <1>5 DEF Uncounted
<1>7. QED
  BY <1>5, <1>6 DEF Counts, Ahead

\* So does a new configuration: a departed agent takes its queue and what was
\* counted of it away, and a new one starts with an empty queue.
LEMMA AgentReconfigure ==
  ASSUME AgentInv, GoodConfig(NewConfig), Reconfigure
  PROVE  AgentInv'
<1> DEFINE n == Len(version_buffer_)
           w == NewConfig.worker_id
<1>1. w \in Seq(Agents) /\ IsInjective(w) /\ w # <<>>
  BY DEF GoodConfig, ConfigType
<1>2. /\ agent_ids_' = ToSet(w) /\ agent_num_' = Len(w) /\ phase' = Released
      /\ id_to_index_' = [a \in Kept \cup Added |->
           IF a \in Kept THEN id_to_index_[a] ELSE n + Place(a)]
      /\ departed' = (departed \/ Gone # {})
  BY DEF Reconfigure, BeginReconfigure
<1>3. /\ n \in Nat /\ DOMAIN version_buffer_ = 1 .. n
      /\ \A b : QueueOf(b) \in 0 .. n - 1
  BY QueueExists DEF AgentInv
<1>4. /\ Cardinality(Added) \in Nat /\ Added \subseteq ToSet(w)
      /\ \A a \in Added : Place(a) \in 0 .. Cardinality(Added) - 1
  BY AddedAgents
<1>5. /\ version_buffer_' \in Seq(0 .. Bound)
      /\ Len(version_buffer_') \in Nat
      /\ Len(version_buffer_') >= n + Cardinality(Added)
      /\ DOMAIN version_buffer_' = 1 .. Len(version_buffer_')
      /\ \A i \in 1 .. Len(version_buffer_') :
           version_buffer_'[i] = IF i <= n /\ i \notin EmptiedQueues
                                 THEN version_buffer_[i] ELSE 0
  BY ReconfiguredQueues
<1>6. Blocked' = {}
  <2>1. \A b \in Agents : phase'[b] # "blocked"
    BY <1>2 DEF Released, Blocked
  <2>2. QED
    BY <2>1 DEF Blocked
<1> HIDE DEF n, w
<1>7. AgentTypes'
  <2>1. /\ agent_ids_' \subseteq Agents /\ IsFiniteSet(agent_ids_')
        /\ agent_num_' = Cardinality(agent_ids_')
    BY <1>1, <1>2, ListCardinality
  <2>2. agent_ids_' # {}
    <3>1. 1 \in 1 .. Len(w)
      BY <1>1, EmptySeq
    <3>2. QED
      BY <1>1, <1>2, <3>1, PlaceIsIndexOf
  <2>3. version_buffer_' # <<>>
    <3>1. n > 0
      BY <1>3
    <3>2. QED
      BY <1>3, <1>4, <1>5, <3>1, EmptySeq
  <2>4. /\ DOMAIN id_to_index_' = Kept \cup Added
        /\ DOMAIN id_to_index_' \subseteq Agents
    <3>1. Kept \subseteq Agents
      BY DEF Kept, AgentInv, AgentTypes
    <3>2. ToSet(w) \subseteq Agents
      BY <1>1, ListCardinality
    <3>3. QED
      BY <1>2, <1>4, <3>1, <3>2
  <2>5. id_to_index_' \in [DOMAIN id_to_index_' -> 0 .. Len(version_buffer_') - 1]
    <3>1. ASSUME NEW a \in Kept
          PROVE  id_to_index_'[a] \in 0 .. Len(version_buffer_') - 1
      <4>1. id_to_index_'[a] = QueueOf(a)
        BY <1>2 DEF Kept, QueueOf
      <4>2. QED
        BY <1>3, <1>4, <1>5, <4>1
    <3>2. ASSUME NEW a \in Added, a \notin Kept
          PROVE  id_to_index_'[a] \in 0 .. Len(version_buffer_') - 1
      <4>1. id_to_index_'[a] = n + Place(a)
        BY <1>2, <3>2
      <4>2. QED
        BY <1>3, <1>4, <1>5, <4>1
    <3>3. QED
      BY <1>2, <2>4, <3>1, <3>2
  <2>6. phase' \in [Agents -> {"pull", "blocked", "push", "ignored"}]
    BY <1>2 DEF AgentInv, AgentTypes, Released
  <2>7. finish_count_' \in [1 .. Bound -> Nat]
    BY ReconfiguredCounts
  <2>8. aligned' \in BOOLEAN /\ departed' \in BOOLEAN
    BY DEF Reconfigure
  <2>9. QED
    BY <1>5, <2>1, <2>2, <2>3, <2>4, <2>5, <2>6, <2>7, <2>8 DEF AgentTypes
<1>8. Counts'
  BY ReconfiguredCounts
<1>9. Owned'
  <2> SUFFICES ASSUME NEW i \in 1 .. Len(version_buffer_'), version_buffer_'[i] > 0
               PROVE  \E a \in agent_ids_' \cap DOMAIN id_to_index_' :
                        id_to_index_'[a] + 1 = i
    BY <1>5 DEF Owned
  <2>1. /\ i \in DOMAIN version_buffer_ /\ i \notin EmptiedQueues
        /\ version_buffer_[i] > 0
    BY <1>3, <1>5
  <2>2. PICK a \in agent_ids_ \cap DOMAIN id_to_index_ : id_to_index_[a] + 1 = i
    BY <2>1 DEF AgentInv, Owned
  <2>3. a \notin Gone
    BY <2>1, <2>2 DEF EmptiedQueues, QueueOf
  <2>4. a \in ToSet(w) /\ a \in Kept
    BY <2>2, <2>3 DEF Gone, Kept, w
  <2>5. id_to_index_'[a] = id_to_index_[a] /\ a \in DOMAIN id_to_index_'
    BY <1>2, <2>4
  <2>6. QED
    BY <1>2, <2>2, <2>4, <2>5
<1>10. AlignedNow'
  BY DEF Reconfigure, AlignedNow
<1>11. BlockedFull'
  BY <1>6 DEF BlockedFull
<1>12. SomeoneNotFull'
  <2> SUFFICES ASSUME aligned', ~departed'
               PROVE  \E a \in agent_ids_' : Length(a)' < Bound
    BY DEF SomeoneNotFull
  <2>1. aligned /\ ~departed /\ Gone = {}
    BY <1>2 DEF Reconfigure
  <2>2. PICK a \in agent_ids_ : Length(a) < Bound
    BY <2>1 DEF AgentInv, SomeoneNotFull
  <2>3. a \in ToSet(w) /\ a \in DOMAIN id_to_index_ /\ a \in Kept
    BY <2>1 DEF Gone, Kept, AgentInv, AlignedNow, w
  <2>4. QueueOf(a)' = QueueOf(a)
    BY <1>2, <2>3 DEF QueueOf
  <2>5. EmptiedQueues = {}
    BY <2>1 DEF EmptiedQueues
  <2>6. Length(a)' = Length(a)
    <3>1. /\ QueueOf(a) + 1 \in 1 .. Len(version_buffer_')
          /\ QueueOf(a) + 1 <= n
      BY <1>3, <1>4, <1>5
    <3>2. version_buffer_'[QueueOf(a) + 1] = version_buffer_[QueueOf(a) + 1]
      BY <1>5, <2>5, <3>1
    <3>3. QED
      BY <2>4, <3>2 DEF Length
  <2>7. QED
    BY <1>2, <2>2, <2>3, <2>6
<1>13. QED
  BY <1>7, <1>8, <1>9, <1>10, <1>11, <1>12 DEF AgentInv

\* The queues of the first configuration are empty.
LEMMA AgentInit == Init => AgentInv
<1> SUFFICES ASSUME Init PROVE AgentInv
  OBVIOUS
<1>1. PICK c \in FirstConfigs :
        /\ agent_ids_ = ToSet(c.worker_id) /\ agent_num_ = Len(c.worker_id)
        /\ id_to_index_ = [a \in agent_ids_ |-> IndexOf(c.worker_id, a)]
  BY DEF Init
<1> DEFINE w == c.worker_id
<1>2. w \in Seq(Agents) /\ IsInjective(w) /\ w # <<>>
  BY ReconfigurationAssumption
<1> HIDE DEF w
<1>3. Len(w) \in Nat \ {0} /\ Bound \in Nat \ {0}
  BY <1>2, EmptySeq, ReconfigurationAssumption
<1>4. /\ version_buffer_ = [i \in 1 .. Len(w) |-> 0]
      /\ finish_count_ = [k \in 1 .. Bound |-> 0]
      /\ phase = [a \in Agents |-> "pull"] /\ aligned = TRUE /\ departed = FALSE
  BY <1>1 DEF Init, w
<1>5. /\ version_buffer_ \in Seq(0 .. Bound) /\ Len(version_buffer_) = Len(w)
      /\ DOMAIN version_buffer_ = 1 .. Len(w)
      /\ \A i \in 1 .. Len(w) : version_buffer_[i] = 0
  BY <1>3, <1>4
<1>6. /\ DOMAIN id_to_index_ = agent_ids_
      /\ \A a \in agent_ids_ :
           id_to_index_[a] \in 0 .. Len(w) - 1 /\ w[id_to_index_[a] + 1] = a
  BY <1>1, <1>2, IndexOfIsPlace DEF w
<1>7. AgentTypes
  <2>1. /\ agent_ids_ \subseteq Agents /\ IsFiniteSet(agent_ids_)
        /\ agent_num_ = Cardinality(agent_ids_)
    BY <1>1, <1>2, ListCardinality DEF w
  <2>2. agent_ids_ # {}
    <3>1. 1 \in 1 .. Len(w)
      BY <1>3
    <3>2. QED
      BY <1>1, <1>2, <3>1, PlaceIsIndexOf DEF w
  <2>3. version_buffer_ # <<>>
    BY <1>3, <1>5
  <2>4. id_to_index_ \in [DOMAIN id_to_index_ -> 0 .. Len(version_buffer_) - 1]
    BY <1>1, <1>5, <1>6
  <2>5. finish_count_ \in [1 .. Bound -> Nat]
    BY <1>4
  <2>6. QED
    BY <1>4, <1>5, <1>6, <2>1, <2>2, <2>3, <2>4, <2>5 DEF AgentTypes
<1>8. Counts
  <2> SUFFICES ASSUME NEW k \in 1 .. Bound
               PROVE  finish_count_[k] = Cardinality(Ahead(version_buffer_, k))
    BY DEF Counts
  <2>1. Ahead(version_buffer_, k) = {}
    BY <1>5 DEF Ahead
  <2>2. QED
    BY <1>4, <2>1, FS_EmptySet
<1>9. Owned
  BY <1>5 DEF Owned
<1>10. AlignedNow
  <2>1. \A j \in 0 .. Len(w) - 1 : w[j + 1] \in agent_ids_ /\ id_to_index_[w[j + 1]] = j
    <3> SUFFICES ASSUME NEW j \in 0 .. Len(w) - 1
                 PROVE  w[j + 1] \in agent_ids_ /\ id_to_index_[w[j + 1]] = j
      OBVIOUS
    <3>1. j + 1 \in 1 .. Len(w)
      BY <1>3
    <3>2. w[j + 1] \in ToSet(w) /\ IndexOf(w, w[j + 1]) = (j + 1) - 1
      BY <1>2, <3>1, PlaceIsIndexOf
    <3>3. QED
      BY <1>1, <3>2 DEF w
  <2>2. {id_to_index_[a] : a \in agent_ids_} = 0 .. Len(w) - 1
    BY <1>6, <2>1
  <2>3. QED
    BY <1>1, <1>6, <2>2 DEF AlignedNow, w
<1>11. BlockedFull
  BY <1>4 DEF BlockedFull, Blocked
<1>12. SomeoneNotFull
  <2>1. PICK a \in agent_ids_ : TRUE
    BY <1>7 DEF AgentTypes
  <2>2. Length(a) = 0
    BY <1>3, <1>5, <1>6 DEF Length, QueueOf
  <2>3. QED
    BY <1>3, <2>1, <2>2 DEF SomeoneNotFull
<1>13. QED
  BY <1>7, <1>8, <1>9, <1>10, <1>11, <1>12 DEF AgentInv

\* How many configurations the server has applied.
LEMMA AppliedNext ==
  ASSUME Configs, Applied, [Next]_vars
  PROVE  Applied'
<1>1. Len(configs) \in Nat
  BY DEF Configs
<1>2. CASE SendConfig
  <2>1. PICK d : configs' = Append(configs, d)
    BY <1>2 DEF SendConfig
  <2>2. Len(configs') = Len(configs) + 1
    BY <2>1 DEF Configs
  <2>3. applied' = applied
    BY <1>2 DEF SendConfig
  <2>4. QED
    BY <1>1, <2>2, <2>3 DEF Applied
<1>3. ASSUME NEW s \in Servers, PeerAnswers(s) PROVE Applied'
  <2>1. PICK k \in applied[s] .. Len(configs) : applied' = [applied EXCEPT ![s] = k]
    BY <1>3 DEF PeerAnswers
  <2>2. configs' = configs
    BY <1>3 DEF PeerAnswers
  <2>3. k \in 1 .. Len(configs)
    BY <1>1 DEF Applied
  <2>4. QED
    BY <2>1, <2>2, <2>3 DEF Applied
<1>4. CASE BeginReconfigure /\ configs' = configs
  <2>1. applied[Local] + 1 \in 1 .. Len(configs)
    BY <1>1, <1>4, ReconfigurationAssumption DEF Applied, BeginReconfigure
  <2>2. QED
    BY <1>4, <2>1 DEF Applied, BeginReconfigure
<1>5. CASE UNCHANGED <<applied, configs>>
  BY <1>5 DEF Applied
<1>6. QED
  BY <1>2, <1>3, <1>4, <1>5 DEF Next, vars, Backup, RespondBackup, ServePush, ServePull,
     IgnoreStranger, RespondToAllOverruns, NotAssigned, Reconfigure, ReconfigureAborts

\* A new configuration that is applied is well formed.
LEMMA NewConfigGood ==
  ASSUME Configs, Applied, BeginReconfigure
  PROVE  /\ applied[Local] \in 1 .. Len(configs) - 1
         /\ GoodConfig(NewConfig)
         /\ Closer(configs[applied[Local]].server_id, NewConfig.server_id)
<1>1. applied[Local] \in 1 .. Len(configs) /\ Len(configs) \in Nat
  BY ReconfigurationAssumption DEF Applied, Configs
<1>2. applied[Local] \in 1 .. Len(configs) - 1
  BY <1>1 DEF BeginReconfigure
<1>3. QED
  BY <1>1, <1>2 DEF Configs, NewConfig

\* Every step keeps the invariant of the agents.
LEMMA AgentNext ==
  ASSUME AgentInv, Configs, Applied, [Next]_vars
  PROVE  AgentInv'
<1> DEFINE phases == {"pull", "blocked", "push", "ignored"}
<1>1. phase \in [Agents -> phases]
  BY DEF AgentInv, AgentTypes
<1>2. CASE UNCHANGED <<agentVars, aligned, departed, phase>>
  BY <1>1, <1>2, AgentQuiet
<1>3. ASSUME NEW a \in Agents, ServePush(a) PROVE AgentInv'
  BY <1>3, AgentPush
<1>4. ASSUME NEW a \in Agents, ServePull(a) PROVE AgentInv'
  <2>1. /\ UNCHANGED <<agentVars, aligned, departed>>
        /\ \/ phase' = [phase EXCEPT ![a] = IF Length(a) >= Bound THEN "blocked" ELSE "push"]
           \/ phase' = phase
    BY <1>4 DEF ServePull, history
  <2>2. QED
    BY <1>1, <2>1, AgentQuiet
<1>5. ASSUME NEW a \in Agents, IgnoreStranger(a) PROVE AgentInv'
  <2>1. /\ UNCHANGED <<agentVars, aligned, departed>>
        /\ \E p \in {"pull", "ignored"} : phase' = [phase EXCEPT ![a] = p]
    BY <1>5 DEF IgnoreStranger, history
  <2>2. QED
    BY <1>1, <2>1, AgentQuiet
<1>6. CASE NotAssigned \/ ReconfigureAborts
  <2>1. UNCHANGED <<agentVars, aligned, departed>> /\ phase' = Released
    BY <1>6 DEF NotAssigned, ReconfigureAborts, BeginReconfigure, history
  <2>2. /\ phase' \in [Agents -> phases]
        /\ \A a \in Agents : phase'[a] = "blocked" => phase[a] = "blocked"
    BY <1>1, <2>1 DEF Released, Blocked
  <2>3. QED
    BY <2>1, <2>2, AgentQuiet
<1>7. CASE Reconfigure
  <2>1. GoodConfig(NewConfig)
    BY <1>7, NewConfigGood DEF Reconfigure
  <2>2. QED
    BY <1>7, <2>1, AgentReconfigure
<1>8. QED
  BY <1>2, <1>3, <1>4, <1>5, <1>6, <1>7
  DEF Next, vars, SendConfig, PeerAnswers, Backup, RespondBackup, RespondToAllOverruns,
      history

-----------------------------------------------------------------------------
(* The ring *)

\* A configured server asks, and is asked, only within the distance of the
\* copies, and that distance does not grow while the ring shrinks.
RingInv ==
  /\ server_ids_ = configs[applied[Local]].server_id
  /\ local_index_ \in Nat
  /\ requests \in [Servers -> Nat] /\ DOMAIN answers = Servers
  /\ Local \in ToSet(server_ids_) =>
       /\ local_index_ = IndexOf(server_ids_, Local)
       /\ \A s \in ToSet(server_ids_) :
            (requests[s] > 0 \/ answers[s] # <<>>) =>
              Between(server_ids_, Local, s) < BackupSize

\* A server i places behind stands at a distance below i.
LEMMA BehindBetween ==
  ASSUME NEW T, NEW ids \in Seq(T), IsInjective(ids), NEW l \in ToSet(ids),
         NEW i \in 1 .. Len(ids)
  PROVE  /\ Behind(ids, IndexOf(ids, l), i) \in ToSet(ids)
         /\ Between(ids, l, Behind(ids, IndexOf(ids, l), i)) = i - 1
<1> DEFINE n == Len(ids)
           x == IndexOf(ids, l)
           b == ((x - i + n) % n) + 1
<1>1. x \in 0 .. n - 1 /\ ids[x + 1] = l /\ n \in Nat \ {0}
  BY IndexOfIsPlace
<1> HIDE DEF x, n
<1>2. x - i + n \in 0 .. 2 * n - 1 /\ i \in 1 .. n
  BY <1>1 DEF n
<1>3. b = IF x - i + n < n THEN x - i + n + 1 ELSE x - i + 1
  <2>1. (x - i + n) % n = IF x - i + n < n THEN x - i + n ELSE (x - i + n) - n
    BY <1>1, <1>2, SmallRemainder
  <2>2. QED
    BY <1>1, <1>2, <2>1
<1>4. b \in 1 .. n
  BY <1>1, <1>2, <1>3
<1> HIDE DEF b
<1>5. ids[b] \in ToSet(ids)
  BY <1>4, PlaceIsIndexOf DEF n
<1>6. Between(ids, ids[x + 1], ids[b])
        = IF b < x + 1 THEN (x + 1) - b - 1 ELSE (x + 1) - b - 1 + n
  <2>1. x + 1 \in 1 .. Len(ids) /\ b \in 1 .. Len(ids)
    BY <1>1, <1>4 DEF n
  <2>2. QED
    BY <2>1, BetweenPlaces DEF n
<1>7. Behind(ids, IndexOf(ids, l), i) = ids[b]
  BY DEF Behind, b, x, n
<1>8. (IF b < x + 1 THEN (x + 1) - b - 1 ELSE (x + 1) - b - 1 + n) = i - 1
  BY <1>1, <1>2, <1>3
<1>9. QED
  BY <1>1, <1>5, <1>6, <1>7, <1>8

\* There are fewer servers between two of them than on the ring.
LEMMA BetweenBound ==
  ASSUME NEW T, NEW ids \in Seq(T), NEW s \in ToSet(ids), NEW t \in ToSet(ids)
  PROVE  Between(ids, s, t) \in 0 .. Len(ids) - 1
<1>1. /\ IndexOf(ids, s) \in 0 .. Len(ids) - 1 /\ IndexOf(ids, t) \in 0 .. Len(ids) - 1
      /\ Len(ids) \in Nat \ {0}
  BY IndexOfIsPlace
<1>2. QED
  BY <1>1 DEF Between

\* What is known of the list of servers.
LEMMA RingList ==
  ASSUME Configs, Applied, RingInv
  PROVE  /\ server_ids_ \in Seq(Servers) /\ IsInjective(server_ids_)
         /\ Len(server_ids_) \in Nat \ {0}
         /\ ToSet(server_ids_) \subseteq Servers
         /\ Local \in Servers /\ BackupSize \in Nat
<1>1. applied[Local] \in 1 .. Len(configs)
  BY ReconfigurationAssumption DEF Applied
<1>2. GoodConfig(configs[applied[Local]])
  BY <1>1 DEF Configs
<1>3. server_ids_ \in Seq(Servers) /\ IsInjective(server_ids_) /\ server_ids_ # <<>>
  BY <1>2 DEF GoodConfig, ConfigType, RingInv
<1>4. QED
  BY <1>3, EmptySeq, ListCardinality, ReconfigurationAssumption

\* As long as the server is configured, a copy under way has an entry.
LEMMA CopiesHaveEntries ==
  ASSUME Configs, Applied, RingInv, Local \in ToSet(server_ids_),
         NEW s \in ToSet(server_ids_), answers[s] # <<>>
  PROVE  BackupEntry(s) \in Entries
<1>1. server_ids_ \in Seq(Servers) /\ BackupSize \in Nat
  BY RingList
<1>2. BackupEntry(s) = Between(server_ids_, Local, s)
  BY DEF BackupEntry, Between, RingInv
<1>3. Between(server_ids_, Local, s) \in 0 .. Len(server_ids_) - 1
  BY <1>1, BetweenBound
<1>4. Between(server_ids_, Local, s) < BackupSize
  BY DEF RingInv
<1>5. QED
  BY <1>1, <1>2, <1>3, <1>4 DEF Entries

\* A merge asks only servers whose copies have an entry.
LEMMA RingRequests ==
  ASSUME Configs, Applied, RingInv, RequestBackup,
         UNCHANGED <<configs, applied, server_ids_, local_index_, answers>>
  PROVE  RingInv'
<1>1. /\ server_ids_ \in Seq(Servers) /\ IsInjective(server_ids_)
      /\ Len(server_ids_) \in Nat \ {0}
      /\ ToSet(server_ids_) \subseteq Servers
      /\ BackupSize \in Nat
  BY RingList
<1> DEFINE asked(s) == {i \in 1 .. BackupSize : s = Behind(server_ids_, local_index_, i)}
<1>2. \A s \in Servers : Cardinality(asked(s)) \in Nat
  <2> SUFFICES ASSUME NEW s \in Servers PROVE Cardinality(asked(s)) \in Nat
    OBVIOUS
  <2>1. IsFiniteSet(1 .. BackupSize)
    BY <1>1, FirstPlaces
  <2>2. IsFiniteSet(asked(s))
    BY <2>1, FS_Subset
  <2>3. QED
    BY <2>2, FS_CardinalityType
<1>3. /\ requests' = [s \in Servers |-> requests[s] + Cardinality(asked(s))]
      /\ requests \in [Servers -> Nat]
  BY DEF RequestBackup, RingInv
<1>4. requests' \in [Servers -> Nat]
  <2> HIDE DEF asked
  <2>1. QED
    BY <1>2, <1>3
<1>5. ASSUME Local \in ToSet(server_ids_), NEW s \in ToSet(server_ids_),
             requests'[s] > 0 \/ answers[s] # <<>>
      PROVE  Between(server_ids_, Local, s) < BackupSize
  <2>1. CASE requests[s] > 0 \/ answers[s] # <<>>
    BY <1>5, <2>1 DEF RingInv
  <2>2. CASE ~(requests[s] > 0 \/ answers[s] # <<>>)
    <3>1. Cardinality(asked(s)) # 0
      <4> HIDE DEF asked
      <4>1. s \in Servers
        BY <1>1
      <4>2. QED
        BY <1>2, <1>3, <1>5, <2>2, <4>1
    <3>2. asked(s) # {}
      BY <3>1, FS_EmptySet
    <3>3. PICK i \in 1 .. BackupSize : s = Behind(server_ids_, local_index_, i)
      BY <3>2
    <3>4. local_index_ = IndexOf(server_ids_, Local)
      BY <1>5 DEF RingInv
    <3>5. CASE i \in 1 .. Len(server_ids_)
      <4>1. Between(server_ids_, Local, s) = i - 1
        BY <1>1, <1>5, <3>3, <3>4, <3>5, BehindBetween
      <4>2. QED
        BY <1>1, <4>1
    <3>6. CASE i \notin 1 .. Len(server_ids_)
      <4>1. Between(server_ids_, Local, s) \in 0 .. Len(server_ids_) - 1
        BY <1>1, <1>5, BetweenBound
      <4>2. QED
        BY <1>1, <3>6, <4>1
    <3>7. QED
      BY <3>5, <3>6
  <2>3. QED
    BY <2>1, <2>2
<1>6. QED
  BY <1>4, <1>5 DEF RingInv

\* No copy is under way at first.
LEMMA RingInit == Init => RingInv
<1> SUFFICES ASSUME Init PROVE RingInv
  OBVIOUS
<1>1. PICK c \in FirstConfigs :
        /\ configs = <<c>> /\ server_ids_ = c.server_id
        /\ local_index_ = IndexOf(server_ids_, Local)
  BY DEF Init
<1>2. /\ server_ids_ \in Seq(Servers) /\ Local \in ToSet(server_ids_)
      /\ Local \in Servers
  BY <1>1, ReconfigurationAssumption
<1>3. local_index_ \in Nat
  BY <1>1, <1>2, IndexOfIsPlace
<1>4. /\ applied = [s \in Servers |-> 1] /\ requests = [s \in Servers |-> 0]
      /\ answers = [s \in Servers |-> <<>>]
  BY DEF Init
<1>5. server_ids_ = configs[applied[Local]].server_id
  BY <1>1, <1>2, <1>4
<1>6. ToSet(server_ids_) \subseteq Servers
  BY <1>2 DEF ToSet
<1>7. QED
  BY <1>1, <1>3, <1>4, <1>5, <1>6 DEF RingInv

\* A new configuration: who stays comes closer, and a server that was left out
\* does not come back.
LEMMA RingReconfigure ==
  ASSUME Configs, Applied, RingInv, BeginReconfigure,
         UNCHANGED <<configs, requests, answers>>,
         \/ Local \notin ToSet(NewConfig.server_id) /\ local_index_' = local_index_
         \/ local_index_' = IndexOf(NewConfig.server_id, Local)
              /\ Local \in ToSet(NewConfig.server_id)
  PROVE  RingInv'
<1>1. /\ applied[Local] \in 1 .. Len(configs) - 1
      /\ GoodConfig(NewConfig)
      /\ Closer(server_ids_, NewConfig.server_id)
  BY NewConfigGood DEF RingInv
<1>2. /\ NewConfig.server_id \in Seq(Servers)
      /\ server_ids_' = NewConfig.server_id
  BY <1>1 DEF GoodConfig, ConfigType, BeginReconfigure
<1>3. /\ server_ids_ \in Seq(Servers)
      /\ Local \in Servers /\ BackupSize \in Nat
  BY RingList
<1>4. applied'[Local] = applied[Local] + 1
  BY <1>3 DEF BeginReconfigure, Applied
<1>5. server_ids_' = configs'[applied'[Local]].server_id
  BY <1>2, <1>4 DEF NewConfig
<1>6. local_index_' \in Nat
  BY <1>2, IndexOfIsPlace DEF RingInv
<1>7. ASSUME Local \in ToSet(NewConfig.server_id), NEW s \in ToSet(NewConfig.server_id),
             requests[s] > 0 \/ answers[s] # <<>>
      PROVE  Between(NewConfig.server_id, Local, s) < BackupSize
  <2>1. /\ Local \in ToSet(server_ids_) /\ s \in ToSet(server_ids_)
        /\ Between(NewConfig.server_id, Local, s) <= Between(server_ids_, Local, s)
    BY <1>1, <1>7 DEF Closer
  <2>2. Between(server_ids_, Local, s) < BackupSize
    BY <1>7, <2>1 DEF RingInv
  <2>3. /\ Between(server_ids_, Local, s) \in Int
        /\ Between(NewConfig.server_id, Local, s) \in Int
    BY <1>2, <1>3, <1>7, <2>1, BetweenBound
  <2>4. QED
    BY <1>3, <2>1, <2>2, <2>3
<1>8. QED
  BY <1>2, <1>5, <1>6, <1>7 DEF RingInv

\* Every step keeps the invariant of the copies under way.
LEMMA RingNext ==
  ASSUME Configs, Applied, RingInv, [Next]_vars
  PROVE  RingInv'
<1>1. /\ Local \in Servers /\ applied[Local] \in 1 .. Len(configs)
      /\ Len(configs) \in Nat
      /\ ToSet(server_ids_) \subseteq Servers
      /\ requests \in [Servers -> Nat] /\ DOMAIN answers = Servers
  <2>1. Local \in Servers /\ ToSet(server_ids_) \subseteq Servers
    BY RingList
  <2>2. QED
    BY <2>1 DEF Applied, Configs, RingInv
<1>2. CASE SendConfig
  <2>1. PICK d \in NewConfigs(configs[Len(configs)]) : configs' = Append(configs, d)
    BY <1>2 DEF SendConfig
  <2>2. UNCHANGED <<applied, server_ids_, local_index_, requests, answers>>
    BY <1>2 DEF SendConfig, configVars
  <2>3. configs'[applied[Local]] = configs[applied[Local]]
    BY <1>1, <2>1 DEF Configs
  <2>4. QED
    BY <2>2, <2>3 DEF RingInv
<1>3. ASSUME NEW s \in Servers, PeerAnswers(s) PROVE RingInv'
  <2>1. /\ requests[s] > 0 /\ requests' = [requests EXCEPT ![s] = @ - 1]
        /\ UNCHANGED <<configs, server_ids_, local_index_>> /\ s # Local
    BY <1>3 DEF PeerAnswers, configVars
  <2>2. \E k, copy :
          /\ applied' = [applied EXCEPT ![s] = k]
          /\ answers' = [answers EXCEPT ![s] = Append(@, copy)]
    BY <1>3 DEF PeerAnswers
  <2>3. /\ requests' \in [Servers -> Nat] /\ DOMAIN answers' = Servers
        /\ applied'[Local] = applied[Local]
    BY <1>1, <2>1, <2>2 DEF Applied
  <2>4. \A t \in Servers : (requests'[t] > 0 \/ answers'[t] # <<>>) =>
          requests[t] > 0 \/ answers[t] # <<>>
    BY <1>1, <2>1, <2>2
  <2>5. QED
    BY <1>1, <2>1, <2>3, <2>4 DEF RingInv
<1>4. CASE RespondBackup /\ ~Short
  <2>1. /\ requests[Local] > 0 /\ requests' = [requests EXCEPT ![Local] = @ - 1]
        /\ UNCHANGED <<configs, applied, server_ids_, local_index_>>
        /\ answers' = [answers EXCEPT ![Local] =
             Append(@, [keys |-> SubSeq(parameters_, 1, parameter_length_),
                        config |-> applied[Local]])]
    BY <1>4 DEF RespondBackup, configVars
  <2>2. requests' \in [Servers -> Nat] /\ DOMAIN answers' = Servers
    BY <1>1, <2>1
  <2>3. \A t \in Servers : (requests'[t] > 0 \/ answers'[t] # <<>>) =>
          requests[t] > 0 \/ answers[t] # <<>>
    BY <1>1, <2>1
  <2>4. QED
    BY <1>1, <2>1, <2>2, <2>3 DEF RingInv
<1>5. ASSUME NEW s \in Servers, Backup(s) PROVE RingInv'
  <2>1. /\ answers[s] # <<>> /\ answers' = [answers EXCEPT ![s] = Tail(@)]
        /\ UNCHANGED <<configs, applied, server_ids_, local_index_, requests>>
    BY <1>5 DEF Backup, configVars
  <2>2. \A t \in Servers : answers'[t] # <<>> => answers[t] # <<>>
    BY <1>1, <2>1
  <2>3. DOMAIN answers' = Servers
    BY <1>1, <2>1
  <2>4. QED
    BY <1>1, <2>1, <2>2, <2>3 DEF RingInv
<1>6. ASSUME NEW a \in Agents, ServePush(a) PROVE RingInv'
  <2>1. UNCHANGED <<configs, applied, server_ids_, local_index_, answers>>
    BY <1>6 DEF ServePush, configVars
  <2>2. CASE requests' = requests
    BY <2>1, <2>2 DEF RingInv
  <2>3. CASE RequestBackup
    BY <2>1, <2>3, RingRequests
  <2>4. QED
    BY <1>6, <2>2, <2>3 DEF ServePush
<1>7. CASE NotAssigned \/ Reconfigure \/ ReconfigureAborts
  <2>1. CASE NotAssigned
    BY <2>1, RingReconfigure DEF NotAssigned
  <2>2. CASE Reconfigure \/ ReconfigureAborts
    BY <2>2, RingReconfigure DEF Reconfigure, ReconfigureAborts, TakePlace
  <2>3. QED
    BY <1>7, <2>1, <2>2
<1>8. CASE UNCHANGED <<configs, applied, server_ids_, local_index_, requests, answers>>
  BY <1>8 DEF RingInv
<1>9. QED
  BY <1>2, <1>3, <1>4, <1>5, <1>6, <1>7, <1>8
  DEF Next, vars, configVars, RespondBackup, ServePull, IgnoreStranger, RespondToAllOverruns

-----------------------------------------------------------------------------
(* What follows for every execution *)

ReconfigurationInv ==
  /\ Configs /\ Applied
  /\ AgentInv
  /\ RingInv
  /\ QueuesAndCopiesDefined

\* Whatever is undefined has one of the causes that QueuesAndCopiesDefined names.
LEMMA DefinedNext ==
  ASSUME ReconfigurationInv, [Next]_vars
  PROVE  QueuesAndCopiesDefined'
<1>1. CASE status' # "undefined"
  BY <1>1 DEF QueuesAndCopiesDefined
<1>2. CASE UNCHANGED <<status, aligned, server_ids_>>
  BY <1>2 DEF ReconfigurationInv, QueuesAndCopiesDefined
<1>3. ASSUME NEW s \in Servers, Backup(s) PROVE QueuesAndCopiesDefined'
  <2>1. UNCHANGED <<server_ids_, aligned>>
    BY <1>3 DEF Backup, configVars
  <2>2. CASE status' = status
    BY <1>2, <2>1, <2>2
  <2>3. CASE s \in ToSet(server_ids_) /\ BackupEntry(s) \notin Entries
    <3>1. answers[s] # <<>>
      BY <1>3 DEF Backup
    <3>2. Local \notin ToSet(server_ids_)
      BY <2>3, <3>1, CopiesHaveEntries DEF ReconfigurationInv
    <3>3. QED
      BY <2>1, <3>2 DEF QueuesAndCopiesDefined
  <2>4. QED
    BY <1>3, <2>2, <2>3 DEF Backup
<1>4. ASSUME NEW a \in Agents, ServePush(a) PROVE QueuesAndCopiesDefined'
  <2>1. UNCHANGED <<server_ids_, aligned>> /\ a \in agent_ids_
    BY <1>4 DEF ServePush, configVars
  <2>2. CASE status' = status
    BY <1>2, <2>1, <2>2
  <2>3. CASE RoundComplete(a) /\ ~Mergeable(Stored(a))
    <3>1. ~aligned
      BY <2>1, <2>3, AlignedMergeable DEF ReconfigurationInv
    <3>2. QED
      BY <2>1, <3>1 DEF QueuesAndCopiesDefined
  <2>4. CASE OffTheRing
    <3>1. PICK i \in 1 .. BackupSize : i - local_index_ - Len(server_ids_) > 0
      BY <2>4 DEF OffTheRing
    <3>2. local_index_ \in Nat /\ Len(server_ids_) \in Nat /\ BackupSize \in Nat
      BY RingList DEF ReconfigurationInv, RingInv
    <3>3. BackupSize > Len(server_ids_)
      BY <3>1, <3>2
    <3>4. QED
      BY <2>1, <3>3 DEF QueuesAndCopiesDefined
  <2>5. QED
    BY <1>1, <1>4, <2>2, <2>3, <2>4 DEF ServePush
<1>5. CASE NotAssigned \/ Reconfigure \/ ReconfigureAborts
  <2>1. status' # "undefined"
    BY <1>5 DEF NotAssigned, Reconfigure, ReconfigureAborts, BeginReconfigure
  <2>2. QED
    BY <1>1, <2>1
<1>6. QED
  BY <1>1, <1>2, <1>3, <1>4, <1>5
  DEF Next, vars, configVars, history, SendConfig, PeerAnswers, RespondBackup, ServePull,
      IgnoreStranger, RespondToAllOverruns

\* The inductive invariant of a server that is given new configurations: any
\* number of them, of failures, of agents that come and go, and of copies under
\* way.
THEOREM ReconfigurationInvariance == Spec => []ReconfigurationInv
<1>1. Init => ReconfigurationInv
  <2> SUFFICES ASSUME Init PROVE ReconfigurationInv
    OBVIOUS
  <2>1. Configs /\ AgentInv /\ RingInv
    BY ConfigsInit, AgentInit, RingInit
  <2>2. Applied
    BY <2>1 DEF Init, Applied, Configs
  <2>3. QueuesAndCopiesDefined
    BY DEF Init, QueuesAndCopiesDefined
  <2>4. QED
    BY <2>1, <2>2, <2>3 DEF ReconfigurationInv
<1>2. ReconfigurationInv /\ [Next]_vars => ReconfigurationInv'
  BY ConfigsNext, AppliedNext, AgentNext, RingNext, DefinedNext DEF ReconfigurationInv
<1>3. QED
  BY <1>1, <1>2, PTL DEF Spec

\* The counters and the queues agree through departures, arrivals and merges,
\* and the test for a complete round is never passed over (server.cc:299, 327
\* and 514).
THEOREM CountersAgree == Spec => []CountersExact
<1>1. ReconfigurationInv => CountersExact
  <2> SUFFICES ASSUME AgentInv PROVE CountersExact
    BY DEF ReconfigurationInv
  <2>1. \A k \in 1 .. Bound : finish_count_[k] =
          Cardinality({i \in DOMAIN version_buffer_ : version_buffer_[i] >= k})
    BY DEF AgentInv, Counts, Ahead
  <2>2. \A i \in DOMAIN version_buffer_ :
          version_buffer_[i] > 0 => \E a \in agent_ids_ : QueueOf(a) + 1 = i
    BY DEF AgentInv, Owned, QueueOf
  <2>3. finish_count_[1] <= agent_num_
    <3>1. version_buffer_ \in Seq(0 .. Bound)
      BY DEF AgentInv, AgentTypes
    <3>2. Cardinality(Ahead(version_buffer_, 1)) <= agent_num_
      BY <2>2, <3>1, OwnersBound DEF AgentInv
    <3>3. 1 \in 1 .. Bound
      BY ReconfigurationAssumption
    <3>4. QED
      BY <3>2, <3>3 DEF AgentInv, Counts
  <2>4. QED
    BY <2>1, <2>2, <2>3 DEF CountersExact
<1>2. QED
  BY <1>1, ReconfigurationInvariance, PTL

\* The agents wait for one another only if one of them left since the last merge
\* (server.cc:356 and 505).
THEOREM BlockedAfterDeparture == Spec => []AllBlockedOnlyAfterDeparture
<1>1. ReconfigurationInv => AllBlockedOnlyAfterDeparture
  <2> SUFFICES ASSUME AgentInv, aligned, agent_ids_ \subseteq Blocked, ~departed
               PROVE  FALSE
    BY DEF ReconfigurationInv, AllBlockedOnlyAfterDeparture
  <2>1. PICK a \in agent_ids_ : Length(a) < Bound
    BY DEF AgentInv, SomeoneNotFull
  <2>2. Length(a) >= Bound
    BY DEF AgentInv, BlockedFull
  <2>3. Length(a) \in Int /\ Bound \in Int
    BY QueueExists, ReconfigurationAssumption DEF AgentInv
  <2>4. QED
    BY <2>1, <2>2, <2>3
<1>2. QED
  BY <1>1, ReconfigurationInvariance, PTL

-----------------------------------------------------------------------------
(* The loop of ExtendParameter *)

\* Induction on the natural numbers, as a statement about a set.  (A set that is
\* closed under successors but misses m would map its part below m one to one
\* into the same part without 0.)
LEMMA SetInduction ==
  ASSUME NEW S, 0 \in S, \A n \in Nat : n \in S => n + 1 \in S
  PROVE  Nat \subseteq S
<1> SUFFICES ASSUME NEW m \in Nat, m \notin S PROVE FALSE
  OBVIOUS
<1> DEFINE A == {i \in 0 .. m : i \in S}
           f == [i \in A |-> i + 1]
<1>1. A \in SUBSET (0 .. m) /\ 0 \in A
  OBVIOUS
<1>2. f \in [A -> A \ {0}]
  <2> SUFFICES ASSUME NEW i \in A PROVE i + 1 \in A \ {0}
    OBVIOUS
  <2>1. i # m
    OBVIOUS
  <2>2. QED
    BY <2>1
<1>3. f \in Injection(A, A \ {0})
  <2>1. \A i, j \in A : f[i] = f[j] => i = j
    OBVIOUS
  <2>2. DOMAIN f = A
    OBVIOUS
  <2> HIDE DEF f, A
  <2>3. QED
    BY <1>2, <2>1, <2>2 DEF Injection, IsInjective
<1> HIDE DEF f, A
<1>4. IsFiniteSet(0 .. m)
  BY FS_Interval
<1>5. IsFiniteSet(A) /\ Cardinality(A) \in Nat
  BY <1>1, <1>4, FS_Subset, FS_CardinalityType
<1>6. IsFiniteSet(A \ {0}) /\ Cardinality(A \ {0}) = Cardinality(A) - 1
  BY <1>1, <1>5, FS_RemoveElement
<1>7. Cardinality(A) <= Cardinality(A \ {0})
  BY <1>3, <1>6, FS_Injection
<1>8. QED
  BY <1>5, <1>6, <1>7

\* The loop of ExtendParameter: its i-th state, as the recursion defines it.
LEMMA ExtendParameterLoop ==
  ASSUME NEW length, parameters_ \in Seq(Keys),
         backup_parameters_ \in [Entries -> Seq(Keys)], BackupSize \in Nat
  PROVE  \E f \in [0 .. BackupSize -> Seq(Keys)] :
           /\ f[0] = parameters_
           /\ \A j \in 1 .. BackupSize :
                f[j] = IF Len(f[j - 1]) = length THEN f[j - 1]
                       ELSE backup_parameters_[j - 1] \o f[j - 1]
           /\ ExtendParameter(length) = f[BackupSize]
<1> DEFINE Body(f, j) == IF j = 0 THEN parameters_
                         ELSE IF Len(f[j - 1]) = length THEN f[j - 1]
                         ELSE backup_parameters_[j - 1] \o f[j - 1]
           IsLoop(f, n) == f = [j \in 0 .. n |-> Body(f, j)]
           S == {n \in Nat : n <= BackupSize =>
                   \E f \in [0 .. n -> Seq(Keys)] : IsLoop(f, n)}
<1> HIDE DEF Body, IsLoop, S
<1>1. ASSUME NEW f, NEW n \in Nat
      PROVE  IsLoop(f, n) <=> f = [j \in 0 .. n |-> Body(f, j)]
  BY DEF IsLoop
<1>2. ASSUME NEW f, NEW n \in Nat, IsLoop(f, n)
      PROVE  DOMAIN f = 0 .. n /\ \A j \in 0 .. n : f[j] = Body(f, j)
  BY <1>1, <1>2
<1>3. ASSUME NEW n \in Nat
      PROVE  n \in S <=> (n <= BackupSize =>
                            \E f \in [0 .. n -> Seq(Keys)] : IsLoop(f, n))
  BY DEF S
<1>4. 0 \in S
  <2> DEFINE f == [j \in 0 .. 0 |-> parameters_]
  <2>1. f \in [0 .. 0 -> Seq(Keys)]
    OBVIOUS
  <2>2. f = [j \in 0 .. 0 |-> Body(f, j)]
    <3>1. \A j \in 0 .. 0 : Body(f, j) = parameters_
      BY DEF Body
    <3>2. QED
      BY <3>1
  <2>3. QED
    BY <1>1, <1>3, <2>1, <2>2
<1>5. ASSUME NEW n \in Nat, n \in S PROVE n + 1 \in S
  <2> SUFFICES ASSUME n + 1 <= BackupSize
               PROVE  \E f \in [0 .. n + 1 -> Seq(Keys)] : IsLoop(f, n + 1)
    BY <1>3
  <2>1. PICK g \in [0 .. n -> Seq(Keys)] : IsLoop(g, n)
    BY <1>3, <1>5
  <2>2. \A j \in 0 .. n : g[j] = Body(g, j)
    BY <1>2, <2>1
  <2> DEFINE f == [j \in 0 .. n + 1 |-> IF j <= n THEN g[j] ELSE Body(g, j)]
  <2>3. Body(g, n + 1) \in Seq(Keys)
    <3>1. n \in Entries /\ g[n] \in Seq(Keys) /\ backup_parameters_[n] \in Seq(Keys)
      BY <1>5 DEF Entries
    <3>2. backup_parameters_[n] \o g[n] \in Seq(Keys)
      BY <3>1, ConcatProperties
    <3>3. Body(g, n + 1) = IF Len(g[n]) = length THEN g[n]
                           ELSE backup_parameters_[n] \o g[n]
      BY DEF Body
    <3>4. QED
      BY <3>1, <3>2, <3>3
  <2>4. f \in [0 .. n + 1 -> Seq(Keys)]
    BY <2>3
  <2>5. \A j \in 0 .. n : f[j] = g[j]
    OBVIOUS
  <2>6. f[n + 1] = Body(g, n + 1)
    OBVIOUS
  <2> HIDE DEF f
  <2>7. ASSUME NEW j \in 0 .. n + 1 PROVE Body(f, j) = Body(g, j)
    <3>1. CASE j = 0
      BY <3>1 DEF Body
    <3>2. CASE j # 0
      <4>1. f[j - 1] = g[j - 1]
        BY <2>5, <3>2
      <4>2. QED
        BY <4>1 DEF Body
    <3>3. QED
      BY <3>1, <3>2
  <2>8. \A j \in 0 .. n + 1 : f[j] = Body(f, j)
    BY <2>2, <2>5, <2>6, <2>7
  <2>9. f = [j \in 0 .. n + 1 |-> Body(f, j)]
    BY <2>4, <2>8
  <2>10. IsLoop(f, n + 1)
    BY <2>9 DEF IsLoop
  <2>11. QED
    BY <2>4, <2>10
<1>6. BackupSize \in S
  BY <1>4, <1>5, SetInduction
<1>7. PICK g \in [0 .. BackupSize -> Seq(Keys)] : IsLoop(g, BackupSize)
  BY <1>3, <1>6
<1> DEFINE extended == CHOOSE f : IsLoop(f, BackupSize)
<1>8. IsLoop(extended, BackupSize)
  BY <1>7
<1>9. ExtendParameter(length) = extended[BackupSize]
  BY DEF ExtendParameter, IsLoop, Body
<1> HIDE DEF extended
<1>10. /\ DOMAIN extended = 0 .. BackupSize
       /\ \A j \in 0 .. BackupSize : extended[j] = Body(extended, j)
       /\ \A j \in 0 .. BackupSize : g[j] = Body(g, j)
  BY <1>2, <1>7, <1>8
<1>11. \A n \in 0 .. BackupSize : extended[n] = g[n]
  <2> DEFINE U == {n \in Nat : n <= BackupSize => extended[n] = g[n]}
  <2>1. 0 \in U
    <3>1. Body(extended, 0) = parameters_ /\ Body(g, 0) = parameters_
      BY DEF Body
    <3>2. extended[0] = Body(extended, 0) /\ g[0] = Body(g, 0)
      BY <1>10
    <3>3. QED
      BY <3>1, <3>2
  <2>2. ASSUME NEW n \in Nat, n \in U PROVE n + 1 \in U
    <3> SUFFICES ASSUME n + 1 <= BackupSize PROVE extended[n + 1] = g[n + 1]
      OBVIOUS
    <3>1. extended[n] = g[n]
      BY <2>2
    <3>2. Body(extended, n + 1) = Body(g, n + 1)
      BY <3>1 DEF Body
    <3>3. QED
      BY <1>10, <3>2
  <2>3. Nat \subseteq U
    <3> HIDE DEF U
    <3>1. QED
      BY <2>1, <2>2, SetInduction
  <2>4. QED
    BY <2>3
<1>12. ExtendParameter(length) = g[BackupSize]
  BY <1>9, <1>11
<1>13. /\ g[0] = parameters_
       /\ \A j \in 1 .. BackupSize :
            g[j] = IF Len(g[j - 1]) = length THEN g[j - 1]
                   ELSE backup_parameters_[j - 1] \o g[j - 1]
  <2>1. \A j \in 0 .. BackupSize : g[j] = Body(g, j)
    BY <1>10
  <2>2. g[0] = parameters_
    <3>1. Body(g, 0) = parameters_
      BY DEF Body
    <3>2. QED
      BY <2>1, <3>1
  <2>3. ASSUME NEW j \in 1 .. BackupSize
        PROVE  g[j] = IF Len(g[j - 1]) = length THEN g[j - 1]
                      ELSE backup_parameters_[j - 1] \o g[j - 1]
    <3>1. g[j] = Body(g, j)
      BY <2>1
    <3>2. QED
      BY <3>1 DEF Body
  <2>4. QED
    BY <2>2, <2>3
<1>14. QED
  BY <1>12, <1>13

-----------------------------------------------------------------------------
(* What is stored and under way *)

Copies == [keys : Seq(Keys), config : Nat]

\* What the server stores, and what is under way to it.
DataInv ==
  /\ local_index_ \in 0 .. Cardinality(Servers) - 1
  /\ start_key_ \in Keys /\ parameter_length_ \in Keys
  /\ parameters_ \in Seq(Keys) /\ backup_parameters_ \in [Entries -> Seq(Keys)]
  /\ bottom_version_ \in 0 .. MaxRounds
  /\ answers \in [Servers -> Seq(Copies)]
  /\ status \in {"running", "aborted", "undefined", "overrun", "unwrapped"}
  /\ fresh \subseteq Entries
  /\ changed \in BOOLEAN /\ lost \in Nat /\ covered \in BOOLEAN
  /\ aligned \in BOOLEAN /\ departed \in BOOLEAN

\* Where a server of a configuration stands, and which keys it keeps.
LEMMA SegmentType ==
  ASSUME NEW c, GoodConfig(c), NEW s \in ToSet(c.server_id)
  PROVE  /\ IndexOf(c.server_id, s) \in 0 .. Cardinality(Servers) - 1
         /\ StartKey(c, s) \in Keys /\ ParameterLength(c, s) \in Keys
         /\ Segment(c, s) \in Seq(Keys)
<1> DEFINE n == Len(c.server_id)
           x == IndexOf(c.server_id, s)
<1>1. /\ c.server_id \in Seq(Servers) /\ IsInjective(c.server_id)
      /\ c.partition \in Seq(Keys) /\ Len(c.partition) = n
  BY DEF GoodConfig, ConfigType
<1>2. x \in 0 .. n - 1 /\ n \in Nat \ {0}
  BY <1>1, IndexOfIsPlace
<1>3. n <= Cardinality(Servers) /\ Cardinality(Servers) \in Nat
  <2>1. /\ Cardinality(ToSet(c.server_id)) = n /\ ToSet(c.server_id) \subseteq Servers
    BY <1>1, ListCardinality DEF ToSet
  <2>2. QED
    BY <2>1, FS_Subset, FS_CardinalityType, ReconfigurationAssumption
<1> HIDE DEF n, x
<1>4. x \in 0 .. Cardinality(Servers) - 1
  BY <1>2, <1>3
<1>5. StartKey(c, s) \in Keys
  <2>1. x + 1 \in 1 .. Len(c.partition)
    BY <1>1, <1>2
  <2>2. c.partition[x + 1] \in Keys
    BY <1>1, <2>1, ElementOfSeq
  <2>3. QED
    BY <2>2 DEF StartKey, x
<1>6. ParameterLength(c, s) \in Keys
  <2>1. (x + 1) % n \in 0 .. n - 1
    BY <1>2
  <2>2. ((x + 1) % n) + 1 \in 1 .. Len(c.partition)
    BY <1>1, <1>2, <2>1
  <2>3. c.partition[((x + 1) % n) + 1] \in Keys
    BY <1>1, <2>2, ElementOfSeq
  <2> DEFINE next == c.partition[((x + 1) % n) + 1]
  <2>4. ParameterLength(c, s) = (next - StartKey(c, s) + KeyRange) % KeyRange
    BY DEF ParameterLength, n, x
  <2> HIDE DEF next
  <2>5. QED
    BY <1>5, <2>3, <2>4, ReconfigurationAssumption, SMTT(20) DEF Keys, next
<1>7. Segment(c, s) \in Seq(Keys)
  <2> DEFINE f == [k \in 1 .. ParameterLength(c, s) |-> (StartKey(c, s) + k - 1) % KeyRange]
  <2>1. ASSUME NEW k \in 1 .. ParameterLength(c, s)
        PROVE  (StartKey(c, s) + k - 1) % KeyRange \in Keys
    BY <1>5, <1>6, ReconfigurationAssumption DEF Keys
  <2>2. f \in [1 .. ParameterLength(c, s) -> Keys] /\ ParameterLength(c, s) \in Nat
    BY <1>6, <2>1 DEF Keys
  <2>3. f \in Seq(Keys)
    <3> HIDE DEF f
    <3>1. QED
      BY <2>2, SeqDef
  <2>4. QED
    BY <2>3 DEF Segment
<1>8. QED
  BY <1>4, <1>5, <1>6, <1>7 DEF x

\* A server of the latest configuration is in every earlier one.
LEMMA ServersOnlyLeave ==
  ASSUME Configs, NEW k \in 1 .. Len(configs),
         NEW s \in ToSet(configs[Len(configs)].server_id)
  PROVE  s \in ToSet(configs[k].server_id)
<1> DEFINE n == Len(configs)
           S == {i \in Nat : i < n => s \in ToSet(configs[n - i].server_id)}
<1>1. n \in Nat /\ \A j \in 1 .. n - 1 :
        ToSet(configs[j + 1].server_id) \subseteq ToSet(configs[j].server_id)
  BY DEF Configs, Closer
<1> HIDE DEF n
<1>2. 0 \in S
  BY <1>1 DEF n
<1>3. ASSUME NEW i \in Nat, i \in S PROVE i + 1 \in S
  <2> SUFFICES ASSUME i + 1 < n PROVE s \in ToSet(configs[n - (i + 1)].server_id)
    OBVIOUS
  <2>1. s \in ToSet(configs[n - i].server_id)
    BY <1>1, <1>3
  <2>2. n - (i + 1) \in 1 .. n - 1 /\ n - (i + 1) + 1 = n - i
    BY <1>1, <1>3
  <2>3. QED
    BY <1>1, <2>1, <2>2
<1>4. Nat \subseteq S
  <2> HIDE DEF S
  <2>1. QED
    BY <1>2, <1>3, SetInduction
<1>5. n - k \in S /\ n - (n - k) = k /\ n - k < n /\ n - k \in Nat
  BY <1>1, <1>4 DEF n
<1>6. QED
  BY <1>5

\* What the server stores at first.
LEMMA DataInit == Init => DataInv
<1> SUFFICES ASSUME Init PROVE DataInv
  OBVIOUS
<1>1. Configs /\ BackupSize \in Nat
  BY ConfigsInit, ReconfigurationAssumption
<1>2. PICK c \in FirstConfigs :
        /\ configs = <<c>> /\ server_ids_ = c.server_id
        /\ local_index_ = IndexOf(server_ids_, Local)
        /\ start_key_ = StartKey(c, Local)
        /\ parameter_length_ = ParameterLength(c, Local)
        /\ parameters_ = Segment(c, Local)
        /\ backup_parameters_ = [j \in Entries |->
             Segment(c, Behind(server_ids_, local_index_, j + 1))]
  BY DEF Init
<1>3. GoodConfig(c) /\ Local \in ToSet(c.server_id) /\ BackupSize < Len(c.server_id)
  <2>1. 1 \in 1 .. Len(configs) /\ configs[1] = c
    BY <1>2
  <2>2. QED
    BY <1>1, <2>1, ReconfigurationAssumption DEF Configs
<1>4. /\ local_index_ \in 0 .. Cardinality(Servers) - 1
      /\ start_key_ \in Keys /\ parameter_length_ \in Keys /\ parameters_ \in Seq(Keys)
  BY <1>2, <1>3, SegmentType
<1>5. backup_parameters_ \in [Entries -> Seq(Keys)]
  <2> SUFFICES ASSUME NEW j \in Entries
               PROVE  Segment(c, Behind(server_ids_, local_index_, j + 1)) \in Seq(Keys)
    BY <1>2
  <2>1. c.server_id \in Seq(Servers) /\ IsInjective(c.server_id)
    BY <1>3 DEF GoodConfig, ConfigType
  <2>2. j + 1 \in 1 .. Len(c.server_id)
    BY <1>1, <1>3, <2>1 DEF Entries
  <2>3. Behind(server_ids_, local_index_, j + 1) \in ToSet(c.server_id)
    BY <1>2, <1>3, <2>1, <2>2, BehindBetween
  <2>4. QED
    BY <1>3, <2>3, SegmentType
<1>6. answers \in [Servers -> Seq(Copies)]
  BY DEF Init
<1>7. /\ bottom_version_ = 0 /\ lost = 0 /\ status = "running" /\ fresh = Entries
      /\ changed = FALSE /\ covered = TRUE /\ aligned = TRUE /\ departed = FALSE
  BY DEF Init
<1>8. 0 \in 0 .. MaxRounds /\ 0 \in Nat
  BY ReconfigurationAssumption
<1>9. QED
  BY <1>4, <1>5, <1>6, <1>7, <1>8 DEF DataInv

\* The copies a server makes of its own parameters, and of another's, are keys.
LEMMA DataCopies ==
  ASSUME DataInv, Configs, Applied, NEW s \in Servers,
         PeerAnswers(s) \/ (RespondBackup /\ ~Short)
  PROVE  answers' \in [Servers -> Seq(Copies)]
<1>1. ASSUME NEW t \in Servers, NEW copy \in Copies,
             answers' = [answers EXCEPT ![t] = Append(@, copy)]
      PROVE  answers' \in [Servers -> Seq(Copies)]
  <2>1. answers \in [Servers -> Seq(Copies)] /\ answers[t] \in Seq(Copies)
    BY DEF DataInv
  <2>2. Append(answers[t], copy) \in Seq(Copies)
    BY <2>1, AppendProperties
  <2>3. QED
    BY <1>1, <2>1, <2>2
<1>2. CASE PeerAnswers(s)
  <2>1. PICK k \in applied[s] .. Len(configs) :
          \E keys : /\ answers' = [answers EXCEPT ![s] =
                          Append(@, [keys |-> keys, config |-> k])]
                    /\ \/ keys = Segment(configs[k], s)
                       \/ keys \in [1 .. ParameterLength(configs[k], s) -> Stray]
    BY <1>2 DEF PeerAnswers
  <2> PICK keys : /\ answers' = [answers EXCEPT ![s] =
                        Append(@, [keys |-> keys, config |-> k])]
                  /\ \/ keys = Segment(configs[k], s)
                     \/ keys \in [1 .. ParameterLength(configs[k], s) -> Stray]
    BY <2>1
  <2>2. k \in 1 .. Len(configs) /\ k \in Nat
    BY DEF Applied, Configs
  <2>3. GoodConfig(configs[k]) /\ s \in ToSet(configs[k].server_id)
    BY <1>2, <2>2, ServersOnlyLeave DEF Configs, PeerAnswers
  <2>4. keys \in Seq(Keys)
    <3>1. Segment(configs[k], s) \in Seq(Keys) /\ ParameterLength(configs[k], s) \in Nat
      BY <2>3, SegmentType DEF Keys
    <3>2. Stray \subseteq Keys
      BY ReconfigurationAssumption DEF Keys
    <3>3. ASSUME keys \in [1 .. ParameterLength(configs[k], s) -> Stray]
          PROVE  keys \in Seq(Keys)
      BY <3>1, <3>2, <3>3, SeqDef
    <3>4. QED
      BY <3>1, <3>3
  <2>5. [keys |-> keys, config |-> k] \in Copies
    BY <2>2, <2>4 DEF Copies
  <2>6. QED
    BY <1>1, <2>5
<1>3. CASE RespondBackup /\ ~Short
  <2> DEFINE copy == [keys |-> SubSeq(parameters_, 1, parameter_length_),
                      config |-> applied[Local]]
  <2>1. answers' = [answers EXCEPT ![Local] = Append(@, copy)]
    BY <1>3 DEF RespondBackup
  <2>2. Local \in Servers /\ applied[Local] \in Nat
    BY ReconfigurationAssumption DEF Applied, Configs
  <2>3. /\ parameters_ \in Seq(Keys) /\ parameter_length_ \in Nat
        /\ parameter_length_ <= Len(parameters_)
    BY <1>3 DEF Short, DataInv, Keys
  <2>4. SubSeq(parameters_, 1, parameter_length_) \in Seq(Keys)
    BY <2>3, SubSeqProperties
  <2>5. copy \in Copies
    BY <2>2, <2>4 DEF Copies
  <2> HIDE DEF copy
  <2>6. QED
    BY <1>1, <2>1, <2>2, <2>5
<1>4. QED
  BY <1>2, <1>3

\* The keys of a new configuration; the parameters that are put in front are
\* those of copies.
LEMMA DataReconfigure ==
  ASSUME DataInv, Configs, Applied, RingInv, TakePlace, BeginReconfigure
  PROVE  /\ local_index_' \in 0 .. Cardinality(Servers) - 1
         /\ start_key_' \in Keys /\ parameter_length_' \in Keys
         /\ Len(server_ids_) - Len(NewConfig.server_id) \in Nat
         /\ ExtendParameter(parameter_length_') \in Seq(Keys)
<1>1. GoodConfig(NewConfig) /\ Closer(server_ids_, NewConfig.server_id)
  BY NewConfigGood DEF RingInv
<1>2. /\ local_index_' \in 0 .. Cardinality(Servers) - 1
      /\ start_key_' \in Keys /\ parameter_length_' \in Keys
  BY <1>1, SegmentType DEF TakePlace
<1>3. Len(server_ids_) - Len(NewConfig.server_id) \in Nat
  <2>1. NewConfig.server_id \in Seq(Servers) /\ IsInjective(NewConfig.server_id)
    BY <1>1 DEF GoodConfig, ConfigType
  <2>2. server_ids_ \in Seq(Servers) /\ IsInjective(server_ids_)
    BY RingList
  <2>3. /\ IsFiniteSet(ToSet(server_ids_))
        /\ Cardinality(ToSet(server_ids_)) = Len(server_ids_)
        /\ Cardinality(ToSet(NewConfig.server_id)) = Len(NewConfig.server_id)
    BY <2>1, <2>2, ListCardinality
  <2>4. ToSet(NewConfig.server_id) \subseteq ToSet(server_ids_)
    BY <1>1 DEF Closer
  <2>5. Len(NewConfig.server_id) <= Len(server_ids_)
    BY <2>3, <2>4, FS_Subset
  <2>6. QED
    BY <2>1, <2>2, <2>5
<1>4. ExtendParameter(parameter_length_') \in Seq(Keys)
  <2>1. BackupSize \in Nat
    BY ReconfigurationAssumption
  <2>2. PICK f \in [0 .. BackupSize -> Seq(Keys)] :
          ExtendParameter(parameter_length_') = f[BackupSize]
    BY <2>1, ExtendParameterLoop DEF DataInv
  <2>3. QED
    BY <2>1, <2>2
<1>5. QED
  BY <1>2, <1>3, <1>4

\* Every step keeps the types of what is stored and under way.
LEMMA DataNext ==
  ASSUME DataInv, Configs, Applied, RingInv, [Next]_vars
  PROVE  DataInv'
<1> USE DEF DataInv
<1>1. CASE SendConfig
  BY <1>1 DEF SendConfig, configVars, agentVars, history
<1>2. ASSUME NEW s \in Servers, PeerAnswers(s) PROVE DataInv'
  <2>1. answers' \in [Servers -> Seq(Copies)]
    BY <1>2, DataCopies
  <2>2. covered' \in BOOLEAN
    BY <1>2 DEF PeerAnswers
  <2>3. QED
    BY <1>2, <2>1, <2>2 DEF PeerAnswers, configVars, agentVars
<1>3. CASE RespondBackup
  <2>1. Local \in Servers
    BY ReconfigurationAssumption
  <2>2. /\ answers' \in [Servers -> Seq(Copies)]
        /\ status' \in {"running", "aborted", "undefined", "overrun", "unwrapped"}
    <3>1. CASE Short
      BY <1>3, <3>1 DEF RespondBackup
    <3>2. CASE ~Short
      BY <1>3, <2>1, <3>2, DataCopies DEF RespondBackup
    <3>3. QED
      BY <3>1, <3>2
  <2>3. QED
    BY <1>3, <2>2 DEF RespondBackup, configVars, agentVars, history
<1>4. ASSUME NEW s \in Servers, Backup(s) PROVE DataInv'
  <2>1. /\ answers[s] \in Seq(Copies) /\ answers[s] # <<>>
    BY <1>4 DEF Backup
  <2>2. Tail(answers[s]) \in Seq(Copies) /\ Head(answers[s]) \in Copies
    BY <2>1, HeadTailProperties
  <2>3. answers' \in [Servers -> Seq(Copies)]
    BY <1>4, <2>2 DEF Backup
  <2>4. Head(answers[s]).keys \in Seq(Keys)
    BY <2>2 DEF Copies
  <2>5. /\ backup_parameters_' \in [Entries -> Seq(Keys)] /\ changed' \in BOOLEAN
        /\ fresh' \subseteq Entries
        /\ status' \in {"running", "aborted", "undefined", "overrun", "unwrapped"}
    <3>1. CASE s \in ToSet(server_ids_) /\ BackupEntry(s) \in Entries
      BY <1>4, <2>4, <3>1 DEF Backup
    <3>2. CASE ~(s \in ToSet(server_ids_) /\ BackupEntry(s) \in Entries)
      BY <1>4, <3>2 DEF Backup
    <3>3. QED
      BY <3>1, <3>2
  <2>6. QED
    BY <1>4, <2>3, <2>5 DEF Backup, configVars, agentVars
<1>5. ASSUME NEW a \in Agents, ServePush(a) PROVE DataInv'
  <2>1. bottom_version_' \in 0 .. MaxRounds
    BY <1>5, ReconfigurationAssumption DEF ServePush
  <2>2. /\ status' \in {"running", "aborted", "undefined", "overrun", "unwrapped"}
        /\ departed' \in BOOLEAN
    BY <1>5 DEF ServePush
  <2>3. QED
    BY <1>5, <2>1, <2>2 DEF ServePush, configVars
<1>6. ASSUME NEW a \in Agents, ServePull(a) \/ IgnoreStranger(a) PROVE DataInv'
  BY <1>6 DEF ServePull, IgnoreStranger, configVars, agentVars, history
<1>7. CASE NotAssigned \/ RespondToAllOverruns
  BY <1>7 DEF NotAssigned, RespondToAllOverruns, configVars, agentVars, history
<1>8. CASE Reconfigure
  <2>1. BeginReconfigure /\ TakePlace
    BY <1>8 DEF Reconfigure
  <2>2. /\ local_index_' \in 0 .. Cardinality(Servers) - 1
        /\ start_key_' \in Keys /\ parameter_length_' \in Keys
        /\ Len(server_ids_) - Len(NewConfig.server_id) \in Nat
        /\ parameters_' \in Seq(Keys)
    BY <1>8, <2>1, DataReconfigure DEF Reconfigure
  <2>3. lost' \in Nat
    <3>1. lost' = (IF fresh = Entries THEN 0 ELSE lost)
                     + Len(server_ids_) - Len(NewConfig.server_id)
      BY <1>8 DEF Reconfigure
    <3>2. /\ Len(server_ids_) \in Nat /\ Len(NewConfig.server_id) \in Nat
      BY RingList, NewConfigGood, <2>1 DEF GoodConfig, ConfigType, RingInv
    <3>3. QED
      BY <2>2, <3>1, <3>2
  <2>4. /\ covered' \in BOOLEAN /\ aligned' \in BOOLEAN /\ departed' \in BOOLEAN
        /\ changed' \in BOOLEAN /\ fresh' \subseteq Entries
    BY <1>8 DEF Reconfigure
  <2>5. UNCHANGED <<backup_parameters_, bottom_version_, answers, status>>
    BY <1>8 DEF Reconfigure
  <2>6. QED
    BY <2>2, <2>3, <2>4, <2>5
<1>9. CASE ReconfigureAborts
  <2>1. BeginReconfigure /\ TakePlace
    BY <1>9 DEF ReconfigureAborts
  <2>2. /\ local_index_' \in 0 .. Cardinality(Servers) - 1
        /\ start_key_' \in Keys /\ parameter_length_' \in Keys
    BY <2>1, DataReconfigure
  <2>3. QED
    BY <1>9, <2>2 DEF ReconfigureAborts, agentVars, history
<1>10. CASE UNCHANGED vars
  BY <1>10 DEF vars, configVars, agentVars, history
<1>11. QED
  BY <1>1, <1>2, <1>3, <1>4, <1>5, <1>6, <1>7, <1>8, <1>9, <1>10 DEF Next

\* Type correctness of a server that is given new configurations: no queue
\* outgrows consistency_bound_ and no counter becomes negative (server.cc:515).
THEOREM TypeInvariance == Spec => []TypeOK
<1>1. Init => DataInv
  BY DataInit
<1>2. ReconfigurationInv /\ DataInv /\ [Next]_vars => DataInv'
  BY DataNext DEF ReconfigurationInv
<1>3. ReconfigurationInv /\ DataInv => TypeOK
  <2> SUFFICES ASSUME Configs, Applied, AgentInv, RingInv, DataInv PROVE TypeOK
    BY DEF ReconfigurationInv
  <2>1. server_ids_ \in Seq(Servers)
    BY RingList
  <2>2. ASSUME NEW a \in DOMAIN id_to_index_
        PROVE  id_to_index_[a] + 1 \in DOMAIN version_buffer_
    BY QueueExists DEF AgentInv, QueueOf
  <2>3. phase \in [Agents -> {"pull", "blocked", "push", "ignored"}]
    BY DEF AgentInv, AgentTypes
  <2>4. /\ agent_ids_ \subseteq Agents /\ agent_num_ = Cardinality(agent_ids_)
        /\ DOMAIN id_to_index_ \subseteq Agents
        /\ version_buffer_ \in Seq(0 .. Bound) /\ finish_count_ \in [1 .. Bound -> Nat]
    BY DEF AgentInv, AgentTypes
  <2>5. QED
    BY <2>1, <2>2, <2>3, <2>4 DEF TypeOK, Applied, RingInv, DataInv
<1>4. QED
  BY <1>1, <1>2, <1>3, ReconfigurationInvariance, PTL DEF Spec

-----------------------------------------------------------------------------
(* The keys of a server, and the invariant of the takeover *)

\* The entries of the partition are ascending: the master sorts what it draws.
\* With equal entries a server that should take over all keys gets length 0.
Ascending(c) ==
  \A i, j \in 1 .. Len(c.partition) : i < j => c.partition[i] < c.partition[j]

DistinctEntries == \A c \in FirstConfigs : Ascending(c)

\* How far it is round the key range from one key to another, and the keys on
\* the way.
Distance(a, e) == (e - a + KeyRange) % KeyRange

Arc(a, e) == [k \in 1 .. Distance(a, e) |-> (a + k - 1) % KeyRange]

\* The key after the last one of a server, and the entry i places behind its own.
EndKey(c, s) == c.partition[((IndexOf(c.server_id, s) + 1) % Len(c.server_id)) + 1]

EntryBehind(c, s, i) ==
  c.partition[((IndexOf(c.server_id, s) - i + Len(c.server_id)) % Len(c.server_id)) + 1]

\* A later configuration: entries only disappear, and the server s still ends
\* at the same key.
Later(c, d, s) ==
  /\ ToSet(d.partition) \subseteq ToSet(c.partition)
  /\ EndKey(d, s) = EndKey(c, s)
  /\ Len(c.server_id) > 1 => Len(d.server_id) > 1

\* One change: agents, or one server less.
Change(c, d) ==
  /\ \A s \in ToSet(d.server_id) : Later(c, d, s)
  /\ \/ d.server_id = c.server_id /\ d.partition = c.partition
     \/ d.worker_id = c.worker_id

Changes ==
  /\ \A k \in 1 .. Len(configs) : Ascending(configs[k])
  /\ \A k \in 1 .. Len(configs) - 1 : Change(configs[k], configs[k + 1])

Current == configs[applied[Local]]

\* The copy in entry j is that of configuration c.
CopyOf(c, j) ==
  /\ j < Len(c.server_id)
  /\ backup_parameters_[j] =
       Segment(c, Behind(c.server_id, IndexOf(c.server_id, Local), j + 1))

\* The copies that are not changed yet were all made under one configuration.
CopiesOf(c) ==
  /\ Local \in ToSet(c.server_id)
  /\ \A j \in Entries : CopyOf(c, j)
  /\ parameters_ = Segment(c, Local)
  /\ Later(c, Current, Local)
  /\ lost = Len(c.server_id) - Len(server_ids_)

\* What is under way is what its owner had under the configuration it says,
\* unless a takeover went wrong.
Honest ==
  \A s \in Servers : \A i \in 1 .. Len(answers[s]) :
    LET copy == answers[s][i]
    IN  /\ copy.config \in 1 .. Len(configs)
        /\ covered =>
             /\ s \in ToSet(configs[copy.config].server_id)
             /\ copy.keys = Segment(configs[copy.config], s)

\* As long as the server is configured.
Placed ==
  Local \in ToSet(server_ids_) =>
    /\ status = "running" => agent_num_ = Len(Current.worker_id)
    /\ start_key_ = StartKey(Current, Local)
    /\ parameter_length_ = ParameterLength(Current, Local)

Covered ==
  Local \in ToSet(server_ids_) /\ covered =>
    /\ parameters_ = Segment(Current, Local)
    /\ \A j \in fresh : CopyOf(Current, j)
    /\ ~changed => \E b \in 1 .. applied[Local] : CopiesOf(configs[b])

TakeoverInv == Changes /\ Honest /\ Placed /\ Covered

-----------------------------------------------------------------------------
(* Keys, and the loop over the copies *)

\* The distance, without the remainder.
LEMMA DistanceCases ==
  ASSUME NEW a \in Keys, NEW e \in Keys
  PROVE  /\ Distance(a, e) = IF a <= e THEN e - a ELSE e - a + KeyRange
         /\ Distance(a, e) \in Keys
<1>1. KeyRange \in Nat \ {0} /\ e - a + KeyRange \in 0 .. 2 * KeyRange - 1
  BY ReconfigurationAssumption DEF Keys
<1> DEFINE x == e - a + KeyRange
<1>2. x % KeyRange = IF x < KeyRange THEN x ELSE x - KeyRange
  BY <1>1, SmallRemainder
<1>3. QED
  BY <1>1, <1>2 DEF Keys, Distance

\* The keys from one to another.
LEMMA ArcType ==
  ASSUME NEW a \in Keys, NEW e \in Keys
  PROVE  /\ Arc(a, e) \in Seq(Keys) /\ Len(Arc(a, e)) = Distance(a, e)
         /\ \A k \in 1 .. Distance(a, e) : Arc(a, e)[k] = (a + k - 1) % KeyRange
<1>1. Distance(a, e) \in Nat /\ KeyRange \in Nat \ {0} /\ a \in Nat
  BY DistanceCases, ReconfigurationAssumption DEF Keys
<1> DEFINE d == Distance(a, e)
           f == [k \in 1 .. d |-> (a + k - 1) % KeyRange]
<1> HIDE DEF d
<1>2. \A k \in 1 .. d : (a + k - 1) % KeyRange \in Keys
  BY <1>1 DEF Keys, d
<1>3. f \in Seq(Keys) /\ Len(f) = d /\ \A k \in 1 .. d : f[k] = (a + k - 1) % KeyRange
  BY <1>1, <1>2 DEF d
<1>4. QED
  BY <1>3 DEF Arc, d

\* The way to a key through a nearer one.
LEMMA ArcThrough ==
  ASSUME NEW a \in Keys, NEW b \in Keys, NEW e \in Keys, Distance(b, e) < Distance(a, e)
  PROVE  Arc(a, b) \o Arc(b, e) = Arc(a, e)
<1> DEFINE d == Distance(a, b)
           m == Distance(b, e)
           n == Distance(a, e)
<1>1. /\ KeyRange \in Nat \ {0} /\ a \in 0 .. KeyRange - 1 /\ b \in 0 .. KeyRange - 1
      /\ e \in 0 .. KeyRange - 1
  BY ReconfigurationAssumption DEF Keys
<1>2. /\ d = IF a <= b THEN b - a ELSE b - a + KeyRange
      /\ m = IF b <= e THEN e - b ELSE e - b + KeyRange
      /\ n = IF a <= e THEN e - a ELSE e - a + KeyRange
  BY DistanceCases
<1>3. /\ Arc(a, b) \in Seq(Keys) /\ Len(Arc(a, b)) = d
      /\ \A k \in 1 .. d : Arc(a, b)[k] = (a + k - 1) % KeyRange
      /\ Arc(b, e) \in Seq(Keys) /\ Len(Arc(b, e)) = m
      /\ \A k \in 1 .. m : Arc(b, e)[k] = (b + k - 1) % KeyRange
      /\ Arc(a, e) \in Seq(Keys) /\ Len(Arc(a, e)) = n
      /\ \A k \in 1 .. n : Arc(a, e)[k] = (a + k - 1) % KeyRange
  BY ArcType
<1>4. m < n
  OBVIOUS
<1> HIDE DEF d, m, n
<1>5. d + m = n /\ d \in Nat /\ m \in Nat /\ n \in Nat /\ n < KeyRange
  BY <1>1, <1>2, <1>4
<1>6. /\ Arc(a, b) \o Arc(b, e) \in Seq(Keys)
      /\ Len(Arc(a, b) \o Arc(b, e)) = d + m
      /\ \A k \in 1 .. d + m : (Arc(a, b) \o Arc(b, e))[k] =
           IF k <= d THEN Arc(a, b)[k] ELSE Arc(b, e)[k - d]
  BY <1>3, ConcatProperties
<1>7. ASSUME NEW k \in 1 .. n
      PROVE  (Arc(a, b) \o Arc(b, e))[k] = Arc(a, e)[k]
  <2>1. CASE k <= d
    BY <1>3, <1>5, <1>6, <2>1
  <2>2. CASE ~(k <= d)
    <3>1. k - d \in 1 .. m /\ k \in 1 .. d + m
      BY <1>5, <2>2
    <3>2. (Arc(a, b) \o Arc(b, e))[k] = (b + (k - d) - 1) % KeyRange
      BY <1>3, <1>6, <2>2, <3>1
    <3>3. Arc(a, e)[k] = (a + k - 1) % KeyRange
      BY <1>3
    <3>4. (b + (k - d) - 1) % KeyRange = (a + k - 1) % KeyRange
      <4> DEFINE x == b + (k - d) - 1
                 y == a + k - 1
      <4>1. x \in 0 .. 2 * KeyRange - 1 /\ y \in 0 .. 2 * KeyRange - 1
        BY <1>1, <1>5, <3>1
      <4>2. \/ y = x
            \/ y = x + KeyRange
        <5>1. a + d = b \/ a + d = b + KeyRange
          BY <1>1, <1>2
        <5>2. QED
          BY <1>1, <1>5, <3>1, <5>1
      <4> HIDE DEF x, y
      <4>3. /\ x % KeyRange = IF x < KeyRange THEN x ELSE x - KeyRange
            /\ y % KeyRange = IF y < KeyRange THEN y ELSE y - KeyRange
        BY <1>1, <4>1, SmallRemainder
      <4>4. x % KeyRange = y % KeyRange
        BY <1>1, <4>1, <4>2, <4>3
      <4>5. QED
        BY <4>4 DEF x, y
    <3>5. QED
      BY <3>2, <3>3, <3>4
  <2>3. QED
    BY <2>1, <2>2
<1>8. QED
  BY <1>3, <1>5, <1>6, <1>7, SeqEqual

\* The keys of a server are those from its entry to the next one.
LEMMA SegmentIsArc ==
  ASSUME NEW c, GoodConfig(c), NEW s \in ToSet(c.server_id)
  PROVE  /\ ParameterLength(c, s) = Distance(StartKey(c, s), EndKey(c, s))
         /\ Segment(c, s) = Arc(StartKey(c, s), EndKey(c, s))
         /\ StartKey(c, s) \in Keys /\ EndKey(c, s) \in Keys
<1>1. ParameterLength(c, s) = Distance(StartKey(c, s), EndKey(c, s))
  BY DEF ParameterLength, Distance, EndKey
<1>2. Segment(c, s) = Arc(StartKey(c, s), EndKey(c, s))
  BY <1>1 DEF Segment, Arc
<1>3. StartKey(c, s) \in Keys
  BY SegmentType
<1>4. EndKey(c, s) \in Keys
  <2> DEFINE n == Len(c.server_id)
             x == IndexOf(c.server_id, s)
  <2>1. c.server_id \in Seq(Servers) /\ c.partition \in Seq(Keys) /\ Len(c.partition) = n
    BY DEF GoodConfig, ConfigType
  <2>2. x \in 0 .. n - 1 /\ n \in Nat \ {0}
    BY <2>1, IndexOfIsPlace
  <2> HIDE DEF n, x
  <2>3. ((x + 1) % n) + 1 \in 1 .. n
    BY <2>2
  <2>4. c.partition[((x + 1) % n) + 1] \in Keys
    BY <2>1, <2>3, ElementOfSeq
  <2>5. QED
    BY <2>4 DEF EndKey, n, x
<1>5. QED
  BY <1>1, <1>2, <1>3, <1>4

\* Where the entry i places behind a server stands.
BehindPlace(n, x, i) == IF i <= x THEN x - i + 1 ELSE x - i + n + 1

\* The entries behind a server, by their places.
LEMMA EntryPlaces ==
  ASSUME NEW c, GoodConfig(c), NEW s \in ToSet(c.server_id)
  PROVE  LET n == Len(c.server_id)
             x == IndexOf(c.server_id, s)
         IN  /\ n \in Nat \ {0} /\ x \in 0 .. n - 1
             /\ c.partition \in Seq(Keys) /\ Len(c.partition) = n
             /\ \A i \in 0 .. n : BehindPlace(n, x, i) \in 1 .. n
             /\ \A i \in 0 .. n :
                  /\ EntryBehind(c, s, i) = c.partition[BehindPlace(n, x, i)]
                  /\ Behind(c.server_id, x, i) = c.server_id[BehindPlace(n, x, i)]
             /\ EndKey(c, s) = c.partition[IF x < n - 1 THEN x + 2 ELSE 1]
<1> DEFINE n == Len(c.server_id)
           x == IndexOf(c.server_id, s)
<1>1. c.server_id \in Seq(Servers) /\ c.partition \in Seq(Keys) /\ Len(c.partition) = n
  BY DEF GoodConfig, ConfigType
<1>2. x \in 0 .. n - 1 /\ n \in Nat \ {0}
  BY <1>1, IndexOfIsPlace
<1> HIDE DEF n, x
<1>3. ASSUME NEW i \in 0 .. n
      PROVE  /\ BehindPlace(n, x, i) \in 1 .. n
             /\ ((x - i + n) % n) + 1 = BehindPlace(n, x, i)
  <2> DEFINE y == x - i + n
  <2>1. y \in 0 .. 2 * n - 1
    BY <1>2
  <2>2. y % n = IF y < n THEN y ELSE y - n
    BY <1>2, <2>1, SmallRemainder
  <2>3. QED
    BY <1>2, <2>1, <2>2 DEF BehindPlace
<1>4. ((x + 1) % n) + 1 = IF x < n - 1 THEN x + 2 ELSE 1
  <2> DEFINE y == x + 1
  <2>1. y \in 0 .. 2 * n - 1
    BY <1>2
  <2> HIDE DEF y
  <2>2. y % n = IF y < n THEN y ELSE y - n
    BY <1>2, <2>1, SmallRemainder
  <2>3. QED
    BY <1>2, <2>2 DEF y
<1>5. EndKey(c, s) = c.partition[IF x < n - 1 THEN x + 2 ELSE 1]
  BY <1>4 DEF EndKey, n, x
<1>6. ASSUME NEW i \in 0 .. n
      PROVE  /\ EntryBehind(c, s, i) = c.partition[BehindPlace(n, x, i)]
             /\ Behind(c.server_id, x, i) = c.server_id[BehindPlace(n, x, i)]
  <2>1. ((x - i + n) % n) + 1 = BehindPlace(n, x, i)
    BY <1>3
  <2>2. /\ EntryBehind(c, s, i) = c.partition[((x - i + n) % n) + 1]
        /\ Behind(c.server_id, x, i) = c.server_id[((x - i + n) % n) + 1]
    BY DEF EntryBehind, Behind, n, x
  <2>3. QED
    BY <2>1, <2>2
<1>7. QED
  BY <1>1, <1>2, <1>3, <1>5, <1>6 DEF n, x

\* The further behind a server an entry is, the further it is to the end of the
\* server's keys.
LEMMA EntriesBehind ==
  ASSUME NEW c, GoodConfig(c), Ascending(c), NEW s \in ToSet(c.server_id),
         Len(c.server_id) > 1
  PROVE  LET n == Len(c.server_id)
             e == EndKey(c, s)
         IN  /\ \A i \in 0 .. n - 1 : EntryBehind(c, s, i) \in Keys
             /\ e = EntryBehind(c, s, n - 1)
             /\ StartKey(c, s) = EntryBehind(c, s, 0)
             /\ \A i \in 0 .. n - 2 : 0 < Distance(EntryBehind(c, s, i), e)
             /\ \A i, j \in 0 .. n - 2 : i < j =>
                  Distance(EntryBehind(c, s, i), e) < Distance(EntryBehind(c, s, j), e)
             /\ \A q \in ToSet(c.partition) : \E i \in 0 .. n - 1 : q = EntryBehind(c, s, i)
<1> DEFINE n == Len(c.server_id)
           x == IndexOf(c.server_id, s)
           e == EndKey(c, s)
           p == c.partition
           B(i) == BehindPlace(n, x, i)
           E(i) == EntryBehind(c, s, i)
<1>1. /\ n \in Nat \ {0} /\ n > 1 /\ x \in 0 .. n - 1
      /\ p \in Seq(Keys) /\ Len(p) = n
      /\ \A i \in 0 .. n : B(i) \in 1 .. n
      /\ \A i \in 0 .. n : E(i) = p[B(i)]
      /\ e = p[IF x < n - 1 THEN x + 2 ELSE 1]
  BY EntryPlaces
<1>2. KeyRange \in Nat \ {0} /\ \A i \in 1 .. n : p[i] \in 0 .. KeyRange - 1
  BY <1>1, ElementOfSeq, ReconfigurationAssumption DEF Keys
<1>3. \A i, j \in 1 .. n : i < j => p[i] < p[j]
  BY <1>1 DEF Ascending
<1>4. StartKey(c, s) = p[x + 1]
  BY DEF StartKey
<1>5. DOMAIN p = 1 .. n
  BY <1>1, LenProperties
<1>6. ToSet(p) = {p[i] : i \in 1 .. n}
  BY <1>5 DEF ToSet
<1>7. e \in Keys
  BY SegmentIsArc
<1> HIDE DEF n, x, e, p, E
<1>8. ASSUME NEW i \in 0 .. n - 1
      PROVE  /\ E(i) \in Keys
             /\ \E k \in 1 .. n : k = B(i) /\ E(i) = p[k]
  <2>1. i \in 0 .. n
    BY <1>1
  <2>2. PICK k \in 1 .. n : k = B(i) /\ E(i) = p[k]
    BY <1>1, <2>1
  <2>3. QED
    BY <1>2, <2>2 DEF Keys
<1>9. e = E(n - 1)
  <2>1. B(n - 1) = IF x < n - 1 THEN x + 2 ELSE 1
    BY <1>1 DEF BehindPlace
  <2>2. n - 1 \in 0 .. n
    BY <1>1
  <2>3. QED
    BY <1>1, <2>1, <2>2
<1>10. StartKey(c, s) = E(0)
  <2>1. B(0) = x + 1 /\ 0 \in 0 .. n
    BY <1>1 DEF BehindPlace
  <2>2. QED
    BY <1>1, <1>4, <2>1
<1> DEFINE D(i) == IF E(i) <= e THEN e - E(i) ELSE e - E(i) + KeyRange
<1>11. \A i \in 0 .. n - 1 : Distance(E(i), e) = D(i)
  BY <1>7, <1>8, DistanceCases
<1>12. ASSUME NEW i \in 0 .. n - 2
       PROVE  /\ E(i) # e /\ E(i) \in 0 .. KeyRange - 1 /\ e \in 0 .. KeyRange - 1
              /\ E(i) < e <=> i <= x /\ x < n - 1
  <2>1. i \in 0 .. n - 1
    BY <1>1
  <2>2. PICK k \in 1 .. n : k = B(i) /\ E(i) = p[k]
    BY <1>8, <2>1
  <2>3. PICK m \in 1 .. n : m = (IF x < n - 1 THEN x + 2 ELSE 1) /\ e = p[m]
    BY <1>1, SMTT(20)
  <2>4. CASE i <= x /\ x < n - 1
    <3>1. k < m
      BY <1>1, <2>2, <2>3, <2>4 DEF BehindPlace
    <3>2. QED
      BY <1>2, <1>3, <2>2, <2>4, <2>3, <3>1
  <2>5. CASE ~(i <= x) /\ x < n - 1
    <3>1. m < k
      BY <1>1, <2>2, <2>5, <2>3 DEF BehindPlace
    <3>2. QED
      BY <1>2, <1>3, <2>2, <2>5, <2>3, <3>1
  <2>6. CASE ~(x < n - 1)
    <3>1. m < k
      BY <1>1, <2>2, <2>6, <2>3 DEF BehindPlace
    <3>2. QED
      BY <1>2, <1>3, <2>2, <2>6, <2>3, <3>1
  <2>7. QED
    BY <2>4, <2>5, <2>6
<1>13. ASSUME NEW i \in 0 .. n - 2 PROVE 0 < D(i)
  BY <1>2, <1>12
<1>14. ASSUME NEW i \in 0 .. n - 2, NEW j \in 0 .. n - 2, i < j PROVE D(i) < D(j)
  <2>1. CASE j <= x \/ ~(i <= x)
    <3>1. PICK k, l \in 1 .. n :
            k = B(i) /\ l = B(j) /\ E(i) = p[k] /\ E(j) = p[l]
      BY <1>1, <1>8, SMTT(20)
    <3>2. l < k
      BY <1>1, <1>14, <2>1, <3>1 DEF BehindPlace
    <3>3. E(j) < E(i)
      BY <1>3, <3>1, <3>2
    <3>4. (E(i) < e) <=> (E(j) < e)
      BY <1>1, <1>12, <1>14, <2>1, SMTT(20)
    <3>5. QED
      BY <1>2, <1>12, <3>3, <3>4
  <2>2. CASE i <= x /\ ~(j <= x)
    <3>1. x < n - 1
      BY <1>1, <2>2
    <3>2. E(i) < e /\ ~(E(j) < e)
      BY <1>12, <2>2, <3>1
    <3>3. QED
      BY <1>2, <1>12, <3>2
  <2>3. QED
    BY <2>1, <2>2
<1>15. ASSUME NEW q \in ToSet(p) PROVE \E i \in 0 .. n - 1 : q = E(i)
  <2>1. PICK k \in 1 .. n : q = p[k]
    BY <1>6
  <2> DEFINE i == IF k <= x + 1 THEN x + 1 - k ELSE x + 1 - k + n
  <2>2. i \in 0 .. n - 1 /\ B(i) = k
    BY <1>1 DEF BehindPlace
  <2> HIDE DEF i
  <2>3. E(i) = p[k]
    BY <1>8, <2>2
  <2>4. QED
    BY <2>1, <2>2, <2>3
<1>16. QED
  BY <1>8, <1>9, <1>10, <1>11, <1>13, <1>14, <1>15, SMTT(20) DEF n, e, p, E

\* The keys of the servers behind another, piece by piece.
LEMMA SegmentBehind ==
  ASSUME NEW c, GoodConfig(c), NEW s \in ToSet(c.server_id),
         NEW i \in 1 .. Len(c.server_id) - 1
  PROVE  Segment(c, Behind(c.server_id, IndexOf(c.server_id, s), i))
           = Arc(EntryBehind(c, s, i), EntryBehind(c, s, i - 1))
<1> DEFINE n == Len(c.server_id)
           x == IndexOf(c.server_id, s)
           t == Behind(c.server_id, x, i)
           y == IndexOf(c.server_id, t)
           p == c.partition
<1>1. /\ n \in Nat \ {0} /\ x \in 0 .. n - 1 /\ i \in 1 .. n - 1
      /\ BehindPlace(n, x, i) \in 1 .. n /\ BehindPlace(n, x, i - 1) \in 1 .. n
      /\ EntryBehind(c, s, i) = p[BehindPlace(n, x, i)]
      /\ EntryBehind(c, s, i - 1) = p[BehindPlace(n, x, i - 1)]
      /\ t = c.server_id[BehindPlace(n, x, i)]
  <2>1. n \in Nat \ {0}
    BY EntryPlaces
  <2>2. i \in 0 .. n /\ i - 1 \in 0 .. n
    BY <2>1
  <2>3. QED
    BY <2>2, EntryPlaces
<1>2. c.server_id \in Seq(Servers) /\ IsInjective(c.server_id)
  BY DEF GoodConfig, ConfigType
<1>3. t \in ToSet(c.server_id) /\ y = BehindPlace(n, x, i) - 1
  BY <1>1, <1>2, PlaceIsIndexOf
<1>4. /\ StartKey(c, t) = p[y + 1]
      /\ EndKey(c, t) = p[IF y < n - 1 THEN y + 2 ELSE 1]
      /\ Segment(c, t) = Arc(StartKey(c, t), EndKey(c, t))
  BY <1>3, EntryPlaces, SegmentIsArc DEF StartKey
<1> HIDE DEF n, x, t, y, p
<1>5. y + 1 = BehindPlace(n, x, i)
  BY <1>1, <1>3
<1>6. (IF y < n - 1 THEN y + 2 ELSE 1) = BehindPlace(n, x, i - 1)
  BY <1>1, <1>3 DEF BehindPlace
<1>7. Segment(c, t) = Arc(EntryBehind(c, s, i), EntryBehind(c, s, i - 1))
  BY <1>1, <1>4, <1>5, <1>6
<1>8. QED
  BY <1>7 DEF t, x

\* A list of ascending entries has no repetitions.
LEMMA EntriesCardinality ==
  ASSUME NEW c, GoodConfig(c), Ascending(c)
  PROVE  /\ IsFiniteSet(ToSet(c.partition))
         /\ Cardinality(ToSet(c.partition)) = Len(c.server_id)
<1>1. c.partition \in Seq(Keys) /\ Len(c.partition) = Len(c.server_id)
  BY DEF GoodConfig, ConfigType
<1>2. DOMAIN c.partition = 1 .. Len(c.partition) /\ Len(c.partition) \in Nat
  BY <1>1, LenProperties
<1>3. \A i \in 1 .. Len(c.partition) : c.partition[i] \in Int
  <2>1. \A i \in 1 .. Len(c.partition) : c.partition[i] \in Keys
    BY <1>1, ElementOfSeq
  <2>2. QED
    BY <2>1, ReconfigurationAssumption DEF Keys
<1>4. IsInjective(c.partition)
  <2> SUFFICES ASSUME NEW i \in 1 .. Len(c.partition), NEW j \in 1 .. Len(c.partition),
                      c.partition[i] = c.partition[j]
               PROVE  i = j
    BY <1>2 DEF IsInjective
  <2>1. ~(i < j) /\ ~(j < i)
    BY <1>3 DEF Ascending
  <2>2. QED
    BY <2>1
<1>5. QED
  BY <1>1, <1>4, ListCardinality

\* In a later configuration a server begins at an entry that was behind its own,
\* and as many servers are gone as there were between the two.
LEMMA LaterStart ==
  ASSUME NEW c, NEW d, GoodConfig(c), GoodConfig(d), Ascending(c), Ascending(d),
         NEW s, s \in ToSet(c.server_id), s \in ToSet(d.server_id),
         Later(c, d, s), Len(d.server_id) > 1, Len(c.server_id) > 1
  PROVE  \E m \in 0 .. Len(c.server_id) - 2 :
           /\ StartKey(d, s) = EntryBehind(c, s, m)
           /\ m <= Len(c.server_id) - Len(d.server_id)
<1> DEFINE n == Len(c.server_id)
           e == EndKey(c, s)
           E(i) == EntryBehind(c, s, i)
           F(i) == EntryBehind(d, s, i)
           l == Len(d.server_id)
<1>1. /\ n \in Nat /\ n > 1 /\ l \in Nat /\ l > 1
      /\ e = EndKey(d, s) /\ ToSet(d.partition) \subseteq ToSet(c.partition)
  BY DEF GoodConfig, ConfigType, Later
<1>2. /\ \A i \in 0 .. n - 1 : E(i) \in Keys
      /\ e = E(n - 1)
      /\ \A i \in 0 .. n - 2 : 0 < Distance(E(i), e)
      /\ \A i, j \in 0 .. n - 2 : i < j => Distance(E(i), e) < Distance(E(j), e)
      /\ \A q \in ToSet(c.partition) : \E i \in 0 .. n - 1 : q = E(i)
  BY EntriesBehind
<1>3. /\ e = F(l - 1) /\ StartKey(d, s) = F(0)
      /\ \A i \in 0 .. l - 2 : 0 < Distance(F(i), e)
      /\ \A i, j \in 0 .. l - 2 : i < j => Distance(F(i), e) < Distance(F(j), e)
      /\ \A q \in ToSet(d.partition) : \E i \in 0 .. l - 1 : q = F(i)
  BY <1>1, EntriesBehind
<1>4. StartKey(d, s) \in ToSet(d.partition)
  <2>1. /\ IndexOf(d.server_id, s) + 1 \in 1 .. Len(d.partition)
        /\ d.partition \in Seq(Keys)
    BY EntryPlaces
  <2>2. QED
    BY <2>1, LenProperties DEF StartKey, ToSet
<1>5. e \in Keys /\ Distance(e, e) = 0
  <2>1. e \in Keys
    BY SegmentIsArc
  <2>2. QED
    BY <2>1, DistanceCases DEF Keys
<1> HIDE DEF n, e, E, F, l
<1>6. PICK m \in 0 .. n - 1 : StartKey(d, s) = E(m)
  BY <1>1, <1>2, <1>4
<1>7. 0 < Distance(E(m), e) /\ m \in 0 .. n - 2
  <2>1. 0 \in 0 .. l - 2
    BY <1>1
  <2>2. 0 < Distance(E(m), e)
    BY <1>3, <1>6, <2>1
  <2>3. m # n - 1
    BY <1>2, <1>5, <2>2
  <2>4. QED
    BY <1>1, <2>2, <2>3
<1>8. \A i \in 0 .. n - 1 : Distance(E(i), e) \in Int
  BY <1>2, <1>5, DistanceCases DEF Keys
<1> DEFINE Passed == {E(i) : i \in 0 .. m - 1}
<1>9. Passed \cap ToSet(d.partition) = {}
  <2> SUFFICES ASSUME NEW i \in 0 .. m - 1, E(i) \in ToSet(d.partition) PROVE FALSE
    OBVIOUS
  <2>1. i \in 0 .. n - 2 /\ i < m /\ i \in 0 .. n - 1
    BY <1>1, <1>7
  <2>2. 0 < Distance(E(i), e) /\ Distance(E(i), e) < Distance(E(m), e)
    BY <1>2, <1>7, <2>1
  <2>3. PICK k \in 0 .. l - 1 : E(i) = F(k)
    BY <1>3
  <2>4. Distance(E(i), e) \in Int /\ Distance(E(m), e) \in Int
    BY <1>6, <1>8, <2>1
  <2>5. CASE k = l - 1
    BY <1>3, <1>5, <2>2, <2>3, <2>5
  <2>6. CASE k = 0
    BY <1>3, <1>6, <2>2, <2>3, <2>4, <2>6
  <2>7. CASE k # 0 /\ k # l - 1
    <3>1. k \in 0 .. l - 2 /\ 0 \in 0 .. l - 2 /\ 0 < k
      BY <1>1, <2>7
    <3>2. Distance(F(0), e) < Distance(F(k), e)
      BY <1>3, <3>1
    <3>3. Distance(E(m), e) < Distance(E(i), e)
      BY <1>3, <1>6, <2>3, <3>2
    <3>4. QED
      BY <2>2, <2>4, <3>3
  <2>8. QED
    BY <2>5, <2>6, <2>7
<1>10. Passed \subseteq ToSet(c.partition)
  <2> SUFFICES ASSUME NEW i \in 0 .. m - 1 PROVE E(i) \in ToSet(c.partition)
    OBVIOUS
  <2>1. i \in 0 .. n
    BY <1>1, <1>7
  <2>2. /\ BehindPlace(n, IndexOf(c.server_id, s), i) \in 1 .. Len(c.partition)
        /\ E(i) = c.partition[BehindPlace(n, IndexOf(c.server_id, s), i)]
        /\ c.partition \in Seq(Keys)
    BY <2>1, EntryPlaces DEF n, E
  <2>3. QED
    BY <2>2, LenProperties DEF ToSet
<1>11. IsFiniteSet(Passed) /\ Cardinality(Passed) = m
  <2> DEFINE g == [i \in 0 .. m - 1 |-> E(i)]
  <2>1. g \in Bijection(0 .. m - 1, Passed)
    <3>1. g \in [0 .. m - 1 -> Passed] /\ \A q \in Passed : \E i \in 0 .. m - 1 : g[i] = q
      OBVIOUS
    <3>2. \A i, j \in 0 .. m - 1 : g[i] = g[j] => i = j
      <4> SUFFICES ASSUME NEW i \in 0 .. m - 1, NEW j \in 0 .. m - 1, E(i) = E(j)
                   PROVE  i = j
        OBVIOUS
      <4>1. i \in 0 .. n - 2 /\ j \in 0 .. n - 2 /\ i \in 0 .. n - 1
        BY <1>1, <1>7
      <4>2. Distance(E(i), e) \in Int
        BY <1>8, <4>1
      <4>3. ~(i < j) /\ ~(j < i)
        BY <1>2, <4>1, <4>2
      <4>4. QED
        BY <4>3
    <3>3. DOMAIN g = 0 .. m - 1
      OBVIOUS
    <3> HIDE DEF g, Passed
    <3>4. QED
      BY <3>1, <3>2, <3>3 DEF Bijection, Injection, Surjection, IsInjective
  <2>2. IsFiniteSet(0 .. m - 1) /\ Cardinality(0 .. m - 1) = m
    <3>1. 0 \in Int /\ m - 1 \in Int /\ m \in Nat
      BY <1>1
    <3>2. /\ IsFiniteSet(0 .. m - 1)
          /\ Cardinality(0 .. m - 1) = IF 0 > m - 1 THEN 0 ELSE (m - 1) - 0 + 1
      BY <3>1, FS_Interval
    <3>3. QED
      BY <3>1, <3>2
  <2> HIDE DEF g, Passed
  <2>3. QED
    BY <2>1, <2>2, FS_Bijection DEF ExistsBijection
<1>12. m <= n - l
  <2>1. /\ IsFiniteSet(ToSet(c.partition)) /\ Cardinality(ToSet(c.partition)) = n
        /\ IsFiniteSet(ToSet(d.partition)) /\ Cardinality(ToSet(d.partition)) = l
    BY EntriesCardinality DEF n, l
  <2> HIDE DEF Passed
  <2>2. Cardinality(Passed \cup ToSet(d.partition)) = m + l
    <3>1. Cardinality(Passed \cup ToSet(d.partition))
            = Cardinality(Passed) + Cardinality(ToSet(d.partition))
                - Cardinality(Passed \cap ToSet(d.partition))
      BY <1>11, <2>1, FS_Union
    <3>2. Cardinality(Passed \cap ToSet(d.partition)) = 0
      BY <1>9, FS_EmptySet
    <3>3. m \in Int /\ l \in Int
      BY <1>1
    <3>4. QED
      BY <1>11, <2>1, <3>1, <3>2, <3>3
  <2>3. Passed \cup ToSet(d.partition) \subseteq ToSet(c.partition)
    BY <1>1, <1>10
  <2>4. m + l <= n
    BY <2>1, <2>2, <2>3, FS_Subset
  <2>5. QED
    BY <1>1, <2>4
<1>13. QED
  BY <1>6, <1>7, <1>12 DEF n, l, E

\* ExtendParameter puts the right copies in front: all of them are of one
\* configuration, and no more servers failed since than there are copies.
LEMMA TakeoverLoop ==
  ASSUME NEW c, NEW d, GoodConfig(c), GoodConfig(d), Ascending(c), Ascending(d),
         Local \in ToSet(c.server_id), Local \in ToSet(d.server_id), Later(c, d, Local),
         parameters_ = Segment(c, Local), \A j \in Entries : CopyOf(c, j),
         Len(c.server_id) - Len(d.server_id) <= BackupSize,
         backup_parameters_ \in [Entries -> Seq(Keys)], parameters_ \in Seq(Keys)
  PROVE  ExtendParameter(ParameterLength(d, Local)) = Segment(d, Local)
<1> DEFINE n == Len(c.server_id)
           e == EndKey(c, Local)
           E(i) == EntryBehind(c, Local, i)
           length == ParameterLength(d, Local)
<1>1. /\ n \in Nat \ {0} /\ BackupSize \in Nat /\ Len(d.server_id) \in Nat \ {0}
      /\ e = EndKey(d, Local)
  BY EntryPlaces, ReconfigurationAssumption DEF Later
<1>2. PICK f \in [0 .. BackupSize -> Seq(Keys)] :
        /\ f[0] = parameters_
        /\ \A j \in 1 .. BackupSize :
             f[j] = IF Len(f[j - 1]) = length THEN f[j - 1]
                    ELSE backup_parameters_[j - 1] \o f[j - 1]
        /\ ExtendParameter(length) = f[BackupSize]
  BY <1>1, ExtendParameterLoop
<1>3. /\ length = Distance(StartKey(d, Local), e)
      /\ Segment(d, Local) = Arc(StartKey(d, Local), e)
      /\ parameters_ = Arc(StartKey(c, Local), e)
      /\ StartKey(d, Local) \in Keys /\ StartKey(c, Local) \in Keys /\ e \in Keys
  BY <1>1, SegmentIsArc
<1>4. ASSUME NEW m \in Nat,
             \A i \in 0 .. m : E(i) \in Keys,
             StartKey(c, Local) = E(0), StartKey(d, Local) = E(m), m <= BackupSize,
             \A i, j \in 0 .. m : i < j => Distance(E(i), e) < Distance(E(j), e),
             \A i \in 1 .. m : backup_parameters_[i - 1] = Arc(E(i), E(i - 1))
      PROVE  ExtendParameter(length) = Segment(d, Local)
  <2> DEFINE Reached(j) == IF j < m THEN j ELSE m
             S == {j \in Nat : j <= BackupSize => f[j] = Arc(E(Reached(j)), e)}
  <2> HIDE DEF n, e, E, length
  <2>1. 0 \in S
    <3>1. Reached(0) = 0
      BY <1>4
    <3>2. QED
      BY <1>2, <1>3, <1>4, <3>1
  <2>2. ASSUME NEW j \in Nat, j \in S PROVE j + 1 \in S
    <3> SUFFICES ASSUME j + 1 <= BackupSize PROVE f[j + 1] = Arc(E(Reached(j + 1)), e)
      OBVIOUS
    <3>1. f[j] = Arc(E(Reached(j)), e)
      BY <1>1, <2>2
    <3>2. Reached(j) \in 0 .. m /\ E(Reached(j)) \in Keys
      BY <1>4
    <3>3. Len(f[j]) = Distance(E(Reached(j)), e)
      BY <1>3, <3>1, <3>2, ArcType
    <3>4. f[j + 1] = IF Len(f[j]) = length THEN f[j] ELSE backup_parameters_[j] \o f[j]
      <4>1. j + 1 \in 1 .. BackupSize /\ (j + 1) - 1 = j
        BY <1>1
      <4>2. QED
        BY <1>2, <4>1
    <3>5. CASE j < m
      <4>1. Reached(j) = j /\ Reached(j + 1) = j + 1
        BY <1>4, <3>5
      <4>2. /\ j \in 0 .. m /\ j + 1 \in 0 .. m /\ m \in 0 .. m
            /\ j + 1 \in 1 .. m /\ (j + 1) - 1 = j
        BY <1>4, <3>5
      <4>3. /\ Distance(E(j), e) < Distance(E(m), e)
            /\ Distance(E(j), e) < Distance(E(j + 1), e)
        BY <1>4, <3>5, <4>2
      <4>4. Distance(E(j), e) \in Int /\ length = Distance(E(m), e)
        BY <1>3, <1>4, <4>2, DistanceCases DEF Keys
      <4>5. f[j + 1] = backup_parameters_[j] \o f[j]
        <5>1. Len(f[j]) = Distance(E(j), e)
          BY <3>3, <4>1
        <5>2. Len(f[j]) # length
          BY <4>3, <4>4, <5>1
        <5>3. QED
          BY <3>4, <5>2
      <4>6. backup_parameters_[j] = Arc(E(j + 1), E(j))
        BY <1>4, <4>2
      <4>7. Arc(E(j + 1), E(j)) \o Arc(E(j), e) = Arc(E(j + 1), e)
        BY <1>3, <1>4, <4>2, <4>3, ArcThrough
      <4>8. QED
        BY <3>1, <4>1, <4>5, <4>6, <4>7
    <3>6. CASE ~(j < m)
      <4>1. Reached(j) = m /\ Reached(j + 1) = m
        BY <1>4, <3>6
      <4>2. Len(f[j]) = length
        BY <1>3, <1>4, <3>3, <4>1
      <4>3. QED
        BY <3>1, <3>4, <4>1, <4>2
    <3>7. QED
      BY <3>5, <3>6
  <2>3. Nat \subseteq S
    <3> HIDE DEF S
    <3>1. QED
      BY <2>1, <2>2, SetInduction
  <2>4. f[BackupSize] = Arc(E(Reached(BackupSize)), e) /\ Reached(BackupSize) = m
    BY <1>1, <1>4, <2>3
  <2>5. QED
    BY <1>2, <1>3, <1>4, <2>4
<1>5. CASE n > 1
  <2>1. Len(d.server_id) > 1
    BY <1>5 DEF Later
  <2>2. PICK m \in 0 .. n - 2 :
          /\ StartKey(d, Local) = E(m)
          /\ m <= n - Len(d.server_id)
    BY <1>5, <2>1, LaterStart
  <2>3. /\ \A i \in 0 .. n - 1 : E(i) \in Keys
        /\ StartKey(c, Local) = E(0)
        /\ \A i, j \in 0 .. n - 2 : i < j => Distance(E(i), e) < Distance(E(j), e)
    BY <1>5, EntriesBehind
  <2>4. ASSUME NEW i \in 1 .. m PROVE backup_parameters_[i - 1] = Arc(E(i), E(i - 1))
    <3>1. i - 1 \in Entries /\ i \in 1 .. n - 1 /\ (i - 1) + 1 = i
      BY <1>1, <2>2 DEF Entries
    <3>2. backup_parameters_[i - 1] =
            Segment(c, Behind(c.server_id, IndexOf(c.server_id, Local), (i - 1) + 1))
      BY <3>1 DEF CopyOf
    <3>3. QED
      BY <3>1, <3>2, SegmentBehind
  <2> HIDE DEF n, e, E, length
  <2>5. m \in Nat /\ m <= BackupSize
    BY <1>1, <2>2 DEF n
  <2>6. \A i \in 0 .. m : E(i) \in Keys
    BY <1>1, <2>2, <2>3
  <2>7. \A i, j \in 0 .. m : i < j => Distance(E(i), e) < Distance(E(j), e)
    BY <1>1, <2>2, <2>3
  <2>8. QED
    BY <1>4, <2>2, <2>3, <2>4, <2>5, <2>6, <2>7 DEF length
<1>6. CASE n = 1
  <2>1. Len(d.server_id) = 1
    <3>1. /\ IsFiniteSet(ToSet(c.partition)) /\ Cardinality(ToSet(c.partition)) = n
          /\ Cardinality(ToSet(d.partition)) = Len(d.server_id)
      BY EntriesCardinality
    <3>2. ToSet(d.partition) \subseteq ToSet(c.partition)
      BY DEF Later
    <3>3. Len(d.server_id) <= n
      BY <3>1, <3>2, FS_Subset
    <3> DEFINE l == Len(d.server_id)
    <3>4. l \in Nat \ {0} /\ l <= 1
      BY <1>1, <1>6, <3>3
    <3> HIDE DEF l
    <3>5. l = 1
      BY <3>4
    <3>6. QED
      BY <3>5 DEF l
  <2>2. /\ StartKey(c, Local) = EndKey(c, Local)
        /\ StartKey(d, Local) = EndKey(d, Local)
    <3>1. ASSUME NEW b, GoodConfig(b), Local \in ToSet(b.server_id), Len(b.server_id) = 1
          PROVE  StartKey(b, Local) = EndKey(b, Local)
      <4> DEFINE x == IndexOf(b.server_id, Local)
      <4>1. /\ x \in 0 .. 1 - 1
            /\ EndKey(b, Local) = b.partition[IF x < 1 - 1 THEN x + 2 ELSE 1]
        BY <3>1, EntryPlaces
      <4> HIDE DEF x
      <4>2. x = 0 /\ EndKey(b, Local) = b.partition[1]
        BY <4>1
      <4>3. QED
        BY <4>2 DEF StartKey, x
    <3>2. QED
      BY <1>6, <2>1, <3>1
  <2>3. StartKey(c, Local) = E(0)
    <3> DEFINE x == IndexOf(c.server_id, Local)
    <3>1. /\ x \in 0 .. n - 1 /\ 0 \in 0 .. n
          /\ E(0) = c.partition[BehindPlace(n, x, 0)]
      BY EntryPlaces, <1>1
    <3>2. BehindPlace(n, x, 0) = x + 1
      <4> HIDE DEF x, n
      <4>1. QED
        BY <1>1, <3>1 DEF BehindPlace
    <3>3. QED
      BY <3>1, <3>2 DEF StartKey
  <2>4. /\ StartKey(d, Local) = E(0) /\ E(0) \in Keys
    BY <1>1, <1>3, <2>2, <2>3
  <2> HIDE DEF n, e, E, length
  <2>5. /\ 0 \in Nat /\ 0 <= BackupSize
        /\ \A i \in 0 .. 0 : E(i) \in Keys
        /\ \A i, j \in 0 .. 0 : i < j => Distance(E(i), e) < Distance(E(j), e)
        /\ \A i \in 1 .. 0 : backup_parameters_[i - 1] = Arc(E(i), E(i - 1))
    BY <1>1, <2>4
  <2>6. QED
    BY <1>4, <2>3, <2>4, <2>5 DEF length
<1> HIDE DEF n
<1>7. n > 1 \/ n = 1
  BY <1>1
<1>8. QED
  BY <1>5, <1>6, <1>7

-----------------------------------------------------------------------------
(* The configurations *)

\* A server is gone: one entry disappears, and every other server still ends at
\* the same key.
LEMMA WithoutServerChange ==
  ASSUME NEW c, GoodConfig(c), Ascending(c), NEW s \in ToSet(c.server_id),
         Len(c.server_id) > 2
  PROVE  Ascending(WithoutServer(c, s)) /\ Change(c, WithoutServer(c, s))
<1> DEFINE d == WithoutServer(c, s)
           ids == c.server_id
           p == c.partition
           n == Len(ids)
           i == IndexOf(ids, s) + 1
           next == (i % n) + 1
           From(j) == IF i < n THEN IF j < i THEN j ELSE j + 1
                      ELSE IF j < n - 1 THEN j + 1 ELSE 1
<1>1. /\ c \in ConfigType /\ ids \in Seq(Servers) /\ IsInjective(ids)
      /\ p \in Seq(Keys) /\ Len(p) = n /\ n \in Nat /\ n > 2
  BY DEF GoodConfig, ConfigType
<1>2. GoodConfig(d)
  <2>1. n > 1
    BY <1>1
  <2>2. QED
    BY <2>1, WithoutServerGood
<1>3. /\ d.server_id \in Seq(Servers) /\ Len(d.server_id) = n - 1 /\ i \in 1 .. n
      /\ \A j \in 1 .. n - 1 : d.server_id[j] = ids[From(j)]
  <2> HIDE DEF n, i, ids
  <2>1. n > 1
    BY <1>1
  <2>2. LET from == [j \in 1 .. n - 1 |-> From(j)]
        IN  /\ d.server_id \in Seq(Servers) /\ Len(d.server_id) = n - 1
            /\ i \in 1 .. n
            /\ \A j \in 1 .. n - 1 : d.server_id[j] = ids[from[j]]
    BY <2>1, WithoutServerPlaces DEF n, i, ids
  <2>3. QED
    BY <2>2
<1>4. d.partition = RemoveAt(p, next) /\ d.worker_id = c.worker_id
  BY <1>1 DEF WithoutServer, ConfigType
<1> HIDE DEF d, ids, p, n, i
<1>5. next = IF i < n THEN i + 1 ELSE 1
  <2>1. i \in 0 .. 2 * n - 1 /\ n \in Nat \ {0}
    BY <1>1, <1>3
  <2>2. i % n = IF i < n THEN i ELSE i - n
    BY <2>1, SmallRemainder
  <2>3. CASE i < n
    BY <1>3, <2>2, <2>3
  <2>4. CASE ~(i < n)
    BY <1>1, <1>3, <2>2, <2>4
  <2>5. QED
    BY <2>3, <2>4
<1> HIDE DEF next
<1>6. next \in 1 .. n
  BY <1>1, <1>3, <1>5
<1>7. /\ d.partition \in Seq(Keys) /\ Len(d.partition) = n - 1
      /\ \A j \in 1 .. n - 1 : d.partition[j] = IF j < next THEN p[j] ELSE p[j + 1]
  BY <1>1, <1>4, <1>6, RemoveAtPlaces
<1>8. DOMAIN p = 1 .. n /\ DOMAIN d.partition = 1 .. n - 1
  BY <1>1, <1>7, LenProperties
<1>9. Ascending(d)
  <2> SUFFICES ASSUME NEW j \in 1 .. n - 1, NEW k \in 1 .. n - 1, j < k
               PROVE  d.partition[j] < d.partition[k]
    BY <1>7 DEF Ascending
  <2>1. \A x, y \in 1 .. n : x < y => p[x] < p[y]
    BY <1>1 DEF Ascending, p
  <2>2. PICK x, y \in 1 .. n : d.partition[j] = p[x] /\ d.partition[k] = p[y] /\ x < y
    <3> DEFINE x == IF j < next THEN j ELSE j + 1
               y == IF k < next THEN k ELSE k + 1
    <3>1. x \in 1 .. n /\ y \in 1 .. n /\ x < y
      BY <1>1, <1>6
    <3>2. d.partition[j] = p[x] /\ d.partition[k] = p[y]
      BY <1>7
    <3>3. QED
      BY <3>1, <3>2
  <2>3. QED
    BY <2>1, <2>2
<1>10. ToSet(d.partition) \subseteq ToSet(p)
  <2> SUFFICES ASSUME NEW j \in 1 .. n - 1 PROVE d.partition[j] \in ToSet(p)
    BY <1>8 DEF ToSet
  <2>1. PICK x \in 1 .. n : d.partition[j] = p[x]
    BY <1>1, <1>7
  <2>2. QED
    BY <1>8, <2>1 DEF ToSet
<1>11. ASSUME NEW t \in ToSet(d.server_id) PROVE EndKey(d, t) = EndKey(c, t)
  <2>1. IsInjective(d.server_id) /\ DOMAIN d.server_id = 1 .. n - 1
    BY <1>2, <1>3, LenProperties DEF GoodConfig
  <2>2. PICK j \in 1 .. n - 1 : t = d.server_id[j]
    BY <2>1 DEF ToSet
  <2>3. From(j) \in 1 .. n /\ t = ids[From(j)]
    BY <1>1, <1>3, <2>2
  <2>4. t \in ToSet(ids) /\ IndexOf(ids, t) = From(j) - 1
    BY <1>1, <2>3, PlaceIsIndexOf DEF n
  <2>5. IndexOf(d.server_id, t) = j - 1
    BY <1>3, <2>1, <2>2, PlaceIsIndexOf
  <2> DEFINE x == IF j - 1 < (n - 1) - 1 THEN (j - 1) + 2 ELSE 1
             y == IF From(j) - 1 < n - 1 THEN (From(j) - 1) + 2 ELSE 1
  <2>6. EndKey(d, t) = d.partition[x]
    BY <1>2, <1>3, <2>5, EntryPlaces
  <2>7. EndKey(c, t) = p[y]
    BY <2>4, EntryPlaces DEF ids, n, p
  <2>8. x \in 1 .. n - 1
    BY <1>1
  <2>9. y = IF x < next THEN x ELSE x + 1
    BY <1>1, <1>3, <1>5
  <2>10. d.partition[x] = p[y]
    <3> HIDE DEF x, y
    <3>1. QED
      BY <1>7, <2>8, <2>9
  <2>11. QED
    BY <2>6, <2>7, <2>10
<1>12. Len(d.server_id) > 1
  BY <1>1, <1>3
<1>13. QED
  BY <1>4, <1>9, <1>10, <1>11, <1>12 DEF Change, Later, d, p

\* Every configuration the master may send next changes the agents, or takes a
\* server out.
LEMMA NewConfigsChange ==
  ASSUME NEW c, GoodConfig(c), Ascending(c), NEW d \in NewConfigs(c)
  PROVE  Ascending(d) /\ Change(c, d)
<1>1. c \in ConfigType
  BY DEF GoodConfig
<1>2. CASE d.server_id = c.server_id /\ d.partition = c.partition
  BY <1>2 DEF Ascending, Change, Later, EndKey
<1>3. ASSUME NEW s \in ToSet(c.server_id), Len(c.server_id) > 2, d = WithoutServer(c, s)
      PROVE  Ascending(d) /\ Change(c, d)
  BY <1>3, WithoutServerChange
<1>4. ASSUME NEW a, d = WithoutAgent(c, a)
      PROVE  Ascending(d) /\ Change(c, d)
  BY <1>1, <1>2, <1>4 DEF WithoutAgent, ConfigType
<1>5. ASSUME NEW b, d = WithAgent(c, b)
      PROVE  Ascending(d) /\ Change(c, d)
  BY <1>1, <1>2, <1>5 DEF WithAgent, ConfigType
<1>6. ASSUME NEW a, NEW b, d = WithAgent(WithoutAgent(c, a), b)
      PROVE  Ascending(d) /\ Change(c, d)
  BY <1>1, <1>2, <1>6 DEF WithAgent, WithoutAgent, ConfigType
<1>7. QED
  BY <1>3, <1>4, <1>5, <1>6 DEF NewConfigs

\* So it is in every execution.
LEMMA ChangesNext ==
  ASSUME Configs, Changes, [Next]_vars
  PROVE  Changes'
<1>1. CASE SendConfig
  <2>1. PICK d \in NewConfigs(configs[Len(configs)]) : configs' = Append(configs, d)
    BY <1>1 DEF SendConfig
  <2>2. Len(configs) \in 1 .. Len(configs) /\ configs \in Seq(ConfigType)
    BY DEF Configs
  <2>3. Ascending(d) /\ Change(configs[Len(configs)], d) /\ GoodConfig(d)
    BY <2>2, NewConfigsChange, NewConfigsGood DEF Configs, Changes
  <2>4. /\ configs' \in Seq(ConfigType) /\ Len(configs') = Len(configs) + 1
        /\ \A j \in 1 .. Len(configs) : configs'[j] = configs[j]
        /\ configs'[Len(configs) + 1] = d
    BY <2>1, <2>2, <2>3, AppendProperties DEF GoodConfig
  <2>5. \A k \in 1 .. Len(configs') : Ascending(configs'[k])
    BY <2>2, <2>3, <2>4 DEF Changes
  <2>6. \A k \in 1 .. Len(configs') - 1 : Change(configs'[k], configs'[k + 1])
    <3> SUFFICES ASSUME NEW k \in 1 .. Len(configs)
                 PROVE  Change(configs'[k], configs'[k + 1])
      BY <2>2, <2>4
    <3>1. CASE k = Len(configs)
      BY <2>2, <2>3, <2>4, <3>1
    <3>2. CASE k # Len(configs)
      <4>1. k \in 1 .. Len(configs) - 1 /\ k + 1 \in 1 .. Len(configs)
        BY <2>2, <3>2
      <4>2. QED
        BY <2>4, <4>1 DEF Changes
    <3>3. QED
      BY <3>1, <3>2
  <2>7. QED
    BY <2>5, <2>6 DEF Changes
<1>2. CASE UNCHANGED configs
  BY <1>2 DEF Changes
<1>3. QED
  BY <1>1, <1>2 DEF Next, vars, PeerAnswers, RespondBackup, Backup, ServePush, ServePull,
     IgnoreStranger, RespondToAllOverruns, NotAssigned, Reconfigure, ReconfigureAborts

-----------------------------------------------------------------------------
(* The steps *)

\* The copies under way stay what they are as the master sends configurations
\* and the server takes copies in.
LEMMA HonestKept ==
  ASSUME Honest, Configs, covered' => covered,
         \A k \in 1 .. Len(configs) : k \in 1 .. Len(configs') /\ configs'[k] = configs[k],
         \A s \in Servers : \A i \in 1 .. Len(answers'[s]) :
           \E j \in 1 .. Len(answers[s]) : answers'[s][i] = answers[s][j]
  PROVE  Honest'
<1> SUFFICES ASSUME NEW s \in Servers, NEW i \in 1 .. Len(answers'[s])
             PROVE  LET copy == answers'[s][i]
                    IN  /\ copy.config \in 1 .. Len(configs')
                        /\ covered' =>
                             /\ s \in ToSet(configs'[copy.config].server_id)
                             /\ copy.keys = Segment(configs'[copy.config], s)
  BY DEF Honest
<1>1. PICK j \in 1 .. Len(answers[s]) : answers'[s][i] = answers[s][j]
  OBVIOUS
<1> DEFINE copy == answers[s][j]
<1>2. /\ copy.config \in 1 .. Len(configs)
      /\ covered =>
           /\ s \in ToSet(configs[copy.config].server_id)
           /\ copy.keys = Segment(configs[copy.config], s)
  BY DEF Honest
<1>3. configs'[copy.config] = configs[copy.config] /\ copy.config \in 1 .. Len(configs')
  BY <1>2
<1> HIDE DEF copy
<1>4. QED
  BY <1>1, <1>2, <1>3 DEF copy

\* A server that answers adds a copy of what it has.
LEMMA HonestAdded ==
  ASSUME Honest, Configs, NEW t \in Servers, NEW keys, NEW config,
         answers \in [Servers -> Seq(Copies)],
         answers' = [answers EXCEPT ![t] = Append(@, [keys |-> keys, config |-> config])],
         [keys |-> keys, config |-> config] \in Copies,
         configs' = configs, covered' => covered,
         config \in 1 .. Len(configs),
         covered' =>
           /\ t \in ToSet(configs[config].server_id)
           /\ keys = Segment(configs[config], t)
  PROVE  Honest'
<1> DEFINE new == [keys |-> keys, config |-> config]
           Right(s, copy) ==
             /\ copy.config \in 1 .. Len(configs)
             /\ covered' =>
                  /\ s \in ToSet(configs[copy.config].server_id)
                  /\ copy.keys = Segment(configs[copy.config], s)
<1>1. Right(t, new)
  OBVIOUS
<1>2. \A s \in Servers : \A i \in 1 .. Len(answers[s]) : Right(s, answers[s][i])
  BY DEF Honest
<1>3. (\A s \in Servers : \A i \in 1 .. Len(answers'[s]) : Right(s, answers'[s][i]))
        => Honest'
  BY DEF Honest
<1> HIDE DEF Right
<1>4. /\ Len(Append(answers[t], new)) = Len(answers[t]) + 1
      /\ \A i \in 1 .. Len(answers[t]) : Append(answers[t], new)[i] = answers[t][i]
      /\ Append(answers[t], new)[Len(answers[t]) + 1] = new
      /\ Len(answers[t]) \in Nat
  BY AppendProperties
<1> HIDE DEF new
<1>5. ASSUME NEW s \in Servers, NEW i \in 1 .. Len(answers'[s])
      PROVE  Right(s, answers'[s][i])
  <2>1. CASE s # t
    BY <1>2, <2>1
  <2>2. CASE s = t
    <3>1. answers'[t] = Append(answers[t], new)
      BY DEF new
    <3>2. CASE i = Len(answers[t]) + 1
      BY <1>1, <1>4, <2>2, <3>1, <3>2
    <3>3. CASE i # Len(answers[t]) + 1
      <4>1. i \in 1 .. Len(answers[t])
        BY <1>4, <2>2, <3>1, <3>3
      <4>2. QED
        BY <1>2, <1>4, <2>2, <3>1, <4>1
    <3>4. QED
      BY <3>2, <3>3
  <2>3. QED
    BY <2>1, <2>2
<1>6. QED
  BY <1>3, <1>5

\* Steps that leave the configuration and the copies alone.
LEMMA CoveredKept ==
  ASSUME Covered, Configs, Applied,
         \A k \in 1 .. Len(configs) : configs'[k] = configs[k],
         UNCHANGED <<applied, server_ids_, parameters_, backup_parameters_, fresh,
                     changed, lost, covered>>
  PROVE  Covered' /\ Current' = Current
<1>1. applied[Local] \in 1 .. Len(configs) /\ Len(configs) \in Nat
  BY ReconfigurationAssumption DEF Applied, Configs
<1>2. Current' = Current
  BY <1>1 DEF Current
<1>3. ASSUME NEW b \in 1 .. applied[Local], CopiesOf(configs[b]) PROVE CopiesOf(configs[b])'
  <2>1. configs'[b] = configs[b]
    BY <1>1
  <2>2. QED
    BY <1>2, <1>3, <2>1 DEF CopiesOf, CopyOf
<1>4. ASSUME NEW j \in fresh, CopyOf(Current, j) PROVE CopyOf(Current, j)'
  BY <1>2, <1>4 DEF CopyOf
<1>5. Segment(Current, Local)' = Segment(Current, Local)
  BY <1>2
<1>6. SUFFICES ASSUME Local \in ToSet(server_ids_), covered
               PROVE  /\ parameters_' = Segment(Current, Local)'
                      /\ \A j \in fresh' : CopyOf(Current, j)'
                      /\ ~changed' => \E b \in 1 .. applied'[Local] : CopiesOf(configs[b])'
  BY <1>2 DEF Covered
<1>7. /\ parameters_ = Segment(Current, Local)
      /\ \A j \in fresh : CopyOf(Current, j)
      /\ ~changed => \E b \in 1 .. applied[Local] : CopiesOf(configs[b])
  BY <1>6 DEF Covered
<1>8. QED
  BY <1>3, <1>4, <1>5, <1>7

\* Between and Behind are inverse to each other.
LEMMA BetweenBehind ==
  ASSUME NEW T, NEW ids \in Seq(T), NEW l \in ToSet(ids), NEW s \in ToSet(ids)
  PROVE  Behind(ids, IndexOf(ids, l), Between(ids, l, s) + 1) = s
<1> DEFINE n == Len(ids)
           x == IndexOf(ids, l)
           y == IndexOf(ids, s)
           z == Between(ids, l, s)
           u == x - 1 - y + n
           v == x - (z + 1) + n
<1>1. x \in 0 .. n - 1 /\ y \in 0 .. n - 1 /\ n \in Nat \ {0} /\ ids[y + 1] = s
  BY IndexOfIsPlace
<1>2. z = u % n
  BY DEF Between
<1> HIDE DEF n, x, y, z
<1>3. u \in 0 .. 2 * n - 1
  BY <1>1
<1>4. u % n = IF u < n THEN u ELSE u - n
  <2> HIDE DEF u
  <2>1. QED
    BY <1>1, <1>3, SmallRemainder
<1>5. v = IF u < n THEN y ELSE y + n
  BY <1>1, <1>2, <1>4
<1>6. v \in 0 .. 2 * n - 1 /\ v % n = y
  <2> HIDE DEF v, u
  <2>1. v \in 0 .. 2 * n - 1
    BY <1>1, <1>5
  <2>2. v % n = IF v < n THEN v ELSE v - n
    BY <1>1, <2>1, SmallRemainder
  <2>3. QED
    BY <1>1, <1>5, <2>1, <2>2
<1>7. QED
  BY <1>1, <1>6 DEF Behind, n, x, z

\* A copy that is filed is that of the server its entry is for.
LEMMA TakeoverBackup ==
  ASSUME ReconfigurationInv, DataInv, TakeoverInv, NEW s \in Servers, Backup(s)
  PROVE  Honest' /\ Placed' /\ Covered'
<1>1. /\ answers \in [Servers -> Seq(Copies)] /\ answers[s] \in Seq(Copies)
      /\ answers[s] # <<>> /\ answers' = [answers EXCEPT ![s] = Tail(@)]
      /\ UNCHANGED <<configs, applied, server_ids_, local_index_, start_key_,
                     parameter_length_, parameters_, agent_num_, lost, covered>>
  BY DEF DataInv, Backup, configVars, agentVars
<1>2. /\ Head(answers[s]) = answers[s][1] /\ 1 \in 1 .. Len(answers[s])
      /\ Len(Tail(answers[s])) = Len(answers[s]) - 1
      /\ \A i \in 1 .. Len(Tail(answers[s])) : Tail(answers[s])[i] = answers[s][i + 1]
      /\ Len(answers[s]) \in Nat
  BY <1>1, HeadTailProperties, EmptySeq
<1>3. Configs /\ Applied /\ RingInv /\ Honest /\ Placed /\ Covered
  BY DEF ReconfigurationInv, TakeoverInv
<1>4. Honest'
  <2>1. ASSUME NEW t \in Servers, NEW i \in 1 .. Len(answers'[t])
        PROVE  \E j \in 1 .. Len(answers[t]) : answers'[t][i] = answers[t][j]
    <3>1. CASE t # s
      BY <1>1, <3>1
    <3>2. CASE t = s
      <4>1. i \in 1 .. Len(Tail(answers[s])) /\ answers'[t][i] = Tail(answers[s])[i]
        BY <1>1, <3>2
      <4>2. i + 1 \in 1 .. Len(answers[s])
        BY <1>2, <4>1
      <4>3. QED
        BY <1>2, <3>2, <4>1, <4>2
    <3>3. QED
      BY <3>1, <3>2
  <2>2. QED
    BY <1>1, <1>3, <2>1, HonestKept
<1>5. Current' = Current
  BY <1>1 DEF Current
<1>6. Placed'
  <2>1. status' = "running" => status = "running"
    BY DEF Backup
  <2>2. QED
    BY <1>1, <1>3, <1>5, <2>1 DEF Placed
<1>7. CASE ~(s \in ToSet(server_ids_) /\ BackupEntry(s) \in Entries)
  <2>1. UNCHANGED <<backup_parameters_, changed, fresh>>
    BY <1>7 DEF Backup
  <2>2. QED
    BY <1>1, <1>3, <1>4, <1>6, <2>1, CoveredKept
<1>8. CASE s \in ToSet(server_ids_) /\ BackupEntry(s) \in Entries
  <2> DEFINE j == BackupEntry(s)
             copy == answers[s][1]
  <2>1. /\ backup_parameters_' = [backup_parameters_ EXCEPT ![j] = copy.keys]
        /\ changed' = (changed \/ copy.keys # backup_parameters_[j])
        /\ fresh' = IF copy.config = applied[Local] THEN fresh \cup {j} ELSE fresh \ {j}
    BY <1>2, <1>8 DEF Backup
  <2>2. backup_parameters_ \in [Entries -> Seq(Keys)] /\ fresh \subseteq Entries
    BY DEF DataInv
  <2>3. SUFFICES ASSUME Local \in ToSet(server_ids_), covered
                 PROVE  /\ parameters_' = Segment(Current, Local)'
                        /\ \A k \in fresh' : CopyOf(Current, k)'
                        /\ ~changed' =>
                             \E b \in 1 .. applied'[Local] : CopiesOf(configs[b])'
    BY <1>1, <1>4, <1>6 DEF Covered
  <2>4. /\ parameters_ = Segment(Current, Local)
        /\ \A k \in fresh : CopyOf(Current, k)
        /\ ~changed => \E b \in 1 .. applied[Local] : CopiesOf(configs[b])
    BY <1>3, <2>3 DEF Covered
  <2>5. Current.server_id = server_ids_
    BY <1>3 DEF RingInv, Current
  <2>6. /\ j < Len(server_ids_)
        /\ s = Behind(server_ids_, IndexOf(server_ids_, Local), j + 1)
    <3>1. server_ids_ \in Seq(Servers) /\ local_index_ = IndexOf(server_ids_, Local)
      BY <1>3, <2>3, RingList DEF RingInv
    <3>2. j = Between(server_ids_, Local, s)
      BY <3>1 DEF BackupEntry, Between
    <3>3. Between(server_ids_, Local, s) \in 0 .. Len(server_ids_) - 1
      BY <1>8, <2>3, <3>1, BetweenBound
    <3>4. Behind(server_ids_, IndexOf(server_ids_, Local),
                 Between(server_ids_, Local, s) + 1) = s
      BY <1>8, <2>3, <3>1, BetweenBehind
    <3> HIDE DEF j
    <3>5. j < Len(server_ids_)
      BY <3>1, <3>2, <3>3
    <3>6. QED
      BY <3>2, <3>4, <3>5
  <2> HIDE DEF j, copy
  <2>7. copy.config = applied[Local] => copy.keys = Segment(Current, s)
    BY <1>2, <1>3, <2>3 DEF Honest, copy, Current
  <2>8. ASSUME NEW k \in fresh' PROVE CopyOf(Current, k)'
    <3>1. CASE k = j
      <4>1. copy.config = applied[Local]
        BY <2>1, <3>1
      <4>2. backup_parameters_'[j] = Segment(Current, s)
        BY <1>8, <2>1, <2>2, <2>7, <4>1 DEF j
      <4>3. QED
        BY <1>5, <2>5, <2>6, <3>1, <4>2 DEF CopyOf
    <3>2. CASE k # j
      <4>1. k \in fresh /\ k \in Entries
        BY <2>1, <2>2, <3>2
      <4>2. CopyOf(Current, k) /\ backup_parameters_'[k] = backup_parameters_[k]
        BY <2>1, <2>2, <2>4, <3>2, <4>1
      <4>3. QED
        BY <1>5, <4>2 DEF CopyOf
    <3>3. QED
      BY <3>1, <3>2
  <2>9. ASSUME ~changed' PROVE \E b \in 1 .. applied'[Local] : CopiesOf(configs[b])'
    <3>1. ~changed /\ backup_parameters_' = backup_parameters_
      BY <2>1, <2>2, <2>9
    <3>2. PICK b \in 1 .. applied[Local] : CopiesOf(configs[b])
      BY <2>4, <3>1
    <3>3. CopiesOf(configs[b])'
      BY <1>1, <1>5, <3>1, <3>2 DEF CopiesOf, CopyOf
    <3>4. QED
      BY <1>1, <3>2, <3>3
  <2>10. QED
    BY <1>1, <1>5, <2>4, <2>8, <2>9
<1>9. QED
  BY <1>7, <1>8

\* What another server, or the server itself, answers is what it has.
LEMMA TakeoverAnswers ==
  ASSUME ReconfigurationInv, DataInv, TakeoverInv, NEW s \in Servers,
         PeerAnswers(s) \/ (RespondBackup /\ ~Short)
  PROVE  Honest' /\ Placed' /\ Covered'
<1>1. Configs /\ Applied /\ RingInv /\ Honest /\ Placed /\ Covered
  BY DEF ReconfigurationInv, TakeoverInv
<1>2. answers \in [Servers -> Seq(Copies)] /\ parameters_ \in Seq(Keys) /\ Local \in Servers
  BY ReconfigurationAssumption DEF DataInv
<1>3. CASE PeerAnswers(s)
  <2>1. PICK k \in applied[s] .. Len(configs) :
          \E keys :
            /\ applied' = [applied EXCEPT ![s] = k]
            /\ answers' = [answers EXCEPT ![s] = Append(@, [keys |-> keys, config |-> k])]
            /\ \/ keys = Segment(configs[k], s) /\ covered' = covered
               \/ covered' = FALSE
    BY <1>3 DEF PeerAnswers
  <2> PICK keys :
            /\ applied' = [applied EXCEPT ![s] = k]
            /\ answers' = [answers EXCEPT ![s] = Append(@, [keys |-> keys, config |-> k])]
            /\ \/ keys = Segment(configs[k], s) /\ covered' = covered
               \/ covered' = FALSE
    BY <2>1
  <2>2. /\ UNCHANGED <<configs, server_ids_, start_key_, parameter_length_, parameters_,
                       backup_parameters_, agent_num_, status, fresh, changed, lost>>
        /\ s # Local /\ s \in ToSet(configs[Len(configs)].server_id)
    BY <1>3 DEF PeerAnswers, configVars, agentVars
  <2>3. k \in 1 .. Len(configs) /\ k \in Nat
    BY <1>1 DEF Applied, Configs
  <2>4. GoodConfig(configs[k]) /\ s \in ToSet(configs[k].server_id)
    BY <1>1, <2>2, <2>3, ServersOnlyLeave DEF Configs
  <2>5. [keys |-> keys, config |-> k] \in Copies
    <3>1. Append(answers[s], [keys |-> keys, config |-> k]) \in Seq(Copies)
      BY <1>1, <1>2, <1>3, DataCopies
    <3>2. answers[s] \in Seq(Copies)
      BY <1>2
    <3> DEFINE new == [keys |-> keys, config |-> k]
               longer == Append(answers[s], new)
    <3>3. Len(longer) = Len(answers[s]) + 1 /\ longer[Len(answers[s]) + 1] = new
      BY <3>2
    <3>4. Len(answers[s]) + 1 \in 1 .. Len(longer)
      BY <3>2, <3>3
    <3> HIDE DEF longer, new
    <3>5. longer \in Seq(Copies)
      BY <3>1 DEF longer, new
    <3>6. new \in Copies
      BY <3>3, <3>4, <3>5, ElementOfSeq
    <3>7. QED
      BY <3>6 DEF new
  <2>6. Honest'
    <3>1. /\ covered' => covered
          /\ covered' => keys = Segment(configs[k], s)
      OBVIOUS
    <3>2. answers' = [answers EXCEPT ![s] = Append(@, [keys |-> keys, config |-> k])]
      OBVIOUS
    <3>3. QED
      BY <1>1, <1>2, <2>2, <2>3, <2>4, <2>5, <3>1, <3>2, HonestAdded
  <2>7. applied'[Local] = applied[Local]
    BY <1>1, <1>2, <2>2 DEF Applied
  <2>8. Current' = Current
    BY <2>2, <2>7 DEF Current
  <2>9. Placed'
    BY <1>1, <2>2, <2>8 DEF Placed
  <2>10. Covered'
    <3>1. ASSUME NEW b, CopiesOf(configs[b]) PROVE CopiesOf(configs[b])'
      BY <2>2, <2>8, <3>1 DEF CopiesOf, CopyOf
    <3>2. ASSUME NEW j, CopyOf(Current, j) PROVE CopyOf(Current, j)'
      BY <2>2, <2>8, <3>2 DEF CopyOf
    <3>3. QED
      BY <1>1, <2>2, <2>7, <2>8, <3>1, <3>2 DEF Covered
  <2>11. QED
    BY <2>6, <2>9, <2>10
<1>4. CASE RespondBackup /\ ~Short
  <2> DEFINE keys == SubSeq(parameters_, 1, parameter_length_)
  <2>1. /\ answers' = [answers EXCEPT ![Local] =
               Append(@, [keys |-> keys, config |-> applied[Local]])]
        /\ UNCHANGED <<configs, applied, server_ids_, start_key_, parameter_length_,
                       parameters_, backup_parameters_, agent_num_, status, fresh,
                       changed, lost, covered>>
        /\ Local \in ToSet(server_ids_)
    BY <1>4 DEF RespondBackup, configVars, agentVars, history
  <2>2. applied[Local] \in 1 .. Len(configs) /\ applied[Local] \in Nat
    BY <1>1, <1>2 DEF Applied, Configs
  <2>3. parameter_length_ \in Nat /\ parameter_length_ <= Len(parameters_)
    BY <1>2, <1>4 DEF DataInv, Keys, Short
  <2>4. keys \in Seq(Keys)
    BY <1>2, <2>1, <2>3, SubSeqProperties
  <2>5. [keys |-> keys, config |-> applied[Local]] \in Copies
    BY <2>2, <2>4 DEF Copies
  <2>6. Local \in ToSet(Current.server_id) /\ GoodConfig(Current)
    BY <1>1, <2>1, <2>2 DEF RingInv, Current, Configs
  <2>7. ASSUME covered PROVE keys = Segment(Current, Local)
    <3>1. parameters_ = Segment(Current, Local)
      BY <1>1, <2>1, <2>7 DEF Covered
    <3>2. parameter_length_ = Len(parameters_)
      BY <1>1, <2>1, <2>6, <3>1, SegmentIsArc, ArcType DEF Placed
    <3>3. /\ Len(keys) = parameter_length_
          /\ \A i \in 1 .. parameter_length_ : keys[i] = parameters_[i]
      <4>1. SubSeq(parameters_, 1, parameter_length_)
              = [i \in 1 .. parameter_length_ |-> parameters_[i]]
        BY <1>2, <2>3, <3>2
      <4>2. QED
        BY <2>3, <4>1
    <3> HIDE DEF keys
    <3>4. keys = parameters_
      BY <1>2, <2>4, <3>2, <3>3, SeqEqual
    <3>5. QED
      BY <3>1, <3>4
  <2> HIDE DEF keys
  <2>8. Honest'
    BY <1>1, <1>2, <2>1, <2>2, <2>5, <2>6, <2>7, HonestAdded DEF Current
  <2>9. Covered' /\ Current' = Current
    BY <1>1, <2>1, CoveredKept
  <2>10. Placed'
    BY <1>1, <2>1, <2>9 DEF Placed
  <2>11. QED
    BY <2>8, <2>9, <2>10
<1>5. QED
  BY <1>3, <1>4

\* What is known of a new configuration.
LEMMA NewConfigFacts ==
  ASSUME Configs, Applied, RingInv, Changes, BeginReconfigure, UNCHANGED configs
  PROVE  /\ applied[Local] \in 1 .. Len(configs) /\ applied[Local] + 1 \in 1 .. Len(configs)
         /\ applied'[Local] = applied[Local] + 1
         /\ Current' = NewConfig /\ Current.server_id = server_ids_
         /\ GoodConfig(Current) /\ GoodConfig(NewConfig)
         /\ Ascending(Current) /\ Ascending(NewConfig)
         /\ Change(Current, NewConfig)
         /\ ToSet(NewConfig.server_id) \subseteq ToSet(server_ids_)
         /\ Len(server_ids_) \in Nat /\ Len(NewConfig.server_id) \in Nat
<1>1. /\ applied[Local] \in 1 .. Len(configs) - 1 /\ Len(configs) \in Nat
      /\ GoodConfig(NewConfig) /\ Closer(server_ids_, NewConfig.server_id)
  BY NewConfigGood DEF RingInv, Configs
<1>2. applied[Local] \in 1 .. Len(configs) /\ applied[Local] + 1 \in 1 .. Len(configs)
  BY <1>1
<1>3. applied'[Local] = applied[Local] + 1
  BY ReconfigurationAssumption DEF BeginReconfigure, Applied
<1>4. Current' = NewConfig
  BY <1>3 DEF Current, NewConfig
<1>5. GoodConfig(Current) /\ Ascending(Current) /\ Ascending(NewConfig)
  BY <1>2 DEF Configs, Changes, Current, NewConfig
<1>6. Change(Current, NewConfig)
  BY <1>1 DEF Changes, Current, NewConfig
<1>7. Len(server_ids_) \in Nat /\ Len(NewConfig.server_id) \in Nat
  BY <1>1, RingList DEF GoodConfig, ConfigType
<1>8. QED
  BY <1>1, <1>2, <1>3, <1>4, <1>5, <1>6, <1>7 DEF Closer, RingInv, Current

\* What stays of a configuration.
LEMMA LaterStill ==
  ASSUME NEW b, NEW c, NEW d, NEW s, Later(b, c, s), Later(c, d, s)
  PROVE  Later(b, d, s)
BY DEF Later

\* The keys of dead servers are taken over exactly.
LEMMA TakeoverReconfigure ==
  ASSUME ReconfigurationInv, DataInv, TakeoverInv, Reconfigure
  PROVE  Honest' /\ Placed' /\ Covered'
<1>1. Configs /\ Applied /\ RingInv /\ Changes /\ Honest /\ Placed /\ Covered
  BY DEF ReconfigurationInv, TakeoverInv
<1>2. /\ BeginReconfigure /\ TakePlace /\ Local \in ToSet(NewConfig.server_id)
      /\ server_ids_' = NewConfig.server_id
      /\ UNCHANGED <<configs, backup_parameters_, answers, status>>
      /\ agent_num_' = Len(NewConfig.worker_id)
      /\ start_key_' = StartKey(NewConfig, Local)
      /\ parameter_length_' = ParameterLength(NewConfig, Local)
      /\ parameters_' = ExtendParameter(parameter_length_')
      /\ fresh' = {} /\ changed' = (parameters_' # parameters_)
      /\ lost' = (IF fresh = Entries THEN 0 ELSE lost)
                   + Len(server_ids_) - Len(NewConfig.server_id)
      /\ covered' = (covered /\ (fresh = Entries \/ ~changed) /\ lost' <= BackupSize)
  BY DEF Reconfigure, BeginReconfigure, TakePlace
<1>3. /\ applied[Local] \in 1 .. Len(configs) /\ applied'[Local] = applied[Local] + 1
      /\ Len(configs) \in Nat
      /\ Current' = NewConfig /\ Current.server_id = server_ids_
      /\ GoodConfig(Current) /\ GoodConfig(NewConfig)
      /\ Ascending(Current) /\ Ascending(NewConfig)
      /\ Change(Current, NewConfig)
      /\ Local \in ToSet(server_ids_)
      /\ Len(server_ids_) \in Nat /\ Len(NewConfig.server_id) \in Nat
  BY <1>1, <1>2, NewConfigFacts DEF Configs
<1>4. Honest'
  BY <1>1, <1>2, HonestKept
<1>5. Placed'
  BY <1>2, <1>3 DEF Placed
<1>6. SUFFICES ASSUME covered'
               PROVE  /\ parameters_' = Segment(NewConfig, Local)
                      /\ ~changed' =>
                           \E b \in 1 .. applied'[Local] : CopiesOf(configs[b])'
  BY <1>2, <1>3, <1>4, <1>5 DEF Covered
<1>7. /\ parameters_ = Segment(Current, Local)
      /\ \A j \in fresh : CopyOf(Current, j)
      /\ ~changed => \E b \in 1 .. applied[Local] : CopiesOf(configs[b])
      /\ fresh = Entries \/ ~changed
      /\ lost' <= BackupSize
  BY <1>1, <1>2, <1>3, <1>6 DEF Covered
<1>8. Later(Current, NewConfig, Local)
  BY <1>2, <1>3 DEF Change
<1>9. PICK b \in 1 .. applied[Local] :
        /\ Local \in ToSet(configs[b].server_id)
        /\ \A j \in Entries : CopyOf(configs[b], j)
        /\ parameters_ = Segment(configs[b], Local)
        /\ Later(configs[b], NewConfig, Local)
        /\ lost' = Len(configs[b].server_id) - Len(NewConfig.server_id)
  <2>1. CASE fresh = Entries
    <3>1. configs[applied[Local]] = Current /\ applied[Local] \in 1 .. applied[Local]
      BY <1>3 DEF Current
    <3>2. lost' = Len(Current.server_id) - Len(NewConfig.server_id)
      BY <1>2, <1>3, <2>1
    <3>3. QED
      BY <1>3, <1>7, <1>8, <2>1, <3>1, <3>2
  <2>2. CASE fresh # Entries
    <3>1. PICK b \in 1 .. applied[Local] : CopiesOf(configs[b])
      BY <1>7, <2>2
    <3>2. /\ Local \in ToSet(configs[b].server_id)
          /\ \A j \in Entries : CopyOf(configs[b], j)
          /\ parameters_ = Segment(configs[b], Local)
          /\ Later(configs[b], Current, Local)
          /\ lost = Len(configs[b].server_id) - Len(server_ids_)
      BY <3>1 DEF CopiesOf
    <3>3. Len(configs[b].server_id) \in Nat
      <4>1. b \in 1 .. Len(configs)
        BY <1>3
      <4>2. QED
        BY <1>1, <4>1 DEF Configs, GoodConfig, ConfigType
    <3>4. lost' = Len(configs[b].server_id) - Len(NewConfig.server_id)
      BY <1>2, <1>3, <2>2, <3>2, <3>3
    <3>5. Later(configs[b], NewConfig, Local)
      BY <1>8, <3>2, LaterStill
    <3>6. QED
      BY <3>2, <3>4, <3>5
  <2>3. QED
    BY <2>1, <2>2
<1>10. GoodConfig(configs[b]) /\ Ascending(configs[b])
  <2>1. b \in 1 .. Len(configs)
    BY <1>3
  <2>2. QED
    BY <1>1, <2>1 DEF Configs, Changes
<1>11. parameters_' = Segment(NewConfig, Local)
  <2>1. backup_parameters_ \in [Entries -> Seq(Keys)] /\ parameters_ \in Seq(Keys)
    BY DEF DataInv
  <2>2. ExtendParameter(ParameterLength(NewConfig, Local)) = Segment(NewConfig, Local)
    BY <1>2, <1>3, <1>7, <1>9, <1>10, <2>1, TakeoverLoop
  <2>3. QED
    BY <1>2, <2>2
<1>12. ASSUME ~changed' PROVE \E k \in 1 .. applied'[Local] : CopiesOf(configs[k])'
  <2>1. parameters_' = parameters_
    BY <1>2, <1>12
  <2>2. CopiesOf(configs[b])'
    BY <1>2, <1>3, <1>9, <2>1 DEF CopiesOf, CopyOf
  <2>3. b \in 1 .. applied'[Local]
    BY <1>3
  <2>4. QED
    BY <2>2, <2>3
<1>13. QED
  BY <1>11, <1>12

\* An abort leaves the parameters as they are: the configuration it is about has
\* fewer agents, so its servers are the same.
LEMMA TakeoverAborts ==
  ASSUME ReconfigurationInv, DataInv, TakeoverInv, ReconfigureAborts
  PROVE  Honest' /\ Placed' /\ Covered'
<1>1. Configs /\ Applied /\ RingInv /\ Changes /\ Honest /\ Placed /\ Covered /\ AgentInv
  BY DEF ReconfigurationInv, TakeoverInv
<1>2. /\ BeginReconfigure /\ TakePlace /\ PastEnd > 0 /\ status' = "aborted"
      /\ status = "running"
      /\ Local \in ToSet(NewConfig.server_id) /\ server_ids_' = NewConfig.server_id
      /\ start_key_' = StartKey(NewConfig, Local)
      /\ parameter_length_' = ParameterLength(NewConfig, Local)
      /\ UNCHANGED <<configs, parameters_, backup_parameters_, answers, fresh, changed,
                     lost, covered>>
  BY DEF ReconfigureAborts, BeginReconfigure, TakePlace, history
<1>3. /\ applied[Local] \in 1 .. Len(configs) /\ applied'[Local] = applied[Local] + 1
      /\ Len(configs) \in Nat
      /\ Current' = NewConfig /\ Current.server_id = server_ids_
      /\ Change(Current, NewConfig)
      /\ Local \in ToSet(server_ids_)
      /\ GoodConfig(Current) /\ GoodConfig(NewConfig)
  BY <1>1, <1>2, NewConfigFacts DEF Configs
<1>4. NewConfig.server_id = server_ids_ /\ NewConfig.partition = Current.partition
  <2>1. agent_num_ = Len(Current.worker_id)
    BY <1>1, <1>2, <1>3 DEF Placed
  <2>2. agent_num_ > Len(NewConfig.worker_id)
    BY <1>2 DEF PastEnd
  <2>3. Len(NewConfig.worker_id) \in Nat
    BY <1>3 DEF GoodConfig, ConfigType
  <2>4. NewConfig.worker_id # Current.worker_id
    BY <2>1, <2>2, <2>3
  <2>5. QED
    BY <1>3, <2>4 DEF Change
<1>5. Honest'
  BY <1>1, <1>2, HonestKept
<1>6. Placed'
  BY <1>2, <1>3 DEF Placed
<1>7. \A s : Segment(NewConfig, s) = Segment(Current, s)
  BY <1>3, <1>4 DEF Segment, StartKey, ParameterLength
<1>8. ASSUME NEW j, CopyOf(Current, j) PROVE CopyOf(Current, j)'
  BY <1>2, <1>3, <1>4, <1>7, <1>8 DEF CopyOf
<1>9. ASSUME NEW c, Later(c, Current, Local) PROVE Later(c, NewConfig, Local)
  BY <1>3, <1>4, <1>9 DEF Later, EndKey
<1>10. ASSUME NEW b, CopiesOf(configs[b]) PROVE CopiesOf(configs[b])'
  BY <1>2, <1>3, <1>4, <1>9, <1>10 DEF CopiesOf, CopyOf
<1>11. SUFFICES ASSUME covered
                PROVE  /\ parameters_' = Segment(NewConfig, Local)
                       /\ \A j \in fresh' : CopyOf(Current, j)'
                       /\ ~changed' =>
                            \E b \in 1 .. applied'[Local] : CopiesOf(configs[b])'
  BY <1>2, <1>3, <1>5, <1>6 DEF Covered
<1>12. /\ parameters_ = Segment(Current, Local)
       /\ \A j \in fresh : CopyOf(Current, j)
       /\ ~changed => \E b \in 1 .. applied[Local] : CopiesOf(configs[b])
  BY <1>1, <1>3, <1>11 DEF Covered
<1>13. \A b \in 1 .. applied[Local] : b \in 1 .. applied'[Local]
  BY <1>3
<1>14. QED
  BY <1>2, <1>7, <1>8, <1>10, <1>12, <1>13

\* Every step keeps the invariant of the takeover.
LEMMA TakeoverNext ==
  ASSUME ReconfigurationInv, DataInv, TakeoverInv, [Next]_vars
  PROVE  TakeoverInv'
<1>1. Configs /\ Applied /\ RingInv /\ Changes /\ Honest /\ Placed /\ Covered
  BY DEF ReconfigurationInv, TakeoverInv
<1>2. Changes'
  BY <1>1, ChangesNext
<1>3. SUFFICES Honest' /\ Placed' /\ Covered'
  BY <1>2 DEF TakeoverInv
<1>4. CASE SendConfig
  <2>1. PICK d \in NewConfigs(configs[Len(configs)]) : configs' = Append(configs, d)
    BY <1>4 DEF SendConfig
  <2>2. /\ UNCHANGED <<applied, server_ids_, start_key_, parameter_length_, parameters_,
                       backup_parameters_, agent_num_, answers, status, fresh, changed,
                       lost, covered>>
    BY <1>4 DEF SendConfig, configVars, agentVars, history
  <2>3. configs \in Seq(ConfigType) /\ Len(configs) \in 1 .. Len(configs)
    BY <1>1 DEF Configs
  <2>4. d \in ConfigType
    BY <1>1, <2>3, NewConfigsGood DEF Configs, GoodConfig
  <2>5. \A k \in 1 .. Len(configs) : k \in 1 .. Len(configs') /\ configs'[k] = configs[k]
    BY <2>1, <2>3, <2>4, AppendProperties
  <2>6. Honest'
    BY <1>1, <2>2, <2>5, HonestKept
  <2>7. Covered' /\ Current' = Current
    BY <1>1, <2>2, <2>5, CoveredKept
  <2>8. Placed'
    BY <1>1, <2>2, <2>7 DEF Placed
  <2>9. QED
    BY <2>6, <2>7, <2>8
<1>5. CASE /\ UNCHANGED <<configs, applied, server_ids_, start_key_, parameter_length_,
                          parameters_, backup_parameters_, agent_num_, answers, fresh,
                          changed, lost, covered>>
           /\ status' = "running" => status = "running"
  <2>1. Honest'
    BY <1>1, <1>5, HonestKept
  <2>2. Covered' /\ Current' = Current
    BY <1>1, <1>5, CoveredKept
  <2>3. Placed'
    BY <1>1, <1>5, <2>2 DEF Placed
  <2>4. QED
    BY <2>1, <2>2, <2>3
<1>6. ASSUME NEW a \in Agents, ServePush(a) \/ ServePull(a) \/ IgnoreStranger(a)
      PROVE  Honest' /\ Placed' /\ Covered'
  BY <1>5, <1>6 DEF ServePush, ServePull, IgnoreStranger, configVars, agentVars, history
<1>7. CASE NotAssigned
  <2>1. /\ Local \notin ToSet(NewConfig.server_id) /\ server_ids_' = NewConfig.server_id
        /\ UNCHANGED <<configs, answers, covered>>
    BY <1>7 DEF NotAssigned, BeginReconfigure, history
  <2>2. Honest'
    BY <1>1, <2>1, HonestKept
  <2>3. QED
    BY <2>1, <2>2 DEF Placed, Covered
<1>8. CASE UNCHANGED vars \/ RespondToAllOverruns
  BY <1>5, <1>8 DEF vars, configVars, agentVars, history, RespondToAllOverruns
<1>9. CASE RespondBackup
  <2>1. CASE Short
    BY <1>5, <1>9, <2>1 DEF RespondBackup, configVars, agentVars, history
  <2>2. CASE ~Short
    BY <1>9, <2>2, TakeoverAnswers, ReconfigurationAssumption
  <2>3. QED
    BY <2>1, <2>2
<1>10. ASSUME NEW s \in Servers, PeerAnswers(s) PROVE Honest' /\ Placed' /\ Covered'
  BY <1>10, TakeoverAnswers
<1>11. ASSUME NEW s \in Servers, Backup(s) PROVE Honest' /\ Placed' /\ Covered'
  BY <1>11, TakeoverBackup
<1>12. QED
  BY <1>4, <1>6, <1>7, <1>8, <1>9, <1>10, <1>11, TakeoverReconfigure, TakeoverAborts
  DEF Next

\* The copies that are made at the start.
LEMMA TakeoverInit ==
  ASSUME DistinctEntries, Init
  PROVE  TakeoverInv
<1>1. Configs
  BY ConfigsInit
<1>2. PICK c \in FirstConfigs :
        /\ configs = <<c>> /\ server_ids_ = c.server_id
        /\ local_index_ = IndexOf(server_ids_, Local)
        /\ start_key_ = StartKey(c, Local)
        /\ parameter_length_ = ParameterLength(c, Local)
        /\ parameters_ = Segment(c, Local)
        /\ backup_parameters_ = [j \in Entries |->
             Segment(c, Behind(server_ids_, local_index_, j + 1))]
        /\ agent_num_ = Len(c.worker_id)
  BY DEF Init
<1>3. Len(configs) = 1 /\ configs[1] = c /\ applied[Local] = 1 /\ Current = c
  BY <1>2, ReconfigurationAssumption DEF Init, Current
<1>4. GoodConfig(c) /\ Ascending(c) /\ Local \in ToSet(c.server_id)
      /\ BackupSize < Len(c.server_id) /\ BackupSize \in Nat /\ Len(c.server_id) \in Nat
  <2>1. GoodConfig(c)
    BY <1>1, <1>3 DEF Configs
  <2>2. QED
    BY <2>1, ReconfigurationAssumption DEF DistinctEntries, GoodConfig, ConfigType
<1>5. Changes
  BY <1>3, <1>4 DEF Changes
<1>6. Honest
  BY DEF Init, Honest
<1>7. Placed
  BY <1>2, <1>3 DEF Placed
<1>8. \A j \in Entries : CopyOf(c, j)
  BY <1>2, <1>4 DEF CopyOf, Entries
<1>9. fresh = Entries /\ lost = 0
  BY DEF Init
<1>10. CopiesOf(c)
  <2>1. Later(c, c, Local)
    BY DEF Later
  <2>2. lost = Len(c.server_id) - Len(server_ids_)
    BY <1>2, <1>4, <1>9
  <2>3. QED
    BY <1>2, <1>3, <1>4, <1>8, <2>1, <2>2 DEF CopiesOf
<1>11. Covered
  BY <1>2, <1>3, <1>8, <1>9, <1>10 DEF Covered
<1>12. QED
  BY <1>5, <1>6, <1>7, <1>11 DEF TakeoverInv

\* After any number of failures the server holds exactly the parameters of its
\* keys, in their order, as long as the copies were either all renewed or not
\* changed, no more servers failed than copies are kept, and no copy came from a
\* server whose own takeover went wrong (server.cc:538, 586 and 614).  The entries
\* of the partition have to be distinct: with equal ones a server that is to take
\* over every key gets the length 0 (server.cc:121).
THEOREM Takeover ==
  ASSUME DistinctEntries
  PROVE  Spec => []TakeoverExact
<1>1. Init => DataInv /\ TakeoverInv
  BY DataInit, TakeoverInit
<1>2. ReconfigurationInv /\ DataInv /\ TakeoverInv /\ [Next]_vars
        => (DataInv /\ TakeoverInv)'
  BY DataNext, TakeoverNext DEF ReconfigurationInv
<1>3. ReconfigurationInv /\ DataInv /\ TakeoverInv => TakeoverExact
  <2> SUFFICES ASSUME ReconfigurationInv, TakeoverInv, covered,
                      Local \in ToSet(server_ids_)
               PROVE  /\ parameters_ = Segment(configs[applied[Local]], Local)
                      /\ parameter_length_ = Len(parameters_)
    BY DEF TakeoverExact
  <2>1. /\ parameters_ = Segment(Current, Local)
        /\ parameter_length_ = ParameterLength(Current, Local)
    BY DEF TakeoverInv, Covered, Placed
  <2>2. GoodConfig(Current) /\ Local \in ToSet(Current.server_id)
    BY ReconfigurationAssumption DEF ReconfigurationInv, Configs, Applied, RingInv, Current
  <2>3. Len(Segment(Current, Local)) = ParameterLength(Current, Local)
    BY <2>2, SegmentIsArc, ArcType
  <2>4. QED
    BY <2>1, <2>3 DEF Current
<1>4. QED
  BY <1>1, <1>2, <1>3, ReconfigurationInvariance, PTL DEF Spec

-----------------------------------------------------------------------------
(* The bounds of the parameters *)

\* A server that is up to date holds every key a request may name, at the index
\* ServePull computes; and at the plain difference if its keys do not wrap.
LEMMA NamedInBounds ==
  ASSUME ReconfigurationInv, DataInv, TakeoverInv, UpToDate
  PROVE  /\ ~Short /\ ~BeyondWrapped(Len(parameters_))
         /\ ~Wraps => ~Beyond(parameter_length_) /\ ~Beyond(Len(parameters_))
<1> DEFINE a == start_key_
           n == parameter_length_
           m == KeyRange
<1>1. /\ applied[Local] = Len(configs) /\ Len(configs) \in Nat
      /\ applied[Local] \in 1 .. Len(configs)
      /\ covered /\ Local \in ToSet(server_ids_)
  BY ReconfigurationAssumption DEF UpToDate, ReconfigurationInv, Applied, Configs
<1>2. /\ GoodConfig(Current) /\ Local \in ToSet(Current.server_id)
      /\ a = StartKey(Current, Local) /\ n = ParameterLength(Current, Local)
      /\ parameters_ = Segment(Current, Local)
  BY <1>1 DEF ReconfigurationInv, Configs, RingInv, TakeoverInv, Placed, Covered, Current
<1>3. m \in Nat \ {0} /\ a \in 0 .. m - 1 /\ n \in 0 .. m - 1
  BY <1>2, SegmentType, ReconfigurationAssumption DEF Keys
<1>4. /\ Len(parameters_) = n
      /\ ToSet(Segment(Current, Local)) = {(a + k - 1) % m : k \in 1 .. n}
  BY <1>2, <1>3 DEF Segment, ToSet
<1>5. Named = ToSet(Segment(Current, Local))
  <2>1. {i \in applied[Local] .. Len(configs) : Local \in ToSet(configs[i].server_id)}
          = {applied[Local]}
    BY <1>1, <1>2 DEF Current
  <2>2. QED
    BY <2>1 DEF Named, Current
<1> HIDE DEF a, n, m
<1>6. ASSUME NEW key \in Named
      PROVE  /\ (key - a + m) % m < n
             /\ a + n <= m => key - a \in 0 .. n - 1
  <2>1. PICK k \in 1 .. n : key = (a + k - 1) % m
    BY <1>4, <1>5, <1>6
  <2>2. a + k - 1 \in 0 .. 2 * m - 1 /\ k \in Nat
    BY <1>3
  <2>3. key = IF a + k - 1 < m THEN a + k - 1 ELSE a + k - 1 - m
    <3> DEFINE x == a + k - 1
    <3>1. x \in 0 .. 2 * m - 1
      BY <2>2
    <3>2. x % m = IF x < m THEN x ELSE x - m
      BY <1>3, <3>1, SmallRemainder
    <3>3. QED
      BY <1>3, <2>1, <2>2, <3>2
  <2>4. key - a + m \in 0 .. 2 * m - 1
    BY <1>3, <2>2, <2>3
  <2>5. (key - a + m) % m = IF key - a + m < m THEN key - a + m ELSE key - a
    <3> DEFINE x == key - a + m
    <3>1. x \in 0 .. 2 * m - 1
      BY <2>4
    <3>2. x % m = IF x < m THEN x ELSE x - m
      BY <1>3, <3>1, SmallRemainder
    <3>3. x - m = key - a
      BY <1>3, <2>2, <2>3
    <3>4. QED
      BY <3>2, <3>3
  <2>6. (key - a + m) % m = k - 1
    BY <1>3, <2>2, <2>3, <2>5
  <2>7. QED
    BY <1>3, <2>2, <2>3, <2>6
<1>7. ~Short
  BY <1>3, <1>4 DEF Short, n
<1>8. \A key \in Named : (key - a + m) % m \in Int
  <2> SUFFICES ASSUME NEW key \in Named PROVE (key - a + m) % m \in Int
    OBVIOUS
  <2>1. key \in Int
    <3>1. PICK k \in 1 .. n : key = (a + k - 1) % m
      BY <1>4, <1>5
    <3>2. QED
      BY <1>3, <3>1
  <2>2. QED
    BY <1>3, <2>1
<1>9. ~BeyondWrapped(Len(parameters_))
  BY <1>3, <1>4, <1>6, <1>8 DEF BeyondWrapped, a, n, m
<1>10. ASSUME ~Wraps PROVE ~Beyond(n)
  <2>1. a + n <= m
    BY <1>3, <1>10 DEF Wraps, a, n, m
  <2>2. QED
    BY <1>6, <2>1 DEF Beyond, a
<1>11. QED
  BY <1>4, <1>7, <1>9, <1>10 DEF n

\* The other clauses of DefinedBehaviour.
ParametersDefined ==
  /\ status = "overrun" => ~UpToDate
  /\ status = "unwrapped" => ~UpToDate \/ Wraps

\* parameters_ and update are used outside their bounds only by a server that is
\* not up to date, or whose keys wrap.
LEMMA ParametersNext ==
  ASSUME ReconfigurationInv, DataInv, TakeoverInv, ParametersDefined, [Next]_vars
  PROVE  ParametersDefined'
<1>1. CASE status' \notin {"overrun", "unwrapped"}
  BY <1>1 DEF ParametersDefined
<1>2. CASE UNCHANGED vars
  BY <1>2 DEF ParametersDefined, UpToDate, Wraps, vars, configVars, history
<1>3. ASSUME NEW a \in Agents, ServePush(a) PROVE ParametersDefined'
  <2>1. /\ UNCHANGED <<configs, applied, server_ids_, start_key_, parameter_length_, covered>>
        /\ status = "running"
    BY <1>3 DEF ServePush, configVars
  <2>2. UpToDate' = UpToDate /\ Wraps' = Wraps
    BY <2>1 DEF UpToDate, Wraps
  <2>3. status' = "overrun" => Short
    BY <1>3, <2>1 DEF ServePush
  <2>4. status' = "unwrapped" => Beyond(parameter_length_)
    BY <1>3, <2>1 DEF ServePush
  <2>5. QED
    BY <2>2, <2>3, <2>4, NamedInBounds DEF ParametersDefined
<1>4. ASSUME NEW a \in Agents, ServePull(a) PROVE ParametersDefined'
  <2>1. /\ UNCHANGED <<configs, applied, server_ids_, start_key_, parameter_length_, covered>>
        /\ status = "running"
    BY <1>4 DEF ServePull, configVars, history
  <2>2. UpToDate' = UpToDate
    BY <2>1 DEF UpToDate
  <2>3. /\ status' # "unwrapped"
        /\ status' = "overrun" => BeyondWrapped(Len(parameters_))
    BY <1>4, <2>1 DEF ServePull
  <2>4. QED
    BY <2>2, <2>3, NamedInBounds DEF ParametersDefined
<1>5. CASE RespondBackup
  <2>1. /\ UNCHANGED <<configs, applied, server_ids_, start_key_, parameter_length_, covered>>
        /\ status = "running"
    BY <1>5 DEF RespondBackup, configVars, history
  <2>2. UpToDate' = UpToDate
    BY <2>1 DEF UpToDate
  <2>3. /\ status' # "unwrapped"
        /\ status' = "overrun" => Short
    BY <1>5, <2>1 DEF RespondBackup
  <2>4. QED
    BY <2>2, <2>3, NamedInBounds DEF ParametersDefined
<1>6. CASE RespondToAllOverruns
  <2>1. ~UpToDate'
    <3>1. applied[Local] < Len(configs) /\ UNCHANGED <<applied, configs>>
      BY <1>6 DEF RespondToAllOverruns
    <3>2. applied[Local] \in Int /\ Len(configs) \in Int
      BY ReconfigurationAssumption DEF ReconfigurationInv, Applied, Configs
    <3>3. QED
      BY <3>1, <3>2 DEF UpToDate
  <2>2. QED
    BY <2>1 DEF ParametersDefined
<1>7. ASSUME NEW s \in Servers, PeerAnswers(s) \/ Backup(s) PROVE ParametersDefined'
  BY <1>1, <1>7 DEF PeerAnswers, Backup
<1>8. ASSUME NEW a \in Agents, IgnoreStranger(a) PROVE ParametersDefined'
  BY <1>1, <1>8 DEF IgnoreStranger
<1>9. CASE SendConfig \/ NotAssigned \/ Reconfigure \/ ReconfigureAborts
  BY <1>1, <1>9
  DEF SendConfig, NotAssigned, Reconfigure, ReconfigureAborts, BeginReconfigure
<1>10. QED
  BY <1>2, <1>3, <1>4, <1>5, <1>6, <1>7, <1>8, <1>9 DEF Next

\* An array is used outside its bounds only for the causes DefinedBehaviour names:
\* agents without the first queues, a server left out, a ring smaller than the
\* number of copies (server.cc:210, 553 and 572); a takeover that went wrong or an
\* agent ahead of the server (server.cc:220, 385 and 598); keys that go round the
\* key range where the index does not (server.cc:187 and 217).
THEOREM BehaviourDefined ==
  ASSUME DistinctEntries
  PROVE  Spec => []DefinedBehaviour
<1>1. Init => DataInv /\ TakeoverInv /\ ParametersDefined
  <2>1. Init => ParametersDefined
    BY DEF Init, ParametersDefined
  <2>2. QED
    BY <2>1, DataInit, TakeoverInit
<1>2. ReconfigurationInv /\ DataInv /\ TakeoverInv /\ ParametersDefined /\ [Next]_vars
        => (DataInv /\ TakeoverInv /\ ParametersDefined)'
  BY DataNext, TakeoverNext, ParametersNext DEF ReconfigurationInv
<1>3. ReconfigurationInv /\ ParametersDefined => DefinedBehaviour
  BY DEF ReconfigurationInv, ParametersDefined, DefinedBehaviour
<1>4. QED
  BY <1>1, <1>2, <1>3, ReconfigurationInvariance, PTL DEF Spec

=============================================================================
