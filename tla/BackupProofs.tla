---------------------------- MODULE BackupProofs ----------------------------
(***************************************************************************)
(* The copies that the servers keep of each other's parameters, for every  *)
(* number of servers and of backups and for any clients.  The entry of     *)
(* backup_parameters_ is found by one formula when the request goes out    *)
(* and by another when the answer comes in, and a server sends the next    *)
(* request without waiting for the answer to the last.                     *)
(*                                                                         *)
(* That part uses nothing of the training loop.  The second part is about  *)
(* how far the servers and the copies drift apart in training.  A server   *)
(* asks for copies only when it merges a round of its own, so the age of a *)
(* copy depends on how far the servers are apart, which no server          *)
(* controls: the agents do, by pulling from every server before they push  *)
(* to any.                                                                 *)
(***************************************************************************)
EXTENDS ParameterServerProofs

\* Server s keeps a copy of the parameters of server t.
Keeps(s, t) == \E i \in 1 .. BackupSize : t = Behind(s, i)

IsCopy(m) == m.type = "parameters"

\* The copies of owner's parameters in channel q: none is older than the stored
\* version, newer than the owner, or older than the one before it.
Stream(q, owner, stored, newest) ==
  /\ \A i \in 1 .. Len(q) : IsCopy(q[i]) =>
       /\ q[i].copy.owner = owner
       /\ stored <= q[i].copy.version
       /\ q[i].copy.version <= newest
  /\ \A i, j \in 1 .. Len(q) : i < j /\ IsCopy(q[i]) /\ IsCopy(q[j]) =>
       q[i].copy.version <= q[j].copy.version

\* A server is only asked by one that keeps its copy, and only such a one is
\* sent the parameters.
PeersOK ==
  \A s, t \in Servers :
    /\ \A i \in 1 .. Len(peers[s][t]) :
         IF IsCopy(peers[s][t][i]) THEN Keeps(t, s) ELSE Keeps(s, t)
    /\ Keeps(s, t) =>
         Stream(peers[t][s], t, backup_parameters_[s][BackupIndex(s, t)].version,
                bottom_version_[t])

BackupInv ==
  /\ Inv
  /\ BackupOwner
  /\ PeersOK

-----------------------------------------------------------------------------
(* The ring *)

\* Going around the ring once.
LEMMA OneTurn ==
  ASSUME NEW n \in Nat \ {0}, NEW x \in 0 .. 2 * n - 1
  PROVE  x % n = IF x < n THEN x ELSE x - n
  OBVIOUS

\* The two formulas of the code agree: the server that is j + 1 places behind s
\* is the one whose copy s files in entry j, and it is not s itself.
LEMMA Ring ==
  ASSUME NEW s \in Servers, NEW t \in Servers, NEW j \in 0 .. BackupSize - 1
  PROVE  /\ t = Behind(s, j + 1) <=> j = BackupIndex(s, t)
         /\ t = Behind(s, j + 1) => Keeps(s, t) /\ t # s
  <1>1. /\ ServerNum \in Nat \ {0} /\ BackupSize \in Nat /\ BackupSize < ServerNum
        /\ s \in Nat /\ s < ServerNum /\ t \in Nat /\ t < ServerNum
        /\ j \in Nat /\ j < BackupSize
    BY ServerAssumption DEF Servers
  <1>2. Behind(s, j + 1) = IF s - (j + 1) < 0 THEN s - (j + 1) + ServerNum
                                              ELSE s - (j + 1)
    <2> DEFINE x == s - (j + 1) + ServerNum
    <2>1. x \in 0 .. 2 * ServerNum - 1
      BY <1>1
    <2> HIDE DEF x
    <2>2. x % ServerNum = IF x < ServerNum THEN x ELSE x - ServerNum
      BY <1>1, <2>1, OneTurn
    <2> QED
      BY <1>1, <2>2 DEF Behind, x
  <1>3. BackupIndex(s, t) = IF s - 1 - t < 0 THEN s - 1 - t + ServerNum
                                             ELSE s - 1 - t
    <2> DEFINE x == s - 1 - t + ServerNum
    <2>1. x \in 0 .. 2 * ServerNum - 1
      BY <1>1
    <2> HIDE DEF x
    <2>2. x % ServerNum = IF x < ServerNum THEN x ELSE x - ServerNum
      BY <1>1, <2>1, OneTurn
    <2> QED
      BY <1>1, <2>2 DEF BackupIndex, x
  <1>4. t = Behind(s, j + 1) <=> j = BackupIndex(s, t)
    BY <1>1, <1>2, <1>3
  <1>5. t = Behind(s, j + 1) => t # s
    BY <1>1, <1>2
  <1>6. j + 1 \in 1 .. BackupSize
    BY <1>1
  <1> QED
    BY <1>4, <1>5, <1>6 DEF Keeps

\* Where the copy of t is kept.
LEMMA KeepsIndex ==
  ASSUME NEW s \in Servers, NEW t \in Servers, Keeps(s, t)
  PROVE  /\ BackupIndex(s, t) \in 0 .. BackupSize - 1
         /\ t = Behind(s, BackupIndex(s, t) + 1)
         /\ t # s
         /\ \A r \in Servers : Keeps(s, r) /\ r # t =>
              BackupIndex(s, r) # BackupIndex(s, t)
  <1>1. ASSUME NEW r \in Servers, Keeps(s, r)
        PROVE  /\ BackupIndex(s, r) \in 0 .. BackupSize - 1
               /\ r = Behind(s, BackupIndex(s, r) + 1) /\ r # s
    <2>1. PICK i \in 1 .. BackupSize : r = Behind(s, i)
      BY <1>1 DEF Keeps
    <2>2. i - 1 \in 0 .. BackupSize - 1 /\ (i - 1) + 1 = i
      BY ServerAssumption
    <2>3. i - 1 = BackupIndex(s, r) /\ r # s
      BY <2>1, <2>2, Ring
    <2> QED
      BY <2>1, <2>2, <2>3
  <1> QED
    BY <1>1

-----------------------------------------------------------------------------
(* Channels between servers *)

\* A request does not disturb the copies before it.
LEMMA StreamRequest ==
  ASSUME NEW q \in Seq(PeerMessage), NEW owner, NEW stored, NEW newest,
         NEW m \in PeerMessage, ~ IsCopy(m), Stream(q, owner, stored, newest)
  PROVE  Stream(Append(q, m), owner, stored, newest)
  <1>1. /\ Len(Append(q, m)) = Len(q) + 1
        /\ \A i \in 1 .. Len(q) : Append(q, m)[i] = q[i]
        /\ Append(q, m)[Len(q) + 1] = m
    BY AppendOne
  <1>2. Len(q) \in Nat
    BY LenProperties
  <1>3. \A i \in 1 .. Len(Append(q, m)) :
          IsCopy(Append(q, m)[i]) => i \in 1 .. Len(q) /\ Append(q, m)[i] = q[i]
    BY <1>1, <1>2
  <1> QED
    BY <1>3 DEF Stream

\* The current version is the newest copy in the channel.
LEMMA StreamCopy ==
  ASSUME NEW q \in Seq(PeerMessage), NEW owner \in Servers, NEW stored \in Nat,
         NEW newest \in Nat, stored <= newest, Stream(q, owner, stored, newest),
         NEW m \in PeerMessage, IsCopy(m),
         m.copy.owner = owner, m.copy.version = newest
  PROVE  Stream(Append(q, m), owner, stored, newest)
  <1>1. /\ Len(Append(q, m)) = Len(q) + 1
        /\ \A i \in 1 .. Len(q) : Append(q, m)[i] = q[i]
        /\ Append(q, m)[Len(q) + 1] = m
    BY AppendOne
  <1>2. Len(q) \in Nat
    BY LenProperties
  <1>3. \A i \in 1 .. Len(Append(q, m)) :
          \/ i \in 1 .. Len(q) /\ Append(q, m)[i] = q[i]
          \/ i = Len(q) + 1 /\ Append(q, m)[i] = m
    BY <1>1, <1>2
  <1>4. newest <= newest
    OBVIOUS
  <1>5. \A i \in 1 .. Len(Append(q, m)) : IsCopy(Append(q, m)[i]) =>
          /\ Append(q, m)[i].copy.owner = owner
          /\ stored <= Append(q, m)[i].copy.version
          /\ Append(q, m)[i].copy.version <= newest
    BY <1>3, <1>4 DEF Stream
  <1>6. ASSUME NEW i \in 1 .. Len(Append(q, m)), NEW j \in 1 .. Len(Append(q, m)),
               i < j, IsCopy(Append(q, m)[i]), IsCopy(Append(q, m)[j])
        PROVE  Append(q, m)[i].copy.version <= Append(q, m)[j].copy.version
    <2>1. i \in 1 .. Len(q) /\ Append(q, m)[i] = q[i]
      BY <1>1, <1>2, <1>3, <1>6
    <2>2. CASE j \in 1 .. Len(q) /\ Append(q, m)[j] = q[j]
      BY <1>6, <2>1, <2>2 DEF Stream
    <2>3. CASE Append(q, m)[j] = m
      BY <1>5, <1>6, <2>3
    <2> QED
      BY <1>3, <2>2, <2>3
  <1> QED
    BY <1>5, <1>6 DEF Stream

\* Taking a message leaves a stream, and a stored copy is no older than before
\* and no newer than those still under way.
LEMMA StreamTake ==
  ASSUME NEW q \in Seq(PeerMessage), q # <<>>, NEW owner, NEW stored, NEW newest,
         Stream(q, owner, stored, newest)
  PROVE  /\ Stream(Tail(q), owner, stored, newest)
         /\ IsCopy(Head(q)) =>
              /\ Head(q).copy.owner = owner
              /\ stored <= Head(q).copy.version
              /\ Head(q).copy.version <= newest
              /\ Stream(Tail(q), owner, Head(q).copy.version, newest)
  <1>1. /\ Head(q) = q[1] /\ Len(q) \in Nat \ {0} /\ Len(Tail(q)) = Len(q) - 1
        /\ \A i \in 1 .. Len(Tail(q)) : Tail(q)[i] = q[i + 1]
    BY HeadTail
  <1>2. \A i \in 1 .. Len(Tail(q)) : i + 1 \in 1 .. Len(q) /\ 1 < i + 1
    BY <1>1
  <1>3. \A i, j \in 1 .. Len(Tail(q)) : i < j => i + 1 < j + 1
    BY <1>1
  <1>4. 1 \in 1 .. Len(q)
    BY <1>1
  <1>5. \A i, j \in 1 .. Len(Tail(q)) :
          i < j /\ IsCopy(Tail(q)[i]) /\ IsCopy(Tail(q)[j]) =>
            Tail(q)[i].copy.version <= Tail(q)[j].copy.version
    BY <1>1, <1>2, <1>3 DEF Stream
  <1>6. Stream(Tail(q), owner, stored, newest)
    BY <1>1, <1>2, <1>5 DEF Stream
  <1>7. ASSUME IsCopy(Head(q))
        PROVE  /\ Head(q).copy.owner = owner
               /\ stored <= Head(q).copy.version
               /\ Head(q).copy.version <= newest
               /\ Stream(Tail(q), owner, Head(q).copy.version, newest)
    <2>1. /\ Head(q).copy.owner = owner /\ stored <= Head(q).copy.version
          /\ Head(q).copy.version <= newest
      BY <1>1, <1>4, <1>7 DEF Stream
    <2>2. \A i \in 1 .. Len(Tail(q)) : IsCopy(Tail(q)[i]) =>
            Head(q).copy.version <= Tail(q)[i].copy.version
      BY <1>1, <1>2, <1>4, <1>7 DEF Stream
    <2> QED
      BY <1>6, <2>1, <2>2 DEF Stream
  <1> QED
    BY <1>6, <1>7

\* The owner goes on merging.
LEMMA StreamNewer ==
  ASSUME NEW q \in Seq(PeerMessage), NEW owner, NEW stored, NEW n \in Nat,
         Stream(q, owner, stored, n)
  PROVE  Stream(q, owner, stored, n + 1)
  <1>1. \A i \in 1 .. Len(q) : IsCopy(q[i]) => q[i].copy.version \in Nat
    <2> TAKE i \in 1 .. Len(q)
    <2>1. q[i] \in PeerMessage
      BY ElementOfSeq
    <2> QED
      BY <2>1 DEF IsCopy, PeerMessage, Copy
  <1>2. \A v \in Nat : v <= n => v <= n + 1
    OBVIOUS
  <1> QED
    BY <1>1, <1>2 DEF Stream

-----------------------------------------------------------------------------
(* Initially and after every step *)

\* The zero parameters are copies of everybody's zero parameters.
LEMMA BackupInit == Init => BackupInv
  <1> SUFFICES ASSUME Init PROVE BackupInv
    OBVIOUS
  <1>1. Inv
    BY InitInv
  <1>2. \A s \in Servers, j \in 0 .. BackupSize - 1 :
          /\ backup_parameters_[s][j] = [owner |-> Behind(s, j + 1), version |-> 0]
          /\ Behind(s, j + 1) \in Servers
    BY BehindType DEF Init
  <1>3. \A s \in Servers : bottom_version_[s] = 0
    BY DEF Init
  <1>4. BackupOwner
    <2> SUFFICES ASSUME NEW s \in Servers, NEW j \in 0 .. BackupSize - 1
                 PROVE  /\ backup_parameters_[s][j].owner = Behind(s, j + 1)
                        /\ backup_parameters_[s][j].version
                             <= bottom_version_[backup_parameters_[s][j].owner]
      BY DEF BackupOwner
    <2>1. /\ backup_parameters_[s][j].owner = Behind(s, j + 1)
          /\ backup_parameters_[s][j].version = 0
      <3>1. backup_parameters_[s][j] = [owner |-> Behind(s, j + 1), version |-> 0]
        BY <1>2
      <3> QED
        BY <3>1
    <2>2. bottom_version_[Behind(s, j + 1)] = 0
      BY <1>2, <1>3
    <2> QED
      BY <2>1, <2>2
  <1>5. ASSUME NEW s \in Servers, NEW t \in Servers
        PROVE  peers[s][t] = <<>> /\ Len(peers[s][t]) = 0
    BY DEF Init
  <1>6. PeersOK
    BY <1>5 DEF PeersOK, Stream
  <1> QED
    BY <1>1, <1>4, <1>6 DEF BackupInv

\* The types of what the backups are about.
LEMMA BackupTypes ==
  ASSUME TypeOK
  PROVE  /\ \A s, t \in Servers : /\ peers[s][t] \in Seq(PeerMessage)
                                  /\ Len(peers[s][t]) \in Nat
         /\ bottom_version_ \in [Servers -> Nat]
         /\ \A s \in Servers, j \in 0 .. BackupSize - 1 :
              /\ backup_parameters_[s][j] \in Copy
              /\ backup_parameters_[s][j].version \in Nat
  <1>1. \A s, t \in Servers : peers[s][t] \in Seq(PeerMessage)
    BY DEF TypeOK
  <1>2. \A s \in Servers, j \in 0 .. BackupSize - 1 :
          backup_parameters_[s][j] \in Copy
    BY ZenonT(40) DEF TypeOK
  <1> QED
    BY <1>1, <1>2, LenProperties DEF TypeOK, Copy

\* A stored copy is no newer than its owner.
LEMMA StoredVersion ==
  ASSUME BackupInv, NEW s \in Servers, NEW t \in Servers, Keeps(s, t)
  PROVE  /\ backup_parameters_[s][BackupIndex(s, t)].version \in Nat
         /\ backup_parameters_[s][BackupIndex(s, t)].version <= bottom_version_[t]
  <1> DEFINE j == BackupIndex(s, t)
  <1>1. j \in 0 .. BackupSize - 1 /\ t = Behind(s, j + 1)
    BY KeepsIndex
  <1> HIDE DEF j
  <1>2. /\ backup_parameters_[s][j].owner = t
        /\ backup_parameters_[s][j].version <= bottom_version_[t]
    BY <1>1 DEF BackupInv, BackupOwner
  <1> QED
    BY <1>1, <1>2, BackupTypes DEF BackupInv, Inv, j

\* RequestBackup after a merge.
LEMMA CompleteRoundBackup ==
  ASSUME BackupInv, NEW s \in Servers, NEW a \in Clients, CompleteRound(s, a)
  PROVE  BackupOwner' /\ PeersOK'
  <1> DEFINE request == [type |-> "backup_request"]
  <1>1. /\ peers' = [peers EXCEPT ![s] = [t \in Servers |->
             IF Keeps(s, t) THEN Append(peers[s][t], request) ELSE peers[s][t]]]
        /\ bottom_version_' = [bottom_version_ EXCEPT ![s] = @ + 1]
        /\ backup_parameters_' = backup_parameters_
    BY DEF CompleteRound, UpdateParameter, RequestBackup, Keeps
  <1>2. request \in PeerMessage /\ ~ IsCopy(request)
    BY DEF PeerMessage, IsCopy
  <1> HIDE DEF request
  <1>3. /\ \A x, y \in Servers : peers[x][y] \in Seq(PeerMessage)
                                 /\ Len(peers[x][y]) \in Nat
        /\ bottom_version_ \in [Servers -> Nat]
        /\ peers \in [Servers -> [Servers -> Seq(PeerMessage)]]
    BY BackupTypes DEF BackupInv, Inv, TypeOK
  <1>4. \A x, y \in Servers :
          \/ peers'[x][y] = peers[x][y]
          \/ x = s /\ Keeps(x, y) /\ peers'[x][y] = Append(peers[x][y], request)
    BY <1>1, <1>3
  <1>5. \A x \in Servers : \/ bottom_version_'[x] = bottom_version_[x]
                           \/ bottom_version_'[x] = bottom_version_[x] + 1
    BY <1>1, <1>3
  <1>6. BackupOwner'
    <2> SUFFICES ASSUME NEW x \in Servers, NEW j \in 0 .. BackupSize - 1
                 PROVE  LET copy == backup_parameters_[x][j]
                        IN  /\ copy.owner = Behind(x, j + 1)
                            /\ copy.version <= bottom_version_'[copy.owner]
      BY <1>1 DEF BackupOwner
    <2>1. /\ backup_parameters_[x][j].owner = Behind(x, j + 1)
          /\ backup_parameters_[x][j].version
               <= bottom_version_[backup_parameters_[x][j].owner]
      BY DEF BackupInv, BackupOwner
    <2>2. /\ backup_parameters_[x][j].owner \in Servers
          /\ backup_parameters_[x][j].version \in Nat
      BY BackupTypes DEF BackupInv, Inv, Copy
    <2> DEFINE o == backup_parameters_[x][j].owner
               v == backup_parameters_[x][j].version
    <2>3. /\ v <= bottom_version_[o] /\ v \in Nat /\ bottom_version_[o] \in Nat
          /\ bottom_version_'[o] \in {bottom_version_[o], bottom_version_[o] + 1}
      BY <1>3, <1>5, <2>1, <2>2
    <2> HIDE DEF o, v
    <2>4. v <= bottom_version_'[o]
      BY <2>3
    <2> QED
      BY <2>1, <2>4 DEF o, v
  <1>7. ASSUME NEW x \in Servers, NEW y \in Servers
        PROVE  \A i \in 1 .. Len(peers'[x][y]) :
                 IF IsCopy(peers'[x][y][i]) THEN Keeps(y, x) ELSE Keeps(x, y)
    <2>1. \A i \in 1 .. Len(peers[x][y]) :
            IF IsCopy(peers[x][y][i]) THEN Keeps(y, x) ELSE Keeps(x, y)
      BY DEF BackupInv, PeersOK
    <2>2. CASE Keeps(x, y) /\ peers'[x][y] = Append(peers[x][y], request)
      <3>1. /\ Len(peers'[x][y]) = Len(peers[x][y]) + 1
            /\ \A i \in 1 .. Len(peers[x][y]) : peers'[x][y][i] = peers[x][y][i]
            /\ peers'[x][y][Len(peers[x][y]) + 1] = request
        BY <1>2, <1>3, <2>2, AppendOne
      <3>2. \A i \in 1 .. Len(peers'[x][y]) :
              \/ i \in 1 .. Len(peers[x][y]) /\ peers'[x][y][i] = peers[x][y][i]
              \/ peers'[x][y][i] = request
        <4>1. PICK n \in Nat : n = Len(peers[x][y])
          BY <1>3
        <4>2. \A i \in 1 .. n + 1 : i \in 1 .. n \/ i = n + 1
          BY <4>1
        <4> QED
          BY <3>1, <4>1, <4>2
      <3> QED
        BY <1>2, <2>1, <2>2, <3>2
    <2> QED
      BY <1>4, <2>1, <2>2
  <1>8. ASSUME NEW x \in Servers, NEW y \in Servers, Keeps(x, y)
        PROVE  Stream(peers'[y][x], y,
                      backup_parameters_'[x][BackupIndex(x, y)].version,
                      bottom_version_'[y])
    <2> DEFINE v == backup_parameters_[x][BackupIndex(x, y)].version
    <2>1. Stream(peers[y][x], y, v, bottom_version_[y])
      BY <1>8 DEF BackupInv, PeersOK
    <2> HIDE DEF v
    <2>2. Stream(peers'[y][x], y, v, bottom_version_[y])
      BY <1>2, <1>3, <1>4, <2>1, StreamRequest
    <2>3. peers'[y][x] \in Seq(PeerMessage)
      <3>1. Append(peers[y][x], request) \in Seq(PeerMessage)
        BY <1>2, <1>3, AppendOne
      <3> QED
        BY <1>3, <1>4, <3>1
    <2>4. Stream(peers'[y][x], y, v, bottom_version_'[y])
      BY <1>3, <1>5, <2>2, <2>3, StreamNewer
    <2> QED
      BY <1>1, <2>4 DEF v
  <1>9. PeersOK'
    BY <1>7, <1>8 DEF PeersOK, BackupIndex, Keeps, Behind
  <1> QED
    BY <1>6, <1>9

\* A server answers a request for its parameters.
LEMMA RespondBackupStep ==
  ASSUME BackupInv, NEW s \in Servers, NEW t \in Servers, RespondBackup(s, t)
  PROVE  /\ BackupOwner' /\ PeersOK'
         /\ Keeps(t, s)
         /\ peers'[t][s] = Tail(peers[t][s])
         /\ peers'[s][t] = Append(peers[s][t], [type |-> "parameters",
               copy |-> [owner |-> s, version |-> bottom_version_[s]]])
         /\ \A x, y \in Servers : <<x, y>> # <<t, s>> /\ <<x, y>> # <<s, t>> =>
              peers'[x][y] = peers[x][y]
  <1> DEFINE answer == [type |-> "parameters",
                        copy |-> [owner |-> s, version |-> bottom_version_[s]]]
             q == peers[t][s]
  <1>1. /\ q # <<>> /\ Head(q).type = "backup_request"
        /\ peers' = [[peers EXCEPT ![t][s] = Tail(@)]
                            EXCEPT ![s][t] = Append(@, answer)]
        /\ UNCHANGED <<bottom_version_, backup_parameters_>>
    BY DEF RespondBackup, serverVars
  <1>2. /\ \A x, y \in Servers : peers[x][y] \in Seq(PeerMessage)
                                 /\ Len(peers[x][y]) \in Nat
        /\ bottom_version_ \in [Servers -> Nat]
        /\ peers \in [Servers -> [Servers -> Seq(PeerMessage)]]
    BY BackupTypes DEF BackupInv, Inv, TypeOK
  <1>3. /\ answer \in PeerMessage /\ IsCopy(answer)
        /\ answer.copy.owner = s /\ answer.copy.version = bottom_version_[s]
    BY <1>2 DEF PeerMessage, IsCopy, Copy
  <1>4. /\ Tail(q) \in Seq(PeerMessage) /\ Len(Tail(q)) = Len(q) - 1
        /\ Head(q) = q[1] /\ Len(q) \in Nat \ {0}
        /\ \A i \in 1 .. Len(Tail(q)) : Tail(q)[i] = q[i + 1]
    BY <1>1, <1>2, HeadTail
  <1>5. Keeps(t, s) /\ s # t
    <2>1. 1 \in 1 .. Len(q) /\ ~ IsCopy(q[1])
      BY <1>1, <1>4 DEF IsCopy
    <2>2. Keeps(t, s)
      BY <2>1 DEF BackupInv, PeersOK
    <2> QED
      BY <2>2, KeepsIndex
  <1> HIDE DEF answer
  <1>6. /\ peers'[t][s] = Tail(q)
        /\ peers'[s][t] = Append(peers[s][t], answer)
        /\ \A x, y \in Servers : <<x, y>> # <<t, s>> /\ <<x, y>> # <<s, t>> =>
             peers'[x][y] = peers[x][y]
    <2> DEFINE mid == [peers EXCEPT ![t][s] = Tail(q)]
               new == Append(peers[s][t], answer)
    <2>1. /\ mid \in [Servers -> [Servers -> Seq(PeerMessage)]]
          /\ mid[t][s] = Tail(q)
          /\ \A x, y \in Servers : <<x, y>> # <<t, s>> => mid[x][y] = peers[x][y]
      BY <1>2, <1>4, TableUpdate
    <2>2. mid[s][t] = peers[s][t]
      BY <1>5, <2>1
    <2>3. new \in Seq(PeerMessage)
      BY <1>2, <1>3, AppendOne
    <2>4. peers' = [mid EXCEPT ![s][t] = Append(@, answer)]
      BY <1>1
    <2> HIDE DEF mid
    <2>5. peers' = [mid EXCEPT ![s][t] = new]
      BY <2>1, <2>2, <2>4
    <2> HIDE DEF new
    <2>6. /\ peers'[s][t] = new
          /\ \A x, y \in Servers : <<x, y>> # <<s, t>> => peers'[x][y] = mid[x][y]
      BY <2>1, <2>3, <2>5, TableUpdate
    <2>7. <<t, s>> # <<s, t>>
      BY <1>5
    <2> QED
      BY <2>1, <2>6, <2>7 DEF new
  <1>7. BackupOwner'
    BY <1>1 DEF BackupInv, BackupOwner
  <1>8. ASSUME NEW x \in Servers, NEW y \in Servers
        PROVE  \A i \in 1 .. Len(peers'[x][y]) :
                 IF IsCopy(peers'[x][y][i]) THEN Keeps(y, x) ELSE Keeps(x, y)
    <2>1. \A i \in 1 .. Len(peers[x][y]) :
            IF IsCopy(peers[x][y][i]) THEN Keeps(y, x) ELSE Keeps(x, y)
      BY DEF BackupInv, PeersOK
    <2>2. CASE x = t /\ y = s
      <3>1. ASSUME NEW i \in 1 .. Len(Tail(q))
            PROVE  IF IsCopy(Tail(q)[i]) THEN Keeps(s, t) ELSE Keeps(t, s)
        <4>1. i + 1 \in 1 .. Len(q) /\ Tail(q)[i] = q[i + 1]
          BY <1>4
        <4> QED
          BY <2>1, <2>2, <4>1
      <3> QED
        BY <1>6, <2>2, <3>1
    <2>3. CASE x = s /\ y = t
      <3> DEFINE old == peers[s][t]
                 new == Append(old, answer)
      <3>1. old \in Seq(PeerMessage) /\ Len(old) \in Nat
        BY <1>2
      <3> HIDE DEF old
      <3>2. /\ Len(new) = Len(old) + 1 /\ new[Len(old) + 1] = answer
            /\ \A i \in 1 .. Len(old) : new[i] = old[i]
        BY <1>3, <3>1, AppendOne
      <3> HIDE DEF new
      <3>3. \A i \in 1 .. Len(new) :
              \/ i \in 1 .. Len(old) /\ new[i] = old[i]
              \/ new[i] = answer
        BY <3>1, <3>2
      <3>4. \A i \in 1 .. Len(old) :
              IF IsCopy(old[i]) THEN Keeps(t, s) ELSE Keeps(s, t)
        BY <2>1, <2>3 DEF old
      <3>5. \A i \in 1 .. Len(new) :
              IF IsCopy(new[i]) THEN Keeps(t, s) ELSE Keeps(s, t)
        BY <1>3, <1>5, <3>3, <3>4
      <3> QED
        BY <1>6, <2>3, <3>5 DEF new, old
    <2>4. CASE <<x, y>> # <<t, s>> /\ <<x, y>> # <<s, t>>
      BY <1>6, <2>1, <2>4
    <2> QED
      BY <2>2, <2>3, <2>4
  <1>9. ASSUME NEW x \in Servers, NEW y \in Servers, Keeps(x, y)
        PROVE  Stream(peers'[y][x], y,
                      backup_parameters_'[x][BackupIndex(x, y)].version,
                      bottom_version_'[y])
    <2> DEFINE v == backup_parameters_[x][BackupIndex(x, y)].version
    <2>1. Stream(peers[y][x], y, v, bottom_version_[y])
      BY <1>9 DEF BackupInv, PeersOK
    <2>2. v \in Nat /\ v <= bottom_version_[y] /\ bottom_version_[y] \in Nat
      BY <1>2, <1>9, StoredVersion
    <2> HIDE DEF v
    <2>3. CASE x = s /\ y = t
      BY <1>1, <1>2, <1>6, <2>1, <2>3, StreamTake DEF v
    <2>4. CASE x = t /\ y = s
      <3>1. Stream(Append(peers[s][t], answer), s, v, bottom_version_[s])
        BY <1>2, <1>3, <2>1, <2>2, <2>4, StreamCopy
      <3> QED
        BY <1>1, <1>6, <2>4, <3>1 DEF v
    <2>5. CASE <<y, x>> # <<t, s>> /\ <<y, x>> # <<s, t>>
      BY <1>1, <1>6, <2>1, <2>5 DEF v
    <2> QED
      BY <2>3, <2>4, <2>5
  <1>10. PeersOK'
    BY <1>8, <1>9 DEF PeersOK, BackupIndex, Keeps, Behind
  <1> QED
    BY <1>5, <1>6, <1>7, <1>10 DEF answer

\* A server stores a copy: it is the one of the entry it goes to, and no older
\* than the copy it replaces.
LEMMA BackupStep ==
  ASSUME BackupInv, NEW s \in Servers, NEW t \in Servers, Backup(s, t)
  PROVE  /\ BackupOwner' /\ PeersOK'
         /\ Keeps(s, t)
         /\ peers'[t][s] = Tail(peers[t][s])
         /\ \A x, y \in Servers : <<x, y>> # <<t, s>> => peers'[x][y] = peers[x][y]
         /\ backup_parameters_'[s][BackupIndex(s, t)] = Head(peers[t][s]).copy
         /\ backup_parameters_[s][BackupIndex(s, t)].version
              <= Head(peers[t][s]).copy.version
         /\ \A x \in Servers, j \in 0 .. BackupSize - 1 :
              <<x, j>> # <<s, BackupIndex(s, t)>> =>
                backup_parameters_'[x][j] = backup_parameters_[x][j]
  <1> DEFINE k == BackupIndex(s, t)
             q == peers[t][s]
             copy == Head(q).copy
             v == backup_parameters_[s][k].version
  <1>1. /\ q # <<>> /\ IsCopy(Head(q))
        /\ backup_parameters_' = [backup_parameters_ EXCEPT ![s][k] = copy]
        /\ peers' = [peers EXCEPT ![t][s] = Tail(q)]
        /\ bottom_version_' = bottom_version_
    BY DEF Backup, IsCopy
  <1>2. /\ \A x, y \in Servers : peers[x][y] \in Seq(PeerMessage)
                                 /\ Len(peers[x][y]) \in Nat
        /\ bottom_version_ \in [Servers -> Nat]
        /\ peers \in [Servers -> [Servers -> Seq(PeerMessage)]]
        /\ backup_parameters_ \in [Servers -> [0 .. BackupSize - 1 -> Copy]]
    BY BackupTypes DEF BackupInv, Inv, TypeOK
  <1>3. /\ Tail(q) \in Seq(PeerMessage) /\ Len(Tail(q)) = Len(q) - 1
        /\ Head(q) = q[1] /\ Len(q) \in Nat \ {0} /\ Head(q) \in PeerMessage
        /\ \A i \in 1 .. Len(Tail(q)) : Tail(q)[i] = q[i + 1]
    BY <1>1, <1>2, HeadTail
  <1>4. copy \in Copy
    BY <1>1, <1>3 DEF IsCopy, PeerMessage
  <1>5. Keeps(s, t)
    <2>1. 1 \in 1 .. Len(q) /\ IsCopy(q[1])
      BY <1>1, <1>3
    <2> QED
      BY <2>1 DEF BackupInv, PeersOK
  <1>6. k \in 0 .. BackupSize - 1 /\ t = Behind(s, k + 1) /\ t # s
    BY <1>5, KeepsIndex
  <1>7. /\ copy.owner = t /\ v <= copy.version /\ copy.version <= bottom_version_[t]
        /\ Stream(Tail(q), t, copy.version, bottom_version_[t])
    <2>1. Stream(q, t, v, bottom_version_[t])
      BY <1>5 DEF BackupInv, PeersOK
    <2> HIDE DEF v
    <2> QED
      BY <1>1, <1>2, <2>1, StreamTake
  <1> HIDE DEF k, copy
  <1>8. /\ backup_parameters_'[s][k] = copy
        /\ \A x \in Servers, j \in 0 .. BackupSize - 1 :
             <<x, j>> # <<s, k>> =>
               backup_parameters_'[x][j] = backup_parameters_[x][j]
    <2> DEFINE Entries == 0 .. BackupSize - 1
    <2>1. backup_parameters_ \in [Servers -> [Entries -> Copy]] /\ k \in Entries
      BY <1>2, <1>6
    <2> HIDE DEF Entries
    <2>2. /\ backup_parameters_'[s][k] = copy
          /\ \A x \in Servers, j \in Entries : <<x, j>> # <<s, k>> =>
               backup_parameters_'[x][j] = backup_parameters_[x][j]
      BY <1>1, <1>4, <2>1, TableUpdate
    <2> QED
      BY <2>2 DEF Entries
  <1>9. /\ peers'[t][s] = Tail(q)
        /\ \A x, y \in Servers : <<x, y>> # <<t, s>> => peers'[x][y] = peers[x][y]
    BY <1>1, <1>2, <1>3, TableUpdate
  <1>10. BackupOwner'
    <2> SUFFICES ASSUME NEW x \in Servers, NEW j \in 0 .. BackupSize - 1
                 PROVE  LET c == backup_parameters_'[x][j]
                        IN  /\ c.owner = Behind(x, j + 1)
                            /\ c.version <= bottom_version_[c.owner]
      BY <1>1 DEF BackupOwner, Behind
    <2>1. CASE x = s /\ j = k
      BY <1>6, <1>7, <1>8, <2>1
    <2>2. CASE ~ (x = s /\ j = k)
      BY <1>8, <2>2 DEF BackupInv, BackupOwner
    <2> QED
      BY <2>1, <2>2
  <1>11. ASSUME NEW x \in Servers, NEW y \in Servers
         PROVE  \A i \in 1 .. Len(peers'[x][y]) :
                  IF IsCopy(peers'[x][y][i]) THEN Keeps(y, x) ELSE Keeps(x, y)
    <2>1. \A i \in 1 .. Len(peers[x][y]) :
            IF IsCopy(peers[x][y][i]) THEN Keeps(y, x) ELSE Keeps(x, y)
      BY DEF BackupInv, PeersOK
    <2>2. CASE x = t /\ y = s
      <3>1. ASSUME NEW i \in 1 .. Len(Tail(q))
            PROVE  IF IsCopy(Tail(q)[i]) THEN Keeps(s, t) ELSE Keeps(t, s)
        <4>1. i + 1 \in 1 .. Len(q) /\ Tail(q)[i] = q[i + 1]
          BY <1>3
        <4> QED
          BY <2>1, <2>2, <4>1
      <3> QED
        BY <1>9, <2>2, <3>1
    <2>3. CASE <<x, y>> # <<t, s>>
      BY <1>9, <2>1, <2>3
    <2> QED
      BY <2>2, <2>3
  <1>12. ASSUME NEW x \in Servers, NEW y \in Servers, Keeps(x, y)
         PROVE  Stream(peers'[y][x], y,
                       backup_parameters_'[x][BackupIndex(x, y)].version,
                       bottom_version_'[y])
    <2>1. Stream(peers[y][x], y, backup_parameters_[x][BackupIndex(x, y)].version,
                 bottom_version_[y])
      BY <1>12 DEF BackupInv, PeersOK
    <2>2. BackupIndex(x, y) \in 0 .. BackupSize - 1
      BY <1>12, KeepsIndex
    <2>3. CASE x = s /\ y = t
      BY <1>1, <1>7, <1>8, <1>9, <2>3 DEF k
    <2>4. CASE ~ (x = s /\ y = t)
      <3>1. <<x, BackupIndex(x, y)>> # <<s, k>>
        BY <1>5, <1>12, <2>4, KeepsIndex DEF k
      <3>2. backup_parameters_'[x][BackupIndex(x, y)] =
              backup_parameters_[x][BackupIndex(x, y)]
        BY <1>8, <2>2, <3>1
      <3>3. peers'[y][x] = peers[y][x]
        BY <1>9, <2>4
      <3> QED
        BY <1>1, <2>1, <3>2, <3>3
    <2> QED
      BY <2>3, <2>4
  <1>13. PeersOK'
    BY <1>11, <1>12 DEF PeersOK, BackupIndex, Keeps, Behind
  <1> QED
    BY <1>5, <1>7, <1>8, <1>9, <1>10, <1>13 DEF k, v, copy

\* The steps that touch neither the copies nor their channels nor the versions.
LEMMA BackupQuiet ==
  ASSUME BackupInv, UNCHANGED <<peers, backup_parameters_, bottom_version_>>
  PROVE  BackupOwner' /\ PeersOK'
  BY DEF BackupInv, BackupOwner, PeersOK, BackupIndex, Keeps, Behind

\* Which steps concern the backups, and what they do to the stored copies.
LEMMA BackupCases ==
  ASSUME [Next]_vars
  PROVE  \/ UNCHANGED <<peers, backup_parameters_, bottom_version_>>
         \/ \E s \in Servers, a \in Clients : CompleteRound(s, a)
         \/ \E s, t \in Servers : RespondBackup(s, t)
         \/ \E s, t \in Servers : Backup(s, t)
  <1>1. ASSUME NEW s \in Servers, NEW a \in Clients,
               StorePush(s, a) \/ BlockPull(s, a) \/ AnswerPull(s, a)
                 \/ IgnoreStranger(s, a) \/ ClientStep(a, s)
        PROVE  UNCHANGED <<peers, backup_parameters_, bottom_version_>>
    BY <1>1 DEF StorePush, BlockPull, AnswerPull, IgnoreStranger, ClientStep,
       Send, ReadReply, serverVars
  <1>2. CASE UNCHANGED vars
    BY <1>2 DEF vars, serverVars
  <1> QED
    BY <1>1, <1>2
    DEF Next, Serve, ServeClient, ServePeer, ServePush, ServePull

\* Every step of a server preserves the invariant of the backups.
LEMMA BackupNext ==
  ASSUME BackupInv, [Next]_vars
  PROVE  BackupInv'
  <1>1. Inv'
    BY NextInv DEF BackupInv
  <1>2. BackupOwner' /\ PeersOK'
    BY BackupCases, BackupQuiet, CompleteRoundBackup, RespondBackupStep, BackupStep
  <1> QED
    BY <1>1, <1>2 DEF BackupInv

\* The invariant of the backups holds in every reachable state.
THEOREM BackupInvariance == Spec => []BackupInv
  <1>1. BackupInv /\ [Next]_vars => BackupInv'
    BY BackupNext
  <1> QED
    BY <1>1, BackupInit, PTL DEF Spec

\* Entry j always holds the parameters of the server j + 1 places behind, in a
\* version that server has reached: the order ExtendParameter relies on.
THEOREM BackupsFiled == Spec => []BackupOwner
  BY BackupInvariance, PTL DEF BackupInv

\* No step puts an older copy in the place of a newer one.
LEMMA BackupStepMonotonic ==
  ASSUME BackupInv, [Next]_vars, NEW s \in Servers, NEW j \in 0 .. BackupSize - 1
  PROVE  backup_parameters_[s][j].version <= backup_parameters_'[s][j].version
  <1> DEFINE v == backup_parameters_[s][j].version
  <1>1. v \in Nat
    BY BackupTypes DEF BackupInv, Inv
  <1>2. CASE UNCHANGED backup_parameters_
    BY <1>1, <1>2
  <1>3. ASSUME NEW x \in Servers, NEW t \in Servers, Backup(x, t)
        PROVE  v <= backup_parameters_'[s][j].version
    <2>1. CASE s = x /\ j = BackupIndex(x, t)
      BY <1>3, <2>1, BackupStep
    <2>2. CASE ~ (s = x /\ j = BackupIndex(x, t))
      <3>1. backup_parameters_'[s][j] = backup_parameters_[s][j]
        BY <1>3, <2>2, BackupStep
      <3> QED
        BY <1>1, <3>1
    <2> QED
      BY <2>1, <2>2
  <1>4. ASSUME NEW x \in Servers, NEW t \in Servers, RespondBackup(x, t)
        PROVE  UNCHANGED backup_parameters_
    BY <1>4 DEF RespondBackup, serverVars
  <1>5. ASSUME NEW x \in Servers, NEW a \in Clients, CompleteRound(x, a)
        PROVE  UNCHANGED backup_parameters_
    BY <1>5 DEF CompleteRound
  <1> QED
    BY <1>2, <1>3, <1>4, <1>5, BackupCases

\* Answers to overlapping requests arrive in order: a copy is never replaced by
\* an older one.
THEOREM BackupsOnlyGrow == Spec => BackupMonotonic
  <1>1. BackupInv /\ [Next]_vars =>
          \A s \in Servers, j \in 0 .. BackupSize - 1 :
            backup_parameters_[s][j].version <= backup_parameters_'[s][j].version
    BY BackupStepMonotonic
  <1>2. Spec => [][Next]_vars
    BY DEF Spec
  <1> QED
    BY <1>1, <1>2, BackupInvariance, PTL DEF BackupMonotonic
-----------------------------------------------------------------------------
(* In training: the inductive invariant *)

\* While an agent pushes, every server has room for the update.
Room ==
  \A a \in Agents : phase[a] = "push" =>
    \A d \in ChunkIds : epoch_num_[a] < bottom_version_[Chunks[d]] + Bound

\* No agent has sent a server more than Bound updates that another server has
\* not merged.
SentBounded ==
  \A a \in Agents, c, d \in ChunkIds :
    Sent(a, c) <= bottom_version_[Chunks[d]] + Bound

\* A server without a chunk never merges.
IdleServers ==
  \A s \in Servers :
    (\A c \in ChunkIds : s # Chunks[c]) => bottom_version_[s] = 0

\* The copy that server s keeps of t, once the messages under way are handled,
\* is no older than s itself by more than Bound.
Covered(s, t) ==
  \/ \E i \in 1 .. Len(peers[s][t]) : ~ IsCopy(peers[s][t][i])
  \/ \E i \in 1 .. Len(peers[t][s]) :
       /\ IsCopy(peers[t][s][i])
       /\ bottom_version_[s] <= peers[t][s][i].copy.version + Bound
  \/ bottom_version_[s]
       <= backup_parameters_[s][BackupIndex(s, t)].version + Bound

CopiesCovered ==
  \A c, d \in ChunkIds :
    Keeps(Chunks[c], Chunks[d]) => Covered(Chunks[c], Chunks[d])

LagInv ==
  /\ PSInv
  /\ BackupInv
  /\ Room
  /\ SentBounded
  /\ IdleServers
  /\ CopiesCovered

\* The versions of two servers that receive updates never differ by more than
\* Bound.
ServerSkew ==
  \A c, d \in ChunkIds :
    bottom_version_[Chunks[c]] <= bottom_version_[Chunks[d]] + Bound

-----------------------------------------------------------------------------
(* Its parts, step by step *)

\* A version only grows, one round at a time, and only by a merge.
LEMMA BottomGrows ==
  ASSUME TypeOK, [Next]_vars, NEW s \in Servers
  PROVE  /\ bottom_version_[s] \in Nat
         /\ bottom_version_[s] <= bottom_version_'[s]
         /\ bottom_version_'[s] # bottom_version_[s] =>
              \E a \in Clients : CompleteRound(s, a)
  <1>1. bottom_version_ \in [Servers -> Nat]
    BY DEF TypeOK
  <1>2. CASE UNCHANGED bottom_version_
    BY <1>1, <1>2
  <1>3. ASSUME NEW r \in Servers, NEW a \in Clients, CompleteRound(r, a)
        PROVE  /\ bottom_version_[s] <= bottom_version_'[s]
               /\ bottom_version_'[s] # bottom_version_[s] => CompleteRound(s, a)
    <2>1. bottom_version_' = [bottom_version_ EXCEPT ![r] = @ + 1]
      BY <1>3 DEF CompleteRound, UpdateParameter
    <2> QED
      BY <1>1, <1>3, <2>1
  <1>4. ASSUME NEW r \in Servers, NEW t \in Servers, RespondBackup(r, t) \/ Backup(r, t)
        PROVE  UNCHANGED bottom_version_
    BY <1>4 DEF RespondBackup, Backup, serverVars
  <1> QED
    BY <1>1, <1>2, <1>3, <1>4, BackupCases

\* How an agent moves in its iteration.
LEMMA AgentMoves ==
  ASSUME PSInv, [PSNext]_psVars, NEW a \in Agents
  PROVE  /\ phase'[a] = "push" =>
              \/ phase[a] = "push" /\ epoch_num_'[a] = epoch_num_[a]
              \/ next'[a] = 1
         /\ \A c \in ChunkIds :
              \/ Sent(a, c)' = Sent(a, c)
              \/ phase[a] = "push" /\ Sent(a, c)' = epoch_num_[a] + 1
  <1>0. AgentType
    BY DEF PSInv, PSTypeOK, AgentType
  <1>1. CASE Still(a)
    BY <1>1, AgentStill DEF Still
  <1>2. CASE PullChunk(a)
    <2>1. /\ phase[a] = "pull" /\ phase'[a] # "push" /\ epoch_num_'[a] = epoch_num_[a]
      BY <1>0, <1>2 DEF PullChunk, AgentType
    <2> QED
      BY <2>1 DEF Sent
  <1>3. ASSUME NEW s \in Servers, TakeReply(a, s)
        PROVE  /\ phase[a] = "wait" /\ next'[a] = 1 /\ next[a] = 1
               /\ epoch_num_'[a] = epoch_num_[a]
    BY <1>0, <1>3 DEF TakeReply, AgentType, PSInv, AgentOK
  <1>4. ASSUME NEW s \in Servers, TakeReply(a, s), NEW c \in ChunkIds
        PROVE  Sent(a, c)' = Sent(a, c)
    <2>1. ~ (c < 1)
      BY Constants DEF ChunkIds
    <2> QED
      BY <1>3, <1>4, <2>1 DEF Sent
  <1>5. CASE PushChunk(a)
    <2>1. /\ phase[a] = "push" /\ epoch_num_[a] \in Nat /\ next[a] \in Nat
          /\ \/ epoch_num_'[a] = epoch_num_[a] /\ phase'[a] = "push"
             \/ epoch_num_'[a] = epoch_num_[a] + 1 /\ phase'[a] # "push"
      BY <1>0, <1>5, Constants DEF PushChunk, AgentType
    <2>2. \A c \in ChunkIds :
            Sent(a, c)' \in {epoch_num_[a], epoch_num_[a] + 1}
      BY <2>1 DEF Sent
    <2>3. ASSUME NEW c \in ChunkIds, Sent(a, c)' = epoch_num_[a]
          PROVE  Sent(a, c) = epoch_num_[a]
      <3>1. phase'[a] = "push" /\ epoch_num_'[a] = epoch_num_[a]
        BY <2>1, <2>3 DEF Sent
      <3>2. next'[a] = next[a] + 1
        BY <1>0, <1>5, <2>1, <3>1 DEF PushChunk, AgentType
      <3>3. ~ (c < next[a] + 1) /\ c \in Nat
        BY <2>1, <2>3, <3>1, <3>2, Constants DEF Sent
      <3>4. ~ (c < next[a])
        BY <2>1, <3>3
      <3> QED
        BY <3>4 DEF Sent
    <2> QED
      BY <2>1, <2>2, <2>3
  <1>6. ASSUME NEW b \in Agents, AgentWork(b), b # a
        PROVE  Still(a)
    BY <1>0, <1>6
    DEF AgentWork, PullChunk, PushChunk, TakeReply, AgentType, Still
  <1>7. CASE UNCHANGED agentVars
    BY <1>1, <1>7 DEF agentVars, Still
  <1>8. ASSUME NEW s \in Servers, ServerStep(s) PROVE UNCHANGED agentVars
    BY <1>8 DEF ServerStep
  <1>9. CASE AgentWork(a)
    BY <1>2, <1>3, <1>4, <1>5, <1>9 DEF AgentWork
  <1> QED
    BY <1>1, <1>6, <1>7, <1>8, <1>9 DEF PSNext, psVars

\* Room for the update of an agent that pushes.
LEMMA RoomStep ==
  ASSUME PSInv, PSInv', [PSNext]_psVars, [Next]_vars, Room
  PROVE  Room'
  <1> SUFFICES ASSUME NEW a \in Agents, phase'[a] = "push", NEW d \in ChunkIds
               PROVE  epoch_num_'[a] < bottom_version_'[Chunks[d]] + Bound
    BY DEF Room
  <1> DEFINE s == Chunks[d]
  <1>1. /\ s \in Servers /\ Bound \in Nat /\ TypeOK /\ d >= 1
        /\ epoch_num_[a] \in Nat
    BY Constants DEF PSInv, Inv, PSTypeOK, ChunkIds
  <1>2. CASE phase[a] = "push" /\ epoch_num_'[a] = epoch_num_[a]
    <2>1. epoch_num_[a] < bottom_version_[s] + Bound
      BY <1>2 DEF Room
    <2>2. bottom_version_[s] \in Nat /\ bottom_version_[s] <= bottom_version_'[s]
      BY <1>1, BottomGrows
    <2>3. bottom_version_'[s] \in Nat
      BY <1>1 DEF PSInv, Inv, TypeOK
    <2> HIDE DEF s
    <2> QED
      BY <1>1, <1>2, <2>1, <2>2, <2>3 DEF s
  <1>3. CASE next'[a] = 1
    <2>1. Answered(a, d)'
      BY <1>1, <1>3 DEF Answered
    <2>2. Cleared(a, d)'
      BY DEF PSInv
    <2> QED
      BY <2>1, <2>2 DEF Cleared
  <1> QED
    BY <1>2, <1>3, AgentMoves

\* What an agent sends is bounded by what every server merged.
LEMMA SentStep ==
  ASSUME PSInv, PSInv', [PSNext]_psVars, [Next]_vars, Room, SentBounded
  PROVE  SentBounded'
  <1> SUFFICES ASSUME NEW a \in Agents, NEW c \in ChunkIds, NEW d \in ChunkIds
               PROVE  Sent(a, c)' <= bottom_version_'[Chunks[d]] + Bound
    BY DEF SentBounded
  <1> DEFINE low == bottom_version_[Chunks[d]]
             new == bottom_version_'[Chunks[d]]
  <1>1. /\ Bound \in Nat /\ epoch_num_[a] \in Nat /\ TypeOK /\ Chunks[d] \in Servers
    BY Constants DEF PSInv, Inv, PSTypeOK
  <1>2. low \in Nat /\ low <= new /\ new \in Nat
    BY <1>1, BottomGrows DEF PSInv, Inv, TypeOK
  <1>3. Sent(a, c) <= low + Bound /\ Sent(a, c) \in Nat
    BY <1>1 DEF SentBounded, Sent
  <1>4. phase[a] = "push" => epoch_num_[a] < low + Bound
    BY DEF Room
  <1> HIDE DEF low, new
  <1>5. CASE Sent(a, c)' = Sent(a, c)
    BY <1>1, <1>2, <1>3, <1>5 DEF new
  <1>6. CASE phase[a] = "push" /\ Sent(a, c)' = epoch_num_[a] + 1
    BY <1>1, <1>2, <1>4, <1>6 DEF new
  <1> QED
    BY <1>5, <1>6, AgentMoves

\* The agents keep the servers together.
LEMMA SkewBounded ==
  ASSUME PSInv, SentBounded
  PROVE  ServerSkew
  <1> SUFFICES ASSUME NEW c \in ChunkIds, NEW d \in ChunkIds
               PROVE  bottom_version_[Chunks[c]] <= bottom_version_[Chunks[d]] + Bound
    BY DEF ServerSkew
  <1>1. PICK a \in Agents : TRUE
    BY ServerAssumption
  <1> DEFINE s == Chunks[c]
             t == Chunks[d]
  <1>2. s \in Servers /\ t \in Servers /\ Bound \in Nat /\ Inv /\ epoch_num_[a] \in Nat
    BY Constants DEF PSInv, PSTypeOK
  <1>3. /\ bottom_version_[s] \in Nat /\ bottom_version_[t] \in Nat
        /\ bottom_version_[s] <= Len(accepted[s][a]) /\ Len(accepted[s][a]) \in Nat
    BY <1>2, AcceptedSplit
  <1>4. Len(accepted[s][a]) <= Sent(a, c) /\ Sent(a, c) \in Nat
    <2>1. Conversation(a, c)
      BY DEF PSInv
    <2>2. Sent(a, c) \in Nat
      BY <1>2 DEF Sent
    <2> QED
      BY <2>1, <2>2 DEF Conversation, Talk
  <1>5. Sent(a, c) <= bottom_version_[t] + Bound
    BY DEF SentBounded
  <1> HIDE DEF s, t
  <1>6. bottom_version_[s] <= bottom_version_[t] + Bound
    BY <1>2, <1>3, <1>4, <1>5
  <1> QED
    BY <1>6 DEF s, t

\* Only a server with a chunk merges.
LEMMA IdleStep ==
  ASSUME PSInv, [Next]_vars, IdleServers
  PROVE  IdleServers'
  <1> SUFFICES ASSUME NEW s \in Servers, \A c \in ChunkIds : s # Chunks[c]
               PROVE  bottom_version_'[s] = 0
    BY DEF IdleServers
  <1>1. bottom_version_[s] = 0 /\ TypeOK
    BY DEF IdleServers, PSInv, Inv
  <1>2. ASSUME NEW a \in Clients, CompleteRound(s, a) PROVE FALSE
    BY <1>2 DEF CompleteRound, Receives, PSInv, NoStrayRequest
  <1> QED
    BY <1>1, <1>2, BottomGrows

\* What was in the channel behind its first message is still there.
LEMMA TailKeeps ==
  ASSUME NEW S, NEW q \in Seq(S), q # <<>>, NEW i \in 1 .. Len(q)
  PROVE  \/ i = 1 /\ q[i] = Head(q)
         \/ i - 1 \in 1 .. Len(Tail(q)) /\ Tail(q)[i - 1] = q[i]
  <1>1. /\ Len(q) \in Nat \ {0} /\ Len(Tail(q)) = Len(q) - 1 /\ Head(q) = q[1]
        /\ \A k \in 1 .. Len(Tail(q)) : Tail(q)[k] = q[k + 1]
    BY HeadTail
  <1>2. CASE i # 1
    <2>1. i - 1 \in 1 .. Len(Tail(q)) /\ (i - 1) + 1 = i
      BY <1>1, <1>2
    <2> QED
      BY <1>1, <2>1
  <1> QED
    BY <1>1, <1>2

\* What was in the channel stays there when a message is added.
LEMMA AppendKeeps ==
  ASSUME NEW S, NEW q \in Seq(S), NEW m \in S
  PROVE  /\ \A i \in 1 .. Len(q) :
              i \in 1 .. Len(Append(q, m)) /\ Append(q, m)[i] = q[i]
         /\ Len(q) + 1 \in 1 .. Len(Append(q, m))
         /\ Append(q, m)[Len(q) + 1] = m
  <1>1. Len(q) \in Nat
    BY LenProperties
  <1> QED
    BY <1>1, AppendOne

\* A copy that is covered stays so: a merge sends a new request, an answer to
\* it is recent enough, and a copy on its way is stored in the end.
LEMMA CoveredStep ==
  ASSUME BackupInv, [Next]_vars, NEW s \in Servers, NEW t \in Servers,
         Keeps(s, t), Covered(s, t),
         bottom_version_[s] <= bottom_version_[t] + Bound
  PROVE  Covered(s, t)'
  <1> DEFINE out == peers[s][t]
             in == peers[t][s]
             k == BackupIndex(s, t)
             low == bottom_version_[s]
  <1>1. /\ out \in Seq(PeerMessage) /\ in \in Seq(PeerMessage)
        /\ Len(out) \in Nat /\ Len(in) \in Nat
        /\ \A r \in Servers : bottom_version_[r] \in Nat
        /\ peers \in [Servers -> [Servers -> Seq(PeerMessage)]]
    BY BackupTypes DEF BackupInv, Inv, TypeOK
  <1>2. k \in 0 .. BackupSize - 1 /\ s # t /\ Bound \in Nat /\ low \in Nat
    BY <1>1, KeepsIndex, Constants
  <1>3. \/ \E i \in 1 .. Len(out) : ~ IsCopy(out[i])
        \/ \E i \in 1 .. Len(in) : IsCopy(in[i]) /\ low <= in[i].copy.version + Bound
        \/ low <= backup_parameters_[s][k].version + Bound
    BY DEF Covered
  <1>4. SUFFICES
          \/ \E i \in 1 .. Len(peers'[s][t]) : ~ IsCopy(peers'[s][t][i])
          \/ \E i \in 1 .. Len(peers'[t][s]) :
               /\ IsCopy(peers'[t][s][i])
               /\ bottom_version_'[s] <= peers'[t][s][i].copy.version + Bound
          \/ bottom_version_'[s] <= backup_parameters_'[s][k].version + Bound
    BY DEF Covered, BackupIndex
  <1> DEFINE Goal ==
          \/ \E i \in 1 .. Len(peers'[s][t]) : ~ IsCopy(peers'[s][t][i])
          \/ \E i \in 1 .. Len(peers'[t][s]) :
               /\ IsCopy(peers'[t][s][i])
               /\ bottom_version_'[s] <= peers'[t][s][i].copy.version + Bound
          \/ bottom_version_'[s] <= backup_parameters_'[s][k].version + Bound
  <1>5. CASE UNCHANGED <<peers, backup_parameters_, bottom_version_>>
    BY <1>3, <1>5
  <1>6. ASSUME NEW r \in Servers, NEW a \in Clients, CompleteRound(r, a)
        PROVE  Goal
    <2> DEFINE request == [type |-> "backup_request"]
    <2>1. /\ peers' = [peers EXCEPT ![r] = [x \in Servers |->
               IF Keeps(r, x) THEN Append(peers[r][x], request) ELSE peers[r][x]]]
          /\ bottom_version_' = [bottom_version_ EXCEPT ![r] = @ + 1]
          /\ backup_parameters_' = backup_parameters_
      BY <1>6 DEF CompleteRound, UpdateParameter, RequestBackup, Keeps
    <2>2. request \in PeerMessage /\ ~ IsCopy(request)
      BY DEF PeerMessage, IsCopy
    <2> HIDE DEF request
    <2>3. CASE r = s
      <3>1. peers'[s][t] = Append(out, request)
        BY <1>1, <2>1, <2>3
      <3> HIDE DEF out
      <3>2. /\ Len(out) + 1 \in 1 .. Len(Append(out, request))
            /\ Append(out, request)[Len(out) + 1] = request
        BY <1>1, <2>2, AppendKeeps
      <3> QED
        BY <2>2, <3>1, <3>2
    <2>4. CASE r # s
      <3>1. peers'[s][t] = out /\ bottom_version_'[s] = low
        BY <1>1, <2>1, <2>4 DEF BackupInv, Inv, TypeOK
      <3>2. peers'[t][s] = in \/ peers'[t][s] = Append(in, request)
        BY <1>1, <2>1
      <3>3. \A i \in 1 .. Len(in) :
              i \in 1 .. Len(peers'[t][s]) /\ peers'[t][s][i] = in[i]
        <4> HIDE DEF in
        <4>1. \A i \in 1 .. Len(in) :
                /\ i \in 1 .. Len(Append(in, request))
                /\ Append(in, request)[i] = in[i]
          BY <1>1, <2>2, AppendKeeps
        <4> QED
          BY <3>2, <4>1
      <3> QED
        BY <1>3, <2>1, <3>1, <3>3
    <2> QED
      BY <2>3, <2>4
  <1>7. ASSUME NEW r \in Servers, NEW x \in Servers, RespondBackup(r, x)
        PROVE  Goal
    <2> DEFINE answer == [type |-> "parameters",
                          copy |-> [owner |-> r, version |-> bottom_version_[r]]]
    <2>1. /\ peers'[x][r] = Tail(peers[x][r])
          /\ peers'[r][x] = Append(peers[r][x], answer)
          /\ \A y, z \in Servers : <<y, z>> # <<x, r>> /\ <<y, z>> # <<r, x>> =>
               peers'[y][z] = peers[y][z]
      BY <1>7, RespondBackupStep
    <2>2. /\ peers[x][r] # <<>> /\ ~ IsCopy(Head(peers[x][r]))
          /\ UNCHANGED <<bottom_version_, backup_parameters_>>
      BY <1>7 DEF RespondBackup, IsCopy, serverVars
    <2>3. /\ answer \in PeerMessage /\ IsCopy(answer)
          /\ answer.copy.version = bottom_version_[r]
      BY <1>1 DEF PeerMessage, IsCopy, Copy
    <2> HIDE DEF answer
    <2>4. CASE x = s /\ r = t
      <3>1. peers'[t][s] = Append(in, answer)
        BY <2>1, <2>4
      <3>2. /\ Len(in) + 1 \in 1 .. Len(peers'[t][s])
            /\ peers'[t][s][Len(in) + 1] = answer
        BY <1>1, <2>3, <3>1, AppendKeeps
      <3> QED
        BY <2>2, <2>3, <2>4, <3>2
    <2>5. CASE x = t /\ r = s
      <3>1. \A i \in 1 .. Len(out) :
              i \in 1 .. Len(peers'[s][t]) /\ peers'[s][t][i] = out[i]
        <4>1. peers'[s][t] = Append(out, answer)
          BY <2>1, <2>5
        <4> HIDE DEF out
        <4>2. \A i \in 1 .. Len(out) :
                /\ i \in 1 .. Len(Append(out, answer))
                /\ Append(out, answer)[i] = out[i]
          BY <1>1, <2>3, AppendKeeps
        <4> QED
          BY <4>1, <4>2
      <3>2. ASSUME NEW i \in 1 .. Len(in), IsCopy(in[i])
            PROVE  i - 1 \in 1 .. Len(peers'[t][s]) /\ peers'[t][s][i - 1] = in[i]
        <4>1. peers'[t][s] = Tail(in) /\ in # <<>> /\ ~ IsCopy(Head(in))
          BY <2>1, <2>2, <2>5
        <4> HIDE DEF in
        <4>2. \/ i = 1 /\ in[i] = Head(in)
              \/ i - 1 \in 1 .. Len(Tail(in)) /\ Tail(in)[i - 1] = in[i]
          BY <1>1, <4>1, TailKeeps
        <4> QED
          BY <3>2, <4>1, <4>2
      <3> QED
        BY <1>3, <2>2, <3>1, <3>2
    <2>6. CASE <<s, t>> # <<x, r>> /\ <<s, t>> # <<r, x>>
      <3>1. peers'[s][t] = out /\ peers'[t][s] = in
        BY <2>1, <2>6
      <3> QED
        BY <1>3, <2>2, <3>1
    <2> QED
      BY <2>4, <2>5, <2>6
  <1>8. ASSUME NEW r \in Servers, NEW x \in Servers, Backup(r, x)
        PROVE  Goal
    <2> DEFINE copy == Head(peers[x][r]).copy
    <2>1. /\ Keeps(r, x)
          /\ peers'[x][r] = Tail(peers[x][r])
          /\ \A y, z \in Servers : <<y, z>> # <<x, r>> => peers'[y][z] = peers[y][z]
          /\ backup_parameters_'[r][BackupIndex(r, x)] = copy
          /\ backup_parameters_[r][BackupIndex(r, x)].version <= copy.version
          /\ \A y \in Servers, j \in 0 .. BackupSize - 1 :
               <<y, j>> # <<r, BackupIndex(r, x)>> =>
                 backup_parameters_'[y][j] = backup_parameters_[y][j]
      BY <1>8, BackupStep
    <2>2. /\ peers[x][r] # <<>> /\ IsCopy(Head(peers[x][r]))
          /\ UNCHANGED bottom_version_
      BY <1>8 DEF Backup, IsCopy
    <2>3. CASE r = s /\ x = t
      <3>1. peers'[s][t] = out
        BY <1>2, <2>1, <2>3
      <3>2. \A i \in 1 .. Len(in) :
              \/ in[i] = Head(in)
              \/ i - 1 \in 1 .. Len(peers'[t][s]) /\ peers'[t][s][i - 1] = in[i]
        <4>1. peers'[t][s] = Tail(in) /\ in # <<>>
          BY <2>1, <2>2, <2>3
        <4> HIDE DEF in
        <4>2. \A i \in 1 .. Len(in) :
                \/ i = 1 /\ in[i] = Head(in)
                \/ i - 1 \in 1 .. Len(Tail(in)) /\ Tail(in)[i - 1] = in[i]
          BY <1>1, <4>1, TailKeeps
        <4> QED
          BY <4>1, <4>2
      <3>3. /\ backup_parameters_'[s][k] = Head(in).copy
            /\ backup_parameters_[s][k].version <= Head(in).copy.version
        BY <2>1, <2>3
      <3>4. /\ backup_parameters_[s][k].version \in Nat
            /\ Head(in).copy.version \in Nat
        <4>1. Head(in) \in PeerMessage
          BY <1>1, <2>2, <2>3, HeadTail
        <4> QED
          BY <1>2, <2>2, <2>3, <4>1, BackupTypes
          DEF BackupInv, Inv, PeerMessage, IsCopy, Copy
      <3>5. CASE \E i \in 1 .. Len(out) : ~ IsCopy(out[i])
        BY <3>1, <3>5
      <3>6. CASE \E i \in 1 .. Len(in) :
                   IsCopy(in[i]) /\ low <= in[i].copy.version + Bound
        BY <2>2, <3>2, <3>3, <3>6
      <3>7. CASE low <= backup_parameters_[s][k].version + Bound
        <4>1. low <= Head(in).copy.version + Bound
          BY <1>2, <3>3, <3>4, <3>7
        <4> QED
          BY <2>2, <3>3, <4>1
      <3> QED
        BY <1>3, <3>5, <3>6, <3>7
    <2>4. CASE r = t /\ x = s
      <3>1. peers'[t][s] = in /\ backup_parameters_'[s][k] = backup_parameters_[s][k]
        BY <1>2, <2>1, <2>4
      <3>2. ASSUME NEW i \in 1 .. Len(out), ~ IsCopy(out[i])
            PROVE  i - 1 \in 1 .. Len(peers'[s][t]) /\ peers'[s][t][i - 1] = out[i]
        <4>1. peers'[s][t] = Tail(out) /\ out # <<>> /\ IsCopy(Head(out))
          BY <2>1, <2>2, <2>4
        <4> HIDE DEF out
        <4>2. \/ i = 1 /\ out[i] = Head(out)
              \/ i - 1 \in 1 .. Len(Tail(out)) /\ Tail(out)[i - 1] = out[i]
          BY <1>1, <4>1, TailKeeps
        <4> QED
          BY <3>2, <4>1, <4>2
      <3> QED
        BY <1>3, <2>2, <3>1, <3>2
    <2>5. CASE ~ (r = s /\ x = t) /\ ~ (r = t /\ x = s)
      <3>1. peers'[s][t] = out /\ peers'[t][s] = in
        BY <2>1, <2>5
      <3>2. <<s, k>> # <<r, BackupIndex(r, x)>>
        BY <2>1, <2>5, KeepsIndex
      <3>3. backup_parameters_'[s][k] = backup_parameters_[s][k]
        BY <1>2, <2>1, <3>2
      <3> QED
        BY <1>3, <2>2, <3>1, <3>3
    <2> QED
      BY <2>3, <2>4, <2>5
  <1> QED
    BY <1>5, <1>6, <1>7, <1>8, BackupCases

-----------------------------------------------------------------------------
(* How far copies lag *)

\* Initially nothing is merged and every copy is of version 0.
LEMMA LagInit == PSInit => LagInv
  <1> SUFFICES ASSUME PSInit PROVE LagInv
    OBVIOUS
  <1>1. PSInv /\ BackupInv
    BY PSInitInv, BackupInit DEF PSInit
  <1>2. /\ \A a \in Agents : phase[a] = "pull" /\ epoch_num_[a] = 0
        /\ \A s \in Servers : bottom_version_[s] = 0
        /\ \A c \in ChunkIds : Chunks[c] \in Servers
        /\ Bound \in Nat
    BY Constants DEF PSInit, Init
  <1>3. Room /\ IdleServers
    BY <1>2 DEF Room, IdleServers
  <1>4. SentBounded
    BY <1>2 DEF SentBounded, Sent
  <1>5. ASSUME NEW c \in ChunkIds, NEW d \in ChunkIds, Keeps(Chunks[c], Chunks[d])
        PROVE  Covered(Chunks[c], Chunks[d])
    <2>1. backup_parameters_[Chunks[c]][BackupIndex(Chunks[c], Chunks[d])].version \in Nat
      BY <1>1, <1>2, <1>5, StoredVersion
    <2> QED
      BY <1>2, <2>1 DEF Covered
  <1> QED
    BY <1>1, <1>3, <1>4, <1>5 DEF LagInv, CopiesCovered

\* Every step of the training loop keeps servers and copies together.
LEMMA LagNext ==
  ASSUME OneChunkPerServer, LagInv, [PSNext]_psVars
  PROVE  LagInv'
  <1>1. PSInv' /\ [Next]_vars
    <2>1. LoopInv
      BY DEF LagInv, PSInv, PSTypeOK, AgentOK, LoopInv, AgentType
    <2> QED
      BY <2>1, PSNextInv, LoopStep DEF LagInv
  <1>2. BackupInv'
    BY <1>1, BackupNext DEF LagInv
  <1>3. Room' /\ SentBounded' /\ IdleServers'
    BY <1>1, RoomStep, SentStep, IdleStep DEF LagInv
  <1>4. CopiesCovered'
    <2>1. ServerSkew
      BY SkewBounded DEF LagInv
    <2>2. ASSUME NEW c \in ChunkIds, NEW d \in ChunkIds,
                 Keeps(Chunks[c], Chunks[d])
          PROVE  Covered(Chunks[c], Chunks[d])'
      <3>1. Covered(Chunks[c], Chunks[d])
        BY <2>2 DEF LagInv, CopiesCovered
      <3>2. Chunks[c] \in Servers /\ Chunks[d] \in Servers
        BY Constants
      <3>3. bottom_version_[Chunks[c]] <= bottom_version_[Chunks[d]] + Bound
        BY <2>1 DEF ServerSkew
      <3> QED
        BY <1>1, <2>2, <3>1, <3>2, <3>3, CoveredStep DEF LagInv
    <2> QED
      BY <2>2 DEF CopiesCovered, Keeps, Behind
  <1> QED
    BY <1>1, <1>2, <1>3, <1>4 DEF LagInv

\* The invariant of the copies holds in every reachable state of the training.
LEMMA LagInvariance ==
  ASSUME OneChunkPerServer PROVE PSSpec => []LagInv
  <1>1. LagInv /\ [PSNext]_psVars => LagInv'
    BY LagNext
  <1> QED
    BY <1>1, LagInit, PTL DEF PSSpec

\* The servers stay within Bound rounds of each other.
THEOREM ServersTogether ==
  ASSUME OneChunkPerServer PROVE PSSpec => []ServerSkew
  <1>1. LagInv => ServerSkew
    BY SkewBounded DEF LagInv
  <1> QED
    BY <1>1, LagInvariance, PTL

\* A copy that nothing under way concerns is at most 2 * Bound rounds behind.
LEMMA LagBounded == LagInv => BackupLag
  <1> SUFFICES ASSUME LagInv, NEW c \in ChunkIds, NEW j \in 0 .. BackupSize - 1,
                      peers[Chunks[c]][Behind(Chunks[c], j + 1)] = <<>>,
                      peers[Behind(Chunks[c], j + 1)][Chunks[c]] = <<>>
               PROVE  bottom_version_[Behind(Chunks[c], j + 1)]
                        - backup_parameters_[Chunks[c]][j].version <= 2 * Bound
    BY DEF BackupLag, ChunkIds
  <1> DEFINE s == Chunks[c]
             t == Behind(s, j + 1)
             v == backup_parameters_[s][j].version
  <1>1. s \in Servers /\ t \in Servers /\ Bound \in Nat
    BY BehindType, Constants
  <1>2. Keeps(s, t) /\ j = BackupIndex(s, t)
    BY <1>1, Ring
  <1>3. /\ v \in Nat /\ bottom_version_[s] \in Nat /\ bottom_version_[t] \in Nat
    BY <1>1, BackupTypes DEF LagInv, BackupInv, Inv, TypeOK
  <1>4. CASE \E d \in ChunkIds : t = Chunks[d]
    <2>1. PICK d \in ChunkIds : t = Chunks[d]
      BY <1>4
    <2>2. Covered(s, t)
      BY <1>2, <2>1 DEF LagInv, CopiesCovered
    <2>3. bottom_version_[s] <= v + Bound
      <3>1. Len(peers[s][t]) = 0 /\ Len(peers[t][s]) = 0
        OBVIOUS
      <3>2. \A i : i \notin 1 .. 0
        OBVIOUS
      <3> QED
        BY <1>2, <2>2, <3>1, <3>2 DEF Covered
    <2>4. bottom_version_[t] <= bottom_version_[s] + Bound
      BY <2>1, SkewBounded DEF LagInv, ServerSkew
    <2> HIDE DEF s, t, v
    <2>5. bottom_version_[t] - v <= 2 * Bound
      BY <1>1, <1>3, <2>3, <2>4
    <2> QED
      BY <2>5 DEF s, t, v
  <1>5. CASE \A d \in ChunkIds : t # Chunks[d]
    <2>1. bottom_version_[t] = 0
      BY <1>1, <1>5 DEF LagInv, IdleServers
    <2> HIDE DEF s, t, v
    <2>2. bottom_version_[t] - v <= 2 * Bound
      BY <1>1, <1>3, <2>1
    <2> QED
      BY <2>2 DEF s, t, v
  <1> QED
    BY <1>4, <1>5

\* The backups are recent: when the requests and answers between two servers
\* are handled, the copy misses at most 2 * Bound of its owner's rounds.
THEOREM BackupsRecent ==
  ASSUME OneChunkPerServer PROVE PSSpec => []BackupLag
  BY LagInvariance, LagBounded, PTL
=============================================================================
