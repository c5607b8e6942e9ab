----------------------- MODULE ParameterServerProofs ------------------------
(***************************************************************************)
(* The training loop for every number of agents, servers and iterations,   *)
(* every consistency bound and every key list whose chunks go to distinct  *)
(* servers.                                                                *)
(***************************************************************************)
EXTENDS ParameterServer, ServerProofs

\* The key list does not wrap around the partition: no server has two chunks.
OneChunkPerServer ==
  \A c, d \in 1 .. Len(Chunks) : Chunks[c] = Chunks[d] => c = d

ChunkIds == 1 .. Len(Chunks)

Chunk(e, c) == [epoch |-> e, chunk |-> c]

-----------------------------------------------------------------------------
(* The inductive invariant *)

\* The updates of chunk c that agent a has sent so far.
Sent(a, c) ==
  IF phase[a] = "push" /\ c < next[a] THEN epoch_num_[a] + 1 ELSE epoch_num_[a]

\* The pulls of chunk c that agent a has sent and has no reply to yet.
Asked(a, c) ==
  IF \/ phase[a] = "pull" /\ c < next[a]
     \/ phase[a] = "wait" /\ Chunks[c] \in server_set[a]
  THEN 1 ELSE 0

\* Agent a has the reply for chunk c and has not sent the update yet.
Answered(a, c) ==
  \/ phase[a] = "wait" /\ Chunks[c] \notin server_set[a]
  \/ phase[a] = "push" /\ c >= next[a]

\* What is under way between an agent in iteration e and the server of its
\* chunk c: at most one update, then at most one pull, which is on its way,
\* blocked or answered.  The update on its way finds room in the buffer.
Talk(req, blk, rep, acc, low, e, sent, asked, c) ==
  /\ acc <= sent /\ sent <= acc + 1
  /\ acc < sent => acc < low + Bound
  /\ sent - acc <= Len(req)
  /\ Len(req) + Len(blk) + Len(rep) = (sent - acc) + asked
  /\ asked = 1 => sent = e
  /\ Len(blk) + Len(rep) > 0 => acc = sent
  /\ \A i \in 1 .. Len(req) :
       req[i] = IF i <= sent - acc
                THEN [type |-> "push", block |-> Chunk(sent - 1, c)]
                ELSE [type |-> "pull", block |-> Chunk(e, c)]
  /\ \A i \in 1 .. Len(blk) : blk[i] = Chunk(e, c)
  /\ \A i \in 1 .. Len(rep) :
       /\ rep[i].block = Chunk(e, c)
       /\ e < rep[i].version + Bound
       /\ rep[i].version <= low

Conversation(a, c) ==
  LET s == Chunks[c]
  IN  Talk(requests[a][s], pull_request_[s][a], replies[s][a],
           Len(accepted[s][a]), bottom_version_[s],
           epoch_num_[a], Sent(a, c), Asked(a, c), c)

\* An agent that has a reply for chunk c may push: its last update arrived and
\* there is room for one more.
Cleared(a, c) ==
  LET s == Chunks[c]
  IN  Answered(a, c) =>
        /\ Len(accepted[s][a]) = epoch_num_[a]
        /\ epoch_num_[a] < bottom_version_[s] + Bound

\* What agent a remembers in each phase of its iteration.
AgentOK(a) ==
  LET e == epoch_num_[a]
      open == server_set[a]
  IN  /\ phase[a] # "done" => e < MaxIter
      /\ phase[a] = "pull" => open = {Chunks[c] : c \in 1 .. next[a] - 1}
      /\ phase[a] = "wait" => next[a] = 1 /\ open \subseteq {Chunks[c] : c \in ChunkIds}
      /\ phase[a] \in {"push", "done"} => open = {}
      /\ phase[a] = "done" => next[a] = 1
      /\ phase[a] \in {"wait", "push"} =>
           /\ {r.block : r \in pulled[a]} =
                {Chunk(e, c) : c \in {d \in ChunkIds : Chunks[d] \notin open}}
           /\ \A r \in pulled[a] : e < r.version + Bound

\* Agents talk to the servers of their chunks only.
NoStrayRequest ==
  \A a \in Agents, s \in Servers :
    requests[a][s] # <<>> => \E c \in ChunkIds : s = Chunks[c]

\* The k-th update a server accepts from an agent is its chunk of iteration k.
InStep ==
  \A a \in Agents, c \in ChunkIds :
    \A k \in 1 .. Len(accepted[Chunks[c]][a]) :
      accepted[Chunks[c]][a][k] = Chunk(k - 1, c)

PSInv ==
  /\ Inv
  /\ PSTypeOK
  /\ NoStrayRequest
  /\ InStep
  /\ \A a \in Agents : AgentOK(a)
  /\ \A a \in Agents, c \in ChunkIds : Conversation(a, c) /\ Cleared(a, c)

-----------------------------------------------------------------------------
(* How a conversation goes on *)

\* The types of the arguments of Talk.
TalkType(req, blk, rep, acc, low, e, sent, asked) ==
  /\ req \in Seq(Request) /\ blk \in Seq(Blocks) /\ rep \in Seq(Reply)
  /\ acc \in Nat /\ low \in Nat /\ e \in Nat /\ sent \in Nat
  /\ asked \in {0, 1}

\* The lengths of the three queues of a conversation.
LEMMA TalkLen ==
  ASSUME NEW req, NEW blk, NEW rep, NEW acc, NEW low, NEW e, NEW sent,
         NEW asked, TalkType(req, blk, rep, acc, low, e, sent, asked)
  PROVE  /\ Len(req) \in Nat /\ Len(blk) \in Nat /\ Len(rep) \in Nat
         /\ (req = <<>> <=> Len(req) = 0)
         /\ (blk = <<>> <=> Len(blk) = 0)
         /\ (rep = <<>> <=> Len(rep) = 0)
  BY LenProperties, EmptySeq DEF TalkType

\* An update reaches the server: there is room for it, and nothing else was
\* ahead of it.
LEMMA TalkPush ==
  ASSUME NEW req, NEW blk, NEW rep, NEW acc, NEW low, NEW e, NEW sent,
         NEW asked, NEW c, TalkType(req, blk, rep, acc, low, e, sent, asked),
         Talk(req, blk, rep, acc, low, e, sent, asked, c),
         req # <<>>, Head(req).type = "push"
  PROVE  /\ acc < low + Bound
         /\ Head(req).block = Chunk(acc, c)
         /\ Talk(Tail(req), blk, rep, acc + 1, low, e, sent, asked, c)
  <1>1. /\ Len(req) \in Nat \ {0} /\ Len(Tail(req)) = Len(req) - 1
        /\ Head(req) = req[1]
        /\ \A i \in 1 .. Len(Tail(req)) : Tail(req)[i] = req[i + 1]
    BY HeadTail DEF TalkType
  <1>2. Len(blk) \in Nat /\ Len(rep) \in Nat
    BY TalkLen
  <1>3. /\ acc \in Nat /\ sent \in Nat /\ low \in Nat /\ Bound \in Nat
        /\ asked \in {0, 1}
    BY ServerAssumption DEF TalkType
  <1>4. 1 <= sent - acc
    <2> SUFFICES ASSUME ~ (1 <= sent - acc) PROVE FALSE
      OBVIOUS
    <2>1. req[1] = [type |-> "pull", block |-> Chunk(e, c)]
      BY <1>1 DEF Talk
    <2> QED
      BY <1>1, <2>1
  <1>5. sent = acc + 1 /\ acc < low + Bound
    BY <1>3, <1>4 DEF Talk
  <1>6. req[1] = [type |-> "push", block |-> Chunk(sent - 1, c)]
    BY <1>1, <1>4 DEF Talk
  <1>7. Head(req).block = Chunk(acc, c)
    BY <1>1, <1>3, <1>5, <1>6
  <1>8. \A i \in 1 .. Len(Tail(req)) :
          Tail(req)[i] = [type |-> "pull", block |-> Chunk(e, c)]
    <2> TAKE i \in 1 .. Len(Tail(req))
    <2>1. i + 1 \in 1 .. Len(req) /\ ~ (i + 1 <= sent - acc)
      BY <1>1, <1>3, <1>5
    <2> QED
      BY <1>1, <2>1 DEF Talk
  <1>9. /\ Len(blk) + Len(rep) > 0 => FALSE
        /\ Len(Tail(req)) + Len(blk) + Len(rep) = asked
    BY <1>1, <1>2, <1>3, <1>5 DEF Talk
  <1> QED
    BY <1>1, <1>2, <1>3, <1>5, <1>7, <1>8, <1>9 DEF Talk

\* A pull reaches the server: all updates arrived before it, and it is the
\* only message under way.
LEMMA TalkPull ==
  ASSUME NEW req, NEW blk, NEW rep, NEW acc, NEW low, NEW e, NEW sent,
         NEW asked, NEW c, TalkType(req, blk, rep, acc, low, e, sent, asked),
         Talk(req, blk, rep, acc, low, e, sent, asked, c),
         req # <<>>, Head(req).type = "pull"
  PROVE  /\ acc = sent /\ sent = e /\ asked = 1
         /\ Head(req).block = Chunk(e, c)
         /\ Len(Tail(req)) = 0 /\ blk = <<>> /\ rep = <<>>
  <1>1. /\ Len(req) \in Nat \ {0} /\ Len(Tail(req)) = Len(req) - 1
        /\ Head(req) = req[1]
    BY HeadTail DEF TalkType
  <1>2. Len(blk) \in Nat /\ Len(rep) \in Nat
    BY TalkLen
  <1>3. acc \in Nat /\ sent \in Nat /\ asked \in {0, 1}
    BY DEF TalkType
  <1>4. ~ (1 <= sent - acc)
    <2> SUFFICES ASSUME 1 <= sent - acc PROVE FALSE
      OBVIOUS
    <2>1. req[1] = [type |-> "push", block |-> Chunk(sent - 1, c)]
      BY <1>1 DEF Talk
    <2> QED
      BY <1>1, <2>1
  <1>5. req[1] = [type |-> "pull", block |-> Chunk(e, c)]
    BY <1>1, <1>4 DEF Talk
  <1>6. acc = sent
    BY <1>3, <1>4 DEF Talk
  <1>7. asked = 1 /\ Len(req) = 1 /\ Len(blk) = 0 /\ Len(rep) = 0
    BY <1>1, <1>2, <1>3, <1>6 DEF Talk
  <1> QED
    BY <1>1, <1>5, <1>6, <1>7, TalkLen DEF Talk

\* The server blocks the pull.
LEMMA TalkBlock ==
  ASSUME NEW req, NEW blk, NEW rep, NEW acc, NEW low, NEW e, NEW sent,
         NEW asked, NEW c, TalkType(req, blk, rep, acc, low, e, sent, asked),
         Talk(req, blk, rep, acc, low, e, sent, asked, c),
         req # <<>>, Head(req).type = "pull"
  PROVE  Talk(Tail(req), Append(blk, Head(req).block), rep,
              acc, low, e, sent, asked, c)
  <1>1. /\ acc = sent /\ sent = e /\ asked = 1
        /\ Head(req).block = Chunk(e, c)
        /\ Len(Tail(req)) = 0 /\ blk = <<>> /\ rep = <<>>
    BY TalkPull
  <1>2. /\ Len(Append(blk, Head(req).block)) = 1
        /\ Append(blk, Head(req).block)[1] = Head(req).block
    BY <1>1
  <1>3. acc \in Nat /\ low \in Nat /\ Bound \in Nat /\ Len(rep) = 0
    BY <1>1, ServerAssumption DEF TalkType
  <1> QED
    BY <1>1, <1>2, <1>3 DEF Talk

\* The server answers the pull at once.
LEMMA TalkAnswer ==
  ASSUME NEW req, NEW blk, NEW rep, NEW acc, NEW low, NEW e, NEW sent,
         NEW asked, NEW c, TalkType(req, blk, rep, acc, low, e, sent, asked),
         Talk(req, blk, rep, acc, low, e, sent, asked, c),
         req # <<>>, Head(req).type = "pull", acc < low + Bound
  PROVE  Talk(Tail(req), blk,
              Append(rep, [block |-> Head(req).block, version |-> low]),
              acc, low, e, sent, asked, c)
  <1> DEFINE reply == [block |-> Head(req).block, version |-> low]
  <1>1. /\ acc = sent /\ sent = e /\ asked = 1
        /\ Head(req).block = Chunk(e, c)
        /\ Len(Tail(req)) = 0 /\ blk = <<>> /\ rep = <<>>
    BY TalkPull
  <1>2. Len(Append(rep, reply)) = 1 /\ Append(rep, reply)[1] = reply
    BY <1>1
  <1>3. acc \in Nat /\ low \in Nat /\ Bound \in Nat /\ Len(blk) = 0
    BY <1>1, ServerAssumption DEF TalkType
  <1>4. reply.block = Chunk(e, c) /\ reply.version = low
    BY <1>1
  <1> HIDE DEF reply
  <1>5. Talk(Tail(req), blk, Append(rep, reply), acc, low, e, sent, asked, c)
    BY <1>1, <1>2, <1>3, <1>4 DEF Talk
  <1> QED
    BY <1>5 DEF reply

\* The server merges a round and answers the blocked pull.
LEMMA TalkMerge ==
  ASSUME NEW req, NEW blk, NEW rep, NEW acc, NEW low, NEW e, NEW sent,
         NEW asked, NEW c, TalkType(req, blk, rep, acc, low, e, sent, asked),
         Talk(req, blk, rep, acc, low, e, sent, asked, c),
         acc <= low + Bound,
         NEW answers \in Seq(Reply), Len(answers) = Len(blk),
         \A i \in 1 .. Len(blk) :
           answers[i] = [block |-> blk[i], version |-> low + 1]
  PROVE  Talk(req, <<>>, rep \o answers, acc, low + 1, e, sent, asked, c)
  <1>1. Len(req) \in Nat /\ Len(blk) \in Nat /\ Len(rep) \in Nat
    BY TalkLen
  <1>2. /\ acc \in Nat /\ sent \in Nat /\ low \in Nat /\ Bound \in Nat
        /\ e \in Nat /\ asked \in {0, 1}
    BY ServerAssumption DEF TalkType
  <1>3. /\ Len(rep \o answers) = Len(rep) + Len(answers)
        /\ \A i \in 1 .. Len(rep) + Len(answers) :
             (rep \o answers)[i] = IF i <= Len(rep) THEN rep[i]
                                                    ELSE answers[i - Len(rep)]
    <2>1. rep \in Seq(Reply)
      BY DEF TalkType
    <2> QED
      BY <2>1, ConcatProperties
  <1>4. ASSUME NEW i \in 1 .. Len(rep \o answers)
        PROVE  /\ (rep \o answers)[i].block = Chunk(e, c)
               /\ e < (rep \o answers)[i].version + Bound
               /\ (rep \o answers)[i].version <= low + 1
    <2>1. CASE i <= Len(rep)
      <3>1. (rep \o answers)[i] = rep[i] /\ i \in 1 .. Len(rep)
        BY <1>1, <1>3, <2>1
      <3>2. rep[i] \in Reply
        BY <3>1, ElementOfSeq DEF TalkType
      <3>3. /\ rep[i].block = Chunk(e, c)
            /\ e < rep[i].version + Bound /\ rep[i].version <= low
        BY <3>1 DEF Talk
      <3> QED
        BY <1>2, <3>1, <3>2, <3>3 DEF Reply
    <2>2. CASE ~ (i <= Len(rep))
      <3> DEFINE j == i - Len(rep)
      <3>1. (rep \o answers)[i] = answers[j] /\ j \in 1 .. Len(blk)
        BY <1>1, <1>3, <2>2
      <3> HIDE DEF j
      <3>2. answers[j].block = blk[j] /\ answers[j].version = low + 1
        <4>1. answers[j] = [block |-> blk[j], version |-> low + 1]
          BY <3>1
        <4> QED
          BY <4>1
      <3>3. blk[j] = Chunk(e, c) /\ acc = sent /\ asked = 1
        BY <1>1, <1>2, <3>1, SMTT(20) DEF Talk
      <3>4. e = acc
        BY <3>3 DEF Talk
      <3>5. e < low + 1 + Bound
        BY <1>2, <3>4
      <3> QED
        BY <1>2, <3>1, <3>2, <3>3, <3>5
    <2> QED
      BY <2>1, <2>2
  <1>5. Len(<<>>) = 0
    OBVIOUS
  <1>6. Len(req) + Len(<<>>) + Len(rep \o answers) = (sent - acc) + asked
    BY <1>1, <1>2, <1>3, <1>5 DEF Talk
  <1>7. Len(<<>>) + Len(rep \o answers) > 0 => acc = sent
    BY <1>1, <1>3, <1>5 DEF Talk
  <1>8. acc < sent => acc < low + 1 + Bound
    BY <1>2 DEF Talk
  <1> HIDE DEF TalkType
  <1> QED
    BY <1>4, <1>5, <1>6, <1>7, <1>8 DEF Talk

\* The agent asks for its chunk.
LEMMA TalkSendPull ==
  ASSUME NEW req, NEW blk, NEW rep, NEW acc, NEW low, NEW e, NEW sent, NEW c,
         TalkType(req, blk, rep, acc, low, e, sent, 0),
         Talk(req, blk, rep, acc, low, e, sent, 0, c), sent = e,
         Chunk(e, c) \in Blocks
  PROVE  Talk(Append(req, [type |-> "pull", block |-> Chunk(e, c)]), blk, rep,
              acc, low, e, sent, 1, c)
  <1> DEFINE pull == [type |-> "pull", block |-> Chunk(e, c)]
  <1>1. pull \in Request
    BY DEF Request
  <1>2. pull = [type |-> "pull", block |-> Chunk(e, c)]
    OBVIOUS
  <1> HIDE DEF pull
  <1>3. /\ Len(Append(req, pull)) = Len(req) + 1
        /\ \A i \in 1 .. Len(req) : Append(req, pull)[i] = req[i]
        /\ Append(req, pull)[Len(req) + 1] = pull
    BY <1>1, AppendOne DEF TalkType
  <1>4. Len(req) \in Nat /\ Len(blk) \in Nat /\ Len(rep) \in Nat
    BY TalkLen
  <1>5. acc \in Nat /\ sent \in Nat /\ low \in Nat /\ e \in Nat
    BY DEF TalkType
  <1>6. Len(req) = sent - acc /\ Len(blk) = 0 /\ Len(rep) = 0
    BY <1>4, <1>5 DEF Talk
  <1>7. ASSUME NEW i \in 1 .. Len(Append(req, pull))
        PROVE  Append(req, pull)[i] =
                 IF i <= sent - acc
                 THEN [type |-> "push", block |-> Chunk(sent - 1, c)]
                 ELSE pull
    <2>1. CASE i = Len(req) + 1
      BY <1>3, <1>4, <1>5, <1>6, <2>1
    <2>2. CASE i # Len(req) + 1
      <3>1. i \in 1 .. Len(req) /\ i <= sent - acc
        BY <1>3, <1>4, <1>6, <2>2
      <3> QED
        BY <1>3, <3>1 DEF Talk
    <2> QED
      BY <2>1, <2>2
  <1>8. Talk(Append(req, pull), blk, rep, acc, low, e, sent, 1, c)
    BY <1>2, <1>3, <1>4, <1>5, <1>6, <1>7 DEF Talk
  <1> QED
    BY <1>2, <1>8

\* The agent pushes its chunk.
LEMMA TalkSendPush ==
  ASSUME NEW req, NEW blk, NEW rep, NEW acc, NEW low, NEW e, NEW sent, NEW c,
         TalkType(req, blk, rep, acc, low, e, sent, 0),
         Talk(req, blk, rep, acc, low, e, sent, 0, c),
         acc = e, sent = e, e < low + Bound, Chunk(e, c) \in Blocks
  PROVE  Talk(Append(req, [type |-> "push", block |-> Chunk(e, c)]), blk, rep,
              acc, low, e, sent + 1, 0, c)
  <1> DEFINE push == [type |-> "push", block |-> Chunk(e, c)]
  <1>1. push \in Request
    BY DEF Request
  <1>2. push = [type |-> "push", block |-> Chunk(e, c)]
    OBVIOUS
  <1> HIDE DEF push
  <1>3. /\ Len(Append(req, push)) = Len(req) + 1
        /\ Append(req, push)[Len(req) + 1] = push
    BY <1>1, AppendOne DEF TalkType
  <1>4. Len(req) \in Nat /\ Len(blk) \in Nat /\ Len(rep) \in Nat
    BY TalkLen
  <1>5. acc \in Nat /\ sent \in Nat /\ low \in Nat /\ e \in Nat
    BY DEF TalkType
  <1>6. Len(req) = 0 /\ Len(blk) = 0 /\ Len(rep) = 0
    BY <1>4, <1>5 DEF Talk
  <1>7. Len(Append(req, push)) = 1 /\ Append(req, push)[1] = push
    BY <1>3, <1>6
  <1>8. sent + 1 - 1 = e /\ sent + 1 - acc = 1
    BY <1>5
  <1>9. Talk(Append(req, push), blk, rep, acc, low, e, sent + 1, 0, c)
    BY <1>2, <1>5, <1>6, <1>7, <1>8 DEF Talk
  <1> QED
    BY <1>2, <1>9

\* While no pull is under way the iteration of the agent does not matter.
LEMMA TalkEpoch ==
  ASSUME NEW req, NEW blk, NEW rep, NEW acc, NEW low, NEW e, NEW f, NEW sent,
         NEW c, TalkType(req, blk, rep, acc, low, e, sent, 0),
         Talk(req, blk, rep, acc, low, e, sent, 0, c)
  PROVE  Talk(req, blk, rep, acc, low, f, sent, 0, c)
  <1>1. Len(req) \in Nat /\ Len(blk) \in Nat /\ Len(rep) \in Nat
    BY TalkLen
  <1>2. acc \in Nat /\ sent \in Nat
    BY DEF TalkType
  <1>3. Len(req) = sent - acc /\ Len(blk) = 0 /\ Len(rep) = 0
    BY <1>1, <1>2 DEF Talk
  <1> QED
    BY <1>1, <1>2, <1>3 DEF Talk

\* The agent takes the reply: it is the one to its pull, and there is room for
\* its next update.
LEMMA TalkTake ==
  ASSUME NEW req, NEW blk, NEW rep, NEW acc, NEW low, NEW e, NEW sent,
         NEW asked, NEW c, TalkType(req, blk, rep, acc, low, e, sent, asked),
         Talk(req, blk, rep, acc, low, e, sent, asked, c),
         rep # <<>>
  PROVE  /\ asked = 1 /\ acc = e /\ e < low + Bound
         /\ Head(rep).block = Chunk(e, c)
         /\ e < Head(rep).version + Bound
         /\ Talk(req, blk, Tail(rep), acc, low, e, sent, 0, c)
  <1>1. /\ Len(rep) \in Nat \ {0} /\ Len(Tail(rep)) = Len(rep) - 1
        /\ Head(rep) = rep[1] /\ Head(rep) \in Reply
    BY HeadTail DEF TalkType
  <1>2. Len(req) \in Nat /\ Len(blk) \in Nat
    BY TalkLen
  <1>3. /\ acc \in Nat /\ sent \in Nat /\ asked \in {0, 1} /\ e \in Nat
        /\ low \in Nat /\ Bound \in Nat
    BY ServerAssumption DEF TalkType
  <1>4. acc = sent
    BY <1>1, <1>2 DEF Talk
  <1>5. asked = 1 /\ Len(rep) = 1 /\ Len(req) = 0 /\ Len(blk) = 0
    BY <1>1, <1>2, <1>3, <1>4 DEF Talk
  <1>6. acc = e
    BY <1>4, <1>5 DEF Talk
  <1>7. /\ Head(rep).block = Chunk(e, c)
        /\ e < Head(rep).version + Bound /\ Head(rep).version <= low
    BY <1>1 DEF Talk
  <1>8. e < low + Bound
    BY <1>1, <1>3, <1>7 DEF Reply
  <1>9. Len(Tail(rep)) = 0
    BY <1>1, <1>5
  <1>10. Talk(req, blk, Tail(rep), acc, low, e, sent, 0, c)
    <2>1. /\ acc <= sent /\ sent <= acc + 1 /\ sent - acc <= Len(req)
          /\ Len(req) + Len(blk) + Len(Tail(rep)) = (sent - acc) + 0
          /\ acc < sent => acc < low + Bound
          /\ Len(blk) + Len(Tail(rep)) > 0 => acc = sent
      BY <1>3, <1>4, <1>5, <1>9
    <2>2. (\A i \in 1 .. 0 : FALSE) /\ 0 # 1
      OBVIOUS
    <2>3. /\ \A i \in 1 .. Len(req) : FALSE
          /\ \A i \in 1 .. Len(blk) : FALSE
          /\ \A i \in 1 .. Len(Tail(rep)) : FALSE
      BY <1>5, <1>9, <2>2, Zenon
    <2> QED
      BY <2>1, <2>2, <2>3, Zenon DEF Talk
  <1> QED
    BY <1>5, <1>6, <1>7, <1>8, <1>10

-----------------------------------------------------------------------------
(* What the constants say *)

\* What the assumptions say of the sets the loop ranges over.
LEMMA Constants ==
  /\ Clients = Agents /\ Bound \in Nat \ {0} /\ MaxIter \in Nat \ {0}
  /\ Len(Chunks) \in Nat \ {0}
  /\ Len(Chunks) \in ChunkIds
  /\ \A c \in ChunkIds : Chunks[c] \in Servers /\ c \in Nat
  /\ \A e \in 0 .. MaxIter - 1, c \in ChunkIds : Chunk(e, c) \in Blocks
  <1>1. /\ Chunks \in Seq(Servers) /\ Chunks # <<>> /\ MaxIter \in Nat \ {0}
        /\ Clients = Agents
        /\ Blocks = [epoch : 0 .. MaxIter - 1, chunk : ChunkIds]
    BY ParameterServerAssumption DEF ChunkIds
  <1>2. Len(Chunks) \in Nat \ {0}
    BY <1>1, HeadTail
  <1>3. \A c \in ChunkIds : Chunks[c] \in Servers /\ c \in Nat
    <2> TAKE c \in ChunkIds
    <2>1. c \in 1 .. Len(Chunks) /\ c \in Nat
      BY <1>2 DEF ChunkIds
    <2> QED
      BY <1>1, <2>1, ElementOfSeq
  <1>4. Len(Chunks) \in ChunkIds
    BY <1>2 DEF ChunkIds
  <1>5. \A e \in 0 .. MaxIter - 1, c \in ChunkIds : Chunk(e, c) \in Blocks
    BY <1>1 DEF Chunk
  <1> QED
    BY <1>1, <1>2, <1>3, <1>4, <1>5, ServerAssumption

-----------------------------------------------------------------------------
(* Any key list: types, and the training loop as clients of the servers *)

\* The conjuncts of PSTypeOK about the agents.
AgentType ==
  /\ phase \in [Agents -> {"pull", "wait", "push", "done"}]
  /\ next \in [Agents -> 1 .. Len(Chunks)]
  /\ server_set \in [Agents -> SUBSET Servers]
  /\ pulled \in [Agents -> SUBSET Reply]
  /\ epoch_num_ \in [Agents -> 0 .. MaxIter]

\* Only an agent that is done has run all iterations.
LoopInv ==
  /\ Inv
  /\ AgentType
  /\ \A a \in Agents : phase[a] # "done" => epoch_num_[a] < MaxIter

\* What an agent sends is a chunk of its iteration.
LEMMA ChunkSent ==
  ASSUME LoopInv, NEW a \in Agents, phase[a] # "done",
         NEW type \in {"push", "pull"}, SendChunk(a, type)
  PROVE  /\ next[a] \in ChunkIds /\ Chunks[next[a]] \in Servers
         /\ epoch_num_[a] \in 0 .. MaxIter - 1
         /\ Chunk(epoch_num_[a], next[a]) \in Blocks
         /\ Send(a, Chunks[next[a]], type, Chunk(epoch_num_[a], next[a]))
         /\ ClientStep(a, Chunks[next[a]])
  <1> DEFINE n == next[a]
             e == epoch_num_[a]
  <1>1. n \in ChunkIds /\ Chunks[n] \in Servers
    BY Constants DEF LoopInv, AgentType, ChunkIds
  <1>2. e \in 0 .. MaxIter - 1
    <2>1. e < MaxIter /\ e \in 0 .. MaxIter
      BY DEF LoopInv, AgentType
    <2> QED
      BY <2>1, Constants
  <1>3. Chunk(e, n) \in Blocks
    BY <1>1, <1>2, Constants
  <1>4. Send(a, Chunks[n], type, Chunk(e, n))
    BY DEF SendChunk, Chunk
  <1>5. ClientStep(a, Chunks[n])
    BY <1>3, <1>4 DEF ClientStep
  <1> QED
    BY <1>1, <1>2, <1>3, <1>4, <1>5

\* A step of an agent is a step of a client, and keeps the agents' types.
LEMMA AgentStep ==
  ASSUME LoopInv, NEW a \in Agents, AgentWork(a)
  PROVE  /\ \E s \in Servers : ClientStep(a, s)
         /\ AgentType'
         /\ \A b \in Agents : phase'[b] # "done" => epoch_num_'[b] < MaxIter
  <1>0. AgentType /\ TypeOK /\ Clients = Agents
    BY Constants DEF LoopInv, Inv
  <1>1. next[a] \in Nat /\ next[a] >= 1 /\ next[a] <= Len(Chunks)
        /\ Len(Chunks) \in Nat \ {0} /\ MaxIter \in Nat \ {0}
    BY <1>0, Constants DEF AgentType
  <1>2. \/ next' = next
        \/ next' = [next EXCEPT ![a] = 1]
        \/ next[a] # Len(Chunks) /\ next' = [next EXCEPT ![a] = next[a] + 1]
    BY DEF AgentWork, PullChunk, PushChunk, TakeReply, LastChunk
  <1>3. next' \in [Agents -> 1 .. Len(Chunks)]
    <2>1. 1 \in 1 .. Len(Chunks)
          /\ (next[a] # Len(Chunks) => next[a] + 1 \in 1 .. Len(Chunks))
      BY <1>1
    <2>2. next \in [Agents -> 1 .. Len(Chunks)]
      BY <1>0 DEF AgentType
    <2> QED
      BY <1>2, <2>1, <2>2
  <1>4. CASE PullChunk(a)
    <2>1. phase[a] # "done" /\ SendChunk(a, "pull")
          /\ server_set' = [server_set EXCEPT ![a] = @ \cup {Chunks[next[a]]}]
          /\ (phase' = phase \/ phase' = [phase EXCEPT ![a] = "wait"])
          /\ (pulled' = pulled \/ pulled' = [pulled EXCEPT ![a] = {}])
          /\ epoch_num_' = epoch_num_
      BY <1>4 DEF PullChunk
    <2>2. Chunks[next[a]] \in Servers /\ ClientStep(a, Chunks[next[a]])
      BY <2>1, ChunkSent
    <2>3. AgentType'
      BY <1>0, <1>3, <2>1, <2>2 DEF AgentType
    <2>4. \A b \in Agents : phase'[b] # "done" => epoch_num_'[b] < MaxIter
      BY <1>0, <2>1 DEF AgentType, LoopInv
    <2> QED
      BY <2>2, <2>3, <2>4
  <1>5. CASE PushChunk(a)
    <2>1. phase[a] = "push" /\ SendChunk(a, "push")
          /\ UNCHANGED <<server_set, pulled>>
          /\ \/ UNCHANGED <<phase, epoch_num_>>
             \/ /\ epoch_num_' = [epoch_num_ EXCEPT ![a] = @ + 1]
                /\ phase' = [phase EXCEPT ![a] =
                       IF epoch_num_[a] + 1 < MaxIter THEN "pull" ELSE "done"]
      BY <1>5 DEF PushChunk
    <2>2. /\ Chunks[next[a]] \in Servers /\ ClientStep(a, Chunks[next[a]])
          /\ epoch_num_[a] \in 0 .. MaxIter - 1
      BY <2>1, ChunkSent
    <2>3. epoch_num_' \in [Agents -> 0 .. MaxIter]
      BY <1>0, <1>1, <2>1, <2>2 DEF AgentType
    <2>4. phase' \in [Agents -> {"pull", "wait", "push", "done"}]
      BY <1>0, <2>1 DEF AgentType
    <2>5. AgentType'
      BY <1>0, <1>3, <2>1, <2>3, <2>4 DEF AgentType
    <2>6. \A b \in Agents : phase'[b] # "done" => epoch_num_'[b] < MaxIter
      BY <1>0, <2>1 DEF AgentType, LoopInv
    <2> QED
      BY <2>2, <2>5, <2>6
  <1>6. ASSUME NEW s \in Servers, TakeReply(a, s)
        PROVE  /\ ClientStep(a, s) /\ AgentType'
               /\ \A b \in Agents : phase'[b] # "done" => epoch_num_'[b] < MaxIter
    <2>1. /\ phase[a] = "wait" /\ ReadReply(a, s) /\ replies[s][a] # <<>>
          /\ epoch_num_' = epoch_num_
          /\ \/ UNCHANGED <<server_set, pulled, phase>>
             \/ /\ server_set' = [server_set EXCEPT ![a] = @ \ {s}]
                /\ pulled' = [pulled EXCEPT ![a] = @ \cup {Head(replies[s][a])}]
                /\ phase' = [phase EXCEPT ![a] =
                               IF server_set[a] = {s} THEN "push" ELSE @]
      BY <1>6 DEF TakeReply, ReadReply
    <2>2. Head(replies[s][a]) \in Reply
      BY <1>0, <2>1, HeadTail DEF TypeOK
    <2>3. phase' \in [Agents -> {"pull", "wait", "push", "done"}]
      BY <1>0, <2>1 DEF AgentType
    <2>4. server_set' \in [Agents -> SUBSET Servers]
      BY <1>0, <2>1 DEF AgentType
    <2>5. pulled' \in [Agents -> SUBSET Reply]
      BY <1>0, <2>1, <2>2 DEF AgentType
    <2>6. AgentType'
      BY <1>0, <1>3, <2>1, <2>3, <2>4, <2>5 DEF AgentType
    <2>7. \A b \in Agents : phase'[b] # "done" => epoch_num_'[b] < MaxIter
      BY <1>0, <2>1 DEF AgentType, LoopInv
    <2> QED
      BY <2>1, <2>6, <2>7 DEF ClientStep
  <1> QED
    BY <1>4, <1>5, <1>6 DEF AgentWork

\* The loop's invariant contains its type invariant.
LEMMA LoopTyped == (LoopInv => PSTypeOK) /\ (LoopInv' => PSTypeOK')
  BY DEF LoopInv, AgentType, Inv, PSTypeOK

\* Seen from the servers, a step of the training loop is one of module Server.
LEMMA LoopStep ==
  ASSUME LoopInv, [PSNext]_psVars
  PROVE  [Next]_vars /\ LoopInv'
  <1>1. ASSUME NEW s \in Servers, ServerStep(s)
        PROVE  Next /\ LoopInv'
    <2>1. Next /\ UNCHANGED agentVars
      BY <1>1 DEF ServerStep, Next
    <2>2. Inv'
      BY <2>1, NextInv DEF LoopInv
    <2> QED
      BY <2>1, <2>2 DEF LoopInv, AgentType, agentVars
  <1>2. ASSUME NEW a \in Agents, AgentWork(a)
        PROVE  Next /\ LoopInv'
    <2>1. Next
      BY <1>2, AgentStep, Constants DEF Next
    <2>2. Inv'
      BY <2>1, NextInv DEF LoopInv
    <2> QED
      BY <1>2, <2>1, <2>2, AgentStep DEF LoopInv
  <1>3. CASE UNCHANGED psVars
    <2>1. UNCHANGED vars /\ UNCHANGED agentVars
      BY <1>3 DEF psVars
    <2>2. Inv'
      BY <2>1, NextInv DEF LoopInv
    <2> QED
      BY <2>1, <2>2 DEF LoopInv, AgentType, agentVars
  <1> QED
    BY <1>1, <1>2, <1>3 DEF PSNext

\* The agents start within the iterations.
LEMMA LoopInit == PSInit => LoopInv
  <1> SUFFICES ASSUME PSInit PROVE LoopInv
    OBVIOUS
  <1>1. Inv
    BY InitInv DEF PSInit
  <1>2. 1 \in 1 .. Len(Chunks) /\ 0 \in 0 .. MaxIter /\ 0 < MaxIter
    BY Constants
  <1> QED
    BY <1>1, <1>2 DEF PSInit, LoopInv, AgentType

\* The types of the loop, with the invariant of the servers, hold throughout.
LEMMA LoopInvariance == PSSpec => []LoopInv
  <1>1. LoopInv /\ [PSNext]_psVars => LoopInv'
    BY LoopStep
  <1> QED
    BY <1>1, LoopInit, PTL DEF PSSpec

\* The training loop implements module Server: the disciplined agents are
\* clients like any other, so what is proved of the servers for all clients
\* holds in training.
THEOREM TrainingServed == PSSpec => Spec
  <1>1. LoopInv /\ [PSNext]_psVars => [Next]_vars
    BY LoopStep
  <1>2. PSInit => Init
    BY DEF PSInit
  <1> QED
    BY <1>1, <1>2, LoopInvariance, PTL DEF PSSpec, Spec

\* Type correctness of servers and agents, whatever the key list: an agent
\* never sends a chunk past the last one or in an iteration past the last one.
THEOREM TrainingTypeCorrect == PSSpec => []PSTypeOK
  BY LoopTyped, LoopInvariance, PTL

-----------------------------------------------------------------------------
(* The steps of the servers *)

\* What is under way between an agent and a server has the right type.
LEMMA ConversationType ==
  ASSUME PSTypeOK, NEW a \in Agents, NEW c \in ChunkIds
  PROVE  /\ TalkType(requests[a][Chunks[c]], pull_request_[Chunks[c]][a],
                     replies[Chunks[c]][a], Len(accepted[Chunks[c]][a]),
                     bottom_version_[Chunks[c]], epoch_num_[a],
                     Sent(a, c), Asked(a, c))
         /\ accepted[Chunks[c]][a] \in Seq(Blocks)
  <1>1. Chunks[c] \in Servers /\ Clients = Agents
    BY Constants
  <1>2. accepted[Chunks[c]][a] \in Seq(Blocks)
    BY <1>1 DEF PSTypeOK, TypeOK
  <1>3. Len(accepted[Chunks[c]][a]) \in Nat
    BY <1>2, LenProperties
  <1>4. /\ requests[a][Chunks[c]] \in Seq(Request)
        /\ pull_request_[Chunks[c]][a] \in Seq(Blocks)
        /\ replies[Chunks[c]][a] \in Seq(Reply)
        /\ bottom_version_[Chunks[c]] \in Nat
    BY <1>1 DEF PSTypeOK, TypeOK
  <1>5. epoch_num_[a] \in Nat
    BY Constants DEF PSTypeOK
  <1>6. Sent(a, c) \in Nat
    BY <1>5 DEF Sent
  <1>7. Asked(a, c) \in {0, 1}
    BY DEF Asked
  <1> QED
    BY <1>2, <1>3, <1>4, <1>5, <1>6, <1>7 DEF TalkType

\* What a server has accepted from an agent is what it merged and what waits.
LEMMA AcceptedSplit ==
  ASSUME Inv, NEW s \in Servers, NEW a \in Agents
  PROVE  /\ Len(accepted[s][a]) \in Nat /\ bottom_version_[s] \in Nat
         /\ Len(version_buffer_[s][a]) \in Nat
         /\ Len(accepted[s][a]) = bottom_version_[s] + Len(version_buffer_[s][a])
         /\ bottom_version_[s] <= Len(accepted[s][a])
         /\ Len(accepted[s][a]) <= bottom_version_[s] + Bound
         /\ Overfilled(s, a) <=> ~ (Len(accepted[s][a]) < bottom_version_[s] + Bound)
  <1>1. /\ version_buffer_[s][a] \in Seq(Blocks) /\ bottom_version_[s] \in Nat
        /\ Len(version_buffer_[s][a]) <= Bound
        /\ Len(accepted[s][a]) = bottom_version_[s] + Len(version_buffer_[s][a])
    BY DEF Inv, TypeOK, RoundIntegrity, Updates
  <1>2. Len(version_buffer_[s][a]) \in Nat /\ Bound \in Nat
    BY <1>1, LenProperties, ServerAssumption
  <1> QED
    BY <1>1, <1>2 DEF Overfilled

\* Agent a takes no step.
Still(a) ==
  /\ phase'[a] = phase[a] /\ next'[a] = next[a] /\ epoch_num_'[a] = epoch_num_[a]
  /\ server_set'[a] = server_set[a] /\ pulled'[a] = pulled[a]

\* An agent that does not move has sent and asked for what it had before.
LEMMA AgentStill ==
  ASSUME NEW a \in Agents, Still(a)
  PROVE  /\ \A c \in ChunkIds : /\ Sent(a, c)' = Sent(a, c)
                                /\ Asked(a, c)' = Asked(a, c)
                                /\ Answered(a, c)' <=> Answered(a, c)
         /\ epoch_num_'[a] = epoch_num_[a]
         /\ AgentOK(a) => AgentOK(a)'
  <1>1. AgentOK(a) => AgentOK(a)'
    BY DEF AgentOK, Still
  <1>2. ASSUME NEW c \in ChunkIds
        PROVE  /\ Sent(a, c)' = Sent(a, c) /\ Asked(a, c)' = Asked(a, c)
               /\ Answered(a, c)' <=> Answered(a, c)
    BY DEF Sent, Asked, Answered, Still
  <1> QED
    BY <1>1, <1>2 DEF Still

\* A step of a server does not touch the agents.
LEMMA AgentsStill ==
  ASSUME UNCHANGED agentVars, NEW a \in Agents
  PROVE  /\ \A c \in ChunkIds : /\ Sent(a, c)' = Sent(a, c)
                                /\ Asked(a, c)' = Asked(a, c)
                                /\ Answered(a, c)' <=> Answered(a, c)
         /\ epoch_num_'[a] = epoch_num_[a]
         /\ AgentOK(a) => AgentOK(a)'
  <1>1. Still(a)
    BY DEF agentVars, Still
  <1> QED
    BY <1>1, AgentStill

\* A conversation goes on unchanged while its messages, the counters of its
\* server and the position of its agent in it do not change.
LEMMA ConversationStill ==
  ASSUME NEW a \in Agents, NEW c \in ChunkIds,
         Conversation(a, c), Cleared(a, c),
         Sent(a, c)' = Sent(a, c), Asked(a, c)' = Asked(a, c),
         Answered(a, c)' => Answered(a, c), epoch_num_'[a] = epoch_num_[a],
         requests'[a][Chunks[c]] = requests[a][Chunks[c]],
         pull_request_'[Chunks[c]][a] = pull_request_[Chunks[c]][a],
         replies'[Chunks[c]][a] = replies[Chunks[c]][a],
         accepted'[Chunks[c]][a] = accepted[Chunks[c]][a],
         bottom_version_'[Chunks[c]] = bottom_version_[Chunks[c]]
  PROVE  Conversation(a, c)' /\ Cleared(a, c)'
  <1>1. Conversation(a, c)'
    BY DEF Conversation
  <1>2. Cleared(a, c)'
    BY DEF Cleared
  <1> QED
    BY <1>1, <1>2

\* Reading a request changes one channel.
LEMMA ConsumeOne ==
  ASSUME TypeOK, NEW s \in Servers, NEW a \in Clients, Consume(s, a)
  PROVE  /\ requests'[a][s] = Tail(requests[a][s])
         /\ \A b \in Clients, r \in Servers :
              <<b, r>> # <<a, s>> => requests'[b][r] = requests[b][r]
  BY DEF TypeOK, Consume

\* Reading a request leaves no stray one.
LEMMA ConsumeStray ==
  ASSUME TypeOK, NoStrayRequest, NEW s \in Servers, NEW a \in Clients,
         requests[a][s] # <<>>, Consume(s, a)
  PROVE  NoStrayRequest'
  <1>1. /\ \A b \in Clients, r \in Servers :
             <<b, r>> # <<a, s>> => requests'[b][r] = requests[b][r]
        /\ Agents \subseteq Clients
    BY ConsumeOne, ServerAssumption
  <1>2. SUFFICES ASSUME NEW b \in Agents, NEW r \in Servers, requests'[b][r] # <<>>
                 PROVE  \E c \in ChunkIds : r = Chunks[c]
    BY DEF NoStrayRequest
  <1>3. requests[b][r] # <<>>
    BY <1>1, <1>2
  <1> QED
    BY <1>3 DEF NoStrayRequest

\* A push that reaches a server is the chunk of the right iteration, and its
\* agent's queue has room for it.
LEMMA PushArrives ==
  ASSUME PSInv, NEW s \in Servers, NEW a \in Agents, Receives(s, a, "push")
  PROVE  \E c \in ChunkIds :
           /\ s = Chunks[c]
           /\ ~ Overfilled(s, a) /\ ~ Answered(a, c)
           /\ Head(requests[a][s]).block = Chunk(Len(accepted[s][a]), c)
           /\ Talk(Tail(requests[a][s]), pull_request_[s][a], replies[s][a],
                   Len(accepted[s][a]) + 1, bottom_version_[s],
                   epoch_num_[a], Sent(a, c), Asked(a, c), c)
  <1>1. requests[a][s] # <<>> /\ Head(requests[a][s]).type = "push"
    BY DEF Receives
  <1>2. PICK c \in ChunkIds : s = Chunks[c]
    BY <1>1 DEF PSInv, NoStrayRequest
  <1>3. Conversation(a, c) /\ PSTypeOK /\ Inv
    BY DEF PSInv
  <1>4. TalkType(requests[a][s], pull_request_[s][a], replies[s][a],
                 Len(accepted[s][a]), bottom_version_[s], epoch_num_[a],
                 Sent(a, c), Asked(a, c))
    BY <1>2, <1>3, ConversationType
  <1>5. Talk(requests[a][s], pull_request_[s][a], replies[s][a],
             Len(accepted[s][a]), bottom_version_[s], epoch_num_[a],
             Sent(a, c), Asked(a, c), c)
    BY <1>2, <1>3 DEF Conversation
  <1>6. /\ Len(accepted[s][a]) < bottom_version_[s] + Bound
        /\ Head(requests[a][s]).block = Chunk(Len(accepted[s][a]), c)
        /\ Talk(Tail(requests[a][s]), pull_request_[s][a], replies[s][a],
                Len(accepted[s][a]) + 1, bottom_version_[s],
                epoch_num_[a], Sent(a, c), Asked(a, c), c)
    BY <1>1, <1>4, <1>5, TalkPush
  <1>7. ~ Overfilled(s, a)
    BY <1>3, <1>6, AcceptedSplit
  <1>8. ~ Answered(a, c)
    <2> SUFFICES ASSUME Answered(a, c) PROVE FALSE
      OBVIOUS
    <2>1. Len(accepted[s][a]) = epoch_num_[a]
      BY <1>2 DEF PSInv, Cleared
    <2>2. next[a] \in Nat /\ epoch_num_[a] \in Nat /\ c \in Nat
      BY <1>3, Constants DEF PSTypeOK, ChunkIds
    <2>3. Sent(a, c) = epoch_num_[a]
      BY <2>2 DEF Answered, Sent
    <2>4. epoch_num_[a] + 1 <= epoch_num_[a]
      BY <1>6, <2>1, <2>3 DEF Talk
    <2> QED
      BY <2>2, <2>4
  <1> QED
    BY <1>2, <1>6, <1>7, <1>8

\* The update enters the history in its place.
LEMMA AcceptInStep ==
  ASSUME PSInv, OneChunkPerServer, NEW c \in ChunkIds, NEW s \in Servers, s = Chunks[c],
         NEW a \in Agents, ~ Overfilled(s, a), NEW update \in Blocks,
         update = Chunk(Len(accepted[s][a]), c), Accept(s, a, update)
  PROVE  /\ InStep'
         /\ Len(accepted'[s][a]) = Len(accepted[s][a]) + 1
         /\ \A r \in Servers, b \in Agents :
              <<r, b>> # <<s, a>> => accepted'[r][b] = accepted[r][b]
  <1> DEFINE old == accepted[s][a]
             new == Append(old, update)
  <1>1. /\ accepted \in [Servers -> [Agents -> Seq(Blocks)]]
        /\ old \in Seq(Blocks)
    BY DEF PSInv, Inv, TypeOK
  <1>2. /\ new \in Seq(Blocks) /\ Len(new) = Len(old) + 1
        /\ \A i \in 1 .. Len(old) : new[i] = old[i]
        /\ new[Len(old) + 1] = update
    BY <1>1, AppendOne
  <1>3. accepted' = [accepted EXCEPT ![s][a] = new]
    BY DEF Accept
  <1>4. Len(old) \in Nat
    BY <1>1, LenProperties
  <1> HIDE DEF new
  <1>5. /\ accepted'[s][a] = new
        /\ \A r \in Servers, b \in Agents :
             <<r, b>> # <<s, a>> => accepted'[r][b] = accepted[r][b]
    BY <1>1, <1>2, <1>3, TableUpdate
  <1>6. ASSUME NEW b \in Agents, NEW d \in ChunkIds,
               NEW k \in 1 .. Len(accepted'[Chunks[d]][b])
        PROVE  accepted'[Chunks[d]][b][k] = Chunk(k - 1, d)
    <2>1. Chunks[d] \in Servers
      BY Constants
    <2>2. CASE b = a /\ d = c
      <3>1. CASE k = Len(old) + 1
        <4>1. k - 1 = Len(old)
          BY <1>4, <3>1
        <4> QED
          BY <1>2, <1>5, <2>2, <3>1, <4>1
      <3>2. CASE k # Len(old) + 1
        <4>1. k \in 1 .. Len(old)
          BY <1>2, <1>4, <1>5, <2>2, <3>2
        <4>2. old[k] = Chunk(k - 1, d)
          BY <2>2, <4>1 DEF PSInv, InStep
        <4> QED
          BY <1>2, <1>5, <2>2, <4>1, <4>2
      <3> QED
        BY <3>1, <3>2
    <2>3. CASE ~ (b = a /\ d = c)
      <3>1. <<Chunks[d], b>> # <<s, a>>
        BY <2>3 DEF OneChunkPerServer, ChunkIds
      <3>2. accepted'[Chunks[d]][b] = accepted[Chunks[d]][b]
        BY <1>5, <2>1, <3>1
      <3> QED
        BY <3>2 DEF PSInv, InStep
    <2> QED
      BY <2>2, <2>3
  <1> QED
    BY <1>2, <1>5, <1>6 DEF InStep

\* What every step preserves besides the invariant of the servers.
Progress ==
  /\ NoStrayRequest
  /\ InStep
  /\ \A a \in Agents : AgentOK(a)
  /\ \A a \in Agents, c \in ChunkIds : Conversation(a, c) /\ Cleared(a, c)

\* ServePush, when no round is complete.
LEMMA StorePushProgress ==
  ASSUME PSInv, OneChunkPerServer, NEW s \in Servers, NEW a \in Agents,
         StorePush(s, a), UNCHANGED agentVars
  PROVE  Progress'
  <1> DEFINE update == Head(requests[a][s]).block
  <1>1. /\ Receives(s, a, "push") /\ requests[a][s] # <<>> /\ Consume(s, a)
        /\ Accept(s, a, update)
        /\ UNCHANGED <<pull_request_, bottom_version_, replies>>
    BY DEF StorePush, Receives
  <1>2. TypeOK /\ NoStrayRequest /\ Clients = Agents
    BY Constants DEF PSInv, Inv
  <1>3. PICK c \in ChunkIds :
           /\ s = Chunks[c] /\ ~ Overfilled(s, a) /\ ~ Answered(a, c)
           /\ update = Chunk(Len(accepted[s][a]), c)
           /\ Talk(Tail(requests[a][s]), pull_request_[s][a], replies[s][a],
                   Len(accepted[s][a]) + 1, bottom_version_[s],
                   epoch_num_[a], Sent(a, c), Asked(a, c), c)
    BY <1>1, PushArrives
  <1>4. update \in Blocks
    BY <1>1, <1>2, ConsumeType
  <1> HIDE DEF update
  <1>5. /\ InStep'
        /\ Len(accepted'[s][a]) = Len(accepted[s][a]) + 1
        /\ \A r \in Servers, b \in Agents :
             <<r, b>> # <<s, a>> => accepted'[r][b] = accepted[r][b]
    BY <1>1, <1>3, <1>4, AcceptInStep
  <1>6. /\ requests'[a][s] = Tail(requests[a][s])
        /\ \A b \in Clients, r \in Servers :
              <<b, r>> # <<a, s>> => requests'[b][r] = requests[b][r]
    BY <1>1, <1>2, ConsumeOne
  <1>7. NoStrayRequest'
    BY <1>1, <1>2, ConsumeStray
  <1>8. ASSUME NEW b \in Agents, NEW d \in ChunkIds
        PROVE  Conversation(b, d)' /\ Cleared(b, d)'
    <2>1. Conversation(b, d) /\ Cleared(b, d) /\ Chunks[d] \in Servers
      BY Constants DEF PSInv
    <2>2. CASE b = a /\ d = c
      <3>1. Conversation(a, c)'
        BY <1>1, <1>3, <1>5, <1>6, AgentsStill DEF Conversation
      <3>2. Cleared(a, c)'
        BY <1>3, AgentsStill DEF Cleared
      <3> QED
        BY <2>2, <3>1, <3>2
    <2>3. CASE ~ (b = a /\ d = c)
      <3>1. <<Chunks[d], b>> # <<s, a>> /\ <<b, Chunks[d]>> # <<a, s>>
        BY <1>3, <2>3 DEF OneChunkPerServer, ChunkIds
      <3> QED
        BY <1>1, <1>2, <1>5, <1>6, <2>1, <3>1, AgentsStill, ConversationStill
    <2> QED
      BY <2>2, <2>3
  <1> QED
    BY <1>5, <1>7, <1>8, AgentsStill DEF Progress, PSInv

\* What RespondToAll sends to an agent.
LEMMA AnswersShape ==
  ASSUME TypeOK, NEW s \in Servers, NEW a \in Agents, NEW v \in Nat
  PROVE  /\ Answers(s, a, v) \in Seq(Reply)
         /\ Len(Answers(s, a, v)) = Len(pull_request_[s][a])
         /\ \A i \in 1 .. Len(pull_request_[s][a]) :
              Answers(s, a, v)[i] = [block |-> pull_request_[s][a][i], version |-> v]
  <1> DEFINE q == pull_request_[s][a]
  <1>1. q \in Seq(Blocks)
    BY DEF TypeOK
  <1>2. Len(q) \in Nat
    BY <1>1, LenProperties
  <1>3. Answers(s, a, v) = [i \in 1 .. Len(q) |-> [block |-> q[i], version |-> v]]
    BY DEF Answers
  <1>4. \A i \in 1 .. Len(q) : [block |-> q[i], version |-> v] \in Reply
    BY <1>1, ElementOfSeq DEF Reply
  <1> HIDE DEF q
  <1>5. /\ Answers(s, a, v) \in Seq(Reply) /\ Len(Answers(s, a, v)) = Len(q)
        /\ \A i \in 1 .. Len(q) :
             Answers(s, a, v)[i] = [block |-> q[i], version |-> v]
    BY <1>2, <1>3, <1>4
  <1> QED
    BY <1>5 DEF q

\* ServePush, when the round is complete: every agent's conversation with the
\* server sees the merge.
LEMMA CompleteRoundProgress ==
  ASSUME PSInv, OneChunkPerServer, NEW s \in Servers, NEW a \in Agents,
         CompleteRound(s, a), UNCHANGED agentVars
  PROVE  Progress'
  <1> DEFINE update == Head(requests[a][s]).block
             low == bottom_version_[s]
  <1>1. /\ Receives(s, a, "push") /\ requests[a][s] # <<>> /\ Consume(s, a)
        /\ Accept(s, a, update)
        /\ bottom_version_' = [bottom_version_ EXCEPT ![s] = low + 1]
        /\ RespondToAll(s, low + 1)
    BY DEF CompleteRound, Receives, UpdateParameter
  <1>2. TypeOK /\ NoStrayRequest /\ Clients = Agents /\ PSTypeOK /\ Inv
    BY Constants DEF PSInv, Inv
  <1>3. PICK c \in ChunkIds :
           /\ s = Chunks[c] /\ ~ Overfilled(s, a) /\ ~ Answered(a, c)
           /\ update = Chunk(Len(accepted[s][a]), c)
           /\ Talk(Tail(requests[a][s]), pull_request_[s][a], replies[s][a],
                   Len(accepted[s][a]) + 1, bottom_version_[s],
                   epoch_num_[a], Sent(a, c), Asked(a, c), c)
    BY <1>1, PushArrives
  <1>4. update \in Blocks
    BY <1>1, <1>2, ConsumeType
  <1> HIDE DEF update
  <1>5. /\ InStep'
        /\ Len(accepted'[s][a]) = Len(accepted[s][a]) + 1
        /\ \A r \in Servers, b \in Agents :
             <<r, b>> # <<s, a>> => accepted'[r][b] = accepted[r][b]
    BY <1>1, <1>3, <1>4, AcceptInStep
  <1>6. /\ requests'[a][s] = Tail(requests[a][s])
        /\ \A b \in Clients, r \in Servers :
              <<b, r>> # <<a, s>> => requests'[b][r] = requests[b][r]
    BY <1>1, <1>2, ConsumeOne
  <1>7. NoStrayRequest'
    BY <1>1, <1>2, ConsumeStray
  <1>8. /\ low \in Nat /\ bottom_version_'[s] = low + 1
        /\ \A b \in Agents :
             /\ pull_request_'[s][b] = <<>>
             /\ replies'[s][b] = replies[s][b] \o Answers(s, b, low + 1)
        /\ \A r \in Servers \ {s} : /\ bottom_version_'[r] = bottom_version_[r]
                                    /\ pull_request_'[r] = pull_request_[r]
                                    /\ replies'[r] = replies[r]
    BY <1>1, <1>2 DEF TypeOK, RespondToAll
  <1> HIDE DEF low
  <1>9. ASSUME NEW b \in Agents
        PROVE  Conversation(b, c)' /\ Cleared(b, c)'
    <2> DEFINE blk == pull_request_[s][b]
               rep == replies[s][b]
               acc == Len(accepted[s][b])
               answers == Answers(s, b, low + 1)
    <2>1. /\ answers \in Seq(Reply) /\ Len(answers) = Len(blk)
          /\ \A i \in 1 .. Len(blk) :
               answers[i] = [block |-> blk[i], version |-> low + 1]
      BY <1>2, <1>8, AnswersShape
    <2>2. TalkType(requests[b][s], blk, rep, acc, low, epoch_num_[b],
                   Sent(b, c), Asked(b, c))
      BY <1>2, <1>3, ConversationType DEF low
    <2>3. Talk(requests[b][s], blk, rep, acc, low, epoch_num_[b],
               Sent(b, c), Asked(b, c), c) /\ Cleared(b, c)
      BY <1>3 DEF PSInv, Conversation, low
    <2>4. /\ acc <= low + Bound
          /\ b = a => acc + 1 <= low + Bound
          /\ Bound \in Nat /\ acc \in Nat
      BY <1>2, <1>3, AcceptedSplit, Constants DEF low
    <2>5. CASE b = a
      <3>1. TalkType(Tail(requests[a][s]), blk, rep, acc + 1, low, epoch_num_[a],
                     Sent(a, c), Asked(a, c))
        BY <1>1, <2>2, <2>5, HeadTail DEF TalkType
      <3>2. Talk(Tail(requests[a][s]), blk, rep, acc + 1, low, epoch_num_[a],
                 Sent(a, c), Asked(a, c), c)
        BY <1>3, <2>5 DEF low
      <3> HIDE DEF blk, rep, acc, answers
      <3>3. Talk(Tail(requests[a][s]), <<>>, rep \o answers, acc + 1, low + 1,
                 epoch_num_[a], Sent(a, c), Asked(a, c), c)
        BY <2>1, <2>4, <2>5, <3>1, <3>2, TalkMerge
      <3>4. Conversation(a, c)'
        BY <1>3, <1>5, <1>6, <1>8, <2>5, <3>3, AgentsStill
        DEF Conversation, blk, rep, acc, answers
      <3>5. Cleared(a, c)'
        BY <1>3, AgentsStill DEF Cleared
      <3> QED
        BY <2>5, <3>4, <3>5
    <2>6. CASE b # a
      <3> HIDE DEF blk, rep, acc, answers
      <3>1. Talk(requests[b][s], <<>>, rep \o answers, acc, low + 1,
                 epoch_num_[b], Sent(b, c), Asked(b, c), c)
        BY <2>1, <2>2, <2>3, <2>4, TalkMerge
      <3>2. /\ requests'[b][s] = requests[b][s]
            /\ accepted'[s][b] = accepted[s][b]
        BY <1>2, <1>5, <1>6, <2>6
      <3>3. Conversation(b, c)'
        BY <1>3, <1>8, <3>1, <3>2, AgentsStill
        DEF Conversation, blk, rep, acc, answers
      <3>4. ASSUME Answered(b, c)
            PROVE  acc = epoch_num_[b] /\ epoch_num_[b] < low + 1 + Bound
        <4>1. acc = epoch_num_[b] /\ epoch_num_[b] < low + Bound
          BY <1>3, <2>3, <3>4 DEF Cleared, acc, low
        <4> QED
          BY <1>8, <2>4, <4>1
      <3>5. Cleared(b, c)'
        BY <1>3, <1>8, <3>2, <3>4, AgentsStill DEF Cleared, acc
      <3> QED
        BY <3>3, <3>5
    <2> QED
      BY <2>5, <2>6
  <1>10. ASSUME NEW b \in Agents, NEW d \in ChunkIds
         PROVE  Conversation(b, d)' /\ Cleared(b, d)'
    <2>1. Conversation(b, d) /\ Cleared(b, d) /\ Chunks[d] \in Servers
      BY Constants DEF PSInv
    <2>2. CASE d # c
      <3>1. Chunks[d] # s
        BY <1>3, <2>2 DEF OneChunkPerServer, ChunkIds
      <3>2. <<Chunks[d], b>> # <<s, a>> /\ <<b, Chunks[d]>> # <<a, s>>
        BY <3>1
      <3>3. /\ requests'[b][Chunks[d]] = requests[b][Chunks[d]]
            /\ accepted'[Chunks[d]][b] = accepted[Chunks[d]][b]
            /\ pull_request_'[Chunks[d]][b] = pull_request_[Chunks[d]][b]
            /\ replies'[Chunks[d]][b] = replies[Chunks[d]][b]
            /\ bottom_version_'[Chunks[d]] = bottom_version_[Chunks[d]]
        BY <1>2, <1>5, <1>6, <1>8, <2>1, <3>1, <3>2
      <3> QED
        BY <2>1, <3>3, AgentsStill, ConversationStill
    <2> QED
      BY <1>9, <2>2
  <1> QED
    BY <1>5, <1>7, <1>10, AgentsStill DEF Progress, PSInv

\* ServePull.
LEMMA ServePullProgress ==
  ASSUME PSInv, OneChunkPerServer, NEW s \in Servers, NEW a \in Agents,
         ServePull(s, a), UNCHANGED agentVars
  PROVE  Progress'
  <1>1. /\ Receives(s, a, "pull") /\ Consume(s, a)
        /\ requests[a][s] # <<>> /\ Head(requests[a][s]).type = "pull"
        /\ UNCHANGED <<accepted, bottom_version_>>
    BY DEF ServePull, BlockPull, AnswerPull, Receives, serverVars
  <1>2. TypeOK /\ NoStrayRequest /\ Clients = Agents /\ PSTypeOK /\ Inv
    BY Constants DEF PSInv, Inv
  <1>3. PICK c \in ChunkIds : s = Chunks[c]
    BY <1>1 DEF PSInv, NoStrayRequest
  <1>4. TalkType(requests[a][s], pull_request_[s][a], replies[s][a],
                 Len(accepted[s][a]), bottom_version_[s], epoch_num_[a],
                 Sent(a, c), Asked(a, c))
    BY <1>2, <1>3, ConversationType
  <1>5. Talk(requests[a][s], pull_request_[s][a], replies[s][a],
             Len(accepted[s][a]), bottom_version_[s], epoch_num_[a],
             Sent(a, c), Asked(a, c), c)
    BY <1>3 DEF PSInv, Conversation
  <1>6. /\ requests'[a][s] = Tail(requests[a][s])
        /\ \A b \in Clients, r \in Servers :
              <<b, r>> # <<a, s>> => requests'[b][r] = requests[b][r]
    BY <1>1, <1>2, ConsumeOne
  <1>7. NoStrayRequest'
    BY <1>1, <1>2, ConsumeStray
  <1>8. /\ Talk(Tail(requests[a][s]), pull_request_'[s][a], replies'[s][a],
                Len(accepted[s][a]), bottom_version_[s], epoch_num_[a],
                Sent(a, c), Asked(a, c), c)
        /\ \A r \in Servers, b \in Agents : <<r, b>> # <<s, a>> =>
             /\ pull_request_'[r][b] = pull_request_[r][b]
             /\ replies'[r][b] = replies[r][b]
    <2>1. CASE BlockPull(s, a)
      <3>1. /\ pull_request_' = [pull_request_ EXCEPT ![s][a] =
                 Append(@, Head(requests[a][s]).block)]
            /\ replies' = replies
        BY <2>1 DEF BlockPull
      <3>2. pull_request_'[s][a] =
              Append(pull_request_[s][a], Head(requests[a][s]).block)
        BY <1>2, <3>1 DEF TypeOK
      <3>3. \A r \in Servers, b \in Agents : <<r, b>> # <<s, a>> =>
              pull_request_'[r][b] = pull_request_[r][b]
        BY <1>2, <3>1 DEF TypeOK
      <3>4. Talk(Tail(requests[a][s]),
                 Append(pull_request_[s][a], Head(requests[a][s]).block),
                 replies[s][a],
                 Len(accepted[s][a]), bottom_version_[s], epoch_num_[a],
                 Sent(a, c), Asked(a, c), c)
        BY <1>1, <1>4, <1>5, TalkBlock
      <3> QED
        BY <3>1, <3>2, <3>3, <3>4
    <2>2. CASE AnswerPull(s, a)
      <3> DEFINE reply == [block |-> Head(requests[a][s]).block,
                           version |-> bottom_version_[s]]
      <3>1. /\ replies' = [replies EXCEPT ![s][a] = Append(@, reply)]
            /\ pull_request_' = pull_request_ /\ ~ Overfilled(s, a)
        BY <2>2 DEF AnswerPull, serverVars
      <3>2. Len(accepted[s][a]) < bottom_version_[s] + Bound
        BY <1>2, <3>1, AcceptedSplit
      <3>3. Talk(Tail(requests[a][s]), pull_request_[s][a],
                 Append(replies[s][a], reply),
                 Len(accepted[s][a]), bottom_version_[s], epoch_num_[a],
                 Sent(a, c), Asked(a, c), c)
        BY <1>1, <1>4, <1>5, <3>2, TalkAnswer
      <3> HIDE DEF reply
      <3>4. /\ replies'[s][a] = Append(replies[s][a], reply)
            /\ \A r \in Servers, b \in Agents : <<r, b>> # <<s, a>> =>
                 replies'[r][b] = replies[r][b]
        BY <1>2, <3>1 DEF TypeOK
      <3> QED
        BY <3>1, <3>3, <3>4
    <2> QED
      BY <2>1, <2>2 DEF ServePull
  <1>9. InStep'
    BY <1>1 DEF PSInv, InStep
  <1>10. ASSUME NEW b \in Agents, NEW d \in ChunkIds
         PROVE  Conversation(b, d)' /\ Cleared(b, d)'
    <2>1. Conversation(b, d) /\ Cleared(b, d) /\ Chunks[d] \in Servers
      BY Constants DEF PSInv
    <2>2. CASE b = a /\ d = c
      <3>1. Conversation(a, c)'
        BY <1>1, <1>3, <1>6, <1>8, AgentsStill DEF Conversation
      <3>2. Cleared(a, c)'
        BY <1>1, <2>1, <2>2, AgentsStill DEF Cleared
      <3> QED
        BY <2>2, <3>1, <3>2
    <2>3. CASE ~ (b = a /\ d = c)
      <3>1. <<Chunks[d], b>> # <<s, a>> /\ <<b, Chunks[d]>> # <<a, s>>
        BY <1>3, <2>3 DEF OneChunkPerServer, ChunkIds
      <3> QED
        BY <1>1, <1>2, <1>6, <1>8, <2>1, <3>1, AgentsStill, ConversationStill
    <2> QED
      BY <2>2, <2>3
  <1> QED
    BY <1>7, <1>9, <1>10, AgentsStill DEF Progress, PSInv

\* The messages between the servers.
LEMMA PeerProgress ==
  ASSUME PSInv, NEW s \in Servers, NEW t \in Servers,
         RespondBackup(s, t) \/ Backup(s, t), UNCHANGED agentVars
  PROVE  Progress'
  <1>1. UNCHANGED <<requests, replies, pull_request_, accepted, bottom_version_>>
    BY DEF RespondBackup, Backup, serverVars
  <1>2. NoStrayRequest' /\ InStep'
    BY <1>1 DEF PSInv, NoStrayRequest, InStep
  <1>3. ASSUME NEW a \in Agents, NEW c \in ChunkIds
        PROVE  Conversation(a, c)' /\ Cleared(a, c)'
    <2>1. Conversation(a, c) /\ Cleared(a, c)
      BY DEF PSInv
    <2> QED
      BY <1>1, <2>1, AgentsStill, ConversationStill
  <1> QED
    BY <1>2, <1>3, AgentsStill DEF Progress, PSInv

-----------------------------------------------------------------------------
(* The steps of the agents *)

\* What an agent sends is a chunk of its iteration, on its own channel.
LEMMA SendEffect ==
  ASSUME PSInv, NEW a \in Agents, phase[a] # "done",
         NEW type \in {"push", "pull"}, SendChunk(a, type)
  PROVE  LET n == next[a]
             s == Chunks[next[a]]
             e == epoch_num_[a]
         IN  /\ n \in ChunkIds /\ s \in Servers /\ e \in 0 .. MaxIter - 1
             /\ Chunk(e, n) \in Blocks
             /\ ClientStep(a, s)
             /\ requests'[a][s] =
                  Append(requests[a][s], [type |-> type, block |-> Chunk(e, n)])
             /\ \A b \in Agents, r \in Servers :
                  <<b, r>> # <<a, s>> => requests'[b][r] = requests[b][r]
             /\ NoStrayRequest'
             /\ UNCHANGED <<serverVars, replies, peers>>
  <1> DEFINE n == next[a]
             s == Chunks[n]
             e == epoch_num_[a]
             message == [type |-> type, block |-> Chunk(e, n)]
  <1>1. LoopInv
    BY DEF PSInv, PSTypeOK, AgentOK, LoopInv, AgentType
  <1>2. /\ n \in ChunkIds /\ s \in Servers /\ e \in 0 .. MaxIter - 1
        /\ Chunk(e, n) \in Blocks /\ ClientStep(a, s)
        /\ Send(a, s, type, Chunk(e, n))
    BY <1>1, ChunkSent
  <1>5. requests' = [requests EXCEPT ![a][s] = Append(@, message)]
        /\ UNCHANGED <<serverVars, replies, peers>>
    BY <1>2 DEF Send
  <1>6. requests \in [Agents -> [Servers -> Seq(Request)]]
    BY Constants DEF PSInv, Inv, TypeOK
  <1> HIDE DEF message
  <1>7. /\ requests'[a][s] = Append(requests[a][s], message)
        /\ \A b \in Agents, r \in Servers :
             <<b, r>> # <<a, s>> => requests'[b][r] = requests[b][r]
    BY <1>2, <1>5, <1>6
  <1>8. NoStrayRequest'
    BY <1>2, <1>7 DEF PSInv, NoStrayRequest
  <1> QED
    BY <1>2, <1>5, <1>7, <1>8 DEF message

\* The conversations an agent's step does not touch: those of other agents.
LEMMA OthersStill ==
  ASSUME PSInv, UNCHANGED serverVars, NEW b \in Agents, NEW d \in ChunkIds,
         Still(b), requests'[b][Chunks[d]] = requests[b][Chunks[d]],
         replies'[Chunks[d]][b] = replies[Chunks[d]][b]
  PROVE  Conversation(b, d)' /\ Cleared(b, d)'
  <1>1. Conversation(b, d) /\ Cleared(b, d)
    BY DEF PSInv
  <1> QED
    BY <1>1, AgentStill, ConversationStill DEF serverVars

\* The first loop of Pull.
LEMMA PullChunkProgress ==
  ASSUME PSInv, OneChunkPerServer, NEW a \in Agents, PullChunk(a)
  PROVE  Progress'
  <1> DEFINE n == next[a]
             s == Chunks[n]
             e == epoch_num_[a]
  <1>1. /\ phase[a] = "pull" /\ SendChunk(a, "pull")
        /\ server_set' = [server_set EXCEPT ![a] = @ \cup {s}]
        /\ epoch_num_' = epoch_num_
    BY DEF PullChunk
  <1>2. /\ n \in ChunkIds /\ s \in Servers /\ e \in 0 .. MaxIter - 1
        /\ Chunk(e, n) \in Blocks
        /\ requests'[a][s] =
             Append(requests[a][s], [type |-> "pull", block |-> Chunk(e, n)])
        /\ \A b \in Agents, r \in Servers :
             <<b, r>> # <<a, s>> => requests'[b][r] = requests[b][r]
        /\ NoStrayRequest' /\ UNCHANGED <<serverVars, replies, peers>>
    BY <1>1, SendEffect
  <1>3. AgentType /\ PSTypeOK
    BY DEF PSInv, PSTypeOK, AgentType
  <1>4. server_set[a] = {Chunks[c] : c \in 1 .. n - 1} /\ e < MaxIter
    BY <1>1 DEF PSInv, AgentOK
  <1>5. /\ n \in Nat /\ n >= 1 /\ n <= Len(Chunks) /\ Len(Chunks) \in Nat
    BY <1>2, Constants DEF ChunkIds
  <1>6. server_set'[a] = {Chunks[c] : c \in 1 .. n} /\ epoch_num_'[a] = e
    <2>1. server_set'[a] = {Chunks[c] : c \in 1 .. n - 1} \cup {s}
      BY <1>1, <1>3, <1>4 DEF AgentType
    <2>2. \A c : c \in 1 .. n <=> c \in 1 .. n - 1 \/ c = n
      BY <1>5
    <2> QED
      BY <1>1, <2>1, <2>2
  <1>7. \/ /\ n < Len(Chunks) /\ phase'[a] = "pull" /\ next'[a] = n + 1
           /\ pulled'[a] = pulled[a]
        \/ /\ n = Len(Chunks) /\ phase'[a] = "wait" /\ next'[a] = 1
           /\ pulled'[a] = {}
    BY <1>3, <1>5 DEF PullChunk, LastChunk, AgentType
  <1>8. \A b \in Agents : b # a => Still(b)
    BY <1>1, <1>3 DEF PullChunk, AgentType, Still
  <1>9. AgentOK(a)'
    <2>1. CASE phase'[a] = "pull"
      <3>1. next'[a] - 1 = n
        BY <1>5, <1>7, <2>1
      <3> QED
        BY <1>4, <1>6, <2>1, <3>1 DEF AgentOK
    <2>2. CASE phase'[a] = "wait"
      <3>1. next'[a] = 1 /\ pulled'[a] = {} /\ n = Len(Chunks)
        BY <1>7, <2>2
      <3>2. \A d \in ChunkIds : Chunks[d] \in server_set'[a]
        BY <1>6, <3>1 DEF ChunkIds
      <3>3. server_set'[a] \subseteq {Chunks[c] : c \in ChunkIds}
        BY <1>6, <3>1 DEF ChunkIds
      <3>4. {r.block : r \in pulled'[a]} =
              {Chunk(e, c) : c \in {d \in ChunkIds : Chunks[d] \notin server_set'[a]}}
        BY <3>1, <3>2
      <3> QED
        BY <1>4, <1>6, <2>2, <3>1, <3>3, <3>4 DEF AgentOK
    <2> QED
      BY <1>7, <2>1, <2>2
  <1>10. ASSUME NEW b \in Agents, NEW d \in ChunkIds
         PROVE  Conversation(b, d)' /\ Cleared(b, d)'
    <2>1. Conversation(b, d) /\ Cleared(b, d) /\ Chunks[d] \in Servers
          /\ d \in Nat /\ d <= Len(Chunks) /\ d >= 1
      BY <1>5, Constants DEF PSInv, ChunkIds
    <2>2. CASE b # a
      BY <1>2, <1>8, <2>1, <2>2, OthersStill
    <2>3. CASE b = a /\ d # n
      <3>1. Chunks[d] # s
        BY <1>2, <2>3 DEF OneChunkPerServer, ChunkIds
      <3>2. Sent(a, d)' = Sent(a, d) /\ ~ Answered(a, d)'
            /\ Asked(a, d)' = Asked(a, d)
        <4>1. Sent(a, d) = e /\ Sent(a, d)' = e
          BY <1>1, <1>6, <1>7 DEF Sent
        <4>2. CASE phase'[a] = "pull"
          <5>1. next'[a] = n + 1
            BY <1>7, <4>2
          <5>2. d < n <=> d < n + 1
            BY <1>5, <2>1, <2>3
          <5> QED
            BY <1>1, <4>1, <4>2, <5>1, <5>2 DEF Asked, Answered
        <4>3. CASE phase'[a] = "wait"
          <5>1. d < n /\ d \in 1 .. n
            BY <1>5, <1>7, <2>1, <2>3, <4>3
          <5>2. Chunks[d] \in server_set'[a]
            BY <1>6, <5>1
          <5> QED
            BY <1>1, <4>1, <4>3, <5>1, <5>2 DEF Asked, Answered
        <4> QED
          BY <1>7, <4>2, <4>3
      <3>3. <<a, Chunks[d]>> # <<a, s>>
        BY <3>1
      <3> QED
        BY <1>2, <1>6, <2>1, <2>3, <3>2, <3>3, ConversationStill DEF serverVars
    <2>4. CASE b = a /\ d = n
      <3>1. Sent(a, d) = e /\ Sent(a, d)' = e
        BY <1>1, <1>6, <1>7 DEF Sent
      <3>2. Asked(a, d) = 0
        BY <1>1, <1>5, <2>4 DEF Asked
      <3>3. Asked(a, d)' = 1 /\ ~ Answered(a, d)'
        <4>1. d < n + 1 /\ Chunks[d] \in server_set'[a]
          BY <1>5, <1>6, <2>4
        <4> QED
          BY <1>7, <4>1 DEF Asked, Answered
      <3>4. TalkType(requests[a][s], pull_request_[s][a], replies[s][a],
                     Len(accepted[s][a]), bottom_version_[s], e, e, 0)
        BY <1>2, <1>3, <2>4, <3>1, <3>2, ConversationType
      <3>5. Talk(requests[a][s], pull_request_[s][a], replies[s][a],
                 Len(accepted[s][a]), bottom_version_[s], e, e, 0, n)
        BY <2>1, <2>4, <3>1, <3>2 DEF Conversation
      <3>6. Talk(requests'[a][s], pull_request_[s][a], replies[s][a],
                 Len(accepted[s][a]), bottom_version_[s], e, e, 1, n)
        <4>1. Chunk(e, n) \in Blocks
          BY <1>2
        <4>2. Talk(Append(requests[a][s], [type |-> "pull", block |-> Chunk(e, n)]),
                   pull_request_[s][a], replies[s][a],
                   Len(accepted[s][a]), bottom_version_[s], e, e, 1, n)
          BY <3>4, <3>5, <4>1, TalkSendPull, SMTT(20)
        <4> QED
          BY <1>2, <4>2
      <3>7. Conversation(a, d)'
        BY <1>2, <1>6, <2>4, <3>1, <3>3, <3>6 DEF Conversation, serverVars
      <3> QED
        BY <2>4, <3>3, <3>7 DEF Cleared
    <2> QED
      BY <2>2, <2>3, <2>4
  <1>11. InStep'
    BY <1>2 DEF PSInv, InStep, serverVars
  <1>12. \A b \in Agents : AgentOK(b)'
    BY <1>8, <1>9, AgentStill DEF PSInv
  <1> QED
    BY <1>2, <1>10, <1>11, <1>12 DEF Progress

\* The second loop of Pull: every reply that arrives is one that is waited for.
LEMMA TakeReplyProgress ==
  ASSUME PSInv, OneChunkPerServer, NEW a \in Agents, NEW s \in Servers,
         TakeReply(a, s)
  PROVE  Progress'
  <1> DEFINE e == epoch_num_[a]
             open == server_set[a]
             reply == Head(replies[s][a])
  <1>1. /\ phase[a] = "wait" /\ ReadReply(a, s)
        /\ next' = next /\ epoch_num_' = epoch_num_
    BY DEF TakeReply
  <1>2. /\ replies[s][a] # <<>>
        /\ replies' = [replies EXCEPT ![s][a] = Tail(@)]
        /\ UNCHANGED <<serverVars, requests, peers>>
    BY <1>1 DEF ReadReply
  <1>3. AgentType /\ PSTypeOK /\ TypeOK /\ Clients = Agents
    BY Constants DEF PSInv, PSTypeOK, AgentType
  <1>4. /\ replies'[s][a] = Tail(replies[s][a])
        /\ \A r \in Servers, b \in Agents :
             <<r, b>> # <<s, a>> => replies'[r][b] = replies[r][b]
    BY <1>2, <1>3 DEF TypeOK
  <1>5. /\ next[a] = 1 /\ open \subseteq {Chunks[c] : c \in ChunkIds}
        /\ {r.block : r \in pulled[a]} =
             {Chunk(e, c) : c \in {d \in ChunkIds : Chunks[d] \notin open}}
        /\ \A r \in pulled[a] : e < r.version + Bound
        /\ e < MaxIter
    BY <1>1 DEF PSInv, AgentOK
  <1>6. NoStrayRequest' /\ InStep'
    BY <1>2 DEF PSInv, NoStrayRequest, InStep, serverVars
  <1>7. ASSUME NEW c \in ChunkIds, s = Chunks[c]
        PROVE  /\ s \in open /\ Len(accepted[s][a]) = e
               /\ e < bottom_version_[s] + Bound
               /\ reply.block = Chunk(e, c) /\ e < reply.version + Bound
               /\ Talk(requests[a][s], pull_request_[s][a], Tail(replies[s][a]),
                       Len(accepted[s][a]), bottom_version_[s], e,
                       Sent(a, c), 0, c)
    <2>1. TalkType(requests[a][s], pull_request_[s][a], replies[s][a],
                   Len(accepted[s][a]), bottom_version_[s], e,
                   Sent(a, c), Asked(a, c))
      BY <1>3, <1>7, ConversationType
    <2>2. Talk(requests[a][s], pull_request_[s][a], replies[s][a],
               Len(accepted[s][a]), bottom_version_[s], e,
               Sent(a, c), Asked(a, c), c)
      BY <1>7 DEF PSInv, Conversation
    <2>3. /\ Asked(a, c) = 1 /\ Len(accepted[s][a]) = e
          /\ e < bottom_version_[s] + Bound
          /\ reply.block = Chunk(e, c) /\ e < reply.version + Bound
          /\ Talk(requests[a][s], pull_request_[s][a], Tail(replies[s][a]),
                  Len(accepted[s][a]), bottom_version_[s], e,
                  Sent(a, c), 0, c)
      BY <1>2, <2>1, <2>2, TalkTake
    <2>4. s \in open
      BY <1>1, <1>7, <2>3 DEF Asked
    <2> QED
      BY <2>3, <2>4
  <1>8. \A b \in Agents : b # a => Still(b)
    BY <1>1, <1>3 DEF TakeReply, AgentType, Still
  <1>9. CASE s \notin open
    <2>1. UNCHANGED agentVars
      BY <1>1, <1>9 DEF TakeReply, agentVars
    <2>2. ASSUME NEW b \in Agents, NEW d \in ChunkIds
          PROVE  Conversation(b, d)' /\ Cleared(b, d)'
      <3>1. Chunks[d] # s /\ Chunks[d] \in Servers
        BY <1>7, <1>9, Constants
      <3>2. replies'[Chunks[d]][b] = replies[Chunks[d]][b]
        BY <1>4, <3>1
      <3>3. Still(b)
        BY <2>1 DEF agentVars, Still
      <3> QED
        BY <1>2, <3>2, <3>3, OthersStill
    <2> QED
      BY <1>6, <2>1, <2>2, AgentsStill DEF Progress, PSInv
  <1>10. CASE s \in open
    <2>1. PICK c \in ChunkIds : s = Chunks[c]
      BY <1>5, <1>10
    <2>2. /\ server_set' = [server_set EXCEPT ![a] = open \ {s}]
          /\ pulled' = [pulled EXCEPT ![a] = @ \cup {reply}]
          /\ phase' = [phase EXCEPT ![a] = IF open = {s} THEN "push" ELSE "wait"]
      BY <1>1, <1>3, <1>10 DEF TakeReply, AgentType
    <2> HIDE DEF reply
    <2>3. /\ server_set'[a] = open \ {s}
          /\ pulled'[a] = pulled[a] \cup {reply}
          /\ next'[a] = 1 /\ epoch_num_'[a] = e
          /\ \/ open = {s} /\ phase'[a] = "push"
             \/ open # {s} /\ phase'[a] = "wait"
      BY <1>1, <1>3, <1>5, <2>2 DEF AgentType
    <2>4. AgentOK(a)'
      <3> DEFINE left == open \ {s}
      <3>1. {r.block : r \in pulled'[a]} = {r.block : r \in pulled[a]} \cup {Chunk(e, c)}
        BY <1>7, <2>1, <2>3
      <3>2. \A d \in ChunkIds : Chunks[d] \notin left <=> Chunks[d] \notin open \/ d = c
        BY <2>1 DEF OneChunkPerServer, ChunkIds
      <3>3. {Chunk(e, d) : d \in {x \in ChunkIds : Chunks[x] \notin left}} =
              {Chunk(e, d) : d \in {x \in ChunkIds : Chunks[x] \notin open}}
                \cup {Chunk(e, c)}
        BY <3>2
      <3>4. {r.block : r \in pulled'[a]} =
              {Chunk(e, d) : d \in {x \in ChunkIds : Chunks[x] \notin left}}
        BY <1>5, <3>1, <3>3
      <3>5. \A r \in pulled'[a] : e < r.version + Bound
        BY <1>5, <1>7, <2>1, <2>3
      <3>6. phase'[a] = "push" => left = {}
        BY <2>3
      <3>7. left \subseteq {Chunks[d] : d \in ChunkIds}
        BY <1>5
      <3>8. server_set'[a] = left
        BY <2>3
      <3> HIDE DEF left
      <3> QED
        BY <1>5, <2>3, <3>4, <3>5, <3>6, <3>7, <3>8 DEF AgentOK
    <2>5. ASSUME NEW b \in Agents, NEW d \in ChunkIds
          PROVE  Conversation(b, d)' /\ Cleared(b, d)'
      <3>1. Conversation(b, d) /\ Cleared(b, d) /\ Chunks[d] \in Servers
            /\ d \in Nat /\ d >= 1
        BY Constants DEF PSInv, ChunkIds
      <3>2. CASE b # a
        BY <1>2, <1>4, <1>8, <3>1, <3>2, OthersStill
      <3>3. CASE b = a /\ d # c
        <4>1. Chunks[d] # s
          BY <2>1, <3>3 DEF OneChunkPerServer, ChunkIds
        <4>2. ~ (d < 1) /\ d >= 1
          BY <3>1
        <4>3. Sent(a, d)' = Sent(a, d)
          BY <1>1, <2>3, <4>2 DEF Sent
        <4>4. /\ Asked(a, d)' = Asked(a, d)
              /\ Answered(a, d)' => Answered(a, d)
          BY <1>1, <2>3, <4>1, <4>2 DEF Asked, Answered
        <4>5. replies'[Chunks[d]][a] = replies[Chunks[d]][a]
          BY <1>4, <3>1, <4>1
        <4> QED
          BY <1>2, <2>3, <3>1, <3>3, <4>3, <4>4, <4>5, ConversationStill
          DEF serverVars
      <3>4. CASE b = a /\ d = c
        <4>1. ~ (c < 1)
          BY <3>1, <3>4
        <4>2. Sent(a, c)' = Sent(a, c)
          BY <1>1, <2>3, <4>1 DEF Sent
        <4>3. Asked(a, c)' = 0
          BY <2>1, <2>3 DEF Asked
        <4>4. Conversation(a, c)'
          BY <1>2, <1>4, <1>7, <2>1, <2>3, <4>2, <4>3 DEF Conversation, serverVars
        <4>5. Cleared(a, c)'
          BY <1>2, <1>7, <2>1, <2>3 DEF Cleared, serverVars
        <4> QED
          BY <3>4, <4>4, <4>5
      <3> QED
        BY <3>2, <3>3, <3>4
    <2>6. \A b \in Agents : AgentOK(b)'
      BY <1>8, <2>4, AgentStill DEF PSInv
    <2> QED
      BY <1>6, <2>5, <2>6 DEF Progress
  <1> QED
    BY <1>9, <1>10

\* Push.
LEMMA PushChunkProgress ==
  ASSUME PSInv, OneChunkPerServer, NEW a \in Agents, PushChunk(a)
  PROVE  Progress'
  <1> DEFINE n == next[a]
             s == Chunks[n]
             e == epoch_num_[a]
  <1>1. /\ phase[a] = "push" /\ SendChunk(a, "push")
        /\ server_set' = server_set /\ pulled' = pulled
    BY DEF PushChunk
  <1>2. /\ n \in ChunkIds /\ s \in Servers /\ e \in 0 .. MaxIter - 1
        /\ Chunk(e, n) \in Blocks
        /\ requests'[a][s] =
             Append(requests[a][s], [type |-> "push", block |-> Chunk(e, n)])
        /\ \A b \in Agents, r \in Servers :
             <<b, r>> # <<a, s>> => requests'[b][r] = requests[b][r]
        /\ NoStrayRequest' /\ UNCHANGED <<serverVars, replies, peers>>
    BY <1>1, SendEffect
  <1>3. AgentType /\ PSTypeOK
    BY DEF PSInv, PSTypeOK, AgentType
  <1>4. server_set[a] = {} /\ AgentOK(a) /\ e < MaxIter /\ e \in Nat
    <2>1. AgentOK(a)
      BY DEF PSInv
    <2>2. server_set[a] = {} /\ e < MaxIter
      BY <1>1, <2>1 DEF AgentOK
    <2> QED
      BY <1>2, <2>1, <2>2
  <1>5. /\ n \in Nat /\ n >= 1 /\ n <= Len(Chunks) /\ Len(Chunks) \in Nat \ {0}
        /\ MaxIter \in Nat
    BY <1>2, Constants DEF ChunkIds
  <1>6. \/ /\ n < Len(Chunks) /\ phase'[a] = "push" /\ next'[a] = n + 1
           /\ epoch_num_'[a] = e
        \/ /\ n = Len(Chunks) /\ next'[a] = 1 /\ epoch_num_'[a] = e + 1
           /\ \/ phase'[a] = "pull" /\ e + 1 < MaxIter
              \/ phase'[a] = "done"
    BY <1>1, <1>3, <1>5 DEF PushChunk, LastChunk, AgentType
  <1>7. \A b \in Agents : b # a => Still(b)
    BY <1>1, <1>3 DEF PushChunk, AgentType, Still
  <1>8. AgentOK(a)'
    <2>1. CASE phase'[a] = "push"
      BY <1>1, <1>4, <1>6, <2>1 DEF AgentOK
    <2>2. CASE phase'[a] = "pull"
      <3>1. next'[a] = 1 /\ epoch_num_'[a] < MaxIter
        BY <1>6, <2>2
      <3>2. \A c : c \notin 1 .. 1 - 1
        OBVIOUS
      <3>3. server_set'[a] = {Chunks[c] : c \in 1 .. next'[a] - 1}
        BY <1>1, <1>4, <3>1, <3>2
      <3> QED
        BY <2>2, <3>1, <3>3 DEF AgentOK
    <2>3. CASE phase'[a] = "done"
      BY <1>1, <1>4, <1>6, <2>3 DEF AgentOK
    <2> QED
      BY <1>6, <2>1, <2>2, <2>3
  <1>9. ASSUME NEW b \in Agents, NEW d \in ChunkIds
         PROVE  Conversation(b, d)' /\ Cleared(b, d)'
    <2>1. Conversation(b, d) /\ Cleared(b, d) /\ Chunks[d] \in Servers
          /\ d \in Nat /\ d <= Len(Chunks) /\ d >= 1
      BY <1>5, Constants DEF PSInv, ChunkIds
    <2>2. CASE b # a
      BY <1>2, <1>7, <2>1, <2>2, OthersStill
    <2>3. CASE b = a /\ d # n
      <3>1. Chunks[d] # s
        BY <1>2, <2>3 DEF OneChunkPerServer, ChunkIds
      <3>2. requests'[a][Chunks[d]] = requests[a][Chunks[d]]
        BY <1>2, <2>1, <3>1
      <3>3. CASE phase'[a] = "push"
        <4>1. next'[a] = n + 1 /\ epoch_num_'[a] = e
          BY <1>6, <3>3
        <4>2. (d < n <=> d < n + 1) /\ (d >= n + 1 => d >= n)
          BY <1>5, <2>1, <2>3
        <4>3. /\ Sent(a, d)' = Sent(a, d) /\ Asked(a, d)' = Asked(a, d)
              /\ Answered(a, d)' => Answered(a, d)
          BY <1>1, <3>3, <4>1, <4>2 DEF Sent, Asked, Answered
        <4> QED
          BY <1>2, <2>1, <2>3, <3>2, <4>1, <4>3, ConversationStill DEF serverVars
      <3>4. CASE phase'[a] # "push"
        <4>1. /\ n = Len(Chunks) /\ next'[a] = 1 /\ epoch_num_'[a] = e + 1
              /\ phase'[a] \in {"pull", "done"}
          BY <1>6, <3>4
        <4>2. d < n /\ ~ (d < 1)
          BY <1>5, <2>1, <2>3, <4>1
        <4>3. /\ Sent(a, d)' = e + 1 /\ Sent(a, d) = e + 1
              /\ Asked(a, d)' = 0 /\ Asked(a, d) = 0
              /\ ~ Answered(a, d)'
          BY <1>1, <4>1, <4>2 DEF Sent, Asked, Answered
        <4>4. TalkType(requests[a][Chunks[d]], pull_request_[Chunks[d]][a],
                       replies[Chunks[d]][a], Len(accepted[Chunks[d]][a]),
                       bottom_version_[Chunks[d]], e, e + 1, 0)
          BY <1>3, <4>3, ConversationType
        <4>5. Talk(requests[a][Chunks[d]], pull_request_[Chunks[d]][a],
                   replies[Chunks[d]][a], Len(accepted[Chunks[d]][a]),
                   bottom_version_[Chunks[d]], e, e + 1, 0, d)
          BY <2>1, <2>3, <4>3 DEF Conversation
        <4>6. Talk(requests[a][Chunks[d]], pull_request_[Chunks[d]][a],
                   replies[Chunks[d]][a], Len(accepted[Chunks[d]][a]),
                   bottom_version_[Chunks[d]], e + 1, e + 1, 0, d)
          BY <4>4, <4>5, TalkEpoch
        <4>7. Conversation(a, d)'
          BY <1>2, <3>2, <4>1, <4>3, <4>6 DEF Conversation, serverVars
        <4> QED
          BY <2>3, <4>3, <4>7 DEF Cleared
      <3> QED
        BY <3>3, <3>4
    <2>4. CASE b = a /\ d = n
      <3>1. /\ Sent(a, d) = e /\ Asked(a, d) = 0 /\ Answered(a, d)
        BY <1>1, <1>5, <2>4 DEF Sent, Asked, Answered
      <3>2. Len(accepted[s][a]) = e /\ e < bottom_version_[s] + Bound
        BY <2>1, <2>4, <3>1 DEF Cleared
      <3>3. TalkType(requests[a][s], pull_request_[s][a], replies[s][a],
                     Len(accepted[s][a]), bottom_version_[s], e, e, 0)
        BY <1>2, <1>3, <2>4, <3>1, ConversationType
      <3>4. Talk(requests[a][s], pull_request_[s][a], replies[s][a],
                 Len(accepted[s][a]), bottom_version_[s], e, e, 0, n)
        BY <2>1, <2>4, <3>1 DEF Conversation
      <3>5. Talk(requests'[a][s], pull_request_[s][a], replies[s][a],
                 Len(accepted[s][a]), bottom_version_[s], e, e + 1, 0, n)
        BY <1>2, <3>2, <3>3, <3>4, TalkSendPush, SMTT(20)
      <3>6. /\ Sent(a, d)' = e + 1 /\ Asked(a, d)' = 0 /\ ~ Answered(a, d)'
        <4>1. CASE phase'[a] = "push"
          <5>1. next'[a] = n + 1 /\ d < n + 1 /\ ~ (d >= n + 1) /\ epoch_num_'[a] = e
            BY <1>5, <1>6, <2>4, <4>1
          <5> QED
            BY <4>1, <5>1 DEF Sent, Asked, Answered
        <4>2. CASE phase'[a] # "push"
          <5>1. /\ next'[a] = 1 /\ epoch_num_'[a] = e + 1 /\ ~ (d < 1)
                /\ phase'[a] \in {"pull", "done"}
            BY <1>5, <1>6, <2>4, <4>2
          <5> QED
            BY <5>1 DEF Sent, Asked, Answered
        <4> QED
          BY <4>1, <4>2
      <3>7. Talk(requests'[a][s], pull_request_[s][a], replies[s][a],
                 Len(accepted[s][a]), bottom_version_[s], epoch_num_'[a],
                 e + 1, 0, n)
        <4>1. requests'[a][s] \in Seq(Request)
          <5>1. [type |-> "push", block |-> Chunk(e, n)] \in Request
            BY <1>2 DEF Request
          <5>2. requests[a][s] \in Seq(Request)
            BY <3>3 DEF TalkType
          <5> QED
            BY <1>2, <5>1, <5>2, AppendOne
        <4>2. TalkType(requests'[a][s], pull_request_[s][a], replies[s][a],
                       Len(accepted[s][a]), bottom_version_[s], e, e + 1, 0)
          BY <3>3, <4>1 DEF TalkType
        <4> QED
          BY <3>5, <4>2, TalkEpoch
      <3>8. Conversation(a, d)'
        BY <1>2, <2>4, <3>6, <3>7 DEF Conversation, serverVars
      <3> QED
        BY <2>4, <3>6, <3>8 DEF Cleared
    <2> QED
      BY <2>2, <2>3, <2>4
  <1>10. InStep'
    BY <1>2 DEF PSInv, InStep, serverVars
  <1>11. \A b \in Agents : AgentOK(b)'
    BY <1>7, <1>8, AgentStill DEF PSInv
  <1> QED
    BY <1>2, <1>9, <1>10, <1>11 DEF Progress

-----------------------------------------------------------------------------
(* The invariant of the training loop *)

\* The invariant of the training loop holds initially.
LEMMA PSInitInv == PSInit => PSInv
  <1> SUFFICES ASSUME PSInit PROVE PSInv
    OBVIOUS
  <1>1. /\ Init /\ phase = [a \in Agents |-> "pull"]
        /\ next = [a \in Agents |-> 1] /\ server_set = [a \in Agents |-> {}]
        /\ pulled = [a \in Agents |-> {}] /\ epoch_num_ = [a \in Agents |-> 0]
    BY DEF PSInit
  <1>2. Inv /\ PSTypeOK
    BY LoopInit, LoopTyped DEF LoopInv
  <1>3. \A a \in Agents, s \in Servers :
          /\ requests[a][s] = <<>> /\ replies[s][a] = <<>>
          /\ pull_request_[s][a] = <<>> /\ accepted[s][a] = <<>>
          /\ bottom_version_[s] = 0
    BY <1>1, Constants DEF Init
  <1>4. NoStrayRequest
    BY <1>3 DEF NoStrayRequest
  <1>5. InStep
    BY <1>3, Constants DEF InStep
  <1>6. ASSUME NEW a \in Agents PROVE AgentOK(a)
    <2>1. /\ phase[a] = "pull" /\ next[a] = 1 /\ server_set[a] = {}
          /\ epoch_num_[a] = 0 /\ 0 < MaxIter
      BY <1>1, Constants
    <2>2. \A c : c \notin 1 .. 1 - 1
      OBVIOUS
    <2>3. server_set[a] = {Chunks[c] : c \in 1 .. next[a] - 1}
      BY <2>1, <2>2
    <2> QED
      BY <2>1, <2>3 DEF AgentOK
  <1>7. ASSUME NEW a \in Agents, NEW c \in ChunkIds
        PROVE  Conversation(a, c) /\ Cleared(a, c)
    <2>1. /\ phase[a] = "pull" /\ next[a] = 1 /\ epoch_num_[a] = 0
          /\ ~ (c < 1) /\ Bound \in Nat
      BY <1>1, Constants DEF ChunkIds
    <2>2. Sent(a, c) = 0 /\ Asked(a, c) = 0 /\ ~ Answered(a, c)
      BY <2>1 DEF Sent, Asked, Answered
    <2>3. Talk(<<>>, <<>>, <<>>, 0, 0, 0, 0, 0, c)
      BY <2>1 DEF Talk
    <2>4. Len(<<>>) = 0
      OBVIOUS
    <2> QED
      BY <1>3, <2>1, <2>2, <2>3, <2>4, Constants DEF Conversation, Cleared
  <1> QED
    BY <1>2, <1>4, <1>5, <1>6, <1>7 DEF PSInv

\* Every step of an agent or a server preserves it.
LEMMA PSNextInv ==
  ASSUME PSInv, OneChunkPerServer, [PSNext]_psVars
  PROVE  PSInv'
  <1>1. Inv' /\ PSTypeOK'
    <2>1. LoopInv
      BY DEF PSInv, PSTypeOK, AgentOK, LoopInv, AgentType
    <2> QED
      BY <2>1, LoopStep, LoopTyped DEF LoopInv
  <1>2. ASSUME NEW s \in Servers, ServerStep(s)
        PROVE  Progress'
    <2>1. Serve(s) /\ UNCHANGED agentVars
      BY <1>2 DEF ServerStep
    <2>2. ASSUME NEW a \in Agents, ServePush(s, a) PROVE Progress'
      BY <2>1, <2>2, StorePushProgress, CompleteRoundProgress DEF ServePush
    <2>3. ASSUME NEW a \in Agents, ServePull(s, a) PROVE Progress'
      BY <2>1, <2>3, ServePullProgress
    <2>4. ASSUME NEW t \in Servers, RespondBackup(s, t) \/ Backup(s, t)
          PROVE  Progress'
      BY <2>1, <2>4, PeerProgress
    <2> QED
      BY <2>1, <2>2, <2>3, <2>4, Constants
      DEF Serve, ServeClient, ServePeer, IgnoreStranger
  <1>3. ASSUME NEW a \in Agents, AgentWork(a)
        PROVE  Progress'
    BY <1>3, PullChunkProgress, PushChunkProgress, TakeReplyProgress DEF AgentWork
  <1>4. ASSUME UNCHANGED psVars PROVE Progress'
    <2>1. UNCHANGED agentVars
          /\ UNCHANGED <<requests, replies, pull_request_, accepted, bottom_version_>>
      BY <1>4 DEF psVars, vars, serverVars
    <2>2. ASSUME NEW a \in Agents, NEW c \in ChunkIds
          PROVE  Conversation(a, c)' /\ Cleared(a, c)'
      BY <2>1, AgentsStill, ConversationStill DEF PSInv
    <2>3. NoStrayRequest' /\ InStep'
      BY <2>1 DEF PSInv, NoStrayRequest, InStep
    <2>4. \A a \in Agents : AgentOK(a)'
      BY <2>1, AgentsStill DEF PSInv
    <2> QED
      BY <2>2, <2>3, <2>4 DEF Progress
  <1> QED
    BY <1>1, <1>2, <1>3, <1>4 DEF PSNext, PSInv, Progress

\* The invariant holds in every reachable state.
THEOREM TrainingInvariance ==
  ASSUME OneChunkPerServer PROVE PSSpec => []PSInv
  <1>1. PSInv /\ [PSNext]_psVars => PSInv'
    BY PSNextInv
  <1> QED
    BY <1>1, PSInitInv, PTL DEF PSSpec

\* An agent is in iteration e only if its server of the last chunk has merged
\* all but Bound of the e updates, and no server merges what some agent has not
\* pushed.
LEMMA BoundedGap == PSInv => ClockGap
  <1> SUFFICES ASSUME PSInv, NEW a \in Agents, NEW b \in Agents
               PROVE  epoch_num_[a] <= epoch_num_[b] + Bound
    BY DEF ClockGap
  <1> DEFINE c == Len(Chunks)
             s == Chunks[c]
  <1>1. c \in ChunkIds /\ s \in Servers /\ Bound \in Nat /\ c \in Nat
    BY Constants
  <1>2. Inv /\ PSTypeOK
    BY DEF PSInv
  <1>3. ASSUME NEW x \in Agents
        PROVE  /\ Len(accepted[s][x]) <= epoch_num_[x]
               /\ epoch_num_[x] <= Len(accepted[s][x]) + 1
               /\ Len(accepted[s][x]) < epoch_num_[x] =>
                    Len(accepted[s][x]) < bottom_version_[s] + Bound
               /\ epoch_num_[x] \in Nat
    <2>1. ~ (c < next[x]) /\ epoch_num_[x] \in Nat
      BY <1>1, <1>2, Constants DEF PSTypeOK
    <2>2. Sent(x, c) = epoch_num_[x]
      BY <2>1 DEF Sent
    <2>3. Conversation(x, c)
      BY <1>1 DEF PSInv
    <2> QED
      BY <2>1, <2>2, <2>3 DEF Conversation, Talk
  <1>4. /\ \A x \in Agents : Len(accepted[s][x]) \in Nat
        /\ bottom_version_[s] \in Nat
        /\ bottom_version_[s] <= Len(accepted[s][b])
        /\ Len(accepted[s][a]) <= bottom_version_[s] + Bound
    BY <1>1, <1>2, AcceptedSplit
  <1> HIDE DEF s, c
  <1>5. epoch_num_[a] <= bottom_version_[s] + Bound
    BY <1>1, <1>3, <1>4, SMTT(20)
  <1>6. bottom_version_[s] <= epoch_num_[b]
    BY <1>3, <1>4
  <1> QED
    BY <1>1, <1>3, <1>4, <1>5, <1>6

\* Stale synchronous parallel: no agent is more than Bound iterations ahead.
THEOREM ClockGapBounded ==
  ASSUME OneChunkPerServer PROVE PSSpec => []ClockGap
  BY TrainingInvariance, BoundedGap, PTL

\* An agent that pushes has been cleared by every server it asked.
LEMMA CompletePull == PSInv => PullComplete
  <1> SUFFICES ASSUME PSInv, NEW a \in Agents, phase[a] = "push"
               PROVE  /\ {r.block : r \in pulled[a]} =
                           [epoch : {epoch_num_[a]}, chunk : 1 .. Len(Chunks)]
                      /\ \A r \in pulled[a] : r.version + Bound > epoch_num_[a]
    BY DEF PullComplete
  <1>1. AgentOK(a) /\ PSTypeOK
    BY DEF PSInv
  <1>2. /\ server_set[a] = {}
        /\ {r.block : r \in pulled[a]} =
             {Chunk(epoch_num_[a], c) :
                c \in {d \in ChunkIds : Chunks[d] \notin server_set[a]}}
        /\ \A r \in pulled[a] : epoch_num_[a] < r.version + Bound
    BY <1>1 DEF AgentOK
  <1>3. \A r \in pulled[a] : r.version \in Nat
    BY <1>1 DEF PSTypeOK, Reply
  <1>4. \A r \in pulled[a] : r.version + Bound > epoch_num_[a]
    BY <1>1, <1>2, <1>3, Constants DEF PSTypeOK
  <1>5. {d \in ChunkIds : Chunks[d] \notin server_set[a]} = ChunkIds
    BY <1>2
  <1>6. {Chunk(epoch_num_[a], c) : c \in ChunkIds} =
          [epoch : {epoch_num_[a]}, chunk : ChunkIds]
    <2>1. \A c \in ChunkIds : Chunk(epoch_num_[a], c) \in
            [epoch : {epoch_num_[a]}, chunk : ChunkIds]
      BY DEF Chunk
    <2>2. ASSUME NEW r \in [epoch : {epoch_num_[a]}, chunk : ChunkIds]
          PROVE  r = Chunk(epoch_num_[a], r.chunk) /\ r.chunk \in ChunkIds
      BY DEF Chunk
    <2> QED
      BY <2>1, <2>2
  <1> QED
    BY <1>2, <1>4, <1>5, <1>6 DEF ChunkIds

\* An agent computes only from a complete and recent pull.
THEOREM PullsComplete ==
  ASSUME OneChunkPerServer PROVE PSSpec => []PullComplete
  BY TrainingInvariance, CompletePull, PTL

\* Round k of a server is made of the chunk of iteration k of every agent.
RoundsAreIterations ==
  \A c \in ChunkIds, a \in Agents :
    \A k \in 1 .. bottom_version_[Chunks[c]] :
      parameters_[Chunks[c]][k][a] = Chunk(k - 1, c)

\* Each round a server merged took the chunk of one iteration from each agent.
LEMMA AlignedRounds == PSInv => RoundsAreIterations
  <1> SUFFICES ASSUME PSInv, NEW c \in ChunkIds, NEW a \in Agents,
                      NEW k \in 1 .. bottom_version_[Chunks[c]]
               PROVE  parameters_[Chunks[c]][k][a] = Chunk(k - 1, c)
    BY DEF RoundsAreIterations
  <1> DEFINE s == Chunks[c]
  <1>1. s \in Servers /\ Inv
    BY Constants DEF PSInv
  <1>2. /\ bottom_version_[s] \in Nat /\ Len(accepted[s][a]) \in Nat
        /\ bottom_version_[s] <= Len(accepted[s][a])
    BY <1>1, AcceptedSplit
  <1>3. k \in 1 .. Len(accepted[s][a]) /\ k <= bottom_version_[s]
    BY <1>2
  <1>4. accepted[s][a][k] = parameters_[s][k][a]
    BY <1>1, <1>3 DEF Inv, RoundIntegrity
  <1>5. accepted[s][a][k] = Chunk(k - 1, c)
    BY <1>3 DEF PSInv, InStep
  <1> QED
    BY <1>4, <1>5

\* Every server averages updates of one iteration, and merges the iterations
\* one after the other.
THEOREM RoundsAligned ==
  ASSUME OneChunkPerServer PROVE PSSpec => []RoundsAreIterations
  BY TrainingInvariance, AlignedRounds, PTL

\* A step that takes a push from its channel is the server's, and it inserts
\* the update.
LEMMA InsertedPush ==
  ASSUME PSInv, [PSNext]_psVars, NEW s \in Servers, NEW a \in Agents,
         Receives(s, a, "push"), Len(requests'[a][s]) < Len(requests[a][s])
  PROVE  Len(accepted'[s][a]) > Len(accepted[s][a])
  <1> DEFINE old == requests[a][s]
  <1>0. /\ TypeOK /\ Clients = Agents
        /\ requests \in [Agents -> [Servers -> Seq(Request)]]
    BY Constants DEF PSInv, Inv, TypeOK
  <1>1. old \in Seq(Request) /\ Len(old) \in Nat /\ Head(old).type = "push"
    BY <1>0, LenProperties DEF Receives
  <1>2. requests'[a][s] # old
    BY <1>1
  <1>3. ASSUME NEW r \in Servers, NEW b \in Agents, Consume(r, b)
        PROVE  r = s /\ b = a
    <2>1. <<b, r>> # <<a, s>> => requests'[a][s] = requests[a][s]
      BY <1>0, <1>3, ConsumeOne
    <2> QED
      BY <1>2, <2>1
  <1>4. ASSUME NEW r \in Servers, NEW b \in Agents, ServePush(r, b)
        PROVE  Len(accepted'[s][a]) > Len(accepted[s][a])
    <2> DEFINE update == Head(requests[a][s]).block
    <2>1. Consume(r, b)
      BY <1>4 DEF ServePush, StorePush, CompleteRound
    <2>2. r = s /\ b = a
      BY <1>3, <2>1
    <2>3. Accept(s, a, update)
      BY <1>4, <2>2 DEF ServePush, StorePush, CompleteRound
    <2>4. ~ Overfilled(s, a)
      BY PushArrives
    <2>5. update \in Blocks
      BY <1>0, <1>1, <2>1, <2>2, ConsumeType DEF Receives
    <2> HIDE DEF update
    <2>6. accepted' = [accepted EXCEPT ![s][a] = Append(@, update)]
      BY <2>3, <2>4 DEF Accept
    <2>7. accepted[s][a] \in Seq(Blocks)
          /\ accepted'[s][a] = Append(accepted[s][a], update)
      BY <1>0, <2>6 DEF TypeOK
    <2>8. Len(accepted'[s][a]) = Len(accepted[s][a]) + 1
          /\ Len(accepted[s][a]) \in Nat
      BY <2>5, <2>7, AppendOne, LenProperties
    <2> QED
      BY <2>8
  <1>5. ASSUME NEW r \in Servers, NEW b \in Agents, ServePull(r, b)
        PROVE  FALSE
    <2>1. Consume(r, b) /\ Receives(r, b, "pull")
      BY <1>5 DEF ServePull, BlockPull, AnswerPull
    <2>2. r = s /\ b = a
      BY <1>3, <2>1
    <2> QED
      BY <1>1, <2>1, <2>2 DEF Receives
  <1>6. ASSUME UNCHANGED requests PROVE FALSE
    BY <1>2, <1>6
  <1>7. ASSUME NEW r \in Servers, ServerStep(r)
        PROVE  Len(accepted'[s][a]) > Len(accepted[s][a])
    <2>1. ASSUME NEW t \in Servers, RespondBackup(r, t) \/ Backup(r, t)
          PROVE  UNCHANGED requests
      BY <2>1 DEF RespondBackup, Backup
    <2> QED
      BY <1>0, <1>4, <1>5, <1>6, <1>7, <2>1
      DEF ServerStep, Serve, ServeClient, ServePeer, IgnoreStranger
  <1>8. ASSUME NEW b \in Agents, PullChunk(b) \/ PushChunk(b)
        PROVE  FALSE
    <2>1. PICK type \in {"push", "pull"} : SendChunk(b, type) /\ phase[b] # "done"
      BY <1>8 DEF PullChunk, PushChunk
    <2> DEFINE r == Chunks[next[b]]
               message == [type |-> type, block |-> Chunk(epoch_num_[b], next[b])]
    <2>2. /\ r \in Servers /\ Chunk(epoch_num_[b], next[b]) \in Blocks
          /\ requests'[b][r] = Append(requests[b][r], message)
          /\ \A x \in Agents, y \in Servers :
               <<x, y>> # <<b, r>> => requests'[x][y] = requests[x][y]
      BY <2>1, SendEffect
    <2>3. a = b /\ s = r
      <3>1. <<a, s>> # <<b, r>> => requests'[a][s] = requests[a][s]
        BY <2>2
      <3> QED
        BY <1>2, <3>1
    <2>4. message \in Request
      BY <2>2 DEF Request
    <2>5. Len(requests'[a][s]) = Len(old) + 1
      BY <1>1, <2>2, <2>3, <2>4, AppendOne, SMTT(20)
    <2> QED
      BY <1>1, <2>5
  <1>9. ASSUME NEW b \in Agents, NEW r \in Servers, TakeReply(b, r)
        PROVE  UNCHANGED requests
    BY <1>9 DEF TakeReply, ReadReply
  <1>10. ASSUME UNCHANGED psVars PROVE UNCHANGED requests
    BY <1>10 DEF psVars, vars
  <1> QED
    BY <1>6, <1>7, <1>8, <1>9, <1>10 DEF PSNext, AgentWork

\* The branch of ServePush for a full queue is dead: every update that reaches
\* a server is inserted.
THEOREM NoPushDropped ==
  ASSUME OneChunkPerServer PROVE PSSpec => PushAlwaysInserted
  <1>1. PSInv /\ [PSNext]_psVars =>
          \A s \in Servers, a \in Agents :
            Receives(s, a, "push") /\ Len(requests'[a][s]) < Len(requests[a][s])
              => Len(accepted'[s][a]) > Len(accepted[s][a])
    BY InsertedPush
  <1>2. PSSpec => [][PSNext]_psVars
    BY DEF PSSpec
  <1> QED
    BY <1>1, <1>2, TrainingInvariance, PTL DEF PushAlwaysInserted
=============================================================================
