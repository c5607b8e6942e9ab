---------------------------- MODULE Communicator ----------------------------
(***************************************************************************)
(* The communicators of two processes (zmq_communicator.cc,                *)
(* zmq_sendrecv.cc).  The sending process has one communicator: Send puts  *)
(* a message into its FifoRing, the thread Consume fetches it, looks its   *)
(* destination up and sends it through the socket of that address.  The    *)
(* receiving process listens on several ports (an agent or a server: one   *)
(* for requests and one for heartbeats), each with a communicator of its   *)
(* own: a thread Produce that receives into the function's static buffer   *)
(* and adds it to a ring, and Receive.                                     *)
(*                                                                         *)
(* The sender's ring is FifoRing itself, the receivers' rings are the      *)
(* bounded queues it implements for one producer and one consumer.         *)
(* Ids are looked up when a message is consumed, not when it is sent; the  *)
(* thread that sends may change the table at any time in between, as       *)
(* Agent::Reconfigurate does.                                              *)
(*                                                                         *)
(* A socket that DeleteId closed is opened again by the next Send to its   *)
(* address: a new connection to the same port, beside the old one, which   *)
(* still delivers.  A connection keeps the order of its messages; the port *)
(* takes from its connections in any order.                                *)
(*                                                                         *)
(* Every message fits into buffer_size_ with its id and a final zero.  A   *)
(* longer one is written past the end of the buffers of Send and of        *)
(* ZmqSendRecv::Receive, which is undefined and left out.                  *)
(***************************************************************************)
EXTENDS FifoRing

CONSTANTS
  Ids,         \* destination ids
  Addresses,   \* addresses of the receiving process, one per port
  FirstTable,  \* [id]: the address the first configuration gives
  Entries,     \* pairs of an id and an address that later ones contain
  MaxSends,    \* bound on the messages sent
  MaxChanges,  \* bound on the changes of the table
  None         \* no value

ASSUME CommunicatorAssumption ==
  /\ FirstTable \in [Ids -> Addresses]
  /\ Entries \subseteq Ids \X Addresses
  /\ MaxSends \in Nat \ {0} /\ MaxChanges \in Nat
  /\ Messages = Ids \X (1 .. MaxSends)
  /\ None \notin Messages \cup Addresses

\* A message in the ring is the pair of its destination and its content, which
\* is the number of its Send; Send writes "%d," in front of the content and
\* Consume takes it off.  The length of a message is represented by its number.
Dst(m) == m[1]
Number(m) == m[2]

VARIABLES
  id_to_addr_,  \* [id]: its address, or None
  mapper_,      \* addresses with an open socket
  consumed,     \* the step of Consume after its Fetch
  addr,         \* the address Consume found
  network,      \* [address]: its connections, oldest first: the messages sent
                \* through each and not received yet
  buffer,       \* the static message of Produce
  len,          \* the static len of Produce
  producing,    \* [address]: the step of its thread Produce
  got,          \* [address]: the message zmq_recv returned last
  arg,          \* [address]: the len it passes to Add
  rings,        \* [address]: content and length of the messages in its ring
  received,     \* [address]: history: what Receive returned
  arrived,      \* [address]: history: what zmq_recv returned
  sent,         \* history: for each Send the address its id had then
  changes,      \* history: changes of the table
  unsafe,       \* history: numbers of messages whose address was missing when
                \* they were sent, or deleted while they were under way
  lost,         \* history: numbers of messages Consume could not send
  via,          \* [number]: history: the connection it was sent through
  disturbed     \* history: numbers of messages that two threads Produce held in
                \* the static buffer at the same time

senderVars == <<id_to_addr_, mapper_, consumed, addr>>
receiverVars == <<buffer, len, producing, got, arg, rings, received, arrived,
                  disturbed>>
ringVars == vars
commVars == <<ringVars, senderVars, network, receiverVars, sent, changes,
              unsafe, lost, via>>

\* A process adds the ids of its first configuration before it sends to them; no
\* socket is open yet, and the receivers are bound to their ports.
CommInit ==
  /\ Init /\ message = [p \in Producers |-> CHOOSE m \in Messages : TRUE]
  /\ id_to_addr_ = FirstTable
  /\ mapper_ = {} /\ consumed = "fetch" /\ addr = None
  /\ network = [a \in Addresses |-> <<>>]
  /\ buffer = None /\ len = 0
  /\ producing = [a \in Addresses |-> "receive"]
  /\ got = [a \in Addresses |-> None]
  /\ arg = [a \in Addresses |-> 0]
  /\ rings = [a \in Addresses |-> <<>>]
  /\ received = [a \in Addresses |-> <<>>]
  /\ arrived = [a \in Addresses |-> <<>>]
  /\ sent = <<>> /\ changes = 0 /\ unsafe = {} /\ lost = {}
  /\ via = [n \in 1 .. MaxSends |-> <<None, 0>>] /\ disturbed = {}

-----------------------------------------------------------------------------
(* The sending process *)

\* Messages sent and not handed to a socket or dropped yet.
UnderWay ==
  {message[p] : p \in {q \in Producers : pc[q] # "idle"}}
    \cup {ring_[s] : s \in {t \in Slots : ring_[t] \in Messages}}
    \cup {fetched[c] : c \in {d \in Consumers : consumed # "fetch" \/ pc[d] = "post"}}

\* A thread calls Send; the call ends when Add does.
Send(p) ==
  /\ Len(sent) < MaxSends
  /\ StartAdd(p)
  /\ Number(message'[p]) = Len(sent) + 1
  /\ sent' = Append(sent, id_to_addr_[Dst(message'[p])])
  /\ unsafe' = unsafe \cup (IF id_to_addr_[Dst(message'[p])] = None
                            THEN {Len(sent) + 1} ELSE {})
  /\ UNCHANGED <<senderVars, network, receiverVars, changes, lost, via>>

Add(p) ==
  AddStep(p) /\ UNCHANGED <<senderVars, network, receiverVars, sent, changes,
                            unsafe, lost, via>>

\* Consume calls Fetch ...
Fetch(c) ==
  /\ consumed = "fetch"
  /\ FetchStep(c)
  /\ consumed' = IF pc[c] = "post" THEN "lookup" ELSE "fetch"
  /\ UNCHANGED <<id_to_addr_, mapper_, addr, network, receiverVars, sent,
                 changes, unsafe, lost, via>>

\* Mutant: a message is dropped when no socket is open for its address yet.
LookupSocket(c) ==
  /\ consumed = "lookup"
  /\ \/ /\ id_to_addr_[Dst(fetched[c])] \notin mapper_
        /\ lost' = lost \cup {Number(fetched[c])}
        /\ consumed' = "fetch" /\ UNCHANGED addr
     \/ /\ id_to_addr_[Dst(fetched[c])] \in mapper_
        /\ addr' = id_to_addr_[Dst(fetched[c])]
        /\ consumed' = "socket" /\ UNCHANGED lost
  /\ UNCHANGED <<ringVars, id_to_addr_, mapper_, network, receiverVars, sent,
                 changes, unsafe, via>>

\* ... looks for the address and drops the message if there is none ...
Lookup(c) ==
  /\ consumed = "lookup"
  /\ \/ /\ id_to_addr_[Dst(fetched[c])] = None
        /\ lost' = lost \cup {Number(fetched[c])}
        /\ consumed' = "fetch" /\ UNCHANGED addr
     \/ /\ id_to_addr_[Dst(fetched[c])] # None
        /\ addr' = id_to_addr_[Dst(fetched[c])]
        /\ consumed' = "socket" /\ UNCHANGED lost
  /\ UNCHANGED <<ringVars, id_to_addr_, mapper_, network, receiverVars, sent,
                 changes, unsafe, via>>

\* ... finds the socket or opens one, which connects (ZmqSendRecv::Send) ...
OpenSocket ==
  /\ consumed = "socket"
  /\ \/ addr \in mapper_ /\ UNCHANGED <<mapper_, network>>
     \/ /\ addr \notin mapper_
        /\ mapper_' = mapper_ \cup {addr}
        /\ network' = [network EXCEPT ![addr] = Append(@, <<>>)]
  /\ consumed' = "send"
  /\ UNCHANGED <<ringVars, id_to_addr_, addr, receiverVars, sent, changes, unsafe,
                 lost, via>>

\* ... and sends; the result of zmq_send is ignored, on a socket that was closed
\* meanwhile too.
SendMessage(c) ==
  /\ consumed = "send"
  /\ \/ /\ addr \in mapper_
        /\ network' = [network EXCEPT ![addr][Len(network[addr])] = Append(@, fetched[c])]
        /\ via' = [via EXCEPT ![Number(fetched[c])] = <<addr, Len(network[addr])>>]
        /\ UNCHANGED lost
     \/ /\ addr \notin mapper_
        /\ lost' = lost \cup {Number(fetched[c])} /\ UNCHANGED <<network, via>>
  /\ consumed' = "fetch" /\ addr' = None
  /\ UNCHANGED <<ringVars, id_to_addr_, mapper_, receiverVars, sent, changes,
                 unsafe>>

Consume(c) == Fetch(c) \/ Lookup(c) \/ OpenSocket \/ SendMessage(c)

\* An id that is known already is refused.
AddIdAddr(i, a) ==
  /\ id_to_addr_[i] = None
  /\ id_to_addr_' = [id_to_addr_ EXCEPT ![i] = a]
  /\ UNCHANGED <<mapper_, unsafe>>

\* What was sent through a socket before it is closed is still delivered.
CloseSocket(a) == mapper_' = mapper_ \ {a}

\* The socket of the address is closed too, whoever else uses it.
DeleteId(i) ==
  /\ id_to_addr_[i] # None
  /\ CloseSocket(id_to_addr_[i])
  /\ id_to_addr_' = [id_to_addr_ EXCEPT ![i] = None]
  /\ unsafe' = unsafe \cup
       {Number(m) : m \in {u \in UnderWay : id_to_addr_[Dst(u)] = id_to_addr_[i]}}

\* Reconfigurate calls DeleteId and then AddIdAddr for an id whose address
\* changed (CheckIdAddr); Consume may run between the two.
Configure ==
  /\ changes < MaxChanges /\ changes' = changes + 1
  /\ \/ \E e \in Entries : AddIdAddr(e[1], e[2])
     \/ \E i \in Ids : DeleteId(i)
  /\ UNCHANGED <<ringVars, consumed, addr, network, receiverVars, sent, lost, via>>

-----------------------------------------------------------------------------
(* The receiving process *)

\* The other ports' threads that hold a message in the static buffer.
Others(a) == {b \in Addresses \ {a} : producing[b] # "receive"}

\* zmq_recv on port a returns the first message of a connection c: it is in the
\* static buffer now, whoever else uses it.
TakeFrom(a, c) ==
  LET m == Head(network[a][c])
  IN  /\ network[a][c] # <<>>
      /\ buffer' = m
      /\ network' = [network EXCEPT ![a][c] = Tail(@)]
      /\ got' = [got EXCEPT ![a] = m]
      /\ arrived' = [arrived EXCEPT ![a] = Append(@, m)]
      /\ producing' = [producing EXCEPT ![a] = "len"]
      /\ disturbed' = disturbed \cup
           (IF Others(a) = {} THEN {}
            ELSE {Number(m)} \cup {Number(got[b]) : b \in Others(a)})
      /\ UNCHANGED <<ringVars, senderVars, len, arg, rings, received, sent, changes,
                     unsafe, lost, via>>

\* Mutant: Produce receives again before its last message is in the ring.
ReceiveAnyway(a) == \E c \in DOMAIN network[a] : TakeFrom(a, c)

\* zmq_recv writes the static buffer ...
ReceiveMessage(a) ==
  /\ producing[a] = "receive"
  /\ \E c \in DOMAIN network[a] : TakeFrom(a, c)

\* Mutant: the length is not stored before it is read.
SkipLen(a) ==
  /\ producing[a] = "len"
  /\ producing' = [producing EXCEPT ![a] = "call"]
  /\ UNCHANGED <<ringVars, senderVars, network, buffer, len, got, arg, rings,
                 received, sent, changes, unsafe, lost, arrived, via, disturbed>>

\* ... its result goes into the static len ...
SetLen(a) ==
  /\ producing[a] = "len"
  /\ len' = Number(got[a])
  /\ producing' = [producing EXCEPT ![a] = "call"]
  /\ UNCHANGED <<ringVars, senderVars, network, buffer, got, arg, rings,
                 received, sent, changes, unsafe, lost, arrived, via, disturbed>>

\* ... which the call of Add reads again, or not ...
CallAdd(a) ==
  /\ producing[a] = "call"
  /\ \E l \in {len, Number(got[a])} : arg' = [arg EXCEPT ![a] = l]
  /\ producing' = [producing EXCEPT ![a] = "copy"]
  /\ UNCHANGED <<ringVars, senderVars, network, buffer, len, got, rings,
                 received, sent, changes, unsafe, lost, arrived, via, disturbed>>

\* Mutant: the message is added to a full ring.
CopyWithoutRoom(a) ==
  /\ producing[a] = "copy"
  /\ rings' = [rings EXCEPT ![a] = Append(@, <<buffer, arg[a]>>)]
  /\ producing' = [producing EXCEPT ![a] = "receive"]
  /\ UNCHANGED <<ringVars, senderVars, network, buffer, len, got, arg, received,
                 sent, changes, unsafe, lost, arrived, via, disturbed>>

\* ... and once there is room in the ring, Add copies the buffer.
CopyBuffer(a) ==
  /\ producing[a] = "copy" /\ Len(rings[a]) < RingSize
  /\ rings' = [rings EXCEPT ![a] = Append(@, <<buffer, arg[a]>>)]
  /\ producing' = [producing EXCEPT ![a] = "receive"]
  /\ UNCHANGED <<ringVars, senderVars, network, buffer, len, got, arg, received,
                 sent, changes, unsafe, lost, arrived, via, disturbed>>

Produce(a) == ReceiveMessage(a) \/ SetLen(a) \/ CallAdd(a) \/ CopyBuffer(a)

\* The thread of the port takes a message out of its ring.
Receive(a) ==
  /\ rings[a] # <<>>
  /\ received' = [received EXCEPT ![a] = Append(@, Head(rings[a]))]
  /\ rings' = [rings EXCEPT ![a] = Tail(@)]
  /\ UNCHANGED <<ringVars, senderVars, network, buffer, len, producing, got, arg,
                 sent, changes, unsafe, lost, arrived, via, disturbed>>

-----------------------------------------------------------------------------

CommNext ==
  \/ \E p \in Producers : Send(p) \/ Add(p)
  \/ \E c \in Consumers : Consume(c)
  \/ Configure
  \/ \E a \in Addresses : Produce(a) \/ Receive(a)

\* The threads Consume and Produce run for ever, a call of Send is scheduled,
\* and the process receives from all its ports in a loop.  Nobody has to send or
\* to change the table.
CommSpec ==
  /\ CommInit /\ [][CommNext]_commVars
  /\ \A p \in Producers : WF_commVars(Add(p))
  /\ \A c \in Consumers : WF_commVars(Consume(c))
  /\ \A a \in Addresses : WF_commVars(Produce(a)) /\ WF_commVars(Receive(a))

-----------------------------------------------------------------------------
(* Properties *)

\* Type correctness; no ring holds more than its size.
CommTypeOK ==
  /\ TypeOK
  /\ id_to_addr_ \in [Ids -> Addresses \cup {None}]
  /\ mapper_ \subseteq Addresses
  /\ consumed \in {"fetch", "lookup", "socket", "send"}
  /\ addr \in Addresses \cup {None}
  /\ network \in [Addresses -> Seq(Seq(Messages))]
  /\ buffer \in Messages \cup {None} /\ len \in 0 .. MaxSends
  /\ producing \in [Addresses -> {"receive", "len", "call", "copy"}]
  /\ got \in [Addresses -> Messages \cup {None}]
  /\ arg \in [Addresses -> 0 .. MaxSends]
  /\ \A a \in Addresses : Len(rings[a]) <= RingSize

\* The messages port a has added to its ring, oldest first, as pairs of content
\* and length.
Added(a) == received[a] \o rings[a]

\* A message arrives once, at the port its id had when it was sent (at another
\* one only if its address was missing then or deleted under way), and those of
\* one connection in the order of the calls of Send: a socket that was closed
\* and opened again may be overtaken by its successor, nothing else is.  What
\* the port adds to its ring is what arrived, in that order and whole, except
\* that messages which two ports held in the static buffer at once are mixed
\* with each other, never with a third.
DeliveredInOrder ==
  \A a \in Addresses :
    /\ \A k \in DOMAIN arrived[a] :
         LET n == Number(arrived[a][k])
         IN  /\ n \in unsafe \/ sent[n] = a
             /\ \A j \in 1 .. k - 1 :
                  via[Number(arrived[a][j])] = via[n] => Number(arrived[a][j]) < n
    /\ \A b \in Addresses : \A k \in DOMAIN arrived[a], j \in DOMAIN arrived[b] :
         arrived[a][k] = arrived[b][j] => a = b /\ j = k
    /\ \A k \in DOMAIN Added(a) :
         LET m == arrived[a][k]
         IN  IF Number(m) \in disturbed
             THEN /\ Number(Added(a)[k][1]) \in disturbed
                  /\ Added(a)[k][2] \in disturbed
             ELSE Added(a)[k] = <<m, Number(m)>>

\* The table is consulted when a message is consumed and the outcome of a send
\* is ignored; still, a message is lost only if its id was unknown when it was
\* sent, or an entry with its address was deleted while it was under way.
LossExplained == lost \subseteq unsafe

\* A message whose address stays in the table is received in the end, unless it
\* was in the static buffer together with another port's.
Delivery ==
  <>[](\A n \in DOMAIN sent :
         \/ n \in unsafe \/ n \in disturbed
         \/ \E a \in Addresses : \E k \in DOMAIN received[a] : received[a][k][2] = n)

=============================================================================
