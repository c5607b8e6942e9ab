------------------------------ MODULE FifoRing ------------------------------
(***************************************************************************)
(* The message ring between the threads of a node                          *)
(* (src/communication/fifo_ring.cc): an array of message pointers, two     *)
(* points that run round it and two counting semaphores.  Add and Fetch    *)
(* move their point under a mutex but touch the slot outside it.           *)
(*                                                                         *)
(* A thread takes one step per semaphore operation, critical section and   *)
(* access to a slot.  Producers and consumers call their operation again   *)
(* and again, with any message.                                            *)
(***************************************************************************)
EXTENDS Integers, Sequences, FiniteSets

CONSTANTS
  Producers, Consumers,  \* the threads that call Add, and Fetch
  RingSize,              \* ring_size_
  Messages,
  Null,                  \* the null pointer; Fetch returns -1 for it
  Garbage                \* a pointer nobody assigned

ASSUME FifoRingAssumption ==
  /\ RingSize \in Nat \ {0}
  /\ Producers \cap Consumers = {}
  /\ Null \notin Messages /\ Garbage \notin Messages /\ Null # Garbage

Slots == 0 .. RingSize - 1

Threads == Producers \cup Consumers

VARIABLES
  ring_,          \* [slot]: the message stored there
  produce_point_,
  consume_point_,
  empty_sem_,
  full_sem_,
  pc,             \* [thread]: its next step in Add or Fetch
  index,          \* [thread]: the slot it claimed
  message,        \* [producer]: the message it adds
  fetched         \* [consumer]: what its last Fetch returned

vars == <<ring_, produce_point_, consume_point_, empty_sem_, full_sem_,
          pc, index, message, fetched>>

\* Initialize clears one pointer's worth of the array; the other slots hold
\* whatever the allocator returned.
Init ==
  /\ ring_ \in [Slots -> {Null, Garbage}] /\ ring_[0] = Null
  /\ produce_point_ = 0
  /\ consume_point_ = 0
  /\ empty_sem_ = RingSize
  /\ full_sem_ = 0
  /\ pc = [t \in Threads |-> "idle"]
  /\ index = [t \in Threads |-> 0]
  /\ message \in [Producers -> Messages]
  /\ fetched = [c \in Consumers |-> Null]

Goto(t, step) == pc' = [pc EXCEPT ![t] = step]

-----------------------------------------------------------------------------
(* Add *)

StartAdd(p) ==
  /\ pc[p] = "idle"
  /\ \E m \in Messages : message' = [message EXCEPT ![p] = m]
  /\ Goto(p, "wait")
  /\ UNCHANGED <<ring_, produce_point_, consume_point_, empty_sem_, full_sem_,
                 index, fetched>>

\* Mutant: the producer does not wait for room.
AddWithoutRoom(p) ==
  /\ pc[p] = "wait"
  /\ Goto(p, "claim")
  /\ UNCHANGED <<ring_, produce_point_, consume_point_, empty_sem_, full_sem_,
                 index, message, fetched>>

WaitEmpty(p) ==
  /\ pc[p] = "wait"
  /\ empty_sem_ > 0
  /\ empty_sem_' = empty_sem_ - 1
  /\ Goto(p, "claim")
  /\ UNCHANGED <<ring_, produce_point_, consume_point_, full_sem_, index,
                 message, fetched>>

\* Under produce_mutex.
ClaimProduce(p) ==
  /\ pc[p] = "claim"
  /\ index' = [index EXCEPT ![p] = produce_point_]
  /\ produce_point_' = (produce_point_ + 1) % RingSize
  /\ Goto(p, "write")
  /\ UNCHANGED <<ring_, consume_point_, empty_sem_, full_sem_, message, fetched>>

\* Allocation, copy and data_sizes_ are one step: with one producer nobody
\* else looks at a slot between its claim and the post.
Write(p) ==
  /\ pc[p] = "write"
  /\ ring_' = [ring_ EXCEPT ![index[p]] = message[p]]
  /\ Goto(p, "post")
  /\ UNCHANGED <<produce_point_, consume_point_, empty_sem_, full_sem_, index,
                 message, fetched>>

PostFull(p) ==
  /\ pc[p] = "post"
  /\ full_sem_' = full_sem_ + 1
  /\ Goto(p, "idle")
  /\ UNCHANGED <<ring_, produce_point_, consume_point_, empty_sem_, index,
                 message, fetched>>

\* The steps of Add once it is called.
AddStep(p) == WaitEmpty(p) \/ ClaimProduce(p) \/ Write(p) \/ PostFull(p)

-----------------------------------------------------------------------------
(* Fetch *)

WaitFull(c) ==
  /\ pc[c] = "idle"
  /\ full_sem_ > 0
  /\ full_sem_' = full_sem_ - 1
  /\ Goto(c, "claim")
  /\ UNCHANGED <<ring_, produce_point_, consume_point_, empty_sem_, index,
                 message, fetched>>

\* Mutant: the point is advanced before it is read.
ClaimNext(c) ==
  /\ pc[c] = "claim"
  /\ index' = [index EXCEPT ![c] = (consume_point_ + 1) % RingSize]
  /\ consume_point_' = (consume_point_ + 1) % RingSize
  /\ Goto(c, "read")
  /\ UNCHANGED <<ring_, produce_point_, empty_sem_, full_sem_, message, fetched>>

\* Under consume_mutex.
ClaimConsume(c) ==
  /\ pc[c] = "claim"
  /\ index' = [index EXCEPT ![c] = consume_point_]
  /\ consume_point_' = (consume_point_ + 1) % RingSize
  /\ Goto(c, "read")
  /\ UNCHANGED <<ring_, produce_point_, empty_sem_, full_sem_, message, fetched>>

\* Copy the message out and clear the slot; for an empty slot return -1 without
\* posting empty_sem_.
Read(c) ==
  /\ pc[c] = "read"
  /\ fetched' = [fetched EXCEPT ![c] = ring_[index[c]]]
  /\ ring_' = [ring_ EXCEPT ![index[c]] = Null]
  /\ Goto(c, IF ring_[index[c]] = Null THEN "idle" ELSE "post")
  /\ UNCHANGED <<produce_point_, consume_point_, empty_sem_, full_sem_, index,
                 message>>

PostEmpty(c) ==
  /\ pc[c] = "post"
  /\ empty_sem_' = empty_sem_ + 1
  /\ Goto(c, "idle")
  /\ UNCHANGED <<ring_, produce_point_, consume_point_, full_sem_, index,
                 message, fetched>>

FetchStep(c) ==
  WaitFull(c) \/ ClaimConsume(c) \/ Read(c) \/ PostEmpty(c)

-----------------------------------------------------------------------------

Next ==
  \/ \E p \in Producers : StartAdd(p) \/ AddStep(p)
  \/ \E c \in Consumers : FetchStep(c)

Spec == Init /\ [][Next]_vars

-----------------------------------------------------------------------------
(* Properties *)

\* Type correctness; the semaphores stay within the size of the ring.
TypeOK ==
  /\ ring_ \in [Slots -> Messages \cup {Null, Garbage}]
  /\ produce_point_ \in Slots /\ consume_point_ \in Slots
  /\ empty_sem_ \in 0 .. RingSize /\ full_sem_ \in 0 .. RingSize
  /\ pc \in [Threads -> {"idle", "wait", "claim", "write", "read", "post"}]
  /\ index \in [Threads -> Slots]
  /\ message \in [Producers -> Messages]
  /\ fetched \in [Consumers -> Messages \cup {Null, Garbage}]

\* A Fetch that got past full_sem_ finds a message in its slot, never a null or
\* an uninitialised pointer (fifo_ring.h: Add and Fetch "return the size of
\* message added or fetched", and the ring "is thread-safe").
FetchFindsMessage ==
  \A c \in Consumers : pc[c] = "read" => ring_[index[c]] \in Messages

-----------------------------------------------------------------------------
(* With one producer and one consumer, an implementation of BoundedFifo *)

producer == CHOOSE p \in Producers : TRUE
consumer == CHOOSE c \in Consumers : TRUE

\* The slot the consumer reads next, and how many slots from there on hold
\* messages: all that are neither free nor claimed by a thread.
First == IF pc[consumer] = "read" THEN index[consumer] ELSE consume_point_

Stored ==
  RingSize - empty_sem_ - (IF pc[producer] \in {"claim", "write"} THEN 1 ELSE 0)
                        - (IF pc[consumer] = "post" THEN 1 ELSE 0)

Queue == [k \in 1 .. Stored |-> ring_[(First + k - 1) % RingSize]]

Fifo == INSTANCE BoundedFifo WITH
  Capacity <- RingSize, NoMessage <- Null, queue <- Queue,
  fetched <- fetched[consumer]

\* With one producer and one consumer the ring is a bounded first-in-first-out
\* queue: the write of Add puts, the read of Fetch gets.
RefinesFifo == Fifo!Spec

=============================================================================
